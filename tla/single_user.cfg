SPECIFICATION ListSpec
CONSTANTS
  Clients = {c1}
  Sources = {s1}
  Docs = {d1, d2, d3}
  Names = {n1, n2}
  Batches = {b1, b2}
  None = None
  ChunkTotal = 2
  ChunkLimits = {1}
  Searchable = TRUE
  Routes = {"sync", "batch", "delete", "drop"}
  Faults = {"pipeline", "disk", "redis", "stop"}
  MaxJobs = 1
SYMMETRY Symmetry
CONSTRAINT ListsBounded
INVARIANTS UnracedMatchesIndex ReadersAgree PreviewAddsUp PendingHasOwnFile ListingHolds
PROPERTIES ProgressAdvances LibrarySpec
CHECK_DEADLOCK FALSE
