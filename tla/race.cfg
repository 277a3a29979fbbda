SPECIFICATION Spec
CONSTANTS
  Clients = {c1, c2}
  Sources = {s1}
  Docs = {d1, d2}
  Names = {n1}
  None = None
  Searchable = TRUE
  Routes = {"sync", "batch", "delete", "drop"}
  Faults = {"pipeline", "disk", "redis", "abort", "timeout", "stop"}
  MaxJobs = 1
SYMMETRY Symmetry
INVARIANTS TypeOK SettledRows PendingHasBytes JobsAreDurable
PROPERTIES IngestIsAtomic DeletionSticks
