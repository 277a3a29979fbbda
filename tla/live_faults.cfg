SPECIFICATION FairSpec
CONSTANTS
  Clients = {c1}
  Sources = {s1, s2}
  Docs = {d1, d2, d3}
  Names = {n1}
  None = None
  Searchable = TRUE
  Routes = {"batch", "delete"}
  Faults = {"pipeline", "disk", "redis"}
  MaxJobs = 1
PROPERTIES QueuedSettles
