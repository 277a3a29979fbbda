SPECIFICATION Spec
CONSTANTS
  Clients = {c1, c2}
  Sources = {s1}
  Docs = {d1, d2, d3}
  Names = {n1}
  None = None
  Searchable = TRUE
  Routes = {"sync"}
  Faults = {"pipeline"}
  MaxJobs = 1
INVARIANTS OneSearchableCopy
CHECK_DEADLOCK FALSE
