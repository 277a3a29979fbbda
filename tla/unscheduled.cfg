SPECIFICATION Spec
CONSTANTS
  Clients = {c1}
  Sources = {s1}
  Docs = {d1, d2, d3}
  Names = {n1}
  None = None
  Searchable = TRUE
  Routes = {"batch"}
  Faults = {"pipeline"}
  MaxJobs = 1
INVARIANTS PendingIsScheduled
