SPECIFICATION FairSpec
CONSTANTS
  Clients = {c1}
  Sources = {s1}
  Docs = {d1, d2}
  Names = {n1}
  None = None
  Searchable = TRUE
  Routes = {"batch"}
  Faults = {"stop"}
  MaxJobs = 1
PROPERTIES InterruptedSettles
CHECK_DEADLOCK FALSE
