SPECIFICATION FairSpec
CONSTANTS
  Clients = {c1, c2}
  Sources = {s1, s2}
  Docs = {d1, d2}
  Names = {n1}
  None = None
  Searchable = TRUE
  Routes = {"batch"}
  Faults = {}
  MaxJobs = 1
INVARIANTS IInv PendingIsScheduled
PROPERTIES AcceptedCompletes RequestsEnd
