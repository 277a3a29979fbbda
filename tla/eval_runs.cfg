SPECIFICATION Spec
CONSTANTS
  Clients = {c1}
  Cases = {k1, k2}
  Runs = {r1}
  None = None
  Faults = {"redis", "reply", "retriever", "database", "outage", "abort", "timeout", "stop"}
SYMMETRY Symmetry
INVARIANTS IInv ReportMatchesResults CountIsActive
PROPERTIES OneRowPerCase ResultsAreKept
