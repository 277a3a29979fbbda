SPECIFICATION FairSpec
CONSTANTS
  Clients = {c1, c2}
  Cases = {k1}
  Runs = {r1}
  None = None
  Faults = {"redis", "database"}
PROPERTIES RunsEnd LifeSpec
