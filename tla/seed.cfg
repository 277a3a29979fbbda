SPECIFICATION SeedSpec
CONSTANTS
  Users = {u1}
  Strangers = {x1}
  Titles = {"rules", "templates"}
  Ids = {i1, i2, i3, i4}
  Callers = {c1, c2}
  Seeders = {d1, d2}
  None = None
  Files <- SeedFiles
  Contents = {x, y, z}
SYMMETRY Symmetry
CONSTRAINT RequestsApart
INVARIANTS SeedTypeOK OneLibraryPerName OneDocument SeedMirrorsTree SeedersNeverDeadlock
PROPERTIES ConflictIsReal
CHECK_DEADLOCK FALSE
