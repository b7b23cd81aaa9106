SPECIFICATION Spec
CONSTANTS
  Docs = {d1}
  Servers = {s1}
  Requests = {r1, r2}
  MaxChanges = 2
  Closers = {k1}
  MaxRespawns = 1
  None = None
INVARIANTS
  TrackingSafe
  OpenedFirst
  VersionsIncrease
  CopiesSettled
PROPERTIES
  PendingMeansOpening
SYMMETRY Symmetry
CHECK_DEADLOCK FALSE
