SPECIFICATION Spec
CONSTANTS
  Kinds = {k1}
  MaxText = 3
  MaxBytes = 3
  MaxIds = 3
  Environment = {"overlaps", "mixedBatches"}
  None = None
INVARIANTS
  RegionsSafe
  FollowsText
PROPERTIES
  InvalidatedForCause
CHECK_DEADLOCK FALSE
