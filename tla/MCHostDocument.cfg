SPECIFICATION FairSpec
CONSTANTS
  MaxMessages = 4
  MaxConcurrent = 3
  None = None
INVARIANTS
  StoreSafe
  TextKept
  TreeIsOfText
PROPERTIES
  EveryHandlerEnds
CHECK_DEADLOCK FALSE
