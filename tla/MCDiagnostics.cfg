SPECIFICATION FairSpec
CONSTANTS
  Documents = {d1}
  MaxInputs = 3
  CleanupLimit = 5
  Main = Main
  None = None
INVARIANTS
  TasksSafe
  ClosedIsQuiet
PROPERTIES
  StaleOnlyWhileChanging
  EventuallyLatest
CHECK_DEADLOCK FALSE
