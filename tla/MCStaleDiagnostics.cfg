SPECIFICATION Spec
CONSTANTS
  Documents = {d1}
  MaxInputs = 3
  CleanupLimit = 5
  Main = Main
  None = None
PROPERTIES
  OnlyTheLatestPublishes
CHECK_DEADLOCK FALSE
