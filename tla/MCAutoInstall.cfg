SPECIFICATION FairSpec
CONSTANTS
  Documents = {d1, d2}
  Languages = {l1}
  MaxThreads = 2
  MaxSessions = 3
  CountRange = 3
  None = None
INVARIANTS
  InstallSafe
  OnlySuspectsFail
PROPERTIES
  RecordKept
  EveryOpenEnds
CHECK_DEADLOCK FALSE
