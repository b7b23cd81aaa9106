SPECIFICATION FairSpec
CONSTANTS
  MaxRequests = 3
  MaxEdits = 3
  t1 = t1
  t2 = t2
  Texts = {t1, t2}
  TokensOf <- MCTokensOf
  Upstreams = {1, 2}
  None = None
INVARIANTS
  RequestsSafe
  DeltaFitsClient
  AnswersInOrder
PROPERTIES
  AnswersForCause
  EveryRequestAnswered
CHECK_DEADLOCK FALSE
