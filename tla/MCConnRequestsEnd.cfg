SPECIFICATION FairSpec
CONSTANTS
  u1 = u1
  u2 = u2
  None = None
  Requests = {r1, r2}
  Ids = {1, 2, 3}
  Upstreams = {u1}
  UpstreamOf <- SharedUpstream
  QueueCapacity = 1
  Shutdowns = {}
  Environment = {"death", "timeouts", "aborts"}
  MaxServerRequests = 0
INVARIANTS
  NoWaiterForgotten
PROPERTIES
  ImplementsRequestService
  EveryRequestEnds
CHECK_DEADLOCK FALSE
