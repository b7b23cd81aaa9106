SPECIFICATION FairSpec
CONSTANTS
  u1 = u1
  u2 = u2
  None = None
  Requests = {r1}
  Ids = {1, 2, 3}
  Upstreams = {u1}
  UpstreamOf <- SharedUpstream
  QueueCapacity = 1
  Shutdowns = {1, 2}
  Environment = {"partialReads", "aborts"}
  MaxServerRequests = 0
INVARIANTS
  ConnectionSafe
  ServerSeesProtocol
PROPERTIES
  ShutdownCompletes
  ServerEnds
CHECK_DEADLOCK FALSE
