SPECIFICATION FairSpec
CONSTANTS
  u1 = u1
  u2 = u2
  None = None
  Requests = {r1}
  Ids = {1, 2}
  Upstreams = {u1}
  UpstreamOf <- SharedUpstream
  QueueCapacity = 2
  Shutdowns = {}
  Environment = {"death"}
  MaxServerRequests = 0
PROPERTY
  DeadServerFailsConnection
CHECK_DEADLOCK FALSE
