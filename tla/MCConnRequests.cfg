SPECIFICATION Spec
CONSTANTS
  u1 = u1
  u2 = u2
  None = None
  Requests = {r1, r2}
  Ids = {1, 2, 3}
  Upstreams = {u1, u2}
  UpstreamOf <- SharedUpstream
  QueueCapacity = 1
  Shutdowns = {}
  Environment = {"cancels"}
  MaxServerRequests = 1
INVARIANTS
  CancelMapsSound
  CancelsAreTheClients
SYMMETRY Symmetry
CHECK_DEADLOCK FALSE
