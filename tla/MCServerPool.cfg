SPECIFICATION FairSpec
CONSTANTS
  Servers = {s1, s2}
  Upstreams = {u1}
  MaxCallers = 3
  MaxPanics = 2
  None = None
INVARIANTS
  PoolSafe
  CountIsConsecutive
  RegistryExact
PROPERTIES
  ImplementsBreaker
  StartsEnd
CHECK_DEADLOCK FALSE
