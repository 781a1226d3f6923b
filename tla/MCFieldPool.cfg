SPECIFICATION FairSpec
CONSTANTS
  d1 = d1
  d2 = d2
  p1 = p1
  w1 = w1
  Nobody = Nobody
  Devices = {d1, d2}
  Pollers = {p1}
  Polled <- MCPolled
  Commanders = {w1}
  PerDevice = 2
  MaxConnections = 1
  MaxRetries = 1
  Outages = 1
  Commands = 1
INVARIANTS
  PoolSafe
PROPERTIES
  
  PollsRecover
CHECK_DEADLOCK FALSE
