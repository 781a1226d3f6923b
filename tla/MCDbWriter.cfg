SPECIFICATION WriterFairSpec
CONSTANTS
    c1 = c1
    c2 = c2
    c3 = c3
    Callers <- ThreeCallers
    MaxRetries = 1
    TripAfter = 2
    MaxRequests = 2
    PoisonBatches = TRUE
INVARIANTS
  ResultIsHonest
PROPERTIES
  EveryCallReturns
  BreakerRecovers
