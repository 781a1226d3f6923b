CONSTANTS
  e1 = e1
  e2 = e2
  w1 = w1
  Ops <- FourOps
  NoOp = 0
  Priority <- MixedPriorities
  Servers <- TwoEndpoints
  EndpointOf <- Spread
  Flaky <- OneEndpoint
  Workers <- OneWorker
  MaxGlobal = 2
  Threshold = 2
  MaxPerEndpoint = 1
  QueueSize = 1
SPECIFICATION ShapingSpec
INVARIANTS
  ShapingSafe
PROPERTIES
  EveryCallReturns
  BrownoutEnds
