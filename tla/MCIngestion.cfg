SPECIFICATION FairSpec
CONSTANTS
    MaxPoints = 4
    BufferSize = 1
    BatchSize = 2
    w1 = w1
    w2 = w2
    Writers <- OneWriter
    StopMayTimeOut = TRUE
    StatusRequests = TRUE
INVARIANTS
  EveryPointHasOneHome
  BatchChanClosedLast
  CleanStopLeavesNothing
PROPERTIES
  ImplementsDelivery
  AcceptedPointsSettle
  StopNeedsNoTimeout
