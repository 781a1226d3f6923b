CONSTANTS
  d1 = d1
  p1 = p1
  p2 = p2
  t1 = t1
  t2 = t2
  NoPoller = NoPoller
  NoDevice = NoDevice
  NoConfig = NoConfig
  Devices <- OneDevice
  Pollers <- TwoPollers
  Threads <- TwoThreads
  Configs <- AllConfigs
  WorkerCount = 1
  PollsAreShort = TRUE
  StopMayTimeOut = TRUE
  MaxLateChanges = 1
SPECIFICATION FairSpec
INVARIANTS
  OneActivePollerPerDevice
  NoForgottenSubscription
  ServedAsAsked
PROPERTIES
  RemovedDeviceIsLeftAlone
  StopNeedsNoTimeout
