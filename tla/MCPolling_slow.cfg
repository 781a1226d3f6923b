CONSTANTS
  d1 = d1
  p1 = p1
  p2 = p2
  t1 = t1
  t2 = t2
  NoPoller = NoPoller
  NoDevice = NoDevice
  NoConfig = NoConfig
  Devices <- OneDevice
  Pollers <- TwoPollers
  Threads <- TwoThreads
  Configs <- PollConfigs
  WorkerCount = 1
  PollsAreShort = FALSE
  StopMayTimeOut = FALSE
  MaxLateChanges = 1
SPECIFICATION Spec
INVARIANT
  OneActivePollerPerDevice
