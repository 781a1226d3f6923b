CONSTANTS
  d1 = d1
  Devices <- OneDevice
  DeviceOf <- ForOneDevice
  MaxCommands = 3
  QueueSize = 2
  MaxRetries = 1
  MaxLate = 1
  PublishesEnd = TRUE
  Changes = 1
SPECIFICATION Spec
INVARIANTS
  HandlerSafe
  CleanDrainSettlesAll
PROPERTIES
  StoppedStartsNothing
  QueuedCommandsSettle
  StopEnds
