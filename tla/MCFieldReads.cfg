SPECIFICATION CallSpec
CONSTANTS
  ModbusReads <- Reads
  S7Reads <- BlockReads
  S7Writes <- BlockWrites
  Space = 16
  BitsPerByte = 4
  BatchLimits <- Limits
  Allowed <- Most
  MultiItems = 2
INVARIANTS
  ReadSafe
  GoodPointsAreTrue
  WritesAnsweredHonestly
CHECK_DEADLOCK FALSE
