CONSTANTS
  d1 = d1
  d2 = d2
  e1 = e1
  e2 = e2
  c1 = c1
  c2 = c2
  NoEndpoint = NoEndpoint
  NoDevice = NoDevice
  Devices <- TwoDevices
  Endpoints <- TwoEndpoints
  Callers <- TwoCallers
  Work <- WorkAndBrowse
  InitialAddrs <- TogetherAtFirst
  Moves <- ThereAndBack
  MaxConnections = 1
  MaxRetries = 1
SPECIFICATION Spec
INVARIANTS
  BindingsAgree
  RequestsGoWhereAsked
  ClosedPoolIsEmpty
PROPERTIES
  SharedConnectionStays
