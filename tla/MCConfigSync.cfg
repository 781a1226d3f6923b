SPECIFICATION Spec
CONSTANTS
    d1 = d1
    d2 = d2
    t1 = t1
    None = None
    Torn = Torn
    Devices <- TwoDevices
    Tags <- OneTag
    ListLimit = 2
    MaxEvents = 3
INVARIANTS
  TracksDatabase
  GatewaySafe
