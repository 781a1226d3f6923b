SPECIFICATION FairSpec
CONSTANTS
    d1 = d1
    d2 = d2
    t1 = t1
    None = None
    Torn = Torn
    Devices <- OneDevice
    Tags <- OneTag
    ListLimit = 2
    MaxEvents = 3
PROPERTIES
    StartReconciles
