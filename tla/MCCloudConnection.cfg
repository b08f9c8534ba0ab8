SPECIFICATION Spec
CONSTANTS
    k0 = k0
    k1 = k1
    k2 = k2
    Keys = {k0, k1, k2}
    OldKeys = {k0}
    Devices = {d1, d2}
    d1 = d1
    c1 = c1
    c2 = c2
    c3 = c3
    Commands = {c1, c2, c3}
    FirstAccounts <- SmallAccounts
    FirstDevices <- SmallDevices
    Kinds <- AllKinds
    PageBound = 8
    MaxTroubles = 2
INVARIANTS
    
    OneKey
    UploadsCanBeOpened
    

    
CHECK_DEADLOCK FALSE
