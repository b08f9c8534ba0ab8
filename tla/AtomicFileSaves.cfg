SPECIFICATION Spec
CONSTANTS
    Want = want
    Approved = approved
    Foreign = {foreign, chmodded}
    Rechmodded = {chmodded}
    MaxFaults = 3
    MaxEdits = 3
    InPlace = FALSE
INVARIANTS
    ContentInv
    LatestIsKept
PROPERTIES
    OnlyKnownDestroyed
CHECK_DEADLOCK FALSE
