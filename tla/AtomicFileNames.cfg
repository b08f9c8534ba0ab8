SPECIFICATION Spec
CONSTANTS
    Want = want
    Approved = approved
    Foreign = {foreign, chmodded}
    Rechmodded = {chmodded}
    MaxFaults = 3
    MaxEdits = 2
    InPlace = TRUE
INVARIANTS
    NamesInv
    AlwaysNamed
    RefusedIsUndone
    AppliedIsDurable
CHECK_DEADLOCK FALSE
