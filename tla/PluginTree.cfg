SPECIFICATION TreeSpec
CONSTANTS
    Operations = {"create", "replace"}
    MaxFaults = 3
    MaxChanges = 2
INVARIANTS
    TreeTypeOK
    AlwaysActive
    OldIsKept
    OnlyGeneratedDestroyed
    UndoneIsOld
CHECK_DEADLOCK FALSE
