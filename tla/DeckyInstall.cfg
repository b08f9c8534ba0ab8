SPECIFICATION Spec
CONSTANTS
    MaxFaults = 3
    MaxChanges = 1
INVARIANTS
    TypeOK
    ConfirmsOnlyOwn
    AppliedQuietly
    UndoneIsOriginal
PROPERTIES
    Ends
CHECK_DEADLOCK FALSE
