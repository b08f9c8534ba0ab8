SPECIFICATION Spec
CONSTANTS
    Names = {n1, n2}
    MaxRuns = 3
    MaxTroubles = 1
SYMMETRY NameSymmetry
INVARIANTS
    TypeOK
    NoPartialSnapshot
    CreatedIsKept
    StoredIsKept
    TrashedIsGone
    OneBackupAtATime
PROPERTIES
    NeverReplaced
CHECK_DEADLOCK FALSE
