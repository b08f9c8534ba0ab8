SPECIFICATION TreeSpec
CONSTANTS
    Operations = {"create"}
    MaxFaults = 1
    MaxChanges = 1
INVARIANT
    CleanupIsProven
CHECK_DEADLOCK FALSE
