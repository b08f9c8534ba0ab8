SPECIFICATION Spec
CONSTANTS
    Plans <- GuardedPlans
    MaxFaults = 0
    MaxEdits = 0
    MaxBoots = 1
    PowerCuts = TRUE
INVARIANTS
    GuardedListIsRecorded
CHECK_DEADLOCK FALSE
