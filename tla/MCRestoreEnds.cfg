SPECIFICATION FairSpec
CONSTANTS
    Plans <- AllPlans
    MaxFaults = 2
    MaxEdits = 1
    MaxBoots = 2
    PowerCuts = FALSE
INVARIANTS
    GuardedListIsRecorded
PROPERTIES
    RunEnds
CHECK_DEADLOCK FALSE
