SPECIFICATION Spec
CONSTANTS
    Plans <- UnguardedPlans
    MaxFaults = 0
    MaxEdits = 0
    MaxBoots = 1
    PowerCuts = FALSE
INVARIANTS
    PluginsReenabled
CHECK_DEADLOCK FALSE
