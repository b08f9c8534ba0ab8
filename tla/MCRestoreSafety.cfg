SPECIFICATION Spec
CONSTANTS
    Plans <- AllPlans
    MaxFaults = 3
    MaxEdits = 2
    MaxBoots = 2
    PowerCuts = TRUE
INVARIANTS
    IInv
    RunInv
    AllOrNothing
    ReportIsTrue
    MixtureMeansDisabled
    CleanFailureRollsBack
PROPERTIES
    SteamStoppedForArtwork
    MeetsContract
    AlwaysAdvances
CHECK_DEADLOCK FALSE
