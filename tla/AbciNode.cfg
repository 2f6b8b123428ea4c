SPECIFICATION Spec
CONSTANTS
    MaxElFaults = 1
    Pubkeys = {p1, p2}
    GenesisPubkeys = {p1}
    SlotsPerEpoch = 2
    MaxHeight = 4
    MaxCrashes = 1
CHECK_DEADLOCK FALSE
INVARIANTS
    CometFollowsState
    HaltExplained
    FinalizedAlike
    AcceptedOnlyIfVouched
PROPERTIES
    StartupCompletes
