SPECIFICATION FairSpec
CONSTANTS
    Keys = {k1, k2}
    NoPrune = NoPrune
    MinEpochs = 1
    SlotsPerEpoch = 1
    MaxSlot = 4
    MaxRestarts = 1
    MaxPruneFailures = 1
INVARIANTS
    TypeOK
    NoIndexBelowFirst
    WindowAvailable
PROPERTY EventuallyPruned
CHECK_DEADLOCK FALSE
