SPECIFICATION Spec
CONSTANTS
    Configurations = {TRUE}
    VerifyOutcomes = {"valid", "accepted"}
    None = None
    SyncCall = SyncCall
    CacheSize = 2
    Variants = {a}
    MaxSlot <- SlotBound
    MaxRequests = 2
    MaxPosts = 2
    MaxElRestarts <- FaultBound
    MaxCrashes <- FaultBound
INVARIANT AcceptedStatusIsSafe
CHECK_DEADLOCK FALSE
