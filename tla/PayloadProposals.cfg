SPECIFICATION Spec
CONSTANTS
    Configurations = {TRUE, FALSE}
    VerifyOutcomes = {"valid", "rejected"}
    None = None
    SyncCall = SyncCall
    CacheSize = 2
    Variants = {a, b}
    MaxSlot <- SlotBound
    MaxRequests = 2
    MaxPosts = 2
    MaxElRestarts <- FaultBound
    MaxCrashes <- FaultBound
SYMMETRY VariantSymmetry
INVARIANTS
    TypeOK
    ProposalExtendsFinalized
    ElFinalIsFinalized
CHECK_DEADLOCK FALSE
