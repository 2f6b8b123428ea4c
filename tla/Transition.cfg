SPECIFICATION Spec
CONSTANTS
    Validators = {v1, v2}
    SlotsPerEpoch = 2
    SlotsPerHistoricalRoot = 2
    EpochsPerHistoricalVector = 2
    EpochsPerSlashingsVector = 2
    Faults = {"none", "parent", "payload", "mix", "reveal", "stateRoot", "deposits", "hashes", "blobs"}
    MaxSlot = 4
    MaxRounds = 1
SYMMETRY Symmetry
CHECK_DEADLOCK FALSE
INVARIANTS
    HonestBlockAccepted
    AcceptedBlockFinalizes
    RingsFollowChain
    ChainLinked
