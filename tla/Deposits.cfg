SPECIFICATION FairSpec
CONSTANTS
    Nodes = {n1}
    GenesisDeposits = 1
    MaxDepositsPerBlock = 2
    Eth1FollowDistance = 1
    MaxElLag = 1
    U64Mod = 256
    NoBlock = NoBlock
    MaxHeight = 4
    DepositsPerEth1Block = {2}
    MaxFailedBlocks = 1
    MaxCrashes = 1
INVARIANTS
    TypeOK
    AppliedInLogOrder
    NoSilentLoss
PROPERTIES
    ImplementsQueue
    PrunerKeepsUnapplied
    EventuallyStored
CHECK_DEADLOCK FALSE
