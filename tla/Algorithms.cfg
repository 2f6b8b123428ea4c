SPECIFICATION Spec
CONSTANTS
    LayerLengths = {2, 4998, 5000, 5001, 5002, 8192}
    Processors = {1, 2, 3, 8, 16, 64, 80, 96, 112, 128}
    Pubkeys = {"a", "b"}
    Balances = {1, 2}
    Slots = {0, 1}
    Amounts = {0, 1, 2}
    MaxLayers = 3
    MaxOps = 6
    DepositKeys = {1, 2}
    DepositAmounts = {1, 3, 5}
    ExtraLengths = {0, 33}
    EffectiveBalanceIncrement = 2
    MaxEffectiveBalance = 6
    MaxGenesisDeposits = 4
    MaxInterrupts = 1
    Goroutines = 7
    LeafValues = {0, 1, 2}
    TreeDepths = {0, 1, 2, 3, 63}
    MaxNewLeaves = 4
    MaxLeaves = 5
    ListLimits = {0, 1, 2, 3, 4, 5, 6}
    ChunkSizes = {1, 2}
    MaxListLength = 4
    FieldValues <- MCFieldValues
    CommitmentValues = {1, 2}
    DepositsLimit = 2
    TxsLimit = 2
    TxChunksLimit = 2
    CommitmentsLimit = 4
    VersionedHashes = {"h1", "h2"}
    Contents <- MCContents
    MissingFields <- MCMissingFields
    WithdrawalLists <- MCWithdrawalLists
    Proposals <- MCProposals
    MixedFields <- MCMixedFields
CHECK_DEADLOCK FALSE
INVARIANTS
    RoundTrip
    LimitsAgree
    TreeFollowsLeaves
    HelperIndices
    ListsAndBodiesBind
    ParentsHashed
    PayloadKeepsIdentity
    RegistryAligned
    TotalSlashingIsSum
    HeaderReadable
    GenesisFollowsFiles
