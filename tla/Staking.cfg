SPECIFICATION FairSpec
CONSTANTS
    p1 = p1
    p2 = p2
    p3 = p3
    Pubkeys = {p1, p2, p3}
    Deposits <- MCDeposits
    GenesisDeposits <- MCGenesisDeposits
    MaxDepositsPerBlock = 2
    EffectiveBalanceIncrement = 2
    MaxEffectiveBalance = 4
    MaxWithdrawalsPerPayload = 2
    MaxValidatorsPerWithdrawalsSweep = 3
    SlotsPerEpoch = 2
    U64Mod = 8
    MaxMissedSlots = 1
    MaxDeposits = 4
INVARIANTS
    TypeOK
    PubkeysUnique
    WithdrawalsDebited
PROPERTIES
    WithdrawalIndicesConsecutive
    ExcessPaidOut
    PowerFollowsStake
CHECK_DEADLOCK FALSE
