SPECIFICATION Spec
CONSTANTS
    p1 = p1
    p2 = p2
    p3 = p3
    Pubkeys = {p1, p2, p3}
    Deposits <- MCDeposits
    GenesisDeposits <- MCGenesisDeposits
    MaxDepositsPerBlock = 2
    EffectiveBalanceIncrement = 2
    MaxEffectiveBalance = 4
    MaxWithdrawalsPerPayload = 2
    MaxValidatorsPerWithdrawalsSweep = 2
    SlotsPerEpoch = 2
    U64Mod = 16
    MaxMissedSlots = 0
    MaxDeposits = 4
PROPERTY NewBalanceIsAmount
