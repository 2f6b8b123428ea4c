------------------------------ MODULE Staking ------------------------------
(***************************************************************************)
(* The part of the state transition that handles stake                     *)
(* (state-transition/pkg/core, storage/pkg/beacondb): the registry and the *)
(* balances, what deposits do to them, the withdrawal sweep, and the       *)
(* validator updates that go to CometBFT at the end of an epoch.           *)
(*                                                                         *)
(* A transition works on a copy of the state, step by step, and saves it   *)
(* only if all of its steps succeed; the transitions of PrepareProposal    *)
(* and ProcessProposal are never saved.  Validator indices count from 0;   *)
(* validator i is at place i + 1 of its sequence.                          *)
(***************************************************************************)
EXTENDS Integers, Sequences

CONSTANTS
    Pubkeys,
    Deposits,                          \* deposits a block may carry: [pubkey, amount, signed, eth1]
    GenesisDeposits,                   \* the sequence of deposits of the genesis file
    MaxDepositsPerBlock,               \* chain spec
    EffectiveBalanceIncrement,         \* chain spec
    MaxEffectiveBalance,               \* chain spec
    MaxWithdrawalsPerPayload,          \* chain spec
    MaxValidatorsPerWithdrawalsSweep,  \* chain spec
    SlotsPerEpoch,                     \* chain spec
    U64Mod,                            \* number of values of a uint64
    MaxMissedSlots,                    \* bound: slots without a block in a row
    MaxDeposits                        \* bound: deposits of the whole run

\* signed: the signature is right.  eth1: the credentials name an address.
AllDeposits == [pubkey : Pubkeys, amount : Nat \ {0}, signed : BOOLEAN, eth1 : BOOLEAN]

ASSUME StakingAssumption ==
    /\ Deposits \subseteq AllDeposits
    /\ GenesisDeposits \in Seq(AllDeposits)
    /\ GenesisDeposits # <<>>
    /\ \A i, j \in DOMAIN GenesisDeposits :
          GenesisDeposits[i].pubkey = GenesisDeposits[j].pubkey => i = j
    /\ {EffectiveBalanceIncrement, MaxWithdrawalsPerPayload,
        MaxValidatorsPerWithdrawalsSweep, SlotsPerEpoch, U64Mod} \subseteq Nat \ {0}
    /\ {MaxDepositsPerBlock, MaxEffectiveBalance, MaxMissedSlots, MaxDeposits} \subseteq Nat

VARIABLES
    saved,     \* the state of the last finalized block
    st,        \* the copy that the running transition works on
    pc,        \* the step the transition is at
    final,     \* it is the transition of FinalizeBlock
    updates,   \* the validator updates it returns: a registry, or <<>>
    expected,  \* the withdrawals it expects in the payload
    done,      \* how many of them it has processed
    power      \* CometBFT's validator set: voting powers by public key

vars == <<saved, st, pc, final, updates, expected, done, power>>

Validators == [pubkey : Pubkeys, effective : Nat, eth1 : BOOLEAN]
Withdrawals == [index : Nat, validator : Nat, amount : Nat]
States == [slot : Nat, validators : Seq(Validators), balances : Seq(Nat),
           eth1DepositIndex : Nat, nextWithdrawalIndex : Nat,
           nextWithdrawalValidatorIndex : Nat]

Smaller(a, b) == IF a < b THEN a ELSE b

-----------------------------------------------------------------------------
(* Deposits.                                                               *)

NewValidator(dep) ==
    [pubkey |-> dep.pubkey,
     effective |-> Smaller(dep.amount - (dep.amount % EffectiveBalanceIncrement),
                           MaxEffectiveBalance),
     eth1 |-> dep.eth1]

\* AddValidator sets the balance to the effective balance, and then
\* addValidatorToRegistry adds the amount of the deposit.
InitialBalance(dep) == NewValidator(dep).effective + dep.amount

IndicesByPubkey(s, pubkey) == {i \in DOMAIN s.validators : s.validators[i].pubkey = pubkey}

AddValidatorToRegistry(s, dep) ==
    [s EXCEPT !.validators = Append(@, NewValidator(dep)),
              !.balances = Append(@, InitialBalance(dep))]

\* Mutant of TopUp: the cap is forgotten.
TopUpUncapped(s, i, dep) ==
    [s EXCEPT !.validators[i].effective = @ + dep.amount]

\* applyDeposit for a validator that exists.
TopUp(s, i, dep) ==
    [s EXCEPT !.validators[i].effective = Smaller(@ + dep.amount, MaxEffectiveBalance)]

\* Mutant of ApplyDeposit: the registry is not searched.
ApplyDepositAlwaysNew(s, dep) == {AddValidatorToRegistry(s, dep)}

\* The states after applyDeposit: one, or none if it returns an error.
ApplyDeposit(s, dep) ==
    IF IndicesByPubkey(s, dep.pubkey) # {}
    THEN {TopUp(s, i, dep) : i \in IndicesByPubkey(s, dep.pubkey)}
    ELSE IF dep.signed THEN {AddValidatorToRegistry(s, dep)} ELSE {}

-----------------------------------------------------------------------------
(* Withdrawals.                                                            *)

TotalValidators(s) == Len(s.validators)

\* IsPartiallyWithdrawable; no validator ever gets a WithdrawableEpoch other than
\* FarFutureEpoch, so IsFullyWithdrawable never holds.
IsPartiallyWithdrawable(v, balance) ==
    v.eth1 /\ v.effective = MaxEffectiveBalance /\ balance > MaxEffectiveBalance

Amount(s, i) ==
    IF IsPartiallyWithdrawable(s.validators[i], s.balances[i])
    THEN s.balances[i] - MaxEffectiveBalance ELSE 0

\* Mutant of SweepLength: the size of the registry does not bound the sweep.
SweepLengthUnbounded(s) == Smaller(MaxValidatorsPerWithdrawalsSweep, MaxWithdrawalsPerPayload)

\* How many validators ExpectedWithdrawals goes through.
SweepLength(s) ==
    Smaller(Smaller(MaxValidatorsPerWithdrawalsSweep, TotalValidators(s)),
            MaxWithdrawalsPerPayload)

\* The validator that is swept as the k-th.
Swept(s, k) == (s.nextWithdrawalValidatorIndex + k - 1) % TotalValidators(s)

\* One withdrawal for every validator of the sweep, of amount 0 for most.
ExpectedWithdrawals(s) ==
    [k \in 1..SweepLength(s) |->
        [index |-> (s.nextWithdrawalIndex + k - 1) % U64Mod,
         validator |-> Swept(s, k),
         amount |-> Amount(s, Swept(s, k) + 1)]]

\* ExpectedWithdrawals returns an error if it meets credentials without address.
SweepFails(s) ==
    \E k \in 1..SweepLength(s) : ~s.validators[Swept(s, k) + 1].eth1

DecreaseBalance(s, i, delta) ==
    [s EXCEPT !.balances[i] = @ - Smaller(@, delta)]

\* Mutant of NextWithdrawalValidatorIndex: every sweep starts at the same validator.
NextWithdrawalValidatorIndexFixed(s, n, last) == s.nextWithdrawalValidatorIndex

\* Where the next sweep starts, after n > 0 withdrawals of which last is the last.
NextWithdrawalValidatorIndex(s, n, last) ==
    IF n = MaxWithdrawalsPerPayload
    THEN ((last.index + 1) % U64Mod) % TotalValidators(s)
    ELSE ((s.nextWithdrawalValidatorIndex + MaxValidatorsPerWithdrawalsSweep) % U64Mod)
            % TotalValidators(s)

-----------------------------------------------------------------------------
(* The transition.                                                         *)

\* EndBlock hands the updates to CometBFT, which replaces the powers they name.
PowerAfter(registry) ==
    [p \in Pubkeys |->
        LET named == {i \in DOMAIN registry : registry[i].pubkey = p}
        IN  IF named = {} THEN power[p] ELSE registry[CHOOSE i \in named : TRUE].effective]

Genesis ==
    [slot |-> 0,
     validators |-> [i \in DOMAIN GenesisDeposits |-> NewValidator(GenesisDeposits[i])],
     balances |-> [i \in DOMAIN GenesisDeposits |-> InitialBalance(GenesisDeposits[i])],
     eth1DepositIndex |-> Len(GenesisDeposits),
     nextWithdrawalIndex |-> 0,
     nextWithdrawalValidatorIndex |-> 0]

Init ==
    /\ saved = Genesis
    /\ st = Genesis
    /\ pc = "idle"
    /\ final = FALSE
    /\ updates = <<>>
    /\ expected = <<>>
    /\ done = 0
    /\ power = [p \in Pubkeys |->
                  LET named == {i \in DOMAIN GenesisDeposits : GenesisDeposits[i].pubkey = p}
                  IN  IF named = {} THEN 0
                      ELSE NewValidator(GenesisDeposits[CHOOSE i \in named : TRUE]).effective]

\* Mutant of CrossesEpoch: an epoch that ends in a missed slot is not seen.
CrossesEpochAtBlock(slot, gap) == (slot + gap) % SlotsPerEpoch = 0

\* Whether an epoch ends between the state's slot and the slot that is gap ahead.
CrossesEpoch(slot, gap) == \E k \in 1..gap : (slot + k) % SlotsPerEpoch = 0

\* ProcessSlots for a block that is gap slots ahead, the checks of the block's
\* header and payload, and the computation of the withdrawals it has to bring.
ProcessSlots(gap, finalizing) ==
    /\ pc = "idle"
    /\ ~SweepFails(st)
    /\ final' = finalizing
    /\ st' = [st EXCEPT !.slot = (@ + gap) % U64Mod]
    /\ updates' = IF CrossesEpoch(st.slot, gap) THEN st.validators ELSE <<>>
    /\ expected' = ExpectedWithdrawals(st)
    /\ done' = 0
    /\ pc' = "withdrawals"
    /\ UNCHANGED <<saved, power>>

\* One iteration of processWithdrawals: the payload has the expected withdrawal.
ProcessWithdrawal ==
    /\ pc = "withdrawals"
    /\ done < Len(expected)
    /\ LET wd == expected[done + 1]
       IN  st' = DecreaseBalance(st, wd.validator + 1, wd.amount)
    /\ done' = done + 1
    /\ UNCHANGED <<saved, pc, final, updates, expected, power>>

\* The end of processWithdrawals.
WithdrawalsDone ==
    /\ pc = "withdrawals"
    /\ done = Len(expected)
    /\ LET last == expected[done]
       IN  st' = [st EXCEPT
                     !.nextWithdrawalIndex = (last.index + 1) % U64Mod,
                     !.nextWithdrawalValidatorIndex =
                         NextWithdrawalValidatorIndex(st, done, last)]
    /\ pc' = "deposits"
    /\ UNCHANGED <<saved, final, updates, expected, done, power>>

\* One iteration of processDeposits; processBlockHeader has bounded their number.
ProcessDeposit(dep) ==
    /\ pc = "deposits"
    /\ st.eth1DepositIndex - saved.eth1DepositIndex < MaxDepositsPerBlock
    /\ st.eth1DepositIndex < MaxDeposits
    /\ st' \in ApplyDeposit([st EXCEPT !.eth1DepositIndex = @ + 1], dep)
    /\ UNCHANGED <<saved, pc, final, updates, expected, done, power>>

\* The transition of FinalizeBlock has succeeded: Save, and EndBlock.
Save ==
    /\ pc = "deposits"
    /\ final
    /\ saved' = st
    /\ power' = PowerAfter(updates)
    /\ pc' = "idle"
    /\ UNCHANGED <<st, final, updates, expected, done>>

\* Mutant of Abandon: the copy is not thrown away.
AbandonKeepsCopy ==
    /\ pc # "idle"
    /\ ~final
    /\ st' = st
    /\ pc' = "idle"
    /\ UNCHANGED <<saved, final, updates, expected, done, power>>

\* The transition of another ABCI call ends: a withdrawal is not the expected one,
\* a deposit fails, there is another error, or it succeeds; its copy of the state is
\* thrown away.  A block that is finalized has passed ProcessProposal and does not
\* fail.
Abandon ==
    /\ pc # "idle"
    /\ ~final
    /\ st' = saved
    /\ pc' = "idle"
    /\ UNCHANGED <<saved, final, updates, expected, done, power>>

Next ==
    \/ \E gap \in 1..(MaxMissedSlots + 1), finalizing \in BOOLEAN : ProcessSlots(gap, finalizing)
    \/ ProcessWithdrawal
    \/ WithdrawalsDone
    \/ \E dep \in Deposits : ProcessDeposit(dep)
    \/ Save
    \/ Abandon

Spec == Init /\ [][Next]_vars

\* Consensus goes on, so that a next block is finalized; a transition that has begun
\* runs to its end.
Fairness ==
    /\ SF_vars(\E gap \in 1..(MaxMissedSlots + 1) : ProcessSlots(gap, TRUE))
    /\ WF_vars(ProcessWithdrawal)
    /\ WF_vars(WithdrawalsDone)
    /\ WF_vars(Save)
    /\ WF_vars(Abandon)

FairSpec == Spec /\ Fairness

-----------------------------------------------------------------------------
(* Properties.                                                             *)

StateOK(s) ==
    /\ s \in States
    /\ s.validators # <<>>
    /\ Len(s.balances) = Len(s.validators)
    /\ \A i \in DOMAIN s.validators : s.validators[i].effective <= MaxEffectiveBalance

TypeOK ==
    /\ StateOK(saved)
    /\ StateOK(st)
    /\ pc \in {"idle", "withdrawals", "deposits"}
    /\ final \in BOOLEAN
    /\ updates \in Seq(Validators)
    /\ expected \in Seq(Withdrawals)
    /\ done \in 0..Len(expected)
    /\ power \in [Pubkeys -> Nat]

RegisteredOnce(s) ==
    \A i, j \in DOMAIN s.validators :
        s.validators[i].pubkey = s.validators[j].pubkey => i = j

\* A public key has one place in the registry: the deposits of one block and of
\* many, some of them in transitions that are thrown away, never register a
\* validator twice (state_processor_staking.go:129-147).
PubkeysUnique == RegisteredOnce(saved) /\ RegisteredOnce(st)

\* What the payload pays out is what the balances lose: no validator is met twice
\* in a sweep, whose amounts are all computed before the first balance changes,
\* and no balance is too small for what is taken from it
\* (statedb.go:187-279, state_processor_staking.go:266-282).
WithdrawalsDebited ==
    pc = "withdrawals" =>
        \A k \in DOMAIN expected :
            LET i == expected[k].validator + 1
            IN  /\ i \in DOMAIN st.balances
                /\ st.balances[i] = IF k <= done
                                    THEN saved.balances[i] - expected[k].amount
                                    ELSE saved.balances[i]
                /\ \A l \in DOMAIN expected :
                      expected[l].validator = expected[k].validator => l = k

\* The withdrawals of the finalized blocks are numbered without gap or repetition,
\* whatever transitions were abandoned in between
\* (state_processor_staking.go:285-292).
WithdrawalIndicesConsecutive ==
    [][saved' # saved =>
          /\ \A k \in DOMAIN expected :
                expected[k].index = (saved.nextWithdrawalIndex + k - 1) % U64Mod
          /\ saved'.nextWithdrawalIndex =
                (saved.nextWithdrawalIndex + Len(expected)) % U64Mod]_vars

\* What holds of the copy of the state, and of the withdrawals, at each step of a
\* transition.
TransitionRight ==
    /\ pc = "idle" => st = saved
    /\ pc # "idle" =>
          /\ expected # <<>>
          /\ \A k \in DOMAIN expected :
                expected[k].index = (saved.nextWithdrawalIndex + k - 1) % U64Mod
    /\ pc = "withdrawals" =>
          /\ Len(st.balances) = Len(saved.balances)
          /\ \A k \in DOMAIN expected :
                expected[k].amount <= saved.balances[expected[k].validator + 1]
    /\ pc = "deposits" =>
          st.nextWithdrawalIndex = (saved.nextWithdrawalIndex + Len(expected)) % U64Mod

\* The inductive invariant behind the theorems of StakingProofs.
StakingInv ==
    /\ TypeOK
    /\ PubkeysUnique
    /\ TransitionRight
    /\ WithdrawalsDebited

HasExcess(p) ==
    \E i \in IndicesByPubkey(saved, p) :
        IsPartiallyWithdrawable(saved.validators[i], saved.balances[i])

\* A sweep that meets credentials without an address fails in every block to come,
\* so that the chain stops: the exception of the two properties below.
Halted == SweepFails(saved)

\* Every validator with an excess balance is paid it: although the start of the
\* next sweep is computed from a withdrawal's number and not from the validator it
\* went to, no validator is passed over for ever while the registry grows
\* (state_processor_staking.go:294-316).
ExcessPaidOut == \A p \in Pubkeys : HasExcess(p) ~> (Halted \/ ~HasExcess(p))

\* When no more deposits come, CometBFT's voting powers become the effective
\* balances: a deposit in the last block of an epoch, or an epoch that ends in a
\* missed slot, is not forgotten (state_processor.go:186-210).
PowerFollowsStake ==
    \A p \in Pubkeys :
        <>[](\/ Halted
             \/ \A i \in IndicesByPubkey(saved, p) : power[p] = saved.validators[i].effective)

\* IBeaconDepositContract.sol:16 says of a deposit's amount: "the amount of stake
\* being deposited, in Gwei".  So a new validator's balance is that amount.
NewBalanceIsAmount ==
    [][Len(st'.validators) > Len(st.validators) =>
          \E dep \in Deposits :
              /\ dep.pubkey = st'.validators[Len(st'.validators)].pubkey
              /\ dep.amount = st'.balances[Len(st'.validators)]]_vars
=============================================================================
