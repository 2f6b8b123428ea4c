--------------------------- MODULE AbciNodeProofs ---------------------------
(***************************************************************************)
(* Theorems about AbciNode for every set of validators, every number of    *)
(* heights, crashes and faults of the execution client.                    *)
(***************************************************************************)
EXTENDS AbciNode, NumberLemmas, FiniteSetTheorems, TLAPS

\* An error is never dropped on the way from the engine to the verdict: without
\* optimism only VALID and ACCEPTED get past VerifyIncomingBlock.
LEMMA OnlyVouchedPasses ==
    ASSUME NEW answer \in AnyAnswer,
           VerifyAndNotifyNewPayload(answer, TRUE, FALSE) \in {NoError, "ErrAcceptedPayloadStatus"}
    PROVE  answer \in {"VALID", "ACCEPTED"}
<1>1. NewPayload(answer) \in {NoError, "ErrAcceptedPayloadStatus"}
  BY DEF VerifyAndNotifyNewPayload, IsPreDefinedError, NoError
<1>2. CASE answer \in Failures
  BY <1>1, <1>2 DEF NewPayload, handleRPCError, Failures, Statuses, NoError
<1>3. CASE answer \in Statuses
  BY <1>1, <1>3 DEF NewPayload, processPayloadStatusResult, Statuses, NoError
<1> QED BY <1>2, <1>3 DEF AnyAnswer

LEMMA VerdictInit == Init => VerdictInv
BY DEF Init, VerdictInv, AcceptedOnlyIfVouched

LEMMA ProcessProposalKeeps ==
    ASSUME VerdictInv, NEW answer \in AnyAnswer, ProcessProposal(answer)
    PROVE  VerdictInv'
<1>1. PICK p \in proposal :
        /\ verdict' = IF ReceiveBlockAndBlobs(p, answer) = "fatal" THEN "reject" ELSE "accept"
        /\ vouched' = (answer \in {"VALID", "ACCEPTED"})
        /\ proposal' = proposal
  BY DEF ProcessProposal
<1>2. ASSUME verdict' = "accept", p.blk # "absent"
      PROVE  p.blk # "garbled" /\ vouched'
  <2>1. VerifyIncomingBlock(p, answer) # "fatal"
    BY <1>1, <1>2 DEF ReceiveBlockAndBlobs
  <2>2. p.blk # "garbled"
    BY <1>2, <2>1 DEF VerifyIncomingBlock
  <2>3. answer \in {"VALID", "ACCEPTED"}
    BY <1>2, <2>1, OnlyVouchedPasses DEF VerifyIncomingBlock
  <2> QED BY <1>1, <2>2, <2>3
<1> QED BY <1>1, <1>2 DEF VerdictInv, AcceptedOnlyIfVouched

LEMMA VerdictStep == VerdictInv /\ [Next]_vars => VerdictInv'
<1> SUFFICES ASSUME VerdictInv, [Next]_vars PROVE VerdictInv'
  OBVIOUS
<1> USE DEF VerdictInv, AcceptedOnlyIfVouched
<1>0. ASSUME NEW blk \in Blocks, NEW for, NEW blobs, NEW sidecars
      PROVE  Proposal(blk, for, blobs, sidecars).blk \in Blocks
  BY <1>0 DEF Proposal
<1>1. ASSUME NEW built, NEW for, NEW blobs, NEW early, PrepareProposal(built, for, blobs, early)
      PROVE  VerdictInv'
  <2>1. {"absent", "garbled", "good"} \subseteq Blocks
    BY DEF Blocks
  <2>2. {"garbled", "good", "empty"} \subseteq Sidecars
    BY DEF Sidecars
  <2>3. PICK blk \in Blocks, b \in {blobs, FALSE}, sidecars \in Sidecars :
            proposal' = {Proposal(blk, for, b, sidecars)}
    BY <1>1, <2>1, <2>2 DEF PrepareProposal
  <2> QED BY <1>0, <1>1, <2>3 DEF PrepareProposal
<1>2. ASSUME NEW blk \in Blocks, NEW for, NEW blobs, NEW sidecars,
             ReceiveProposal(blk, for, blobs, sidecars)
      PROVE  VerdictInv'
  BY <1>0, <1>2 DEF ReceiveProposal
<1>3. CASE \E answer \in AnyAnswer : ProcessProposal(answer)
  BY <1>3, ProcessProposalKeeps
<1>4. CASE Decide \/ NextRound \/ Crash
  BY <1>4 DEF Decide, NextRound, Crash
<1>5. CASE UNCHANGED <<proposal, verdict, vouched>>
  BY <1>5
<1>6. CASE Boot \/ StartAll \/ JwtRefresh \/ ElStep \/ Deliver \/ UNCHANGED vars
  BY <1>5, <1>6 DEF Boot, StartAll, StartService, StartEngineClient, Load, JwtRefresh, ElStep,
     Deliver, FinalizeBlock, Commit, vars, chainVars
<1> QED BY <1>1, <1>2, <1>3, <1>4, <1>6 DEF Next

\* ProcessProposal accepts a block only when the execution client has said VALID
\* or ACCEPTED of its payload: no timeout, refused connection, error code or empty
\* answer is taken for one, whatever the client does between two calls.  That the
\* decoder failed does not reject a block; that some of it is missing does.
THEOREM AcceptedAreVouched == Spec => []AcceptedOnlyIfVouched
<1>1. VerdictInv => AcceptedOnlyIfVouched
  BY DEF VerdictInv
<1> QED BY <1>1, VerdictInit, VerdictStep, PTL DEF Spec

-----------------------------------------------------------------------------
LEMMA ServiceTypes == Len(serviceTypes) = 6 /\ serviceTypes[4] = "engine-client"
BY DEF serviceTypes

LEMMA StartupInit == Init => StartupInv
BY ServiceTypes DEF Init, StartupInv

LEMMA StartupStep == StartupInv /\ [Next]_vars => StartupInv'
<1> SUFFICES ASSUME StartupInv, [Next]_vars PROVE StartupInv'
  OBVIOUS
<1> USE ServiceTypes DEF StartupInv
<1>1. CASE Boot
  BY <1>1 DEF Boot
<1>2. CASE StartService
  <2>1. started # 3
    BY <1>2 DEF StartService, NextService
  <2> QED BY <1>2, <2>1 DEF StartService
<1>3. CASE StartEngineClient
  <2>1. initializeConnection = "ok" => clientAfter = "open"
    BY DEF initializeConnection, clientAfter
  <2>2. started > 3 => started = 4 \/ started = 5
    BY <1>3 DEF StartEngineClient
  <2>3. NextService # "engine-client" \/ started = 3
    <3>1. serviceTypes[5] = "reporting" /\ serviceTypes[6] = "db-manager"
          /\ serviceTypes[1] = "validator" /\ serviceTypes[2] = "blockchain"
          /\ serviceTypes[3] = "deposit-handler"
      BY DEF serviceTypes
    <3>2. started \in {0, 1, 2, 3, 4, 5}
      BY <1>3 DEF StartEngineClient
    <3> QED BY <3>1, <3>2 DEF NextService
  <2> QED BY <1>3, <2>1, <2>3 DEF StartEngineClient
<1>4. CASE Load
  BY <1>4 DEF Load
<1>5. CASE JwtRefresh
  BY <1>5 DEF JwtRefresh, vars
<1>6. CASE Crash
  BY <1>6 DEF Crash
<1>7. CASE UNCHANGED <<started, client>> /\ proc' \in {proc, "halted"}
  BY <1>7
<1>8. ASSUME NEW answer, FinalizeBlock(answer) PROVE StartupInv'
  BY <1>7, <1>8 DEF FinalizeBlock
<1>9. CASE ElStep \/ Commit \/ Decide \/ NextRound \/ UNCHANGED vars
  BY <1>7, <1>9 DEF ElStep, Commit, Decide, NextRound, vars, procVars
<1>10. ASSUME NEW built, NEW for, NEW blobs, NEW early, PrepareProposal(built, for, blobs, early)
      PROVE  StartupInv'
  BY <1>7, <1>10 DEF PrepareProposal, procVars
<1>11. ASSUME NEW blk, NEW for, NEW blobs, NEW sidecars, ReceiveProposal(blk, for, blobs, sidecars)
      PROVE  StartupInv'
  BY <1>7, <1>11 DEF ReceiveProposal, procVars
<1>12. ASSUME NEW answer, ProcessProposal(answer) PROVE StartupInv'
  BY <1>7, <1>12 DEF ProcessProposal, procVars
<1> QED BY <1>1, <1>2, <1>3, <1>4, <1>5, <1>6, <1>8, <1>9, <1>10, <1>11, <1>12
        DEF Next, StartAll, Deliver

\* No ABCI handler runs before the engine client has connected: the registry
\* starts CometBFT's side last, after any number of failed attempts and crashes.
THEOREM HandlersAreConnected == Spec => []ConnectedBeforeHandlers
<1>1. StartupInv => ConnectedBeforeHandlers
  BY ServiceTypes DEF StartupInv, ConnectedBeforeHandlers
<1> QED BY <1>1, StartupInit, StartupStep, PTL DEF Spec

-----------------------------------------------------------------------------
(***************************************************************************)
(* The validator updates: the batches of ProcessSlots, what EndBlock       *)
(* leaves of them, and the powers CometBFT has afterwards.                 *)
(***************************************************************************)
\* A finite set as a sequence: every element is at some position.
LEMMA SetToSeqEnumerates ==
    ASSUME NEW S, IsFiniteSet(S)
    PROVE  /\ Cardinality(S) \in Nat
           /\ SetToSeq(S) \in [1 .. Cardinality(S) -> S]
           /\ \A x \in S : \E i \in 1 .. Cardinality(S) : SetToSeq(S)[i] = x
<1> DEFINE n == Cardinality(S)
<1>1. n \in Nat /\ ExistsBijection(1 .. n, S)
  BY FS_CardinalityType
<1>2. PICK f \in [1 .. n -> S] : IsInjective(f)
  BY <1>1 DEF ExistsBijection, Bijection, Injection
<1>3. SetToSeq(S) \in [1 .. n -> S] /\ IsInjective(SetToSeq(S))
  BY <1>2 DEF SetToSeq
<1>4. SetToSeq(S) \in Injection(1 .. n, S)
  BY <1>3 DEF Injection
<1>5. IsFiniteSet(1 .. n) /\ Cardinality(1 .. n) = n
  BY <1>1, FS_Interval
<1>6. SetToSeq(S) \in Surjection(1 .. n, S)
  <2> HIDE DEF n
  <2> QED BY <1>4, <1>5, FS_Injection DEF n
<1> QED BY <1>1, <1>3, <1>6 DEF Surjection

Staked(s) == {pk \in Pubkeys : s.stake[pk] > 0}

\* GetValidatorsByEffectiveBalance gives every validator with a stake, and its stake.
LEMMA BatchIsStakes ==
    ASSUME NEW s \in States
    PROVE  LET batch == processSyncCommitteeUpdates(s)
               n == Cardinality(Staked(s))
           IN /\ n \in Nat /\ Len(batch) = n /\ DOMAIN batch = 1 .. n
              /\ \A i \in 1 .. n : \E pk \in Staked(s) : batch[i] = Update(s, pk)
              /\ \A pk \in Staked(s) : \E i \in 1 .. n : batch[i] = Update(s, pk)
<1> DEFINE vals == Staked(s)
           n == Cardinality(vals)
           batch == processSyncCommitteeUpdates(s)
<1>1. IsFiniteSet(vals)
  <2>1. vals \in SUBSET Pubkeys
    BY DEF Staked
  <2> QED BY <2>1, NodeAssumption, FS_Subset
<1>2. /\ n \in Nat /\ SetToSeq(vals) \in [1 .. n -> vals]
      /\ \A x \in vals : \E i \in 1 .. n : SetToSeq(vals)[i] = x
  <2> HIDE DEF vals
  <2> QED BY <1>1, SetToSeqEnumerates
<1>3. batch = [i \in 1 .. n |-> Update(s, SetToSeq(vals)[i])]
  BY DEF processSyncCommitteeUpdates, Staked
<1>4. Len(batch) = n /\ DOMAIN batch = 1 .. n
  BY <1>2, <1>3
<1>5. \A i \in 1 .. n : batch[i] = Update(s, SetToSeq(vals)[i]) /\ SetToSeq(vals)[i] \in vals
  BY <1>2, <1>3
<1> HIDE DEF batch, n, vals
<1>6. \A i \in 1 .. n : \E pk \in vals : batch[i] = Update(s, pk)
  BY <1>5
<1>7. \A pk \in vals : \E i \in 1 .. n : batch[i] = Update(s, pk)
  BY <1>2, <1>5
<1> QED BY <1>2, <1>4, <1>6, <1>7 DEF batch, n, vals

\* The updates of a list are those of the stakes, and all of them if there is any
\* new epoch.
StakesOf(u, s, any) ==
    /\ \E n \in Nat : DOMAIN u = 1 .. n
    /\ \A i \in DOMAIN u : \E pk \in Staked(s) : u[i] = Update(s, pk)
    /\ any => \A pk \in Staked(s) : \E i \in DOMAIN u : u[i] = Update(s, pk)
    /\ ~any => DOMAIN u = {}

LEMMA SlotUpdates ==
    ASSUME NEW s \in States, NEW slot \in Nat
    PROVE  StakesOf(ProcessSlots(s, slot), s,
                    slot \div SlotsPerEpoch > s.slot \div SlotsPerEpoch)
<1> DEFINE batch == processSyncCommitteeUpdates(s)
           n == Cardinality(Staked(s))
           epochs == (slot \div SlotsPerEpoch) - (s.slot \div SlotsPerEpoch)
           u == ProcessSlots(s, slot)
<1>1. /\ n \in Nat /\ Len(batch) = n /\ DOMAIN batch = 1 .. n
      /\ \A i \in 1 .. n : \E pk \in Staked(s) : batch[i] = Update(s, pk)
      /\ \A pk \in Staked(s) : \E i \in 1 .. n : batch[i] = Update(s, pk)
  BY BatchIsStakes
<1>2. /\ s.slot \in Nat /\ slot \div SlotsPerEpoch \in Nat
      /\ s.slot \div SlotsPerEpoch \in Nat
  <2>1. s.slot \in Nat
    BY DEF States
  <2> QED BY <2>1, NodeAssumption, DivMod
<1>3. epochs \in Int
  BY <1>2
<1>4. u = [i \in 1 .. epochs * n |-> batch[((i - 1) % n) + 1]]
  BY <1>1 DEF ProcessSlots
<1>5. CASE epochs <= 0 \/ n = 0
  <2>1. epochs * n \in Int /\ epochs * n <= 0
    <3>1. CASE n = 0
      BY <1>3, <3>1
    <3>2. CASE epochs <= 0
      <4> DEFINE e == epochs
      <4> HIDE DEF e, n
      <4>1. e \in Int /\ e <= 0 /\ n \in Nat
        BY <1>1, <1>3, <3>2 DEF e
      <4>2. e * n \in Int /\ e * n <= 0
        BY <4>1
      <4> QED BY <4>2 DEF e, n
    <3> QED BY <1>5, <3>1, <3>2
  <2>2. DOMAIN u = {}
    <3> DEFINE m == epochs * n
    <3>1. m \in Int /\ m <= 0
      BY <2>1
    <3>2. DOMAIN u = 1 .. m
      BY <1>4
    <3> HIDE DEF m, u
    <3> QED BY <3>1, <3>2
  <2>3. DOMAIN u = 1 .. 0
    BY <2>2
  <2>4. epochs <= 0 => ~(slot \div SlotsPerEpoch > s.slot \div SlotsPerEpoch)
    BY <1>2
  <2>5. n = 0 => Staked(s) = {}
    BY <1>1
  <2> HIDE DEF u, epochs
  <2> QED BY <1>5, <2>2, <2>3, <2>4, <2>5 DEF StakesOf, u
<1>6. CASE epochs > 0 /\ n > 0
  <2>1. epochs * n \in Nat /\ n <= epochs * n
    <3> DEFINE e == epochs
    <3> HIDE DEF e, n
    <3>1. e \in Nat \ {0} /\ n \in Nat \ {0}
      BY <1>1, <1>3, <1>6 DEF e
    <3>2. e * n \in Nat /\ n <= e * n
      BY <3>1
    <3> QED BY <3>2 DEF e, n
  <2>2. DOMAIN u = 1 .. epochs * n
    BY <1>4
  <2>3. ASSUME NEW i \in DOMAIN u PROVE ((i - 1) % n) + 1 \in 1 .. n
    <3>1. i - 1 \in Nat
      BY <2>1, <2>2
    <3> HIDE DEF n
    <3>2. n \in Nat \ {0}
      BY <1>1, <1>6
    <3>3. (i - 1) % n \in 0 .. (n - 1)
      BY <3>1, <3>2, ModRange
    <3> QED BY <3>2, <3>3
  <2>4. \A i \in DOMAIN u : \E pk \in Staked(s) : u[i] = Update(s, pk)
    <3> SUFFICES ASSUME NEW i \in DOMAIN u PROVE \E pk \in Staked(s) : u[i] = Update(s, pk)
      OBVIOUS
    <3>1. u[i] = batch[((i - 1) % n) + 1]
      BY <1>4, <2>2
    <3> HIDE DEF u, n, batch
    <3> QED BY <1>1, <2>3, <3>1
  <2>5. \A pk \in Staked(s) : \E i \in DOMAIN u : u[i] = Update(s, pk)
    <3> SUFFICES ASSUME NEW pk \in Staked(s) PROVE \E i \in DOMAIN u : u[i] = Update(s, pk)
      OBVIOUS
    <3>1. PICK i \in 1 .. n : batch[i] = Update(s, pk)
      BY <1>1
    <3>2. (i - 1) % n = i - 1
      <4> HIDE DEF n
      <4>1. n \in Nat \ {0} /\ i - 1 \in 0 .. (n - 1) /\ i - 1 \in Nat
        BY <1>1, <1>6
      <4>2. i - 1 = n * 0 + (i - 1)
        BY <4>1
      <4> QED BY <4>1, <4>2, RemainderUnique
    <3>3. i \in DOMAIN u
      <4> DEFINE m == epochs * n
      <4>1. m \in Nat /\ n <= m /\ DOMAIN u = 1 .. m
        BY <2>1, <2>2
      <4> HIDE DEF m, n, u
      <4> QED BY <1>1, <4>1
    <3>4. u[i] = batch[((i - 1) % n) + 1]
      BY <1>4, <2>2, <3>3
    <3>5. ((i - 1) % n) + 1 = i
      <4> HIDE DEF n
      <4> QED BY <1>1, <3>2
    <3> HIDE DEF u, n, batch
    <3> QED BY <3>1, <3>3, <3>4, <3>5
  <2>6. slot \div SlotsPerEpoch > s.slot \div SlotsPerEpoch
    BY <1>2, <1>6
  <2> HIDE DEF u, epochs, n
  <2> QED BY <2>1, <2>2, <2>4, <2>5, <2>6 DEF StakesOf, u
<1>7. epochs <= 0 \/ n = 0 \/ (epochs > 0 /\ n > 0)
  <2> DEFINE e == epochs
  <2> HIDE DEF e, n
  <2>1. e \in Int /\ n \in Nat
    BY <1>1, <1>3 DEF e
  <2>2. e <= 0 \/ n = 0 \/ (e > 0 /\ n > 0)
    BY <2>1
  <2> QED BY <2>2 DEF e, n
<1> QED BY <1>5, <1>6, <1>7

\* EndBlock leaves one update for every key that has one, so that CometBFT takes
\* the list whatever the cache holds.
LEMMA EndBlockKeepsOne ==
    ASSUME NEW n \in Nat, NEW u, DOMAIN u = 1 .. n
    PROVE  /\ CometAccepts(EndBlock(u))
           /\ DOMAIN EndBlock(u) \subseteq DOMAIN u
           /\ \A i \in DOMAIN EndBlock(u) : EndBlock(u)[i] = u[i]
           /\ \A i \in DOMAIN u : \E j \in DOMAIN EndBlock(u) : u[j].pk = u[i].pk
<1> DEFINE last == {i \in DOMAIN u : \A j \in DOMAIN u : u[j].pk = u[i].pk => j <= i}
<1>1. EndBlock(u) = [i \in last |-> u[i]]
  BY DEF EndBlock
<1>2. DOMAIN EndBlock(u) = last /\ \A i \in last : EndBlock(u)[i] = u[i]
  BY <1>1
<1>3. CometAccepts(EndBlock(u))
  <2> SUFFICES ASSUME NEW i \in last, NEW j \in last, u[i].pk = u[j].pk PROVE i = j
    BY <1>2 DEF CometAccepts
  <2>1. i <= j /\ j <= i /\ i \in Int /\ j \in Int
    OBVIOUS
  <2> QED BY <2>1
<1>4. ASSUME NEW i \in DOMAIN u PROVE \E j \in last : u[j].pk = u[i].pk
  <2> DEFINE gaps == {k \in Nat : k < n /\ u[n - k].pk = u[i].pk}
  <2>1. n - i \in gaps
    <3>1. n - i \in Nat /\ n - i < n /\ n - (n - i) = i
      OBVIOUS
    <3> QED BY <3>1
  <2>2. gaps \subseteq Nat /\ gaps # {}
    BY <2>1
  <2>3. PICK k \in gaps : \A m \in gaps : k <= m
    BY <2>2, LeastNatural
  <2>4. n - k \in DOMAIN u /\ u[n - k].pk = u[i].pk
    BY <2>3
  <2>5. ASSUME NEW j \in DOMAIN u, u[j].pk = u[n - k].pk PROVE j <= n - k
    <3>1. n - j \in gaps
      <4>1. n - j \in Nat /\ n - j < n /\ n - (n - j) = j
        OBVIOUS
      <4> QED BY <2>4, <2>5, <4>1
    <3>2. k <= n - j
      BY <2>3, <3>1
    <3> QED BY <3>2, <2>3
  <2> QED BY <2>4, <2>5
<1> QED BY <1>2, <1>3, <1>4

\* Applying what EndBlock leaves: if a list agrees with some powers, and CometBFT
\* agrees with them where the list has nothing, these are the powers afterwards.
LEMMA ApplyGives ==
    ASSUME NEW powers \in [Pubkeys -> Nat], NEW n \in Nat, NEW u, DOMAIN u = 1 .. n,
           \A i \in DOMAIN u : powers[u[i].pk] = u[i].power,
           \A pk \in Pubkeys : (\A i \in DOMAIN u : u[i].pk # pk) => comet[pk] = powers[pk]
    PROVE  CometApply(EndBlock(u)) = powers
<1> DEFINE e == EndBlock(u)
<1>1. /\ DOMAIN e \subseteq DOMAIN u
      /\ \A i \in DOMAIN e : e[i] = u[i]
      /\ \A i \in DOMAIN u : \E j \in DOMAIN e : u[j].pk = u[i].pk
  BY EndBlockKeepsOne
<1> HIDE DEF e
<1>2. ASSUME NEW pk \in Pubkeys
      PROVE  powers[pk] = IF \E i \in DOMAIN e : e[i].pk = pk
                          THEN (CHOOSE v \in Range(e) : v.pk = pk).power ELSE comet[pk]
  <2>1. CASE \E i \in DOMAIN e : e[i].pk = pk
    <3>1. \E v \in Range(e) : v.pk = pk
      BY <2>1 DEF Range
    <3> DEFINE v == CHOOSE w \in Range(e) : w.pk = pk
    <3>2. v \in Range(e) /\ v.pk = pk
      BY <3>1
    <3> HIDE DEF v
    <3>3. PICK i \in DOMAIN e : v = e[i]
      BY <3>2 DEF Range
    <3>4. powers[pk] = v.power
      BY <1>1, <3>2, <3>3
    <3> QED BY <2>1, <3>4 DEF v
  <2>2. CASE ~ \E i \in DOMAIN e : e[i].pk = pk
    <3>1. \A i \in DOMAIN u : u[i].pk # pk
      BY <1>1, <2>2
    <3> QED BY <2>2, <3>1
  <2> QED BY <2>1, <2>2
<1>3. powers = [pk \in Pubkeys |-> powers[pk]]
  OBVIOUS
<1>4. CometApply(e) = [pk \in Pubkeys |-> powers[pk]]
  BY <1>2 DEF CometApply
<1> QED BY <1>3, <1>4 DEF e

-----------------------------------------------------------------------------
(***************************************************************************)
(* NodeInv is inductive.                                                   *)
(***************************************************************************)
\* In FinalizeBlock the engine is optimistic: a payload that is not invalid passes,
\* whatever else the execution client says or fails to say.
LEMMA OptimisticPasses ==
    ASSUME NEW p \in Proposals, p.blk \in {"good", "flawed"}, NEW answer \in AnyAnswer,
           Truthful(p, answer)
    PROVE  VerifyAndNotifyNewPayload(answer, TRUE, TRUE) = NoError
<1>1. answer # "INVALID"
  BY DEF Truthful
<1>2. NewPayload(answer) # "ErrInvalidPayloadStatus"
  <2>1. CASE answer \in Failures
    BY <2>1 DEF NewPayload, handleRPCError, Failures, Statuses
  <2>2. CASE answer \in Statuses
    BY <1>1, <2>2 DEF NewPayload, processPayloadStatusResult, Statuses, NoError
  <2> QED BY <2>1, <2>2 DEF AnyAnswer
<1> QED BY <1>2 DEF VerifyAndNotifyNewPayload

\* The state after a block: one more for the depositor, and the stakes of before
\* the block as the powers if an epoch has begun.
LEMMA TransitionBounded ==
    ASSUME NEW s \in States, NEW p \in Proposals, NEW slot \in Nat, Bounded(s, slot)
    PROVE  Transition(s, p, slot) \in States /\ Bounded(Transition(s, p, slot), slot + 1)
<1> DEFINE t == Transition(s, p, slot)
<1>1. s.slot \in Nat /\ s.stake \in [Pubkeys -> Nat] /\ s.synced \in [Pubkeys -> Nat]
  BY DEF States
<1>2. p.for \in Pubkeys
  BY DEF Proposals
<1>3. /\ t.slot = slot
      /\ t.stake = [s.stake EXCEPT ![p.for] = @ + 1]
      /\ t.synced = s.stake \/ t.synced = s.synced
      /\ t = [slot |-> t.slot, stake |-> t.stake, synced |-> t.synced]
  BY DEF Transition
<1> HIDE DEF t
<1>4. t.stake \in [Pubkeys -> Nat] /\ t.synced \in [Pubkeys -> Nat]
  BY <1>1, <1>2, <1>3
<1>5. t \in States
  BY <1>3, <1>4 DEF States
<1>6. ASSUME NEW pk \in Pubkeys
      PROVE  t.synced[pk] <= t.stake[pk] /\ t.stake[pk] <= slot + 1
  <2>1. /\ s.synced[pk] <= s.stake[pk] /\ s.stake[pk] <= slot
        /\ s.synced[pk] \in Nat /\ s.stake[pk] \in Nat
    BY <1>1 DEF Bounded
  <2>2. t.stake[pk] = s.stake[pk] \/ t.stake[pk] = s.stake[pk] + 1
    BY <1>1, <1>2, <1>3
  <2>3. t.synced[pk] = s.stake[pk] \/ t.synced[pk] = s.synced[pk]
    BY <1>3
  <2> QED BY <2>1, <2>2, <2>3
<1> QED BY <1>5, <1>6 DEF t, Bounded

\* What FinalizeBlock computes for a block that goes through: the powers of
\* CometBFT are the synced ones of the new state, and the cache agrees with them.
LEMMA BlockUpdates ==
    ASSUME NodeInv, NEW p \in Proposals, height <= MaxHeight
    PROVE  LET u == ProcessSlots(st, height)
               t == Transition(st, p, height)
           IN /\ u \in Seq([pk : Pubkeys, power : 1 .. MaxHeight + 1])
              /\ CometAccepts(EndBlock(u))
              /\ CometApply(EndBlock(u)) = t.synced
              /\ \A i \in DOMAIN u : t.synced[u[i].pk] = u[i].power
<1> DEFINE u == ProcessSlots(st, height)
           t == Transition(st, p, height)
           any == height \div SlotsPerEpoch > st.slot \div SlotsPerEpoch
<1>1. /\ height \in Nat /\ st \in States /\ Bounded(st, height) /\ comet = st.synced
      /\ MaxHeight \in Nat
  BY NodeAssumption DEF NodeInv, PowersInv
<1>2. st.slot \in Nat /\ st.stake \in [Pubkeys -> Nat] /\ st.synced \in [Pubkeys -> Nat]
  BY <1>1 DEF States
<1>3. StakesOf(u, st, any)
  BY <1>1, SlotUpdates
<1>4. t.synced = IF any THEN st.stake ELSE st.synced
  BY DEF Transition
<1>5. u = [i \in DOMAIN u |-> u[i]]
  BY DEF ProcessSlots
<1> HIDE DEF u, t, any
<1>6. PICK n \in Nat : DOMAIN u = 1 .. n
  BY <1>3 DEF StakesOf
<1>7. ASSUME NEW i \in DOMAIN u
      PROVE  /\ u[i] \in [pk : Pubkeys, power : 1 .. MaxHeight + 1]
             /\ u[i].power = st.stake[u[i].pk]
             /\ any
  <2>1. PICK pk \in Staked(st) : u[i] = Update(st, pk)
    BY <1>3 DEF StakesOf
  <2>2. pk \in Pubkeys /\ st.stake[pk] \in 1 .. MaxHeight + 1
    <3>1. pk \in Pubkeys /\ st.stake[pk] > 0
      BY DEF Staked
    <3>2. st.stake[pk] \in Nat /\ st.stake[pk] <= height
      BY <1>1, <1>2, <3>1 DEF Bounded
    <3> QED BY <1>1, <3>1, <3>2
  <2>3. any
    BY <1>3 DEF StakesOf
  <2> QED BY <2>1, <2>2, <2>3 DEF Update
<1>8. u \in Seq([pk : Pubkeys, power : 1 .. MaxHeight + 1])
  <2> DEFINE T == [pk : Pubkeys, power : 1 .. MaxHeight + 1]
  <2>1. \A i \in 1 .. n : u[i] \in T
    BY <1>6, <1>7
  <2> HIDE DEF T
  <2>2. u \in [1 .. n -> T]
    BY <1>5, <1>6, <2>1
  <2>3. u \in Seq(T)
    BY <2>2
  <2> QED BY <2>3 DEF T
<1>9. \A i \in DOMAIN u : t.synced[u[i].pk] = u[i].power
  BY <1>4, <1>7
<1>10. ASSUME NEW pk \in Pubkeys, \A i \in DOMAIN u : u[i].pk # pk
       PROVE  comet[pk] = t.synced[pk]
  <2>1. CASE ~any
    BY <1>1, <1>4, <2>1
  <2>2. CASE any
    <3>1. pk \notin Staked(st)
      <4> SUFFICES ASSUME pk \in Staked(st) PROVE FALSE
        OBVIOUS
      <4>1. PICK i \in DOMAIN u : u[i] = Update(st, pk)
        BY <1>3, <2>2 DEF StakesOf
      <4>2. u[i].pk = pk
        BY <4>1 DEF Update
      <4> QED BY <1>10, <4>2
    <3>2. st.stake[pk] \in Nat /\ st.synced[pk] \in Nat /\ st.synced[pk] <= st.stake[pk]
      BY <1>1, <1>2 DEF Bounded
    <3>3. ~(st.stake[pk] > 0)
      BY <3>1 DEF Staked
    <3>4. st.synced[pk] = st.stake[pk]
      BY <3>2, <3>3
    <3> QED BY <1>1, <1>4, <2>2, <3>4
  <2> QED BY <2>1, <2>2
<1>11. t.synced \in [Pubkeys -> Nat]
  BY <1>2, <1>4
<1>12. CometAccepts(EndBlock(u))
  BY <1>6, EndBlockKeepsOne
<1>13. CometApply(EndBlock(u)) = t.synced
  <2> DEFINE powers == t.synced
  <2>1. /\ powers \in [Pubkeys -> Nat] /\ \A i \in DOMAIN u : powers[u[i].pk] = u[i].power
        /\ \A pk \in Pubkeys : (\A i \in DOMAIN u : u[i].pk # pk) => comet[pk] = powers[pk]
    BY <1>9, <1>10, <1>11
  <2> HIDE DEF powers
  <2>2. CometApply(EndBlock(u)) = powers
    BY <1>6, <2>1, ApplyGives
  <2> QED BY <2>2 DEF powers
<1> QED BY <1>8, <1>9, <1>12, <1>13 DEF u, t

\* A block that cannot be decoded leaves the cache as it is, and sending the old
\* updates again changes nothing.
LEMMA StaleUpdates ==
    ASSUME NodeInv, proc = "running", pending = {}
    PROVE  CometAccepts(EndBlock(valUpdates)) /\ CometApply(EndBlock(valUpdates)) = comet
<1>1. /\ valUpdates \in Seq([pk : Pubkeys, power : 1 .. MaxHeight + 1])
      /\ CacheIn(comet) /\ comet \in [Pubkeys -> Nat]
  BY DEF NodeInv, PowersInv, States
<1>2. PICK n \in Nat : DOMAIN valUpdates = 1 .. n
  BY <1>1
<1>3. CometAccepts(EndBlock(valUpdates))
  BY <1>2, EndBlockKeepsOne
<1>4. \A i \in DOMAIN valUpdates : comet[valUpdates[i].pk] = valUpdates[i].power
  BY <1>1 DEF CacheIn
<1>5. CometApply(EndBlock(valUpdates)) = comet
  BY <1>1, <1>2, <1>4, ApplyGives
<1> QED BY <1>3, <1>5

\* What FinalizeBlock does with a block, in the three cases: it is not decoded, it
\* fails, or it goes through.  The cache found matters to none of them.
LEMMA FinalizedSkips ==
    ASSUME NodeInv, NEW p, NEW answer, ~Extracted(p), NEW cache,
           cache = <<>> \/ (cache = valUpdates /\ proc = "running" /\ pending = {})
    PROVE  Finalized(p, answer, cache) = {[st |-> st, comet |-> comet]}
<1>1. PreBlock(p, answer, cache) = cache
  BY DEF PreBlock
<1>2. CometAccepts(EndBlock(cache)) /\ CometApply(EndBlock(cache)) = comet
  <2>1. CASE cache = <<>>
    <3>1. comet \in [Pubkeys -> Nat]
      BY DEF NodeInv, PowersInv, States
    <3>2. DOMAIN cache = 1 .. 0
      BY <2>1
    <3>3. CometAccepts(EndBlock(cache))
      BY <3>2, EndBlockKeepsOne
    <3>4. \A i \in DOMAIN cache : comet[cache[i].pk] = cache[i].power
      BY <3>2
    <3>5. CometApply(EndBlock(cache)) = comet
      BY <3>1, <3>2, <3>4, ApplyGives
    <3> QED BY <3>3, <3>5
  <2> QED BY <2>1, StaleUpdates
<1> QED BY <1>1, <1>2 DEF Finalized

LEMMA FinalizedFails ==
    ASSUME NEW p, NEW answer, Extracted(p), ~ProcessBlockAndBlobs(p, answer), NEW cache
    PROVE  Finalized(p, answer, cache) = {} /\ PreBlock(p, answer, cache) = <<>>
BY DEF Finalized, PreBlock

LEMMA FinalizedApplies ==
    ASSUME NodeInv, NEW p \in Proposals, height <= MaxHeight,
           NEW answer, Extracted(p), ProcessBlockAndBlobs(p, answer), NEW cache
    PROVE  LET t == Transition(st, p, height)
           IN /\ Finalized(p, answer, cache) = {[st |-> t, comet |-> t.synced]}
              /\ PreBlock(p, answer, cache) = ProcessSlots(st, height)
<1> DEFINE u == ProcessSlots(st, height)
           t == Transition(st, p, height)
<1>1. PreBlock(p, answer, cache) = u
  BY DEF PreBlock
<1>2. CometAccepts(EndBlock(u)) /\ CometApply(EndBlock(u)) = t.synced
  BY BlockUpdates
<1> HIDE DEF u, t
<1> QED BY <1>1, <1>2 DEF Finalized, u, t

\* So the answer does not matter either, but for a payload that is not valid.
LEMMA AnswerDoesNotMatter ==
    ASSUME NEW p \in Proposals, p.blk # "bad", NEW answer \in AnyAnswer, Truthful(p, answer),
           Extracted(p)
    PROVE  ProcessBlockAndBlobs(p, answer) <=> ProcessBlockAndBlobs(p, "SYNCING")
<1>1. p.blk \in {"good", "flawed"}
  BY DEF Extracted, Proposals, Blocks
<1>2. "SYNCING" \in AnyAnswer /\ Truthful(p, "SYNCING")
  BY DEF AnyAnswer, Statuses, Truthful
<1>3. /\ VerifyAndNotifyNewPayload(answer, TRUE, TRUE) = NoError
      /\ VerifyAndNotifyNewPayload("SYNCING", TRUE, TRUE) = NoError
  BY <1>1, <1>2, OptimisticPasses
<1> QED BY <1>3 DEF ProcessBlockAndBlobs

LEMMA FinalizedAgree ==
    ASSUME NodeInv, proc = "running", pending = {}, height <= MaxHeight,
           NEW p \in Proposals, p.blk # "bad", NEW answer \in AnyAnswer, Truthful(p, answer)
    PROVE  Finalized(p, answer, valUpdates) = Finalized(p, "SYNCING", <<>>)
<1>1. CASE ~Extracted(p)
  BY <1>1, FinalizedSkips
<1>2. CASE Extracted(p) /\ ~ProcessBlockAndBlobs(p, answer)
  BY <1>2, FinalizedFails, AnswerDoesNotMatter
<1>3. CASE Extracted(p) /\ ProcessBlockAndBlobs(p, answer)
  BY <1>3, FinalizedApplies, AnswerDoesNotMatter
<1> QED BY <1>1, <1>2, <1>3

\* The reference of FinalizedAlike depends on the committed state alone.
LEMMA FinalizedSame ==
    ASSUME UNCHANGED <<st, comet, height>>, NEW p, NEW answer, NEW cache
    PROVE  Finalized(p, answer, cache)' = Finalized(p, answer, cache)
BY DEF Finalized, PreBlock, CometApply

LEMMA NodeInit == Init => NodeInv
<1> SUFFICES ASSUME Init PROVE NodeInv
  OBVIOUS
<1> DEFINE genesis == [pk \in Pubkeys |-> IF pk \in GenesisPubkeys THEN 1 ELSE 0]
<1>1. /\ st = [slot |-> 0, stake |-> genesis, synced |-> genesis] /\ comet = genesis
      /\ height = 1 /\ valUpdates = <<>> /\ pending = {} /\ decided = {} /\ proposal = {}
      /\ verdict = "none" /\ proc = "down"
  BY DEF Init
<1>2. genesis \in [Pubkeys -> Nat] /\ genesis \in Powers /\ \A pk \in Pubkeys : genesis[pk] <= 1
  BY NodeAssumption DEF Powers
<1> HIDE DEF genesis
<1>3. st \in States /\ Bounded(st, 1)
  <2>1. st \in States
    BY <1>1, <1>2 DEF States
  <2>2. \A pk \in Pubkeys : genesis[pk] <= genesis[pk]
    BY <1>2
  <2> QED BY <1>1, <1>2, <2>1, <2>2 DEF Bounded
<1>4. valUpdates \in Seq([pk : Pubkeys, power : 1 .. MaxHeight + 1])
  BY <1>1
<1>5. TypeOK
  BY <1>1, <1>2, <1>4, ServiceTypes, NodeAssumption DEF Init, TypeOK
<1>6. RoundInv /\ HaltExplained /\ FinalizedAlike
  BY <1>1 DEF RoundInv, HaltExplained, FinalizedAlike
<1>7. PowersInv
  BY <1>1, <1>3, <1>4, NodeAssumption DEF PowersInv
<1> QED BY <1>5, <1>6, <1>7 DEF NodeInv

LEMMA FinalizeBlockKeeps ==
    ASSUME NodeInv, NEW answer \in AnyAnswer, FinalizeBlock(answer)
    PROVE  NodeInv'
<1>1. PICK p \in decided :
           /\ proc = "running" /\ pending = {}
           /\ Truthful(p, answer)
           /\ valUpdates' = PreBlock(p, answer, valUpdates)
           /\ proc' = IF Finalized(p, answer, valUpdates) # {} THEN proc ELSE "halted"
           /\ pending' = Finalized(p, answer, valUpdates)
           /\ UNCHANGED <<transport, el, elFaults, crashes, started, client, height, proposal,
                          verdict, vouched, decided, st, comet>>
  BY DEF FinalizeBlock
<1> DEFINE cache == PreBlock(p, answer, valUpdates)
           T == [pk : Pubkeys, power : 1 .. MaxHeight + 1]
<1>2. p \in Proposals /\ p.blk \in Blocks /\ height <= MaxHeight
  BY <1>1 DEF NodeInv, RoundInv, Proposals
<1>3. /\ height \in 1 .. MaxHeight + 1 /\ height \in Nat /\ MaxHeight \in Nat
      /\ st \in States /\ Bounded(st, height) /\ comet = st.synced
      /\ valUpdates \in Seq(T) /\ comet \in [Pubkeys -> Nat]
  BY NodeAssumption DEF NodeInv, PowersInv, States
\* Whatever becomes of the block, these are left to show.
<1>4. ASSUME cache \in Seq(T), proc' \in {"running", "halted"},
             proc' = "halted" => /\ Extracted(p)
                                 /\ p.blk \in {"bad", "flawed"} \/ (p.blobs /\ p.sidecars # "good"),
             pending' \subseteq Results,
             \A r \in pending' : Bounded(r.st, height + 1) /\ r.comet = r.st.synced,
             proc' = "running" => pending' # {} /\ \A r \in pending' :
                \A i \in DOMAIN cache : r.comet[cache[i].pk] = cache[i].power
      PROVE  NodeInv'
  <2>1. valUpdates' = cache /\ valUpdates' \in Seq(T)
    BY <1>1, <1>4
  <2>2. TypeOK'
    BY <1>1, <1>4, <2>1 DEF NodeInv, TypeOK
  <2>3. RoundInv'
    BY <1>1 DEF NodeInv, RoundInv
  <2>4. PowersInv'
    <3> HIDE DEF cache
    <3>1. proc' \in {"starting", "running"} =>
              /\ pending' = {} => CacheIn(comet)'
              /\ \A r \in pending' : \A i \in DOMAIN valUpdates' :
                     r.comet[valUpdates'[i].pk] = valUpdates'[i].power
      BY <1>4, <2>1
    <3>2. height' = height /\ st' = st /\ comet' = comet
      BY <1>1
    <3>3. Bounded(st, height)'
      BY <1>3, <3>2 DEF Bounded
    <3>4. \A r \in pending' : Bounded(r.st, height' + 1) /\ r.comet = r.st.synced
      BY <1>4, <3>2
    <3> QED BY <1>3, <1>4, <2>1, <3>1, <3>2, <3>3, <3>4 DEF PowersInv, CacheIn
  <2>5. \A q \in decided' : q = p
    BY <1>1 DEF NodeInv, RoundInv
  <2>6. HaltExplained'
    BY <1>4, <2>5 DEF HaltExplained
  <2>7. FinalizedAlike'
    <3>1. Finalized(p, "SYNCING", <<>>)' = Finalized(p, "SYNCING", <<>>)
      BY <1>1, FinalizedSame
    <3>2. ASSUME p.blk # "bad" PROVE pending' = Finalized(p, "SYNCING", <<>>)
      BY <1>1, <1>2, <3>2, FinalizedAgree
    <3> QED BY <2>5, <3>1, <3>2 DEF FinalizedAlike
  <2> QED BY <2>2, <2>3, <2>4, <2>6, <2>7 DEF NodeInv
<1>5. CASE ~Extracted(p)
  <2>1. cache = valUpdates
    BY <1>5 DEF PreBlock
  <2>2. proc' = "running" /\ pending' = {[st |-> st, comet |-> comet]}
    BY <1>1, <1>5, FinalizedSkips
  <2>3. \A i \in DOMAIN cache : comet[cache[i].pk] = cache[i].power
    BY <1>1, <2>1 DEF NodeInv, PowersInv, CacheIn
  <2>4. Bounded(st, height + 1)
    <3>1. \A pk \in Pubkeys : st.stake[pk] \in Nat
      BY <1>3 DEF States
    <3> QED BY <1>3, <3>1 DEF Bounded
  <2>5. pending' \subseteq Results
    BY <1>3, <2>2 DEF Results
  <2> HIDE DEF cache
  <2> QED BY <1>3, <1>4, <2>1, <2>2, <2>3, <2>4, <2>5
<1>6. CASE Extracted(p) /\ ~ProcessBlockAndBlobs(p, answer)
  <2>1. cache = <<>> /\ proc' = "halted" /\ pending' = {}
    BY <1>1, <1>6, FinalizedFails
  <2>2. ASSUME p.blk \notin {"bad", "flawed"} PROVE p.blobs /\ p.sidecars # "good"
    <3>1. p.blk = "good"
      BY <1>2, <1>6, <2>2 DEF Extracted, Blocks
    <3>2. VerifyAndNotifyNewPayload(answer, TRUE, TRUE) = NoError
      BY <1>1, <1>2, <3>1, OptimisticPasses
    <3> QED BY <1>6, <2>2, <3>2 DEF ProcessBlockAndBlobs
  <2>3. cache \in Seq(T)
    BY <2>1
  <2> HIDE DEF cache
  <2> QED BY <1>4, <1>6, <2>1, <2>2, <2>3
<1>7. CASE Extracted(p) /\ ProcessBlockAndBlobs(p, answer)
  <2> DEFINE t == Transition(st, p, height)
  <2>1. cache = ProcessSlots(st, height) /\ pending' = {[st |-> t, comet |-> t.synced]}
    BY <1>1, <1>2, <1>7, FinalizedApplies
  <2>2. /\ cache \in Seq(T)
        /\ \A i \in DOMAIN cache : t.synced[cache[i].pk] = cache[i].power
    BY <1>2, <2>1, BlockUpdates
  <2>3. proc' = "running"
    BY <1>1, <2>1
  <2>4. t \in States /\ Bounded(t, height + 1)
    BY <1>2, <1>3, TransitionBounded
  <2> HIDE DEF cache, t
  <2>5. pending' \subseteq Results
    BY <2>1, <2>4 DEF Results, States
  <2> QED BY <1>4, <2>1, <2>2, <2>3, <2>4, <2>5
<1> QED BY <1>5, <1>6, <1>7

LEMMA CommitKeeps == ASSUME NodeInv, Commit PROVE NodeInv'
<1>1. PICK r \in pending :
        /\ proc = "running" /\ st' = r.st /\ comet' = r.comet /\ height' = height + 1
        /\ decided' = {} /\ pending' = {}
        /\ UNCHANGED <<transport, el, elFaults, procVars, proposal, verdict, vouched, valUpdates>>
  BY DEF Commit
<1>2. decided # {} /\ proposal = {} /\ height <= MaxHeight
  BY <1>1 DEF NodeInv, RoundInv
<1>3. height \in 1 .. MaxHeight + 1 /\ MaxHeight \in Nat
  BY NodeAssumption DEF NodeInv, PowersInv
<1>4. height' \in 1 .. MaxHeight + 1
  BY <1>1, <1>2, <1>3
<1>5. st' \in States /\ Bounded(st', height') /\ comet' = (st').synced /\ CacheIn(comet')
  BY <1>1 DEF NodeInv, PowersInv, Results
<1>6. PowersInv'
  BY <1>1, <1>4, <1>5 DEF NodeInv, PowersInv, Bounded, CacheIn, procVars
<1>7. RoundInv' /\ HaltExplained' /\ FinalizedAlike'
  BY <1>1, <1>2 DEF NodeInv, RoundInv, HaltExplained, FinalizedAlike, procVars
<1>8. (st').stake \in Powers /\ (st').synced \in Powers
  <2>1. (st').stake \in [Pubkeys -> Nat] /\ (st').synced \in [Pubkeys -> Nat]
    BY <1>5 DEF States
  <2>2. ASSUME NEW pk \in Pubkeys
        PROVE  (st').stake[pk] \in 0 .. MaxHeight + 1 /\ (st').synced[pk] \in 0 .. MaxHeight + 1
    <3>1. /\ (st').synced[pk] <= (st').stake[pk] /\ (st').stake[pk] <= height'
          /\ (st').synced[pk] \in Nat /\ (st').stake[pk] \in Nat
      BY <1>5, <2>1 DEF Bounded
    <3> QED BY <1>3, <1>4, <3>1
  <2> QED BY <2>1, <2>2 DEF Powers
<1>9. TypeOK'
  BY <1>1, <1>4, <1>5, <1>8 DEF NodeInv, TypeOK, procVars
<1> QED BY <1>6, <1>7, <1>9 DEF NodeInv

\* A step that leaves the powers, the cache and the result of FinalizeBlock alone
\* and does not bring a process up keeps PowersInv.
LEMMA PowersUnchanged ==
    ASSUME NodeInv, UNCHANGED <<height, st, comet, valUpdates, pending>>,
           proc' \in {"starting", "running"} => proc \in {"starting", "running"}
    PROVE  PowersInv'
BY DEF NodeInv, PowersInv, Bounded, CacheIn

LEMMA TypeUnchanged ==
    ASSUME NodeInv, UNCHANGED <<height, st, comet, valUpdates>>,
           el' \in {"down", "up", "wrong"}, client' \in {"nil", "open", "closed"},
           proc' \in {"down", "starting", "running", "halted"},
           started' \in 0 .. Len(serviceTypes)
    PROVE  TypeOK'
BY DEF NodeInv, TypeOK

LEMMA AlikeUnchanged ==
    ASSUME NodeInv, UNCHANGED <<height, st, comet>>, decided' = decided,
           pending' = {} \/ pending' = pending,
           proc' = "halted" => proc = "halted" /\ pending' = pending
    PROVE  FinalizedAlike'
<1> SUFFICES ASSUME NEW p \in decided, p.blk # "bad", pending' # {} \/ proc' = "halted"
             PROVE  pending' = Finalized(p, "SYNCING", <<>>)'
  BY DEF FinalizedAlike
<1>1. pending' = pending /\ (pending # {} \/ proc = "halted")
  OBVIOUS
<1>2. pending = Finalized(p, "SYNCING", <<>>)
  BY <1>1 DEF NodeInv, FinalizedAlike
<1> QED BY <1>1, <1>2, FinalizedSame

LEMMA StartingKeeps ==
    ASSUME NodeInv, StartAll \/ JwtRefresh \/ ElStep \/ UNCHANGED vars
    PROVE  NodeInv'
<1>1. UNCHANGED chainVars
  BY DEF StartAll, StartService, StartEngineClient, Load, JwtRefresh, ElStep, vars
<1>2. /\ proc' = proc \/ (proc = "starting" /\ proc' \in {"down", "running"})
      /\ client' \in {client, clientAfter, "open"}
      /\ started' = started \/ (started < Len(serviceTypes) /\ started' = started + 1)
      /\ el' \in {el, "down", "up", "wrong"}
  <2>1. CASE ElStep
    BY <2>1 DEF ElStep, ElDown, ElUp, procVars
  <2>2. CASE StartAll \/ JwtRefresh \/ UNCHANGED vars
    BY <2>2 DEF StartAll, StartService, StartEngineClient, Load, JwtRefresh, vars, procVars
  <2> QED BY <2>1, <2>2
<1>3. UNCHANGED <<height, proposal, verdict, decided, pending, st, valUpdates, comet>>
  BY <1>1 DEF chainVars
<1>4. TypeOK'
  <2>1. /\ started \in 0 .. Len(serviceTypes) /\ client \in {"nil", "open", "closed"}
        /\ el \in {"down", "up", "wrong"} /\ proc \in {"down", "starting", "running", "halted"}
    BY DEF NodeInv, TypeOK
  <2>2. started' \in 0 .. Len(serviceTypes)
    BY <1>2, <2>1, ServiceTypes
  <2>3. clientAfter \in {"nil", "open", "closed"}
    BY <2>1 DEF clientAfter
  <2>4. client' \in {"nil", "open", "closed"} /\ el' \in {"down", "up", "wrong"}
        /\ proc' \in {"down", "starting", "running", "halted"}
    BY <1>2, <2>1, <2>3
  <2> QED BY <1>3, <2>2, <2>4, TypeUnchanged
<1>5. PowersInv'
  BY <1>2, <1>3, PowersUnchanged
<1>6. proc' = "halted" => proc = "halted"
  BY <1>2
<1>7. RoundInv'
  BY <1>3, <1>6 DEF NodeInv, RoundInv
<1>8. HaltExplained'
  BY <1>3, <1>6 DEF NodeInv, HaltExplained
<1>9. FinalizedAlike'
  BY <1>3, <1>6, AlikeUnchanged
<1> QED BY <1>4, <1>5, <1>7, <1>8, <1>9 DEF NodeInv

LEMMA BootKeeps == ASSUME NodeInv, Boot PROVE NodeInv'
<1>1. /\ proc' = "starting" /\ started' = 0 /\ client' = "nil" /\ valUpdates' = <<>>
      /\ UNCHANGED <<el, height, proposal, verdict, decided, pending, st, comet>>
      /\ proc = "down"
  BY DEF Boot
<1>2. valUpdates' \in Seq([pk : Pubkeys, power : 1 .. MaxHeight + 1]) /\ DOMAIN valUpdates' = {}
  BY <1>1
<1>3. TypeOK'
  BY <1>1, <1>2, ServiceTypes DEF NodeInv, TypeOK
<1>4. RoundInv' /\ HaltExplained'
  BY <1>1 DEF NodeInv, RoundInv, HaltExplained
<1>5. PowersInv'
  BY <1>1, <1>2 DEF NodeInv, PowersInv, Bounded, CacheIn
<1>6. FinalizedAlike'
  BY <1>1, AlikeUnchanged
<1> QED BY <1>3, <1>4, <1>5, <1>6 DEF NodeInv

LEMMA CrashKeeps == ASSUME NodeInv, Crash PROVE NodeInv'
<1>1. /\ proc' = "down" /\ pending' = {} /\ proposal' = {} /\ verdict' = "none"
      /\ UNCHANGED <<el, started, client, height, decided, st, valUpdates, comet>>
  BY DEF Crash
<1>2. TypeOK'
  BY <1>1, TypeUnchanged DEF NodeInv, TypeOK
<1>3. RoundInv' /\ HaltExplained'
  BY <1>1 DEF NodeInv, RoundInv, HaltExplained
<1>4. PowersInv'
  BY <1>1 DEF NodeInv, PowersInv, Bounded
<1>5. FinalizedAlike'
  BY <1>1, AlikeUnchanged
<1> QED BY <1>2, <1>3, <1>4, <1>5 DEF NodeInv

LEMMA ProposalTyped ==
    ASSUME NEW blk \in Blocks, NEW for \in Pubkeys, NEW blobs \in BOOLEAN,
           NEW sidecars \in Sidecars
    PROVE  Proposal(blk, for, blobs, sidecars) \in Proposals
<1>1. (CHOOSE pk \in Pubkeys : TRUE) \in Pubkeys
  OBVIOUS
<1> QED BY <1>1 DEF Proposal, Proposals, Sidecars

\* The steps of a round: what is proposed is one proposal while there is no
\* decision, and what is decided is acceptable.
LEMMA RoundKeeps ==
    ASSUME NodeInv, UNCHANGED <<el, procVars, height, pending, st, valUpdates, comet>>,
           \/ /\ proposal = {} /\ decided = {} /\ height <= MaxHeight
              /\ proposal' \subseteq Proposals /\ proposal' # {}
              /\ UNCHANGED <<verdict, decided>>
           \/ UNCHANGED <<proposal, decided>> /\ proposal # {}
           \/ proposal' = {} /\ verdict' = "none" /\ decided' = decided
           \/ \E p \in proposal : /\ Acceptable(p) /\ decided' = {p} /\ proposal' = {}
                                  /\ verdict' = "none"
    PROVE  NodeInv'
<1>1. TypeOK'
  BY TypeUnchanged DEF NodeInv, TypeOK, procVars
<1>2. PowersInv'
  BY PowersUnchanged DEF procVars
<1>3. proc' = proc /\ height' = height /\ pending' = pending
  BY DEF procVars
<1>4. RoundInv'
  BY <1>3 DEF NodeInv, RoundInv
<1>5. CASE decided' = decided
  <2>1. HaltExplained'
    BY <1>3, <1>5 DEF NodeInv, RoundInv, HaltExplained
  <2>2. FinalizedAlike'
    BY <1>3, <1>5, AlikeUnchanged
  <2> QED BY <1>1, <1>2, <1>4, <2>1, <2>2 DEF NodeInv
<1>6. CASE decided' # decided
  <2>1. pending' = {} /\ proc' # "halted"
    BY <1>3, <1>6 DEF NodeInv, RoundInv
  <2>2. HaltExplained' /\ FinalizedAlike'
    BY <2>1 DEF HaltExplained, FinalizedAlike
  <2> QED BY <1>1, <1>2, <1>4, <2>2 DEF NodeInv
<1> QED BY <1>5, <1>6

LEMMA NodeStep == NodeInv /\ [Next]_vars => NodeInv'
<1> SUFFICES ASSUME NodeInv, [Next]_vars PROVE NodeInv'
  OBVIOUS
<1>1. ASSUME NEW built \in BOOLEAN, NEW blobs \in BOOLEAN, NEW for \in Pubkeys, NEW early,
             PrepareProposal(built, for, blobs, early)
      PROVE  NodeInv'
  <2>1. \E blk \in Blocks, b \in BOOLEAN, sidecars \in Sidecars :
            proposal' = {Proposal(blk, for, b, sidecars)}
    <3>1. {"absent", "garbled", "good"} \subseteq Blocks
      BY DEF Blocks
    <3>2. {"garbled", "good", "empty"} \subseteq Sidecars
      BY DEF Sidecars
    <3> QED BY <1>1, <3>1, <3>2 DEF PrepareProposal
  <2>2. proposal' \subseteq Proposals /\ proposal' # {}
    BY <2>1, ProposalTyped
  <2> QED BY <1>1, <2>2, RoundKeeps DEF PrepareProposal
<1>2. ASSUME NEW blk \in Blocks, NEW for \in Pubkeys, NEW blobs \in BOOLEAN,
             NEW sidecars \in Sidecars, ReceiveProposal(blk, for, blobs, sidecars)
      PROVE  NodeInv'
  <2>1. proposal' \subseteq Proposals /\ proposal' # {}
    BY <1>2, ProposalTyped DEF ReceiveProposal
  <2> QED BY <1>2, <2>1, RoundKeeps DEF ReceiveProposal
<1>3. ASSUME NEW answer, ProcessProposal(answer) PROVE NodeInv'
  BY <1>3, RoundKeeps DEF ProcessProposal
<1>4. CASE Decide
  BY <1>4, RoundKeeps DEF Decide
<1>5. CASE NextRound
  BY <1>5, RoundKeeps DEF NextRound
<1> QED BY <1>1, <1>2, <1>3, <1>4, <1>5, BootKeeps, CrashKeeps, StartingKeeps,
           FinalizeBlockKeeps, CommitKeeps DEF Next, Deliver

\* The voting powers in CometBFT are at every time the stakes at the last epoch
\* boundary of the committed state, for every number of epochs a block spans,
\* every cache left over from an earlier block and every crash between
\* FinalizeBlock and Commit (finalize.go:115-179).
THEOREM PowersFollowState == Spec => []CometFollowsState
<1>1. NodeInv => CometFollowsState
  BY DEF NodeInv, PowersInv, CometFollowsState
<1> QED BY <1>1, NodeInit, NodeStep, PTL DEF Spec

\* FinalizeBlock fails on a decided block only if its blobs are missing, or if it
\* was voted for on an ACCEPTED and is not valid: no answer or failure of the
\* execution client, no transaction that cannot be decoded and no list of updates
\* stops the node (finalize.go:115-148, engine.go:167-274).
THEOREM HaltsExplained == Spec => []HaltExplained
<1>1. NodeInv => HaltExplained
  BY DEF NodeInv
<1> QED BY <1>1, NodeInit, NodeStep, PTL DEF Spec

\* Nodes that finalize a block with a valid payload come to the same state, powers
\* or failure, whatever their execution clients answer and however many restarts
\* and undecodable blocks are behind their caches (finalize.go:115-179).
THEOREM NodesFinalizeAlike == Spec => []FinalizedAlike
<1>1. NodeInv => FinalizedAlike
  BY DEF NodeInv
<1> QED BY <1>1, NodeInit, NodeStep, PTL DEF Spec
=============================================================================
