------------------------------ MODULE AbciNode ------------------------------
(***************************************************************************)
(* A node as CometBFT sees it: the registry that starts the services, the  *)
(* ABCI handlers (PrepareProposal, ProcessProposal, PreBlock and EndBlock)  *)
(* and the validator updates that go from the beacon state to CometBFT     *)
(* through a cache in the middleware.  The process can crash at any time;  *)
(* CometBFT then replays the decided block.                                *)
(*                                                                         *)
(* A proposal is two transactions, the block and the sidecars.  What the   *)
(* state transition does with a block is in StateTransition and Staking;   *)
(* here a block is the validator it deposits for.                          *)
(***************************************************************************)
EXTENDS EngineClient, FiniteSets, SequencesExt

CONSTANTS
    Pubkeys,                \* the validators
    GenesisPubkeys,         \* the ones of the genesis
    SlotsPerEpoch,
    MaxHeight, MaxCrashes   \* bounds

ASSUME NodeAssumption ==
    /\ IsFiniteSet(Pubkeys) /\ GenesisPubkeys \subseteq Pubkeys
    /\ SlotsPerEpoch \in Nat \ {0} /\ MaxHeight \in Nat /\ MaxCrashes \in Nat

VARIABLES
    proc,       \* "down", "starting", "running", or "halted" by an error in FinalizeBlock
    crashes,
    started,    \* how many services have been started
    height,     \* the height CometBFT is working on
    proposal,   \* the proposals of the round: none or one
    verdict,    \* the node's answer to ProcessProposal: "none", "accept", "reject"
    vouched,    \* history: the execution client said VALID or ACCEPTED of the proposal
    decided,    \* the decided block that is not committed: none or one
    pending,    \* the state and the updates of FinalizeBlock, before Commit
    st,         \* the committed beacon state
    valUpdates, \* FinalizeBlockMiddleware.valUpdates
    comet       \* the voting powers in CometBFT, 0 for nobody

chainVars == <<height, proposal, verdict, vouched, decided, pending, st, valUpdates, comet>>
procVars == <<proc, crashes, started, client>>
vars == <<transport, el, elFaults, procVars, chainVars>>

-----------------------------------------------------------------------------
(***************************************************************************)
(* The registry: StartAll starts the services in the order of their        *)
(* registration and waits for each Start.                                  *)
(***************************************************************************)
serviceTypes == <<"validator", "blockchain", "deposit-handler", "engine-client",
                  "reporting", "db-manager">>
NextService == serviceTypes[started + 1]

Boot ==
    /\ proc = "down"
    /\ proc' = "starting" /\ started' = 0 /\ client' = "nil"
    /\ valUpdates' = <<>>
    /\ UNCHANGED <<transport, el, elFaults, crashes, height, proposal, verdict, vouched, decided,
                   pending, st, comet>>

StartService ==
    /\ proc = "starting" /\ started < Len(serviceTypes)
    /\ NextService # "engine-client"
    /\ started' = started + 1
    /\ UNCHANGED <<transport, el, elFaults, proc, crashes, client, chainVars>>

\* Mutant: only one attempt.
StartEngineClientOnce ==
    /\ proc = "starting" /\ started < Len(serviceTypes)
    /\ NextService = "engine-client" /\ client = "nil"
    /\ client' = clientAfter
    /\ proc' = IF initializeConnection = "panic" THEN "down" ELSE proc
    /\ started' = IF initializeConnection = "ok" THEN started + 1 ELSE started
    /\ UNCHANGED <<transport, el, elFaults, crashes, chainVars>>

\* Start of the engine client, one attempt: at once and then at every tick.
StartEngineClient ==
    /\ proc = "starting" /\ started < Len(serviceTypes)
    /\ NextService = "engine-client"
    /\ client' = clientAfter
    /\ proc' = IF initializeConnection = "panic" THEN "down" ELSE proc
    /\ started' = IF initializeConnection = "ok" THEN started + 1 ELSE started
    /\ UNCHANGED <<transport, el, elFaults, crashes, chainVars>>

\* All services run: the application is loaded and CometBFT starts.
Load ==
    /\ proc = "starting" /\ started = Len(serviceTypes)
    /\ proc' = "running"
    /\ UNCHANGED <<transport, el, elFaults, crashes, started, client, chainVars>>

\* jwtRefreshLoop: a new client takes the place of the old one, which stays open.
JwtRefresh ==
    /\ proc = "running" /\ transport = "http"
    /\ client' = "open"
    /\ UNCHANGED <<transport, el, elFaults, proc, crashes, started, chainVars>>

\* The process dies; what is not committed is lost but for CometBFT's decision.
Crash ==
    /\ proc \in {"starting", "running"} /\ crashes < MaxCrashes
    /\ proc' = "down" /\ crashes' = crashes + 1
    /\ pending' = {} /\ proposal' = {} /\ verdict' = "none" /\ vouched' = FALSE
    /\ UNCHANGED <<transport, el, elFaults, started, client, height, decided, st, valUpdates, comet>>

ElStep ==
    /\ ElDown \/ ElUp
    /\ UNCHANGED <<transport, procVars, chainVars>>

-----------------------------------------------------------------------------
(***************************************************************************)
(* PrepareProposal and ProcessProposal.                                    *)
(***************************************************************************)
\* The two transactions: the block with the deposit it makes and whether it has
\* blobs, and the sidecars.  A block is
\*   "bad"     if its payload is not valid,
\*   "flawed"  if its payload is valid and something that the transition looks at
\*             after the payload is not: withdrawals, randao, deposits, state root,
\*   "cut"     if the decoder fails only where the commitments begin, because of
\*             the bytes after them, so that all of a good block without blobs is
\*             there (a bad block of that kind goes the way of one whose sidecars
\*             are garbled),
\*   "garbled" if the decoder fails before that, and "absent" if there is none.
\* Of a proposal with a block of the last three kinds the rest does not matter.
Blocks == {"good", "bad", "flawed", "cut", "garbled", "absent"}
Sidecars == {"good", "bad", "empty", "garbled"}
Proposal(blk, for, blobs, sidecars) ==
    IF blk \in {"good", "bad", "flawed"}
    THEN [blk |-> blk, for |-> for, blobs |-> blobs, sidecars |-> sidecars]
    ELSE [blk |-> blk, for |-> CHOOSE pk \in Pubkeys : TRUE, blobs |-> FALSE,
          sidecars |-> "garbled"]

\* This node proposes.  Without a payload the answer is empty.  The response may
\* be put together before the goroutines that encode block and sidecars are
\* done: a transaction that is not there yet is empty.
PrepareProposal(built, for, blobs, early) ==
    /\ proc = "running" /\ height <= MaxHeight
    /\ proposal = {} /\ decided = {}
    /\ built \in PayloadOutcomes[el]
    /\ proposal' =
           IF ~built
           THEN {Proposal("absent", for, FALSE, "garbled")}
           ELSE {Proposal(IF "block" \in early THEN "garbled" ELSE "good", for, blobs,
                          IF "sidecars" \in early THEN "garbled"
                          ELSE IF blobs THEN "good" ELSE "empty")}
    /\ UNCHANGED <<transport, el, elFaults, procVars, height, verdict, vouched, decided, pending, st,
                   valUpdates, comet>>

\* Another node proposes.
ReceiveProposal(blk, for, blobs, sidecars) ==
    /\ proc = "running" /\ height <= MaxHeight
    /\ proposal = {} /\ decided = {}
    /\ sidecars \in {"good", "bad"} => blobs
    /\ proposal' = {Proposal(blk, for, blobs, sidecars)}
    /\ UNCHANGED <<transport, el, elFaults, procVars, height, verdict, vouched, decided, pending, st,
                   valUpdates, comet>>

\* The execution client never calls a valid payload invalid, or the reverse.
Truthful(p, answer) ==
    /\ p.blk \in {"good", "flawed", "cut"} => answer # "INVALID"
    /\ p.blk = "bad" => answer # "VALID"

\* VerifyIncomingBlock: an error is fatal unless there is no block.  That the
\* decoder failed is ignored, and the block it has filled so far is there: it
\* fails for what is missing, and passes if nothing is.  With ACCEPTED the
\* transition ends at the payload, and what comes after it is not looked at.
VerifyIncomingBlock(p, answer) ==
    LET err == VerifyAndNotifyNewPayload(answer, TRUE, FALSE)
    IN IF p.blk = "absent" THEN "nonfatal"
       ELSE IF p.blk = "garbled" THEN "fatal"
       ELSE IF err = "ErrAcceptedPayloadStatus" \/ (err = NoError /\ p.blk # "flawed") THEN "nil"
       ELSE "fatal"
\* VerifyIncomingBlobs: sidecars that were not decoded are as good as none.
VerifyIncomingBlobs(p) ==
    IF p.blk = "absent" THEN "nonfatal"
    ELSE IF p.sidecars = "bad" THEN "fatal" ELSE "nil"
ReceiveBlockAndBlobs(p, answer) ==
    IF "fatal" \in {VerifyIncomingBlock(p, answer), VerifyIncomingBlobs(p)}
    THEN "fatal" ELSE "nonfatal"

ProcessProposal(answer) ==
    \E p \in proposal :
        /\ proc = "running" /\ verdict = "none" /\ decided = {}
        /\ answer \in Answers[el] /\ Truthful(p, answer)
        /\ verdict' = IF ReceiveBlockAndBlobs(p, answer) = "fatal" THEN "reject" ELSE "accept"
        /\ vouched' = (answer \in {"VALID", "ACCEPTED"})
        /\ UNCHANGED <<transport, el, elFaults, procVars, height, proposal, decided, pending, st,
                       valUpdates, comet>>

\* What validators can accept, their execution clients answering as they may.
Acceptable(p) ==
    \E answer \in AnyAnswer : Truthful(p, answer) /\ ReceiveBlockAndBlobs(p, answer) # "fatal"

\* CometBFT decides a proposal that the others accepted, whatever this node
\* said of it, or turns to the next round.
Decide ==
    \E p \in proposal :
        /\ verdict # "none" /\ Acceptable(p)
        /\ decided' = {p} /\ proposal' = {} /\ verdict' = "none" /\ vouched' = FALSE
        /\ UNCHANGED <<transport, el, elFaults, procVars, height, pending, st, valUpdates, comet>>
NextRound ==
    /\ verdict # "none"
    /\ proposal' = {} /\ verdict' = "none" /\ vouched' = FALSE
    /\ UNCHANGED <<transport, el, elFaults, procVars, height, decided, pending, st, valUpdates, comet>>

-----------------------------------------------------------------------------
(***************************************************************************)
(* FinalizeBlock: PreBlock, which fills the cache, and EndBlock, which     *)
(* reads it.                                                               *)
(***************************************************************************)
Update(s, pk) == [pk |-> pk, power |-> s.stake[pk]]
\* GetValidatorsByEffectiveBalance, as updates.
processSyncCommitteeUpdates(s) ==
    LET vals == {pk \in Pubkeys : s.stake[pk] > 0}
    IN [i \in 1 .. Cardinality(vals) |-> Update(s, SetToSeq(vals)[i])]

\* Mutant: only a block of the first slot of an epoch brings updates.
ProcessSlotsAtBoundary(s, slot) ==
    IF slot % SlotsPerEpoch = 0 THEN processSyncCommitteeUpdates(s) ELSE <<>>

\* The updates of ProcessSlots: one batch for every epoch that begins, one after
\* the other.
ProcessSlots(s, slot) ==
    LET batch == processSyncCommitteeUpdates(s)
        epochs == (slot \div SlotsPerEpoch) - (s.slot \div SlotsPerEpoch)
    IN [i \in 1 .. epochs * Len(batch) |-> batch[((i - 1) % Len(batch)) + 1]]
Transition(s, p, slot) ==
    [slot   |-> slot,
     stake  |-> [s.stake EXCEPT ![p.for] = @ + 1],
     synced |-> IF slot \div SlotsPerEpoch > s.slot \div SlotsPerEpoch THEN s.stake
                ELSE s.synced]

\* ExtractBlobsAndBlockFromRequest: both transactions have to be decoded to the end.
Extracted(p) == p.blk \notin {"absent", "garbled", "cut"} /\ p.sidecars # "garbled"

\* ProcessBlockAndBlobs: the engine is optimistic, the rest of the transition is
\* not, and the sidecars are stored.
ProcessBlockAndBlobs(p, answer) ==
    /\ VerifyAndNotifyNewPayload(answer, TRUE, TRUE) = NoError
    /\ p.blk # "flawed"
    /\ p.blobs => p.sidecars = "good"

\* Mutant: updates that have not been replaced by newer ones stay in the cache.
PreBlockKeeps(p, answer, cache) ==
    IF ~Extracted(p) \/ (cache # <<>> /\ ProcessBlockAndBlobs(p, answer)) THEN cache
    ELSE IF ProcessBlockAndBlobs(p, answer) THEN ProcessSlots(st, height) ELSE <<>>

\* PreBlock, with the cache it finds: the cache it leaves.
PreBlock(p, answer, cache) ==
    IF ~Extracted(p) THEN cache
    ELSE IF ProcessBlockAndBlobs(p, answer) THEN ProcessSlots(st, height) ELSE <<>>

\* One update for every public key, the later over the earlier one: the updates
\* that are left, at their positions.  Their order means nothing to CometBFT.
EndBlock(updates) ==
    LET last == {i \in DOMAIN updates :
                    \A j \in DOMAIN updates : updates[j].pk = updates[i].pk => j <= i}
    IN [i \in last |-> updates[i]]

\* CometBFT refuses updates with duplicate keys.
CometAccepts(updates) ==
    \A i, j \in DOMAIN updates : updates[i].pk = updates[j].pk => i = j
CometApply(updates) ==
    [pk \in Pubkeys |->
        IF \E i \in DOMAIN updates : updates[i].pk = pk
        THEN (CHOOSE u \in Range(updates) : u.pk = pk).power ELSE comet[pk]]

\* The result of FinalizeBlock: none if PreBlock fails or the updates are refused.
Finalized(p, answer, cache) ==
    LET updates == EndBlock(PreBlock(p, answer, cache))
        ok == /\ Extracted(p) => ProcessBlockAndBlobs(p, answer)
              /\ CometAccepts(updates)
    IN IF ok
       THEN {[st |-> IF Extracted(p) THEN Transition(st, p, height) ELSE st,
              comet |-> CometApply(updates)]}
       ELSE {}

FinalizeBlock(answer) ==
    \E p \in decided : \E result \in {Finalized(p, answer, valUpdates)} :
        /\ proc = "running" /\ pending = {}
        /\ answer \in Answers[el] /\ Truthful(p, answer)
        /\ valUpdates' = PreBlock(p, answer, valUpdates)
        /\ proc' = IF result # {} THEN proc ELSE "halted"
        /\ pending' = result
        /\ UNCHANGED <<transport, el, elFaults, crashes, started, client, height, proposal,
                       verdict, vouched, decided, st, comet>>

Commit ==
    \E r \in pending :
        /\ proc = "running"
        /\ st' = r.st /\ comet' = r.comet
        /\ height' = height + 1
        /\ decided' = {} /\ pending' = {}
        /\ UNCHANGED <<transport, el, elFaults, procVars, proposal, verdict, vouched, valUpdates>>

-----------------------------------------------------------------------------
Init ==
    /\ transport \in {"http", "ipc"} /\ el \in {"down", "up"} /\ elFaults = 0
    /\ proc = "down" /\ crashes = 0 /\ started = 0 /\ client = "nil"
    /\ height = 1 /\ proposal = {} /\ verdict = "none" /\ vouched = FALSE
    /\ decided = {} /\ pending = {}
    /\ st = [slot |-> 0, stake |-> [pk \in Pubkeys |-> IF pk \in GenesisPubkeys THEN 1 ELSE 0],
             synced |-> [pk \in Pubkeys |-> IF pk \in GenesisPubkeys THEN 1 ELSE 0]]
    /\ valUpdates = <<>>
    /\ comet = [pk \in Pubkeys |-> IF pk \in GenesisPubkeys THEN 1 ELSE 0]

StartAll == StartService \/ StartEngineClient \/ Load
Deliver == (\E answer \in AnyAnswer : FinalizeBlock(answer)) \/ Commit

Next ==
    \/ Boot \/ StartAll \/ JwtRefresh
    \/ Crash \/ ElStep
    \/ \E built, blobs \in BOOLEAN, for \in Pubkeys, early \in SUBSET {"block", "sidecars"} :
           PrepareProposal(built, for, blobs, early)
    \/ \E blk \in Blocks, for \in Pubkeys, blobs \in BOOLEAN, sidecars \in Sidecars :
           ReceiveProposal(blk, for, blobs, sidecars)
    \/ \E answer \in AnyAnswer : ProcessProposal(answer)
    \/ Decide \/ NextRound
    \/ Deliver

\* Go runs the goroutine of StartAll and its ticker.  Nothing is assumed of the
\* execution client or of CometBFT, and nobody has to start a process that is down.
Spec == Init /\ [][Next]_vars /\ WF_vars(StartAll)

-----------------------------------------------------------------------------
Powers == [Pubkeys -> 0 .. MaxHeight + 1]

TypeOK ==
    /\ el \in {"down", "up", "wrong"} /\ client \in {"nil", "open", "closed"}
    /\ proc \in {"down", "starting", "running", "halted"}
    /\ started \in 0 .. Len(serviceTypes)
    /\ height \in 1 .. MaxHeight + 1
    /\ comet \in Powers /\ st.stake \in Powers /\ st.synced \in Powers
    /\ valUpdates \in Seq([pk : Pubkeys, power : 1 .. MaxHeight + 1])

\* The voting powers in CometBFT are the stakes at the last epoch boundary that
\* the committed state has passed: no update is lost or comes late when blocks
\* are skipped, when the cache is still that of an earlier block, or when the
\* process restarts between FinalizeBlock and Commit.
CometFollowsState == TypeOK /\ comet = st.synced

\* A decided block is fatal to the node only if it has blobs and came without
\* them, or if it could be decided only because execution clients said ACCEPTED of
\* it and nobody looked at the rest; the state of the execution client, a block or
\* sidecars that cannot be decoded, and several epochs in one block are not.
HaltExplained ==
    proc = "halted" => \A p \in decided :
        /\ Extracted(p)
        /\ p.blk \in {"bad", "flawed"} \/ (p.blobs /\ p.sidecars # "good")

\* FinalizeBlock comes to the same end on every node: the state and the powers, or
\* the failure, are those of a node that has just been restarted, without a cache,
\* and whose execution client is still syncing, whatever the client of this one
\* answered, whatever its cache held and how often it has crashed
\* (finalize.go:115-179, engine.go:190-274).  Only over a payload that is not valid
\* nodes can differ, as some clients may know that and others not.
FinalizedAlike ==
    \A p \in decided :
        p.blk # "bad" /\ (pending # {} \/ proc = "halted") =>
            pending = Finalized(p, "SYNCING", <<>>)

\* The node accepts a block only if its execution client has vouched for the
\* payload; no failure of the call and no other status passes for that.  A block
\* that is there only in part is never accepted, though a failure of the decoder
\* alone does not make one rejected (validator.go:234-246, block.go:92-94).
AcceptedOnlyIfVouched ==
    verdict = "accept" => \A p \in proposal :
        p.blk # "absent" => p.blk # "garbled" /\ vouched

\* The inductive strengthening: there is a verdict only of a proposal, and there
\* is only one, with a block of one of the six kinds.
VerdictInv ==
    /\ proposal = {} => verdict = "none"
    /\ \A p, q \in proposal : p = q
    /\ \A p \in proposal : p.blk \in Blocks
    /\ AcceptedOnlyIfVouched

\* No ABCI handler finds the engine client without a connection made: the
\* registry starts CometBFT's side only after the first successful connection.
ConnectedBeforeHandlers == proc = "running" => client = "open"

\* The inductive strengthening: the services after the engine client start on
\* an open connection, and no restart keeps a count of started services.
StartupInv ==
    /\ started \in 0 .. Len(serviceTypes)
    /\ proc \in {"starting", "running"} /\ started > 3 => client = "open"
    /\ proc = "running" => started = Len(serviceTypes)

\* Starting the services comes to an end unless the execution client stays away
\* or serves another chain, and not before the connection is made
\* (registry.go:52-72, client.go:111-160).
StartupCompletes ==
    /\ []ConnectedBeforeHandlers
    /\ (proc = "starting") ~> (proc # "starting" \/ el # "up")

-----------------------------------------------------------------------------
(***************************************************************************)
(* The inductive strengthening of CometFollowsState, HaltExplained and     *)
(* FinalizedAlike.                                                         *)
(***************************************************************************)
Proposals == [blk : Blocks, for : Pubkeys, blobs : BOOLEAN, sidecars : Sidecars]
States == [slot : Nat, stake : [Pubkeys -> Nat], synced : [Pubkeys -> Nat]]
Results == [st : States, comet : [Pubkeys -> Nat]]

\* At most one decided block, which is acceptable; a round and a decided block
\* exclude each other, and only a decided block has a result or halts the node.
RoundInv ==
    /\ proposal \subseteq Proposals /\ decided \subseteq Proposals
    /\ \A p, q \in decided : p = q
    /\ \A p \in decided : Acceptable(p)
    /\ decided = {} \/ proposal = {}
    /\ proposal # {} \/ decided # {} => height <= MaxHeight
    /\ proposal = {} => verdict = "none"
    /\ pending # {} \/ proc = "halted" => decided # {}

\* A deposit adds one to a stake and there is one deposit to a block; a power
\* known to CometBFT is never above the stake, as nobody loses any.
Bounded(s, n) == \A pk \in Pubkeys : s.synced[pk] <= s.stake[pk] /\ s.stake[pk] <= n

\* What the cache holds is what CometBFT has been told already.
CacheIn(powers) ==
    \A i \in DOMAIN valUpdates : powers[valUpdates[i].pk] = valUpdates[i].power

PowersInv ==
    /\ height \in 1 .. MaxHeight + 1
    /\ st \in States /\ Bounded(st, height) /\ comet = st.synced
    /\ pending \subseteq Results
    /\ \A r \in pending : Bounded(r.st, height + 1) /\ r.comet = r.st.synced
    /\ valUpdates \in Seq([pk : Pubkeys, power : 1 .. MaxHeight + 1])
    /\ proc \in {"starting", "running"} =>
           /\ pending = {} => CacheIn(comet)
           /\ \A r \in pending : CacheIn(r.comet)

NodeInv ==
    /\ TypeOK /\ RoundInv /\ PowersInv /\ HaltExplained /\ FinalizedAlike
=============================================================================
