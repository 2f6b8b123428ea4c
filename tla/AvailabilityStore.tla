------------------------- MODULE AvailabilityStore -------------------------
(***************************************************************************)
(* Blob sidecars on one node: FinalizeBlock persists the sidecars of the   *)
(* decided block in a RangeDB, one goroutine per sidecar, and checks that  *)
(* all of them are there (beacon/blockchain, da/pkg/store); the pruner     *)
(* removes what has left the data availability window, driven by block     *)
(* events that may arrive late and out of order.  The node may crash at    *)
(* any point and replays the block it had not committed.                   *)
(***************************************************************************)
EXTENDS RangeDB, Sequences

CONSTANTS
    MinEpochs,         \* MinEpochsForBlobsSidecarsRequest, chain spec
    SlotsPerEpoch,     \* chain spec
    MaxSlot,           \* bound: length of the chain
    MaxRestarts,       \* bound: crashes and failed blocks
    MaxPruneFailures   \* bound: Prune calls that fail

ASSUME AvailabilityAssumption ==
    /\ MinEpochs \in Nat \ {0}
    /\ SlotsPerEpoch \in Nat \ {0}
    /\ MaxSlot \in Nat
    /\ MaxRestarts \in Nat
    /\ MaxPruneFailures \in Nat

VARIABLES
    blobs,          \* blobs[s]: commitments of the decided block of slot s
    height,         \* the last block ProcessBlockAndBlobs has accepted
    committed,      \* the last committed block
    processing,     \* ProcessBlockAndBlobs of block height + 1 is running
    writer,         \* writer[k]: what the goroutine that stores sidecar k does
    feedq,          \* finalized-block events the pruner has not received
    restarts,
    pruneFailures

nodeVars == <<blobs, height, committed, processing, writer, feedq, restarts, pruneFailures>>
vars == <<rangeVars, nodeVars>>

WriterStates == {"none", "create", "write", "stored", "failed"}
NoWriters == [k \in Keys |-> "none"]

-----------------------------------------------------------------------------
(* The data availability window, in slots and in epochs.                   *)

Window == MinEpochs * SlotsPerEpoch

SlotToEpoch(slot) == slot \div SlotsPerEpoch

WithinDAPeriod(block, current) == SlotToEpoch(block) + MinEpochs >= SlotToEpoch(current)

\* The range the availability pruner passes to Prune for the block of a slot.
PruneRangeFn(slot) ==
    IF slot < Window THEN [start |-> 0, end |-> 0] ELSE [start |-> 0, end |-> slot - Window]

\* IsDataAvailable: a file exists for every commitment of the block.
IsDataAvailable(slot) == \A k \in blobs[slot] : Has(slot, k)

Init ==
    /\ RangeInit
    /\ blobs = <<>>
    /\ height = 0
    /\ committed = 0
    /\ processing = FALSE
    /\ writer = NoWriters
    /\ feedq = {}
    /\ restarts = 0
    /\ pruneFailures = 0

\* FinalizeBlock of the next block, which consensus decides now or, after a
\* restart, has decided before: Persist starts one Set per sidecar.
BeginBlock ==
    /\ ~processing
    /\ committed = height
    /\ \/ height < Len(blobs) /\ blobs' = blobs
       \/ /\ height = Len(blobs)
          /\ height < MaxSlot
          /\ \E body \in SUBSET Keys : blobs' = Append(blobs, body)
    /\ processing' = TRUE
    /\ writer' = [k \in Keys |->
                     IF k \in blobs'[height + 1] /\ WithinDAPeriod(height + 1, height + 1)
                     THEN "create" ELSE "none"]
    /\ UNCHANGED <<rangeVars, height, committed, feedq, restarts, pruneFailures>>

CreateSidecar(k) ==
    /\ writer[k] = "create"
    /\ SetCreate(height + 1, k)
    /\ writer' = [writer EXCEPT ![k] = "write"]
    /\ UNCHANGED <<blobs, height, committed, processing, feedq, restarts, pruneFailures>>

WriteSidecar(k) ==
    /\ writer[k] = "write"
    /\ SetWrite(height + 1, k)
    /\ writer' = [writer EXCEPT ![k] = "stored"]
    /\ UNCHANGED <<blobs, height, committed, processing, feedq, restarts, pruneFailures>>

\* Create or Write returns an error; what was created stays.
SidecarFails(k) ==
    /\ writer[k] \in {"create", "write"}
    /\ writer' = [writer EXCEPT ![k] = "failed"]
    /\ UNCHANGED <<rangeVars, blobs, height, committed, processing, feedq, restarts,
                   pruneFailures>>

WritersDone == processing /\ \A k \in Keys : writer[k] \notin {"create", "write"}

Persisted == \A k \in Keys : writer[k] # "failed"

\* Mutant of AcceptBlock: a sidecar that could not be stored is ignored.
AcceptBlockUnpersisted ==
    /\ WritersDone
    /\ IsDataAvailable(height + 1)
    /\ height' = height + 1
    /\ processing' = FALSE
    /\ writer' = NoWriters
    /\ feedq' = feedq \cup {height + 1}
    /\ UNCHANGED <<rangeVars, blobs, committed, restarts, pruneFailures>>

\* g.Wait() returns nil and the data is available: the block is accepted and its
\* event is sent by a goroutine.
AcceptBlock ==
    /\ WritersDone
    /\ Persisted
    /\ IsDataAvailable(height + 1)
    /\ height' = height + 1
    /\ processing' = FALSE
    /\ writer' = NoWriters
    /\ feedq' = feedq \cup {height + 1}
    /\ UNCHANGED <<rangeVars, blobs, committed, restarts, pruneFailures>>

Commit ==
    /\ committed < height
    /\ committed' = height
    /\ UNCHANGED <<rangeVars, blobs, height, processing, writer, feedq, restarts,
                   pruneFailures>>

\* Mutant of Restart: events of the earlier process are still delivered.
RestartKeepsEvents ==
    /\ restarts < MaxRestarts
    /\ restarts' = restarts + 1
    /\ RangeRestart
    /\ height' = committed
    /\ processing' = FALSE
    /\ writer' = NoWriters
    /\ UNCHANGED <<blobs, committed, feedq, pruneFailures>>

\* The process ends and starts again from the committed state.
Restart ==
    /\ restarts < MaxRestarts
    /\ restarts' = restarts + 1
    /\ RangeRestart
    /\ height' = committed
    /\ processing' = FALSE
    /\ writer' = NoWriters
    /\ feedq' = {}
    /\ UNCHANGED <<blobs, committed, pruneFailures>>

\* ProcessBlockAndBlobs returns an error: FinalizeBlock fails and CometBFT
\* stops the process.
RejectBlock ==
    /\ WritersDone
    /\ ~(Persisted /\ IsDataAvailable(height + 1))
    /\ Restart

Crash == Restart

\* The pruner receives an event: nothing orders the goroutines that send them.
PrunerReceive(h) ==
    /\ h \in feedq
    /\ PruneBegin(PruneRangeFn(h).start, PruneRangeFn(h).end)
    /\ feedq' = feedq \ {h}
    /\ UNCHANGED <<blobs, height, committed, processing, writer, restarts, pruneFailures>>

PrunerStep == PruneStep /\ UNCHANGED nodeVars

PrunerFails ==
    /\ pruneFailures < MaxPruneFailures
    /\ PruneFail
    /\ pruneFailures' = pruneFailures + 1
    /\ UNCHANGED <<blobs, height, committed, processing, writer, feedq, restarts>>

PrunerEnds == PruneEnd /\ UNCHANGED nodeVars

Next ==
    \/ BeginBlock
    \/ \E k \in Keys : CreateSidecar(k) \/ WriteSidecar(k) \/ SidecarFails(k)
    \/ AcceptBlock
    \/ RejectBlock
    \/ Commit
    \/ Crash
    \/ \E h \in feedq : PrunerReceive(h)
    \/ PrunerStep
    \/ PrunerFails
    \/ PrunerEnds

Spec == Init /\ [][Next]_vars

\* The pruner's goroutine runs and the feed delivers.
Fairness ==
    /\ WF_vars(\E h \in feedq : PrunerReceive(h))
    /\ WF_vars(PrunerStep)
    /\ WF_vars(PrunerEnds)

FairSpec == Spec /\ Fairness

-----------------------------------------------------------------------------
(* Properties.                                                             *)

TypeOK ==
    /\ files \subseteq Nat \X Keys
    /\ whole \subseteq files
    /\ firstNonNilIndex \in Nat
    /\ prune \in [from : Nat, to : Nat] \cup {NoPrune}
    /\ blobs \in Seq(SUBSET Keys)
    /\ height \in 0..Len(blobs)
    /\ committed \in 0..height
    /\ processing \in BOOLEAN
    /\ writer \in [Keys -> WriterStates]
    /\ feedq \subseteq 1..height
    /\ restarts \in 0..MaxRestarts
    /\ pruneFailures \in 0..MaxPruneFailures

\* The last Window accepted blocks have all their sidecars on disk, completely
\* written, whatever crashes, failed writes and late or reordered pruning events
\* came before (store.go:74-117, pruner.go:25-39).  It is Window blocks and not
\* one more: the pruner follows blocks that are accepted and not yet committed,
\* and a crash takes the node back by one.
WindowAvailable ==
    \A s \in 1..height :
        s + Window > height => \A k \in blobs[s] : <<s, k>> \in whole

\* The same counted from the committed height, which a crash does not change.
CommittedWindowAvailable ==
    \A s \in 1..height :
        s + Window > committed => \A k \in blobs[s] : <<s, k>> \in whole

\* A running Prune stays below the blocks it was asked to prune for, and has left
\* nothing behind it.
PruneIsBehind ==
    prune # NoPrune =>
        /\ prune.from <= height
        /\ prune.to = 0 \/ prune.to + Window <= height
        /\ \A f \in files : f[1] >= prune.from

\* What the goroutines of the running block have done so far.
WritersAreRight ==
    /\ height <= committed + 1
    /\ processing => height = committed /\ height < Len(blobs)
    /\ ~processing => \A k \in Keys : writer[k] = "none"
    /\ processing => \A k \in blobs[height + 1] : writer[k] # "none"
    /\ \A k \in Keys : writer[k] = "write" => <<height + 1, k>> \in files
    /\ \A k \in Keys : writer[k] = "stored" => <<height + 1, k>> \in whole

\* The inductive invariant behind the theorems of AvailabilityStoreProofs.
AvailabilityInv ==
    /\ TypeOK
    /\ firstNonNilIndex <= height
    /\ NoIndexBelowFirst
    /\ PruneIsBehind
    /\ WritersAreRight
    /\ CommittedWindowAvailable

\* What has left the window is removed in the end although one Prune may fail:
\* two events ask for the removal of a slot's blobs, and a failure of the first
\* resets the bound so that the second begins again from zero
\* (range_db.go:106-113).  A restart forgets the events on their way.
EventuallyPruned ==
    \A s \in 1..MaxSlot :
        (height > s + Window + 1) ~> (restarts > 0 \/ \A f \in files : f[1] # s)
=============================================================================
