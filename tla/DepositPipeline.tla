-------------------------- MODULE DepositPipeline --------------------------
(***************************************************************************)
(* How a deposit made on the execution layer reaches the beacon state:     *)
(* the deposit service (execution/pkg/deposit), the deposit store and its  *)
(* pruner (storage/pkg/deposit, storage/pkg/pruner), the dequeue by the    *)
(* proposer (beacon/validator) and the deposit counter of the state        *)
(* processor (state-transition/pkg/core), on several nodes that share one  *)
(* finalized chain.                                                        *)
(*                                                                         *)
(* A deposit is its index in the contract's log.  Beacon block h carries   *)
(* the execution payload with number h, so execution blocks are named by   *)
(* the height that carries them.                                           *)
(***************************************************************************)
EXTENDS Integers, Sequences, FiniteSets

CONSTANTS
    Nodes,                \* the validators' nodes
    GenesisDeposits,      \* deposits of the genesis file, all counted in eth1DepositIndex
    MaxDepositsPerBlock,  \* chain spec
    Eth1FollowDistance,   \* chain spec
    MaxElLag,             \* how many blocks a node's execution client may be behind the node
    U64Mod,               \* number of values of a uint64
    NoBlock,              \* "no event" / "idle"
    MaxHeight,            \* bound: length of the finalized chain
    DepositsPerEth1Block, \* bound: how many deposits one execution block may bring
    MaxFailedBlocks,      \* bound: size of a node's failedBlocks
    MaxCrashes            \* bound: crashes, summed over the nodes

ASSUME ConstantsAssumption ==
    /\ GenesisDeposits \in Nat
    /\ MaxDepositsPerBlock \in Nat \ {0}
    /\ Eth1FollowDistance \in Nat
    /\ MaxElLag \in Nat
    /\ U64Mod \in Nat
    /\ MaxHeight \in Nat
    /\ MaxHeight + Eth1FollowDistance < U64Mod
    /\ DepositsPerEth1Block \subseteq Nat
    /\ MaxFailedBlocks \in Nat
    /\ MaxCrashes \in Nat
    /\ NoBlock \notin Nat

Subscribers == {"fetcher", "pruner"}

VARIABLES
    chain,      \* the finalized blocks: [logs, deps, next]
    height,     \* height[n]: the last block n has passed to FinalizeBlock
    committed,  \* committed[n]: the last block whose state n has committed
    feedq,      \* feedq[n]: heights whose goroutine has not yet got the feed's send lock
    sending,    \* sending[n]: the event being sent and the subscribers that miss it
    fetcher,    \* fetcher[n]: block number the depositFetcher works on, or NoBlock
    pruner,     \* pruner[n]: height of the event the deposit pruner works on, or NoBlock
    store,      \* store[n]: indices in the deposit store (on disk)
    failed,     \* failed[n]: the deposit service's failedBlocks (in memory)
    lost,       \* lost[n]: history, block numbers whose fetch a crash has forgotten
    crashes     \* number of crashes so far

vars == <<chain, height, committed, feedq, sending, fetcher, pruner, store,
          failed, lost, crashes>>

Heights == 1..MaxHeight
Blocks == [logs : Nat, deps : Seq(Nat), next : Nat]
Idle == [h |-> NoBlock, todo |-> {}]

-----------------------------------------------------------------------------
(* The chain and the deposit contract.                                     *)

\* The contract's depositCount after execution block b (0 before the first).
DepositCount(b) == IF b \in DOMAIN chain THEN chain[b].logs ELSE 0

\* The Deposit events of execution block b, by index.
LogsOf(b) == IF b \in DOMAIN chain THEN DepositCount(b - 1)..(chain[b].logs - 1) ELSE {}

\* Eth1DepositIndex of the beacon state after block h.
Eth1DepositIndex(h) == IF h \in DOMAIN chain THEN chain[h].next ELSE GenesisDeposits

\* Mutant of FetchNumber: the follow distance is not subtracted.
FetchNumberOfHead(h) == h

\* The block number depositFetcher asks for: a uint64 subtraction, which wraps.
FetchNumber(h) ==
    IF h >= Eth1FollowDistance THEN h - Eth1FollowDistance
    ELSE h - Eth1FollowDistance + U64Mod

-----------------------------------------------------------------------------
(* The deposit store.                                                      *)

\* Mutant of GetDepositsByIndex: a missing index is skipped instead of ending
\* the read.
GetDepositsByIndexSkippingGaps(S, start, numView) ==
    LET found == { i \in S : i >= start /\ i < start + numView } IN
    { d \in [1..Cardinality(found) -> found] :
        \A i, j \in DOMAIN d : i < j => d[i] < d[j] }

\* What GetDepositsByIndex(start, numView) may return (one sequence): it reads
\* upwards from start and stops at the first index the store does not hold.
GetDepositsByIndex(S, start, numView) ==
    { [i \in 1..num |-> start + i - 1] :
        num \in { k \in 0..numView :
                    /\ \A i \in 0..(k - 1) : start + i \in S
                    /\ k = numView \/ start + k \notin S } }

\* Mutant of PruneRange: the range begins at the last deposit of the block
\* instead of ending there.
PruneRangeForward(deps) ==
    IF Len(deps) = 0 THEN [start |-> 0, end |-> 0]
    ELSE [start |-> deps[Len(deps)], end |-> MaxDepositsPerBlock]

\* The range the deposit pruner passes to Prune for a block with these deposits.
PruneRange(deps) ==
    LET index == deps[Len(deps)] IN
    IF Len(deps) = 0 THEN [start |-> 0, end |-> 0]
    ELSE IF index < MaxDepositsPerBlock
         THEN [start |-> 0, end |-> index]
         ELSE [start |-> index - MaxDepositsPerBlock, end |-> MaxDepositsPerBlock]

\* What KVStore.Prune(start, end) removes.
PrunedIndices(start, end) == start..(start + end - 1)

-----------------------------------------------------------------------------
Init ==
    /\ chain = <<>>
    /\ height = [n \in Nodes |-> 0]
    /\ committed = [n \in Nodes |-> 0]
    /\ feedq = [n \in Nodes |-> {}]
    /\ sending = [n \in Nodes |-> Idle]
    /\ fetcher = [n \in Nodes |-> NoBlock]
    /\ pruner = [n \in Nodes |-> NoBlock]
    /\ store = [n \in Nodes |-> {}]
    /\ failed = [n \in Nodes |-> {}]
    /\ lost = [n \in Nodes |-> {}]
    /\ crashes = 0

\* Node n proposes the next block from its committed state and its store, and
\* consensus decides it.  The payload brings newLogs deposits to the contract.
ProposeBlock(n) ==
    /\ Len(chain) < MaxHeight
    /\ committed[n] = Len(chain)
    /\ LET index == Eth1DepositIndex(committed[n]) IN
       \E newLogs \in DepositsPerEth1Block,
          deps \in GetDepositsByIndex(store[n], index, MaxDepositsPerBlock) :
            chain' = Append(chain,
                [logs |-> DepositCount(Len(chain)) + newLogs,
                 deps |-> deps,
                 next |-> index + Len(deps)])
    /\ UNCHANGED <<height, committed, feedq, sending, fetcher, pruner, store,
                   failed, lost, crashes>>

\* Mutant of FinalizeBlock: it does not wait for a decided block.
FinalizeBlockUndecided(n) ==
    /\ committed[n] = height[n]
    /\ height' = [height EXCEPT ![n] = @ + 1]
    /\ feedq' = [feedq EXCEPT ![n] = @ \cup {height[n] + 1}]
    /\ UNCHANGED <<chain, committed, sending, fetcher, pruner, store, failed,
                   lost, crashes>>

\* FinalizeBlock applies the next decided block and starts the goroutine that
\* announces it on the block feed.
FinalizeBlock(n) ==
    /\ height[n] < Len(chain)
    /\ committed[n] = height[n]
    /\ height' = [height EXCEPT ![n] = @ + 1]
    /\ feedq' = [feedq EXCEPT ![n] = @ \cup {height[n] + 1}]
    /\ UNCHANGED <<chain, committed, sending, fetcher, pruner, store, failed,
                   lost, crashes>>

Commit(n) ==
    /\ committed[n] < height[n]
    /\ committed' = [committed EXCEPT ![n] = height[n]]
    /\ UNCHANGED <<chain, height, feedq, sending, fetcher, pruner, store,
                   failed, lost, crashes>>

\* One of the waiting goroutines gets the send lock: nothing orders them.
SendEvent(n, h) ==
    /\ h \in feedq[n]
    /\ sending[n] = Idle
    /\ feedq' = [feedq EXCEPT ![n] = @ \ {h}]
    /\ sending' = [sending EXCEPT ![n] = [h |-> h, todo |-> Subscribers]]
    /\ UNCHANGED <<chain, height, committed, fetcher, pruner, store, failed,
                   lost, crashes>>

\* A subscriber's receive; Send returns when the last one has received.
Deliver(n, s) ==
    LET todo == sending[n].todo \ {s} IN
    /\ s \in sending[n].todo
    /\ sending' = [sending EXCEPT ![n] =
                      IF todo = {} THEN Idle ELSE [@ EXCEPT !.todo = todo]]

FetcherReceive(n) ==
    /\ fetcher[n] = NoBlock
    /\ Deliver(n, "fetcher")
    /\ fetcher' = [fetcher EXCEPT ![n] = FetchNumber(sending[n].h)]
    /\ UNCHANGED <<chain, height, committed, feedq, pruner, store, failed, lost,
                   crashes>>

PrunerReceive(n) ==
    /\ pruner[n] = NoBlock
    /\ Deliver(n, "pruner")
    /\ pruner' = [pruner EXCEPT ![n] = sending[n].h]
    /\ UNCHANGED <<chain, height, committed, feedq, fetcher, store, failed, lost,
                   crashes>>

PruneDeposits(n) ==
    /\ pruner[n] # NoBlock
    /\ LET range == PruneRange(chain[pruner[n]].deps)
       IN  store' = [store EXCEPT ![n] = @ \ PrunedIndices(range.start, range.end)]
    /\ pruner' = [pruner EXCEPT ![n] = NoBlock]
    /\ UNCHANGED <<chain, height, committed, feedq, sending, fetcher, failed, lost,
                   crashes>>

\* ReadDeposits(b) on n's execution client, whose head is at most MaxElLag
\* blocks behind: asked for a block it does not have, it finds no logs.
ReadDeposits(n, b, deposits) ==
    \E head \in (height[n] - MaxElLag)..height[n] :
        deposits = IF b <= head THEN LogsOf(b) ELSE {}

\* The three ends of fetchAndStoreDeposits: all deposits stored; the read
\* failed; or Set failed after a prefix of the block's deposits was stored.
FetchSucceeds(n, b) ==
    \E deposits \in {LogsOf(b), {}} :
        /\ ReadDeposits(n, b, deposits)
        /\ store' = [store EXCEPT ![n] = @ \cup deposits]
        /\ failed' = [failed EXCEPT ![n] = @ \ {b}]

\* Mutant of FetchFails: the failed block is not remembered.
FetchFailsForgotten(n, b) ==
    /\ Cardinality(failed[n] \cup {b}) <= MaxFailedBlocks
    /\ store' = store
    /\ failed' = failed

FetchFails(n, b) ==
    /\ Cardinality(failed[n] \cup {b}) <= MaxFailedBlocks
    /\ \E deposits \in {LogsOf(b), {}} :
        /\ ReadDeposits(n, b, deposits)
        /\ \E stored \in SUBSET deposits :
            /\ \A i \in stored : \A j \in deposits : j < i => j \in stored
            /\ store' = [store EXCEPT ![n] = @ \cup stored]
    /\ failed' = [failed EXCEPT ![n] = @ \cup {b}]

FetchStep(n, b) == FetchSucceeds(n, b) \/ FetchFails(n, b)

FetcherFetch(n) ==
    /\ fetcher[n] # NoBlock
    /\ FetchStep(n, fetcher[n])
    /\ fetcher' = [fetcher EXCEPT ![n] = NoBlock]
    /\ UNCHANGED <<chain, height, committed, feedq, sending, pruner, lost, crashes>>

\* One iteration of depositCatchupFetcher's loop over failedBlocks.
CatchupFetch(n, b) ==
    /\ b \in failed[n]
    /\ FetchStep(n, b)
    /\ UNCHANGED <<chain, height, committed, feedq, sending, fetcher, pruner,
                   lost, crashes>>

\* The block numbers node n still has to fetch.
Outstanding(n) ==
    failed[n] \cup {FetchNumber(h) : h \in feedq[n]}
    \cup (IF "fetcher" \in sending[n].todo THEN {FetchNumber(sending[n].h)} ELSE {})
    \cup (IF fetcher[n] # NoBlock THEN {fetcher[n]} ELSE {})

\* The block number whose event comes again when a block is replayed.
Replayed(n) ==
    IF committed[n] < height[n] THEN {FetchNumber(height[n])} ELSE {}

\* A crash loses everything in memory.  After the restart CometBFT replays a
\* block that was finalized and not committed, so its event is sent again.
Crash(n) ==
    /\ crashes < MaxCrashes
    /\ crashes' = crashes + 1
    /\ height' = [height EXCEPT ![n] = committed[n]]
    /\ lost' = [lost EXCEPT ![n] = @ \cup (Outstanding(n) \ Replayed(n))]
    /\ feedq' = [feedq EXCEPT ![n] = {}]
    /\ sending' = [sending EXCEPT ![n] = Idle]
    /\ fetcher' = [fetcher EXCEPT ![n] = NoBlock]
    /\ pruner' = [pruner EXCEPT ![n] = NoBlock]
    /\ failed' = [failed EXCEPT ![n] = {}]
    /\ UNCHANGED <<chain, committed, store>>

NodeStep(n) ==
    \/ ProposeBlock(n)
    \/ FinalizeBlock(n)
    \/ Commit(n)
    \/ \E h \in feedq[n] : SendEvent(n, h)
    \/ FetcherReceive(n)
    \/ PrunerReceive(n)
    \/ PruneDeposits(n)
    \/ FetcherFetch(n)
    \/ \E b \in failed[n] : CatchupFetch(n, b)
    \/ Crash(n)

Next == \E n \in Nodes : NodeStep(n)

Spec == Init /\ [][Next]_vars

\* The goroutines run, and the execution client, asked again and again, answers.
Fairness ==
    \A n \in Nodes :
        /\ WF_vars(FinalizeBlock(n))
        /\ WF_vars(Commit(n))
        /\ WF_vars(\E h \in feedq[n] : SendEvent(n, h))
        /\ WF_vars(FetcherReceive(n))
        /\ WF_vars(PrunerReceive(n))
        /\ WF_vars(PruneDeposits(n))
        /\ WF_vars(FetcherFetch(n))
        /\ \A b \in 0..(MaxHeight - 1) :
              SF_vars(CatchupFetch(n, b) /\ FetchSucceeds(n, b))

FairSpec == Spec /\ Fairness

-----------------------------------------------------------------------------
(* Properties.                                                             *)

TypeOK ==
    /\ chain \in Seq(Blocks)
    /\ Len(chain) <= MaxHeight
    /\ height \in [Nodes -> 0..Len(chain)]
    /\ committed \in [Nodes -> 0..Len(chain)]
    /\ feedq \in [Nodes -> SUBSET (1..Len(chain))]
    /\ sending \in [Nodes -> [h : 1..Len(chain), todo : SUBSET Subscribers] \cup {Idle}]
    /\ fetcher \in [Nodes -> 0..(U64Mod - 1) \cup {NoBlock}]
    /\ pruner \in [Nodes -> 1..Len(chain) \cup {NoBlock}]
    /\ store \in [Nodes -> SUBSET Nat]
    /\ failed \in [Nodes -> SUBSET (0..(U64Mod - 1))]
    /\ lost \in [Nodes -> SUBSET (0..(U64Mod - 1))]
    /\ crashes \in 0..MaxCrashes

\* processDeposit counts deposits and never looks at a deposit's own index
\* (state_processor_staking.go:106-117): the counter is right only because
\* every block's deposits are the next ones of the contract's log, in order,
\* without a gap or a repetition, whichever node's store they came from.
AppliedInLogOrder ==
    \A h \in DOMAIN chain :
        /\ chain[h].deps = [i \in 1..Len(chain[h].deps) |-> Eth1DepositIndex(h - 1) + i - 1]
        /\ Eth1DepositIndex(h) = Eth1DepositIndex(h - 1) + Len(chain[h].deps)

\* A deposit enters the beacon state only when its execution block is at least
\* Eth1FollowDistance + 1 blocks old (sync.go:47-49): the block at height h
\* applies no deposit that the contract did not already hold Eth1FollowDistance
\* blocks below its parent.
AppliedOnlyWhenFollowed ==
    \A h \in DOMAIN chain :
        \A i \in DOMAIN chain[h].deps :
            chain[h].deps[i] < DepositCount(h - 1 - Eth1FollowDistance)

\* The contract's count and the beacon chain's counter never go back.
CountersMonotone ==
    \A g, h \in DOMAIN chain :
        g <= h => chain[g].logs <= chain[h].logs /\ chain[g].next <= chain[h].next

\* Events in flight are about blocks the node has finalized.
EventsAreFinalized ==
    \A n \in Nodes :
        /\ committed[n] <= height[n]
        /\ \A h \in feedq[n] : h <= height[n]
        /\ sending[n] # Idle => sending[n].h <= height[n]
        /\ pruner[n] # NoBlock => pruner[n] <= height[n]

\* A block number to fetch is Eth1FollowDistance below the chain's head, or it
\* comes from a wrapped subtraction and is no block of the chain.
Fetchable(b) == b + Eth1FollowDistance <= Len(chain) \/ b > MaxHeight

FetchesAreFollowed ==
    \A n \in Nodes :
        /\ \A b \in failed[n] : Fetchable(b)
        /\ fetcher[n] # NoBlock => Fetchable(fetcher[n])

\* No store holds a deposit younger than the follow distance.
StoresAreFollowed ==
    \A n \in Nodes : \A i \in store[n] : i < DepositCount(Len(chain) - Eth1FollowDistance)

\* The inductive invariant behind the theorems of DepositPipelineProofs.
PipelineInv ==
    /\ TypeOK
    /\ CountersMonotone
    /\ AppliedInLogOrder
    /\ AppliedOnlyWhenFollowed
    /\ EventsAreFinalized
    /\ FetchesAreFollowed
    /\ StoresAreFollowed

\* The pipeline, with its several stores, event queues and retries, is a queue:
\* what the blocks apply is what DepositQueue allows.
Queue == INSTANCE DepositQueue WITH
    counts <- [h \in DOMAIN chain |-> chain[h].logs],
    next <- Eth1DepositIndex(Len(chain))

\* Every step that changes the finalized chain takes its deposits from the head
\* of the queue, and only deposits old enough to be followed.
ImplementsQueue == Queue!Spec

\* The pruner works from events that arrive late and out of order, and never
\* removes a deposit the beacon state has not counted yet (pruner.go:41-52).
PrunerKeepsUnapplied ==
    [][\A n \in Nodes : \A i \in store[n] \ store'[n] :
          i < Eth1DepositIndex(height[n])]_vars

\* No deposit is lost on the way into a node's store: the logs of every block
\* far enough behind the node are stored, or already applied, or the block is
\* waiting to be fetched (queued event, running fetch, failedBlocks), unless a
\* crash forgot it (sync.go:88-114).
NoSilentLoss ==
    \A n \in Nodes :
        \A b \in 1..(height[n] - Eth1FollowDistance) :
            \/ b \in Outstanding(n) \cup lost[n]
            \/ \A i \in LogsOf(b) : i \in store[n] \/ i < Eth1DepositIndex(Len(chain))

\* Every deposit that is old enough for a node ends in its store or is applied
\* first, unless a crash forgot its block: failed reads are retried until they
\* succeed (sync.go:66-86).
EventuallyStored ==
    \A n \in Nodes, b \in Heights :
        (b <= height[n] - Eth1FollowDistance)
            ~> (\/ b \in lost[n]
                \/ \A i \in LogsOf(b) : i \in store[n] \/ i < Eth1DepositIndex(Len(chain)))
=============================================================================
