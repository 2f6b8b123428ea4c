-------------------------- MODULE PayloadBuilding --------------------------
(***************************************************************************)
(* How one node obtains the execution payload of its own proposals: the    *)
(* payload builder and its payload ID cache (payload/pkg), the goroutines  *)
(* that ask for payloads ahead of time after ProcessProposal and after     *)
(* FinalizeBlock (beacon/blockchain), the proposal itself                  *)
(* (beacon/validator) and the execution client behind the engine API.      *)
(* ABCI calls come one after the other; the goroutines they leave behind   *)
(* run on, with a lock only around each access to the cache.               *)
(*                                                                         *)
(* A block is named by <<slot, variant>>, which stands for its root and    *)
(* for the hash of its payload: the variants of a slot are the proposals   *)
(* of its rounds, all with the finalized block of the slot before as       *)
(* parent.  The state after a block is named by the block.                 *)
(***************************************************************************)
EXTENDS Integers, Sequences, FiniteSets

CONSTANTS
    Configurations,           \* the values of OptimisticPayloadBuilds
    VerifyOutcomes,           \* how VerifyIncomingBlock may end, a subset of Outcomes
    None,                     \* no root, no payload, no ABCI call
    SyncCall,                 \* PrepareProposal is in RequestPayloadAsync
    CacheSize,                \* historicalPayloadIDCacheSize
    Variants,                 \* bound: proposals per slot
    MaxSlot,                  \* bound, by configuration: length of the chain
    MaxRequests,              \* bound: goroutines that ask for a payload, at a time
    MaxPosts,                 \* bound: goroutines after FinalizeBlock, at a time
    MaxElRestarts,            \* bound, by configuration: restarts of the execution client
    MaxCrashes                \* bound, by configuration: crashes of the node

\* "valid": no error.  "accepted": NewPayload answers ACCEPTED, which stops the
\* transition and is then ignored.  "rejected": any other error.
Outcomes == {"valid", "accepted", "rejected"}

ASSUME PayloadAssumption ==
    /\ Configurations \subseteq BOOLEAN
    /\ VerifyOutcomes \subseteq Outcomes
    /\ CacheSize \in Nat
    /\ {MaxRequests, MaxPosts} \subseteq Nat
    /\ {MaxSlot, MaxElRestarts, MaxCrashes} \subseteq [Configurations -> Nat]

VARIABLES
    optimistic,  \* OptimisticPayloadBuilds of the blockchain service's configuration
    chain,       \* chain[s]: the variant that consensus decided in slot s
    height,      \* the last block passed to FinalizeBlock
    committed,   \* the last committed block
    started,     \* forceStartupSyncOnce has run
    cache,       \* the payload ID cache: entries [slot, root, payload]
    requests,    \* running RequestPayloadAsync calls
    posts,       \* goroutines after FinalizeBlock: [blk, lph]
    abci,        \* the running PrepareProposal: None, SyncCall, or the payload it waits for
    proposal,    \* what PrepareProposal has returned in this slot: [slot, payload], or None
    elPayloads,  \* payloads the execution client is building
    elFinal,     \* finalized hash last told to the execution client
    elRestarts,
    crashes

vars == <<optimistic, chain, height, committed, started, cache, requests,
          posts, abci, proposal, elPayloads, elFinal, elRestarts, crashes>>

-----------------------------------------------------------------------------
(* Blocks, payloads and requests.                                          *)

Genesis == <<0, 0>>
Roots == {Genesis} \cup ((1..MaxSlot[optimistic]) \X Variants)
Slot(root) == root[1]

\* None and SyncCall are neither a payload nor each other.
AllRoots == {Genesis} \cup (Nat \X Variants)
ASSUME DistinctAssumption ==
    /\ None # SyncCall
    /\ {None, SyncCall} \cap [parent : AllRoots, attrs : AllRoots] = {}

\* The finalized block of slot s, and the parent of a block.
Block(s) == IF s = 0 THEN Genesis ELSE <<s, chain[s]>>
Parent(root) == IF root = Genesis THEN Genesis ELSE Block(Slot(root) - 1)
Finalized == {Block(s) : s \in 0..Len(chain)}

\* A payload ID stands for the payload: its parent, and the state that the
\* randao mix and the withdrawals of its attributes were read from.
Payloads == [parent : Roots, attrs : Roots]
Extends(root) == [parent |-> root, attrs |-> root]

\* The arguments of RequestPayloadAsync and the step the call is at.
Requests == [kind : {"optimistic", "rebuild", "nextblock", "sync"},
             slot : 0..(MaxSlot[optimistic] + 1), root : Roots, payload : Payloads,
             final : Roots, pc : {"read", "get", "fcu", "set"}]

Request(kind, slot, root, parent, attrs, final, pc) ==
    [kind |-> kind, slot |-> slot, root |-> root,
     payload |-> [parent |-> parent, attrs |-> attrs], final |-> final, pc |-> pc]

-----------------------------------------------------------------------------
(* The payload ID cache.                                                   *)

\* Mutant of Get: the parent root is not compared.
GetBySlot(slot, root) == {e.payload : e \in {c \in cache : c.slot = slot}}

\* The cached payloads for a slot and a parent root: at most one.
Get(slot, root) == {e.payload : e \in {c \in cache : c.slot = slot /\ c.root = root}}

\* Set prunes the slots below slot - CacheSize, then inserts or overwrites.
CacheAfterSet(slot, root, payload) ==
    {e \in cache : (slot >= CacheSize => e.slot >= slot - CacheSize)
                   /\ ~(e.slot = slot /\ e.root = root)}
    \cup {[slot |-> slot, root |-> root, payload |-> payload]}

-----------------------------------------------------------------------------
Init ==
    /\ optimistic \in Configurations
    /\ chain = <<>>
    /\ height = 0
    /\ committed = 0
    /\ started = FALSE
    /\ cache = {}
    /\ requests = {}
    /\ posts = {}
    /\ abci = None
    /\ proposal = None
    /\ elPayloads = {}
    /\ elFinal = Genesis
    /\ elRestarts = 0
    /\ crashes = 0

\* CometBFT calls PrepareProposal and ProcessProposal between two blocks.
BetweenBlocks == abci = None /\ committed = height /\ height < MaxSlot[optimistic]

\* The first VerifyIncomingBlock sends the forkchoice of the committed state.
ForceStartupHead ==
    /\ started' = TRUE
    /\ \/ ~started /\ elFinal' = Parent(Block(committed))
       \/ elFinal' = elFinal

\* Mutant of OptimisticRequest: the block just verified is called finalized.
OptimisticRequestFinal(blk, attrs) ==
    Request("optimistic", Slot(blk) + 1, blk, blk, attrs, blk, "get")

\* optimisticPayloadBuild for the slot after a block that was accepted.
OptimisticRequest(blk, attrs) ==
    Request("optimistic", Slot(blk) + 1, blk, blk, attrs, Parent(blk), "get")

\* rebuildPayloadForRejectedBlock: the slot and the root it passes on are read
\* from the state later, when the goroutine runs.
RebuildRequest == Request("rebuild", 0, Genesis, Genesis, Genesis, Genesis, "read")

\* ProcessProposal of one of the slot's proposals.  An accepted payload status
\* ends the transition before the block's randao and withdrawals are applied:
\* the copy of the state that is used afterwards still has those of the parent.
ProcessProposal(v, outcome) ==
    LET blk == <<height + 1, v>>
        request == CASE outcome = "valid"    -> OptimisticRequest(blk, blk)
                     [] outcome = "accepted" -> OptimisticRequest(blk, Block(height))
                     [] outcome = "rejected" -> RebuildRequest
    IN  /\ BetweenBlocks
        /\ Cardinality(requests) < MaxRequests
        /\ ForceStartupHead
        /\ requests' = IF optimistic THEN requests \cup {request} ELSE requests
        /\ UNCHANGED <<optimistic, chain, height, committed, cache, posts, abci, proposal, elPayloads,
                       elRestarts, crashes>>

\* The rebuild goroutine reads slot, block root and payload header from the
\* state of its context: the last committed one.
RebuildRead(g) ==
    LET blk == Block(committed) IN
    /\ g.pc = "read"
    /\ requests' = (requests \ {g})
                     \cup {Request("rebuild", Slot(blk), blk, blk, blk, blk, "get")}
    /\ UNCHANGED <<optimistic, chain, height, committed, started, cache, posts, abci, proposal,
                   elPayloads, elFinal, elRestarts, crashes>>

-----------------------------------------------------------------------------
(* RequestPayloadAsync: look up, send the forkchoice update, store.        *)

\* The call returns; PrepareProposal is the only caller that uses the result.
Return(g, payload) ==
    /\ requests' = requests \ {g}
    /\ abci' = IF g.kind = "sync" THEN payload ELSE abci

Advance(g, pc) ==
    /\ requests' = (requests \ {g}) \cup {[g EXCEPT !.pc = pc]}
    /\ UNCHANGED abci

RequestGet(g) ==
    /\ g.pc = "get"
    /\ IF Get(g.slot, g.root) = {}
       THEN Advance(g, "fcu")
       ELSE \E payload \in Get(g.slot, g.root) : Return(g, payload)
    /\ UNCHANGED <<optimistic, chain, height, committed, started, cache, posts, proposal, elPayloads,
                   elFinal, elRestarts, crashes>>

\* The execution client starts the build and returns a payload ID.
RequestFCU(g) ==
    /\ g.pc = "fcu"
    /\ elPayloads' = elPayloads \cup {g.payload}
    /\ elFinal' = g.final
    /\ Advance(g, "set")
    /\ UNCHANGED <<optimistic, chain, height, committed, started, cache, posts, proposal, elRestarts,
                   crashes>>

\* No payload ID: SYNCING, an invalid head, or an error.
RequestFCUFails(g) ==
    /\ g.pc = "fcu"
    /\ Return(g, None)
    /\ UNCHANGED <<optimistic, chain, height, committed, started, cache, posts, proposal, elPayloads,
                   elFinal, elRestarts, crashes>>

RequestSet(g) ==
    /\ g.pc = "set"
    /\ cache' = CacheAfterSet(g.slot, g.root, g.payload)
    /\ Return(g, g.payload)
    /\ UNCHANGED <<optimistic, chain, height, committed, started, posts, proposal, elPayloads,
                   elFinal, elRestarts, crashes>>

-----------------------------------------------------------------------------
(* PrepareProposal.                                                        *)

SyncRequest ==
    LET lph == Block(height)
    IN  Request("sync", height + 1, lph, lph, lph, Parent(lph), "get")

\* RetrievePayload finds a cached ID and the execution client has the payload.
PrepareCached ==
    /\ BetweenBlocks
    /\ \E payload \in Get(height + 1, Block(height)) \cap elPayloads :
          proposal' = [slot |-> height + 1, payload |-> payload]
    /\ UNCHANGED <<optimistic, chain, height, committed, started, cache, requests, posts, abci,
                   elPayloads, elFinal, elRestarts, crashes>>

\* RetrievePayload fails, because nothing is cached or GetPayload fails, and
\* RequestPayloadSync calls RequestPayloadAsync.
PrepareSync ==
    /\ BetweenBlocks
    /\ abci' = SyncCall
    /\ proposal' = None
    /\ requests' = requests \cup {SyncRequest}
    /\ UNCHANGED <<optimistic, chain, height, committed, started, cache, posts, elPayloads, elFinal,
                   elRestarts, crashes>>

\* RequestPayloadSync has waited PayloadTimeout and gets the payload.
GetPayload ==
    /\ abci \in elPayloads
    /\ proposal' = [slot |-> height + 1, payload |-> abci]
    /\ abci' = None
    /\ UNCHANGED <<optimistic, chain, height, committed, started, cache, requests, posts, elPayloads,
                   elFinal, elRestarts, crashes>>

\* The client does not answer, or does not know the ID: no block is proposed.
GetPayloadFails ==
    /\ abci \in Payloads
    /\ abci' = None
    /\ UNCHANGED <<optimistic, chain, height, committed, started, cache, requests, posts, proposal,
                   elPayloads, elFinal, elRestarts, crashes>>

-----------------------------------------------------------------------------
(* FinalizeBlock and what follows it.                                      *)

FinalizeBlock ==
    /\ BetweenBlocks
    /\ Cardinality(posts) < MaxPosts
    /\ \/ height < Len(chain) /\ chain' = chain
       \/ height = Len(chain) /\ \E v \in Variants : chain' = Append(chain, v)
    /\ height' = height + 1
    /\ posts' = posts \cup {[blk |-> <<height + 1, chain'[height + 1]>>, lph |-> None]}
    /\ proposal' = None
    /\ UNCHANGED <<optimistic, committed, started, cache, requests, abci, elPayloads, elFinal,
                   elRestarts, crashes>>

\* Mutant of Commit: it counts from one.
CommitOffByOne ==
    /\ committed < height
    /\ committed' = height + 1
    /\ UNCHANGED <<optimistic, chain, height, started, cache, requests, posts, abci, proposal,
                   elPayloads, elFinal, elRestarts, crashes>>

Commit ==
    /\ committed < height
    /\ committed' = height
    /\ UNCHANGED <<optimistic, chain, height, started, cache, requests, posts, abci, proposal,
                   elPayloads, elFinal, elRestarts, crashes>>

\* The state the goroutine of blk sees: its own until it is committed, and from
\* then on the last committed one, which may already be a later one.
StateSeen(blk) == IF committed < Slot(blk) THEN blk ELSE Block(committed)

\* sendPostBlockFCU reads the latest payload header.
PostRead(p) ==
    /\ p.lph = None
    /\ posts' = (posts \ {p}) \cup {[p EXCEPT !.lph = StateSeen(p.blk)]}
    /\ UNCHANGED <<optimistic, chain, height, committed, started, cache, requests, abci, proposal,
                   elPayloads, elFinal, elRestarts, crashes>>

\* sendNextFCUWithoutAttributes; the client may be unable to answer.
PostFCU(p) ==
    /\ optimistic
    /\ p.lph # None
    /\ posts' = posts \ {p}
    /\ elFinal' \in {Parent(p.lph), elFinal}
    /\ UNCHANGED <<optimistic, chain, height, committed, started, cache, requests, abci, proposal,
                   elPayloads, elRestarts, crashes>>

\* sendNextFCUWithAttributes copies the state it sees now and asks for a payload.
PostRequest(p) ==
    /\ ~optimistic
    /\ p.lph # None
    /\ Cardinality(requests) < MaxRequests
    /\ posts' = posts \ {p}
    /\ requests' = requests \cup
         {Request("nextblock", Slot(p.blk) + 1, p.blk, p.lph, StateSeen(p.blk),
                  Parent(p.lph), "get")}
    /\ UNCHANGED <<optimistic, chain, height, committed, started, cache, abci, proposal, elPayloads,
                   elFinal, elRestarts, crashes>>

-----------------------------------------------------------------------------
(* Failures.                                                               *)

\* The execution client restarts and forgets the payloads it was building.
ElRestart ==
    /\ elRestarts < MaxElRestarts[optimistic]
    /\ elRestarts' = elRestarts + 1
    /\ elPayloads' = {}
    /\ UNCHANGED <<optimistic, chain, height, committed, started, cache, requests, posts, abci,
                   proposal, elFinal, crashes>>

Crash ==
    /\ crashes < MaxCrashes[optimistic]
    /\ crashes' = crashes + 1
    /\ height' = committed
    /\ started' = FALSE
    /\ cache' = {}
    /\ requests' = {}
    /\ posts' = {}
    /\ abci' = None
    /\ proposal' = None
    /\ UNCHANGED <<optimistic, chain, committed, elPayloads, elFinal, elRestarts>>

Next ==
    \/ \E v \in Variants, outcome \in VerifyOutcomes : ProcessProposal(v, outcome)
    \/ \E g \in requests : RebuildRead(g)
    \/ \E g \in requests : RequestGet(g)
    \/ \E g \in requests : RequestFCU(g)
    \/ \E g \in requests : RequestFCUFails(g)
    \/ \E g \in requests : RequestSet(g)
    \/ PrepareCached
    \/ PrepareSync
    \/ GetPayload
    \/ GetPayloadFails
    \/ FinalizeBlock
    \/ Commit
    \/ \E p \in posts : PostRead(p)
    \/ \E p \in posts : PostFCU(p)
    \/ \E p \in posts : PostRequest(p)
    \/ ElRestart
    \/ Crash

Spec == Init /\ [][Next]_vars

-----------------------------------------------------------------------------
(* Properties.                                                             *)

TypeOK ==
    /\ optimistic \in Configurations
    /\ chain \in Seq(Variants)
    /\ height \in 0..Len(chain)
    /\ committed \in 0..height
    /\ started \in BOOLEAN
    /\ cache \subseteq [slot : 0..(MaxSlot[optimistic] + 1), root : Roots, payload : Payloads]
    /\ requests \subseteq Requests
    /\ posts \subseteq [blk : Roots, lph : Roots \cup {None}]
    /\ abci \in Payloads \cup {None, SyncCall}
    /\ proposal \in [slot : 1..(MaxSlot[optimistic] + 1), payload : Payloads] \cup {None}
    /\ elPayloads \subseteq Payloads
    /\ elFinal \in Roots
    /\ elRestarts \in 0..MaxElRestarts[optimistic]
    /\ crashes \in 0..MaxCrashes[optimistic]

\* propose.go:60-64: "The goal here is to acquire a payload whose parent is the
\* previously finalized block".  Whichever goroutine asked for it, and however
\* late, the payload of a proposal extends the finalized block and was built from
\* the state after it, so that the other validators do not reject it.
ProposalExtendsFinalized ==
    proposal # None => proposal.payload = Extends(Block(proposal.slot - 1))

\* The execution client is never told that a block is finalized which consensus
\* has not decided, although payloads are built on proposals that may still be
\* abandoned (payload.go:240-257).
ElFinalIsFinalized == elFinal \in Finalized

\* What makes it so: the goroutines only know of decided blocks as finalized.
FinalInv ==
    /\ TypeOK
    /\ Len(chain) <= MaxSlot[optimistic]
    /\ ElFinalIsFinalized
    /\ \A g \in requests : g.final \in Finalized
    /\ \A p \in posts : p.blk \in Finalized /\ p.lph \in Finalized \cup {None}

\* Where a proposer may look, a payload on the block is cached: the entries for
\* another slot than the next are of rebuilds, and those with a payload on a later
\* block are of goroutines so late that their block is no longer the last one.
EntryRight(e) ==
    \/ e.slot = Slot(e.root)
    \/ /\ e.slot = Slot(e.root) + 1
       /\ Slot(e.root) < committed \/ e.payload = Extends(e.root)
RequestRight(g) ==
    /\ g.pc # "read" => EntryRight(g)
    /\ g.kind = "sync" => /\ abci = SyncCall /\ g.pc # "read"
                         /\ g.slot = height + 1 /\ g.root = Block(height)
PostRight(p) == p.lph = None \/ p.lph = p.blk \/ Slot(p.blk) < committed
CallRight ==
    /\ abci # None => committed = height
    /\ abci \in Payloads => abci = Extends(Block(height))
    /\ \A g, h \in requests : g.kind = "sync" /\ h.kind = "sync" => g = h
BuildInv ==
    /\ \A e \in cache : EntryRight(e)
    /\ \A g \in requests : RequestRight(g)
    /\ \A p \in posts : PostRight(p)
    /\ CallRight
    /\ ProposalExtendsFinalized

\* receive.go:171-173 says of an ACCEPTED payload status: "It is safe for the
\* validator to ignore this error", so the payloads that are built on such a
\* block are as good as any other.
AcceptedStatusIsSafe == ProposalExtendsFinalized
=============================================================================
