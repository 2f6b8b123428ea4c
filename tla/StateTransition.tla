--------------------------- MODULE StateTransition ---------------------------
(***************************************************************************)
(* The state transition of the beacon chain and the three callers that     *)
(* must agree on it: the proposer, who runs it without checks to learn the *)
(* state root of his block; the verifier of a proposal, who runs it with   *)
(* all checks on a copy of the state; and the finalizer, who runs it with  *)
(* an optimistic engine.  Slots are heights of CometBFT; a height can pass *)
(* without a block, and a height can take several rounds.                  *)
(*                                                                         *)
(* A root is an index into hashes, the table of everything that has been   *)
(* hashed (0 is the zero root): equal values have equal roots and          *)
(* different ones do not.  A randao mix is the set of reveals that were    *)
(* XORed into it, so that a reveal that is mixed in twice cancels.  The    *)
(* registry, deposits and withdrawals are modelled in Staking and          *)
(* DepositPipeline; here a block is within their limits or not.            *)
(***************************************************************************)
EXTENDS Naturals, Sequences, FiniteSets

CONSTANTS
    Validators,                 \* the proposers
    SlotsPerEpoch, SlotsPerHistoricalRoot,
    EpochsPerHistoricalVector, EpochsPerSlashingsVector,
    Faults,                     \* what a proposal may get wrong, with "none"
    MaxSlot, MaxRounds          \* bounds: heights, failed rounds in all

ASSUME BoundsAssumption ==
    /\ {SlotsPerEpoch, SlotsPerHistoricalRoot, EpochsPerHistoricalVector,
        EpochsPerSlashingsVector} \subseteq Nat \ {0}
    /\ MaxSlot \in Nat /\ MaxRounds \in Nat
    /\ "none" \in Faults

VARIABLES
    height,     \* the height CometBFT is working on
    round,      \* the failed rounds so far
    st,         \* the committed beacon state
    proposal,   \* the proposals of this round: none or one block
    verdict,    \* what the verifier said of it: "accept" after all checks, "halfway"
                \* for an acceptance on the status ACCEPTED, "reject"
    post,       \* the state the verifier was left with: none or one
    payloads,   \* payloads under construction, by slot and parent root
    chain,      \* history: the finalized blocks
    hashes      \* history: everything that was hashed

vars == <<height, round, st, proposal, verdict, post, payloads, chain, hashes>>

-----------------------------------------------------------------------------
ZeroRoot == 0
historicalPayloadIDCacheSize == 2

RootOf(x, tab) == IF \E i \in 1 .. Len(tab) : tab[i] = x
                  THEN CHOOSE i \in 1 .. Len(tab) : tab[i] = x
                  ELSE Len(tab) + 1
Remember(x, tab) == IF \E i \in 1 .. Len(tab) : tab[i] = x THEN tab ELSE Append(tab, x)

SlotToEpoch(slot) == slot \div SlotsPerEpoch
Xor(a, b) == (a \ b) \cup (b \ a)

\* The reveal of a proposer: his signature of the epoch.
Reveal(v, epoch) == <<v, epoch>>

Header(b) == [slot |-> b.slot, proposer |-> b.proposer, parent |-> b.parent,
              stateRoot |-> b.stateRoot, body |-> b.body]

GenesisBody == [reveal |-> <<>>, payload |-> <<>>, fault |-> "none"]
GenesisState ==
    [slot |-> 0,
     header |-> [slot |-> 0, proposer |-> "none", parent |-> ZeroRoot,
                 stateRoot |-> ZeroRoot, body |-> GenesisBody],
     blockRoots |-> [i \in 0 .. SlotsPerHistoricalRoot - 1 |-> ZeroRoot],
     stateRoots |-> [i \in 0 .. SlotsPerHistoricalRoot - 1 |-> ZeroRoot],
     mixes |-> [i \in 0 .. EpochsPerHistoricalVector - 1 |-> {}],
     slashings |-> {},
     payload |-> <<0, 0>>]

-----------------------------------------------------------------------------
(***************************************************************************)
(* ProcessSlots.                                                           *)
(***************************************************************************)
\* Mutant: the root of the header before it has its state root.
processSlotRawHeader(w) ==
    LET i    == w.st.slot % SlotsPerHistoricalRoot
        prev == RootOf(w.st, w.tab)
        tab1 == Remember(w.st, w.tab)
        s1   == [w.st EXCEPT !.stateRoots[i] = prev,
                             !.blockRoots[i] = RootOf(w.st.header, tab1)]
    IN [st  |-> [s1 EXCEPT !.header.stateRoot = IF @ = ZeroRoot THEN prev ELSE @],
        tab |-> Remember(w.st.header, tab1)]

processSlot(w) ==
    LET i      == w.st.slot % SlotsPerHistoricalRoot
        prev   == RootOf(w.st, w.tab)
        header == [w.st.header EXCEPT !.stateRoot = IF @ = ZeroRoot THEN prev ELSE @]
        tab1   == Remember(w.st, w.tab)
    IN [st  |-> [w.st EXCEPT !.stateRoots[i] = prev, !.header = header,
                             !.blockRoots[i] = RootOf(header, tab1)],
        tab |-> Remember(header, tab1)]

\* The rewards are zero for everyone; a slashing of zero creates its entry.
processSlashingsReset(s) ==
    [s EXCEPT !.slashings = @ \cup {(SlotToEpoch(s.slot) + 1) % EpochsPerSlashingsVector}]

processRandaoMixesReset(s) ==
    LET e == SlotToEpoch(s.slot)
    IN [s EXCEPT !.mixes[(e + 1) % EpochsPerHistoricalVector] =
                     s.mixes[e % EpochsPerHistoricalVector]]
processEpoch(s) == processRandaoMixesReset(processSlashingsReset(s))

\* One round of the loop of ProcessSlots.
advanceSlot(w) ==
    LET y == processSlot(w)
        z == IF (w.st.slot + 1) % SlotsPerEpoch = 0 THEN processEpoch(y.st) ELSE y.st
    IN [st |-> [z EXCEPT !.slot = @ + 1], tab |-> y.tab]
advanceSlots(w) ==
    LET after[n \in Nat] == IF n = 0 THEN w ELSE advanceSlot(after[n - 1])
    IN after
ProcessSlots(w, slot) ==
    IF slot <= w.st.slot THEN w ELSE advanceSlots(w)[slot - w.st.slot]

-----------------------------------------------------------------------------
(***************************************************************************)
(* ProcessBlock and Transition, in the order of their checks.  ctx says    *)
(* which checks are skipped, engine what the execution engine answers.     *)
(***************************************************************************)
ProposerCtx == [optimistic |-> TRUE, skipPayload |-> TRUE, skipResult |-> TRUE,
                skipRandao |-> TRUE]
VerifierCtx == [optimistic |-> FALSE, skipPayload |-> FALSE, skipResult |-> FALSE,
                skipRandao |-> FALSE]
\* Mutant: FinalizeBlock insists on the execution engine.
FinalizerCtxStrict == [optimistic |-> FALSE, skipPayload |-> FALSE, skipResult |-> FALSE,
                       skipRandao |-> FALSE]

\* What NewPayload comes to: VALID, ACCEPTED, INVALID, or any other status or error.
Answers == {"valid", "accepted", "invalid", "failed"}

FinalizerCtx == [optimistic |-> TRUE, skipPayload |-> FALSE, skipResult |-> FALSE,
                 skipRandao |-> FALSE]

\* Mutant: the parent root is not compared.
HeaderOKAnyParent(s, tab, b) ==
    /\ b.slot = s.slot
    /\ b.slot > s.header.slot
    /\ b.body.fault # "deposits"

HeaderOK(s, tab, b) ==
    /\ b.slot = s.slot
    /\ b.slot > s.header.slot
    /\ RootOf(s.header, tab) = b.parent
    /\ b.body.fault # "deposits"
processBlockHeader(s, b) == [s EXCEPT !.header = [Header(b) EXCEPT !.stateRoot = ZeroRoot]]

\* What is checked before the execution engine is asked.
PayloadLinked(s, b) == b.body.payload.parent = s.payload /\ b.body.fault # "hashes"
validateExecutionPayload(ctx, s, b, engine) ==
    /\ PayloadLinked(s, b)
    /\ engine # "invalid" /\ (ctx.optimistic \/ engine = "valid")
    /\ b.body.payload.prevRandao =
           s.mixes[SlotToEpoch(s.slot) % EpochsPerHistoricalVector]
    /\ b.body.fault \notin {"blobs", "withdrawals"}
processExecutionPayload(s, b) == [s EXCEPT !.payload = b.body.payload.hash]

RandaoOK(ctx, s, b) ==
    ctx.skipRandao \/ b.body.reveal = Reveal(b.proposer, SlotToEpoch(s.slot))
processRandaoReveal(s, b) ==
    [s EXCEPT !.mixes[SlotToEpoch(s.slot) % EpochsPerHistoricalVector] =
                  Xor(@, {b.body.reveal})]

ProcessBlock(ctx, w, b, engine) ==
    LET s1 == processBlockHeader(w.st, b)
        s2 == processExecutionPayload(s1, b)
        s3 == processRandaoReveal(s2, b)
    IN [ok |-> /\ HeaderOK(w.st, w.tab, b)
               /\ ctx.skipPayload \/ validateExecutionPayload(ctx, s1, b, engine)
               /\ RandaoOK(ctx, s2, b)
               /\ ctx.skipResult \/ b.stateRoot = RootOf(s3, w.tab),
        st |-> s3,
        tab |-> IF ctx.skipResult THEN w.tab ELSE Remember(s3, w.tab)]

Transition(ctx, s, tab, b, engine) ==
    ProcessBlock(ctx, ProcessSlots([st |-> s, tab |-> tab], b.slot), b, engine)

\* The transition that ErrAcceptedPayloadStatus ends half-way: the header is in the
\* state, the payload, the reveal and everything after them are not, and nothing
\* behind the call of the engine is checked.
AcceptedTransition(s, tab, b) ==
    LET w == ProcessSlots([st |-> s, tab |-> tab], b.slot)
    IN [ok  |-> HeaderOK(w.st, w.tab, b) /\ PayloadLinked(w.st, b),
        st  |-> processBlockHeader(w.st, b),
        tab |-> w.tab]

-----------------------------------------------------------------------------
(***************************************************************************)
(* RequestBlockForProposal.                                                *)
(***************************************************************************)
\* Mutant: the parent root is read at the requested slot.
getEmptyBeaconBlockAtSlot(s, slot, v) ==
    [slot |-> slot, proposer |-> v,
     parent |-> s.blockRoots[slot % SlotsPerHistoricalRoot],
     stateRoot |-> ZeroRoot, body |-> GenesisBody]

getEmptyBeaconBlockForSlot(s, slot, v) ==
    [slot |-> slot, proposer |-> v,
     parent |-> s.blockRoots[(slot - 1) % SlotsPerHistoricalRoot],
     stateRoot |-> ZeroRoot, body |-> GenesisBody]

\* The payload that the execution client builds from getPayloadAttribute, with a
\* mark (history) if s is a state that a transition left half-way.
getPayload(s, slot, hash, head, halfway) ==
    [hash |-> hash, parent |-> head,
     prevRandao |-> s.mixes[SlotToEpoch(slot) % EpochsPerHistoricalVector],
     halfway |-> halfway]

\* RetrievePayload, and RequestPayloadSync when nothing was built for the slot
\* on this parent.
retrieveExecutionPayload(s, b) ==
    LET built == {p \in payloads : p.slot = b.slot /\ p.parentRoot = b.parent}
    IN IF built # {} THEN (CHOOSE p \in built : TRUE).payload
       ELSE getPayload(s, b.slot, <<b.slot, 2 * round>>, s.payload, FALSE)

\* PayloadIDCache.Set: the last payload that was started for a slot and a parent;
\* slots that are historicalPayloadIDCacheSize behind are dropped.
SetPayload(slot, parentRoot, p) ==
    {q \in payloads : /\ q.slot # slot \/ q.parentRoot # parentRoot
                      /\ q.slot + historicalPayloadIDCacheSize >= slot}
        \cup {[slot |-> slot, parentRoot |-> parentRoot, payload |-> p]}

computeAndSetStateRoot(w, b) ==
    LET t == Transition(ProposerCtx, w.st, w.tab, b, "valid")
    IN [blk |-> [b EXCEPT !.stateRoot = RootOf(t.st, t.tab)], tab |-> Remember(t.st, t.tab)]

\* A proposer whose block is wrong in one respect.
Wrong(b, fault) ==
    CASE fault = "parent"    -> [b EXCEPT !.parent = ZeroRoot]
      [] fault = "payload"   -> [b EXCEPT !.body.payload.parent = <<b.slot, 0>>]
      [] fault = "mix"       -> [b EXCEPT !.body.payload.prevRandao = {<<>>}]
      [] fault = "reveal"    -> [b EXCEPT !.body.reveal[2] = @ + 1]
      [] OTHER               -> b

RequestBlockForProposal(v, fault) ==
    LET w == ProcessSlots([st |-> st, tab |-> hashes], height)
        b == getEmptyBeaconBlockForSlot(w.st, height, v)
        c == [b EXCEPT !.body = [reveal  |-> Reveal(v, SlotToEpoch(height)),
                                 payload |-> retrieveExecutionPayload(w.st, b),
                                 fault   |-> fault]]
        d == computeAndSetStateRoot(w, Wrong(c, fault))
    IN /\ height <= MaxSlot
       /\ fault = "none" \/ round < MaxRounds
       /\ proposal = {}
       /\ proposal' = {IF fault = "stateRoot" THEN [d.blk EXCEPT !.stateRoot = ZeroRoot]
                                              ELSE d.blk}
       /\ hashes' = d.tab
       /\ UNCHANGED <<height, round, st, verdict, post, payloads, chain>>

-----------------------------------------------------------------------------
(***************************************************************************)
(* VerifyIncomingBlock on a copy of the state, and the payload build that  *)
(* follows it in a goroutine: for the next slot after an accepted block,   *)
(* again for the state's slot after a rejected one.  When the execution    *)
(* client answers ACCEPTED, the error is dropped and the block is accepted *)
(* with the transition half-way; the payload build then uses that state.   *)
(***************************************************************************)
VerifyIncomingBlock(engine) ==
    \E b \in proposal :
        LET full == Transition(VerifierCtx, st, hashes, b, engine)
            half == AcceptedTransition(st, hashes, b)
            t    == IF engine = "accepted" /\ half.ok THEN half ELSE full
        IN /\ verdict = "none"
           /\ verdict' = IF ~t.ok THEN "reject"
                         ELSE IF engine = "accepted" THEN "halfway" ELSE "accept"
           /\ post' = IF t.ok THEN {t.st} ELSE {st}
           /\ hashes' = t.tab
           /\ UNCHANGED <<height, round, st, proposal, payloads, chain>>

handleOptimisticPayloadBuild ==
    \E b \in proposal, s \in post :
        LET slot == b.slot + 1
            tab  == Remember(Header(b), hashes)
            w    == ProcessSlots([st |-> s, tab |-> tab], slot)
            p    == getPayload(w.st, slot, <<slot, 2 * round + 1>>, b.body.payload.hash,
                               verdict = "halfway")
        IN /\ verdict \in {"accept", "halfway"}
           /\ payloads' = SetPayload(slot, RootOf(Header(b), tab), p)
           /\ post' = {}
           /\ hashes' = w.tab
           /\ UNCHANGED <<height, round, st, proposal, verdict, chain>>

handleRebuildPayloadForRejectedBlock ==
    \E s \in post :
        LET tab    == Remember(s, hashes)
            header == [s.header EXCEPT !.stateRoot = RootOf(s, tab)]
            tab1   == Remember(header, tab)
            p      == getPayload(s, s.slot, <<s.slot, 2 * round + 1>>, s.payload, FALSE)
        IN /\ verdict = "reject"
           /\ payloads' = SetPayload(s.slot, RootOf(header, tab1), p)
           /\ post' = {}
           /\ hashes' = tab1
           /\ UNCHANGED <<height, round, st, proposal, verdict, chain>>

-----------------------------------------------------------------------------
NewHeight ==
    /\ height' = height + 1
    /\ proposal' = {} /\ verdict' = "none" /\ post' = {}

\* The block has the votes of two thirds of the validators: FinalizeBlock and
\* Commit.  An error of the transition stops the node, which then takes no step.
FinalizeBlock(engine) ==
    \E b \in proposal :
        LET t == Transition(FinalizerCtx, st, hashes, b, engine)
        IN /\ verdict \in {"accept", "halfway"}
           /\ t.ok
           /\ st' = t.st
           /\ hashes' = t.tab
           /\ chain' = Append(chain, b)
           /\ NewHeight
           /\ UNCHANGED <<round, payloads>>

\* The round fails: the proposal is rejected, or does not get enough votes.
NextRound ==
    /\ round < MaxRounds
    /\ proposal # {} /\ verdict # "none"
    /\ round' = round + 1
    /\ proposal' = {} /\ verdict' = "none" /\ post' = {}
    /\ UNCHANGED <<height, st, payloads, chain, hashes>>

\* The proposer had no block to offer: the empty proposal is accepted and the
\* height passes without a change of the state.
SkipHeight ==
    /\ height <= MaxSlot
    /\ proposal = {}
    /\ NewHeight
    /\ UNCHANGED <<round, st, payloads, chain, hashes>>

-----------------------------------------------------------------------------
Init ==
    /\ height = 1 /\ round = 0
    /\ st = GenesisState
    /\ proposal = {} /\ verdict = "none" /\ post = {}
    /\ payloads = {}
    /\ chain = <<>> /\ hashes = <<>>

Next ==
    \/ \E v \in Validators, fault \in Faults : RequestBlockForProposal(v, fault)
    \/ \E engine \in Answers : VerifyIncomingBlock(engine)
    \/ \E engine \in Answers : FinalizeBlock(engine)
    \/ handleOptimisticPayloadBuild
    \/ handleRebuildPayloadForRejectedBlock
    \/ NextRound
    \/ SkipHeight

Spec == Init /\ [][Next]_vars
-----------------------------------------------------------------------------
\* The execution client does not call a payload invalid that it has called valid,
\* but it may be gone, or be syncing again.
Consistent == Answers \ {"invalid"}

Roots == 0 .. Len(hashes)
Reveals == {Reveal(v, e) : v \in Validators, e \in 0 .. SlotToEpoch(MaxSlot) + 1}

TypeOK ==
    /\ height \in 1 .. MaxSlot + 1 /\ round \in 0 .. MaxRounds
    /\ verdict \in {"none", "accept", "halfway", "reject"}
    /\ Cardinality(proposal) <= 1 /\ Cardinality(post) <= 1
    /\ st.slot \in 0 .. MaxSlot
    /\ st.blockRoots \in [0 .. SlotsPerHistoricalRoot - 1 -> Roots]
    /\ st.stateRoots \in [0 .. SlotsPerHistoricalRoot - 1 -> Roots]
    /\ \A i \in DOMAIN st.mixes : st.mixes[i] \subseteq Reveals

\* Built by the rules, on a payload that was not begun on the half-way state of a
\* block whose payload the execution client had only ACCEPTED.
Honest(b) == b.body.fault = "none" /\ ~b.body.payload.halfway

\* A block that is built by the rules is accepted by every verifier whose engine
\* says VALID: proposer and verifier reach the same state root, parent root and
\* randao mix along different ways (the proposer advances the slots before he
\* builds, skips the checks, and may use a payload that was built ahead of time
\* on another state), also across epochs and heights without a block.  The one
\* exception is a payload from an optimistic build after the status ACCEPTED
\* (receive.go:170-176): it has the mix of the block before.
HonestBlockAccepted ==
    \A b \in proposal : Honest(b) =>
        Transition(VerifierCtx, st, hashes, b, "valid").ok

\* A block that ProcessProposal accepted after all its checks does not fail in
\* FinalizeBlock, be the execution client still there or not: an error there stops
\* the chain.  It says nothing of a block that was accepted on the status ACCEPTED
\* ("halfway"), whose later checks are made in FinalizeBlock for the first time.
AcceptedBlockFinalizes ==
    \A b \in proposal : verdict = "accept" =>
        \A engine \in Consistent :
            Transition(FinalizerCtx, st, hashes, b, engine).ok

IsRoot(r, x) == r \in 1 .. Len(hashes) /\ hashes[r] = x
LastBlockAt(slot) == {i \in 1 .. Len(chain) : chain[i].slot <= slot
                                                /\ \A j \in i + 1 .. Len(chain) : chain[j].slot > slot}

\* Within the window of SLOTS_PER_HISTORICAL_ROOT the block roots are the roots
\* of the blocks as they were proposed, the last one before a height without a
\* block included: the header of the state gets its state root only one slot
\* later, and must then be the header that the block announced.
BlockRoots ==
    \A slot \in 0 .. st.slot - 1 : slot + SlotsPerHistoricalRoot >= st.slot =>
        \A i \in LastBlockAt(slot) :
            IsRoot(st.blockRoots[slot % SlotsPerHistoricalRoot], Header(chain[i]))

\* The state roots of the same window are the ones the blocks announced.
StateRoots ==
    \A i \in 1 .. Len(chain) :
        chain[i].slot < st.slot /\ chain[i].slot + SlotsPerHistoricalRoot >= st.slot =>
            st.stateRoots[chain[i].slot % SlotsPerHistoricalRoot] = chain[i].stateRoot

\* The mix of each of the last EPOCHS_PER_HISTORICAL_VECTOR epochs is the XOR of
\* the reveals of all blocks up to the end of that epoch, also when an epoch
\* boundary falls into heights without a block.
MixAfter(epoch) ==
    LET past == {i \in 1 .. Len(chain) : SlotToEpoch(chain[i].slot) <= epoch}
    IN {r \in Reveals : Cardinality({i \in past : chain[i].body.reveal = r}) % 2 = 1}
Mixes ==
    \A e \in 0 .. SlotToEpoch(st.slot) :
        e + EpochsPerHistoricalVector > SlotToEpoch(st.slot) =>
            st.mixes[e % EpochsPerHistoricalVector] = MixAfter(e)

\* The three rings that the state keeps of its past say what the finalized chain
\* says, however often they have wrapped, across epochs, heights without a block
\* and transitions that were thrown away (state_processor.go:222-275,
\* state_processor_randao.go:34-133).
RingsFollowChain == TypeOK /\ BlockRoots /\ StateRoots /\ Mixes

\* Every finalized block names the root of the block before it as parent, and
\* its payload extends the payload of that block.
ChainLinked ==
    \A i \in 2 .. Len(chain) :
        /\ IsRoot(chain[i].parent, Header(chain[i - 1]))
        /\ chain[i].body.payload.parent = chain[i - 1].body.payload.hash
        /\ chain[i].slot > chain[i - 1].slot

-----------------------------------------------------------------------------
(***************************************************************************)
(* The inductive invariant behind the theorems of StateTransitionProofs.   *)
(***************************************************************************)
\* The fields that the transition reads and writes.
IsHeader(h) ==
    /\ h = [slot |-> h.slot, proposer |-> h.proposer, parent |-> h.parent,
            stateRoot |-> h.stateRoot, body |-> h.body]
    /\ h.slot \in Nat /\ h.stateRoot \in Nat
IsState(s) ==
    /\ s = [slot |-> s.slot, header |-> s.header, blockRoots |-> s.blockRoots,
            stateRoots |-> s.stateRoots, mixes |-> s.mixes, slashings |-> s.slashings,
            payload |-> s.payload]
    /\ s.slot \in Nat /\ IsHeader(s.header)
    /\ s.blockRoots \in [0 .. SlotsPerHistoricalRoot - 1 -> Nat]
    /\ s.stateRoots \in [0 .. SlotsPerHistoricalRoot - 1 -> Nat]
    /\ s.mixes \in [0 .. EpochsPerHistoricalVector - 1 -> SUBSET Reveals]

IsSequence(q) == q \in Seq({q[i] : i \in 1 .. Len(q)})

\* No value is in the table of hashes twice.
IsTable(tab) ==
    /\ IsSequence(tab)
    /\ \A i, j \in 1 .. Len(tab) : tab[i] = tab[j] => i = j

\* The committed state is the one that the last block announced.
StateIsTip ==
    /\ IsState(st)
    /\ st.slot < height
    /\ st.header.slot = st.slot /\ st.header.stateRoot = ZeroRoot
    /\ chain # <<>> =>
           LET b == chain[Len(chain)]
           IN /\ st.header = [Header(b) EXCEPT !.stateRoot = ZeroRoot]
              /\ IsRoot(b.stateRoot, st)
              /\ st.payload = b.body.payload.hash

\* Slots ascend along the chain, and its reveals are signatures of the epoch.
ChainAscends ==
    /\ IsSequence(chain)
    /\ \A i, j \in 1 .. Len(chain) : i < j => chain[i].slot < chain[j].slot
    /\ \A i \in 1 .. Len(chain) :
           /\ IsHeader(Header(chain[i])) /\ chain[i].slot <= st.slot
           /\ chain[i].body.reveal \in Reveals

\* The block passes every check, and everything it takes to find that out has
\* been hashed: no later entry in the table of hashes can change the answer.
Passes(ctx, b, engine) ==
    LET t == Transition(ctx, st, hashes, b, engine)
    IN t.ok /\ t.tab = hashes

ProposalsPass ==
    /\ (proposal = {} => verdict = "none") /\ (verdict = "none" => post = {})
    /\ \A b, c \in proposal : b = c
    /\ \A b \in proposal :
           /\ IsHeader(Header(b)) /\ b.slot = height /\ height <= MaxSlot
           /\ b.proposer \in Validators
           /\ Honest(b) => Passes(VerifierCtx, b, "valid")
           /\ verdict = "accept" => \A engine \in Consistent : Passes(FinalizerCtx, b, engine)
           /\ \A s \in post :
                  /\ verdict = "accept" => s = Transition(FinalizerCtx, st, hashes, b, "valid").st
                  /\ verdict = "halfway" => IsState(s) /\ s.slot = b.slot
    /\ \A s \in post : verdict = "reject" => s = st

\* The payload of an entry was begun on the block that the entry names as parent,
\* with the mix that the slot will have on that block.
BuiltOnParent(p, tab) ==
    LET header == tab[p.parentRoot]
        parent == tab[header.stateRoot]
        w == ProcessSlots([st |-> parent, tab |-> tab], p.slot)
    IN /\ p.parentRoot \in 1 .. Len(tab) /\ header.stateRoot \in 1 .. Len(tab)
       /\ IsState(parent) /\ parent.slot + 1 = p.slot
       /\ p.payload.parent = parent.payload
       /\ w.tab = tab
       /\ p.payload.prevRandao = w.st.mixes[SlotToEpoch(p.slot) % EpochsPerHistoricalVector]

\* So are all payloads that are under construction for a slot to come, but for
\* those begun on a half-way state.
PayloadMatches(p, slot, tab) ==
    p.slot \in Nat /\ (p.slot >= slot /\ ~p.payload.halfway => BuiltOnParent(p, tab))
PayloadsMatch == \A p \in payloads : PayloadMatches(p, height, hashes)

TransitionInv ==
    /\ TypeOK /\ IsTable(hashes)
    /\ StateIsTip /\ ChainAscends /\ ChainLinked
    /\ BlockRoots /\ StateRoots /\ Mixes
    /\ ProposalsPass /\ PayloadsMatch
=============================================================================
