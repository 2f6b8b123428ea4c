------------------------ MODULE PayloadBuildingProofs ------------------------
(***************************************************************************)
(* The execution client only hears of decided blocks as finalized, and a   *)
(* proposal's payload extends the finalized block, for every number of     *)
(* goroutines, proposals per slot, slots, crashes and restarts, and every  *)
(* size of the payload ID cache.                                           *)
(***************************************************************************)
EXTENDS PayloadBuilding, TLAPS

LEMMA MaxSlotNat == ASSUME optimistic \in Configurations
                    PROVE  /\ MaxSlot[optimistic] \in Nat
                           /\ MaxElRestarts[optimistic] \in Nat
                           /\ MaxCrashes[optimistic] \in Nat
BY PayloadAssumption

\* The blocks of the chain are roots of their slots, and so are their parents.
LEMMA BlockFacts ==
    ASSUME TypeOK, Len(chain) <= MaxSlot[optimistic]
    PROVE  /\ Genesis \in Roots /\ Genesis \in Finalized
           /\ \A s \in 0 .. Len(chain) :
                 Block(s) \in Roots /\ Block(s) \in Finalized /\ Slot(Block(s)) = s
           /\ \A r \in Finalized :
                 /\ r \in Roots /\ Parent(r) \in Finalized
                 /\ Slot(r) \in 0 .. Len(chain) /\ r = Block(Slot(r))
<1>1. Len(chain) \in Nat /\ MaxSlot[optimistic] \in Nat
  BY MaxSlotNat DEF TypeOK
<1>2. \A s \in 0 .. Len(chain) :
         Block(s) \in Roots /\ Block(s) \in Finalized /\ Slot(Block(s)) = s
  <2> TAKE s \in 0 .. Len(chain)
  <2>1. CASE s = 0
    BY <2>1 DEF Block, Roots, Finalized, Slot, Genesis
  <2>2. CASE s # 0
    <3>1. s \in 1 .. Len(chain) /\ s \in 1 .. MaxSlot[optimistic]
      BY <1>1, <2>2
    <3>2. chain[s] \in Variants
      BY <3>1 DEF TypeOK
    <3> QED BY <2>2, <3>1, <3>2 DEF Block, Roots, Finalized, Slot
  <2> QED BY <2>1, <2>2
<1>3. Genesis = Block(0)
  BY DEF Block
<1>4. ASSUME NEW r \in Finalized
      PROVE  /\ r \in Roots /\ Parent(r) \in Finalized
             /\ Slot(r) \in 0 .. Len(chain) /\ r = Block(Slot(r))
  <2>1. PICK s \in 0 .. Len(chain) : r = Block(s)
    BY DEF Finalized
  <2>2. Slot(r) = s
    BY <1>2, <2>1
  <2>3. Parent(r) \in Finalized
    <3>1. CASE r = Genesis
      BY <1>1, <1>2, <1>3, <3>1 DEF Parent
    <3>2. CASE r # Genesis
      <4>1. s - 1 \in 0 .. Len(chain)
        BY <1>1, <1>3, <2>1, <3>2
      <4> QED BY <1>2, <2>2, <3>2, <4>1 DEF Parent
    <3> QED BY <3>1, <3>2
  <2> QED BY <1>2, <2>1, <2>2, <2>3
<1> QED BY <1>1, <1>2, <1>3, <1>4

\* What depends on the chain and the configuration alone.
LEMMA Frame ==
    ASSUME optimistic' = optimistic
    PROVE  /\ Roots' = Roots /\ Payloads' = Payloads /\ Requests' = Requests
           /\ chain' = chain => /\ Finalized' = Finalized
                                /\ \A s : Block(s)' = Block(s)
                                /\ \A r : Parent(r)' = Parent(r)
<1>1. Roots' = Roots
  BY DEF Roots
<1>2. Payloads' = Payloads
  BY <1>1 DEF Payloads
<1>3. Requests' = Requests
  BY <1>1, <1>2 DEF Requests
<1>4. ASSUME chain' = chain
      PROVE  /\ \A s : Block(s)' = Block(s)
             /\ \A r : Parent(r)' = Parent(r)
             /\ Finalized' = Finalized
  BY <1>4 DEF Block, Parent, Finalized
<1> QED BY <1>1, <1>2, <1>3, <1>4

-----------------------------------------------------------------------------
(* The blocks that are called finalized.                                   *)

Steps == {"read", "get", "fcu", "set"}

LEMMA HeightFacts ==
    ASSUME FinalInv
    PROVE  /\ Len(chain) \in Nat /\ height \in 0 .. Len(chain) /\ committed \in 0 .. height
           /\ committed \in 0 .. Len(chain) /\ MaxSlot[optimistic] \in Nat
           /\ Len(chain) <= MaxSlot[optimistic]
           /\ Genesis \in Finalized /\ Finalized \subseteq Roots
           /\ Block(height) \in Finalized /\ Slot(Block(height)) = height
           /\ Block(committed) \in Finalized /\ Slot(Block(committed)) = committed
           /\ \A r \in Finalized : /\ Parent(r) \in Finalized /\ r = Block(Slot(r))
                                    /\ Slot(r) \in 0 .. Len(chain)
<1>1. /\ Len(chain) \in Nat /\ height \in 0 .. Len(chain) /\ committed \in 0 .. height
      /\ committed \in 0 .. Len(chain) /\ MaxSlot[optimistic] \in Nat
      /\ Len(chain) <= MaxSlot[optimistic]
  BY MaxSlotNat DEF FinalInv, TypeOK
<1> QED BY <1>1, BlockFacts DEF FinalInv

\* The steps of a call of RequestPayloadAsync.
LEMMA AdvanceFacts ==
    ASSUME NEW g \in Requests, NEW pc \in Steps
    PROVE  /\ [g EXCEPT !.pc = pc] \in Requests
           /\ [g EXCEPT !.pc = pc].pc = pc
           /\ [g EXCEPT !.pc = pc].kind = g.kind
           /\ [g EXCEPT !.pc = pc].slot = g.slot
           /\ [g EXCEPT !.pc = pc].root = g.root
           /\ [g EXCEPT !.pc = pc].final = g.final
           /\ [g EXCEPT !.pc = pc].payload = g.payload
BY DEF Requests, Steps

LEMMA GetFacts ==
    ASSUME TypeOK, NEW slot, NEW root, NEW payload \in Get(slot, root)
    PROVE  /\ payload \in Payloads
           /\ \E e \in cache : e.slot = slot /\ e.root = root /\ e.payload = payload
BY DEF Get, TypeOK

LEMMA ProcessProposalFinal ==
    ASSUME FinalInv, NEW v \in Variants, NEW outcome \in VerifyOutcomes,
           ProcessProposal(v, outcome)
    PROVE  FinalInv'
<1> DEFINE blk == <<height + 1, v>>
           request == CASE outcome = "valid"    -> OptimisticRequest(blk, blk)
                        [] outcome = "accepted" -> OptimisticRequest(blk, Block(height))
                        [] outcome = "rejected" -> RebuildRequest
<1>1. /\ BetweenBlocks /\ ForceStartupHead
      /\ requests' = requests \/ requests' = requests \cup {request}
      /\ UNCHANGED <<optimistic, chain, height, committed, cache, posts, abci, proposal, elPayloads,
                     elRestarts, crashes>>
  BY DEF ProcessProposal
<1>2. /\ Roots' = Roots /\ Payloads' = Payloads /\ Requests' = Requests
      /\ Finalized' = Finalized
  BY <1>1, Frame
<1>3. height < MaxSlot[optimistic]
  BY <1>1 DEF BetweenBlocks
<1>4. /\ Block(height) \in Roots /\ Block(height) \in Finalized
      /\ Parent(Block(committed)) \in Finalized
      /\ Genesis \in Finalized /\ Finalized \subseteq Roots
      /\ height \in Nat /\ MaxSlot[optimistic] \in Nat
  BY HeightFacts
<1>5. /\ blk \in Roots /\ Slot(blk) = height + 1 /\ Parent(blk) = Block(height)
  BY <1>3, <1>4 DEF Roots, Slot, Parent, Genesis
<1>6. request \in Requests /\ request.final \in Finalized
  <2>1. CASE outcome = "valid"
    <3>1. request = Request("optimistic", height + 2, blk, blk, blk, Block(height), "get")
      BY <1>4, <1>5, <2>1 DEF OptimisticRequest
    <3>2. height + 2 \in 0 .. (MaxSlot[optimistic] + 1)
      BY <1>3, <1>4
    <3> HIDE DEF blk, request
    <3> QED BY <1>4, <1>5, <3>1, <3>2 DEF Request, Requests, Payloads
  <2>2. CASE outcome = "accepted"
    <3>1. request = Request("optimistic", height + 2, blk, blk, Block(height), Block(height), "get")
      BY <1>4, <1>5, <2>2 DEF OptimisticRequest
    <3>2. height + 2 \in 0 .. (MaxSlot[optimistic] + 1)
      BY <1>3, <1>4
    <3> HIDE DEF blk, request
    <3> QED BY <1>4, <1>5, <3>1, <3>2 DEF Request, Requests, Payloads
  <2>3. CASE outcome = "rejected"
    <3>1. request = Request("rebuild", 0, Genesis, Genesis, Genesis, Genesis, "read")
      BY <2>3 DEF RebuildRequest
    <3>2. 0 \in 0 .. (MaxSlot[optimistic] + 1)
      BY <1>3, <1>4
    <3> HIDE DEF blk, request
    <3> QED BY <1>4, <3>1, <3>2 DEF Request, Requests, Payloads
  <2> QED BY <2>1, <2>2, <2>3, PayloadAssumption DEF Outcomes
<1>7. elFinal' \in Finalized /\ started' \in BOOLEAN
  BY <1>1, <1>4 DEF ForceStartupHead, FinalInv, ElFinalIsFinalized
<1> HIDE DEF blk, request
<1> QED BY <1>1, <1>2, <1>4, <1>6, <1>7 DEF FinalInv, TypeOK, ElFinalIsFinalized

LEMMA RebuildReadFinal ==
    ASSUME FinalInv, NEW g \in requests, RebuildRead(g)
    PROVE  FinalInv'
<1> DEFINE blk == Block(committed)
           request == Request("rebuild", Slot(blk), blk, blk, blk, blk, "get")
<1>1. /\ requests' = (requests \ {g}) \cup {request}
      /\ UNCHANGED <<optimistic, chain, height, committed, started, cache, posts, abci, proposal,
                     elPayloads, elFinal, elRestarts, crashes>>
  BY DEF RebuildRead
<1>2. /\ Roots' = Roots /\ Payloads' = Payloads /\ Requests' = Requests
      /\ Finalized' = Finalized
  BY <1>1, Frame
<1>3. Slot(blk) \in 0 .. (MaxSlot[optimistic] + 1) /\ blk \in Finalized /\ blk \in Roots
  BY HeightFacts
<1> HIDE DEF blk
<1>4. request \in Requests /\ request.final \in Finalized
  BY <1>3 DEF Request, Requests, Payloads
<1> HIDE DEF request
<1> QED BY <1>1, <1>2, <1>4 DEF FinalInv, TypeOK, ElFinalIsFinalized

LEMMA RequestGetFinal ==
    ASSUME FinalInv, NEW g \in requests, RequestGet(g)
    PROVE  FinalInv'
<1>1. UNCHANGED <<optimistic, chain, height, committed, started, cache, posts, proposal, elPayloads,
                  elFinal, elRestarts, crashes>>
  BY DEF RequestGet
<1>2. /\ Roots' = Roots /\ Payloads' = Payloads /\ Requests' = Requests
      /\ Finalized' = Finalized
  BY <1>1, Frame
<1>3. requests' \subseteq Requests /\ \A h \in requests' : h.final \in Finalized
  <2>1. g \in Requests /\ requests \subseteq Requests /\ \A h \in requests : h.final \in Finalized
    BY DEF FinalInv, TypeOK
  <2>2. [g EXCEPT !.pc = "fcu"] \in Requests /\ [g EXCEPT !.pc = "fcu"].final = g.final
    BY <2>1, AdvanceFacts DEF Steps
  <2> QED BY <2>1, <2>2 DEF RequestGet, Advance, Return
<1>4. abci' \in Payloads \cup {None, SyncCall}
  BY GetFacts DEF RequestGet, Advance, Return, FinalInv, TypeOK
<1> QED BY <1>1, <1>2, <1>3, <1>4 DEF FinalInv, TypeOK, ElFinalIsFinalized

LEMMA RequestFCUFinal ==
    ASSUME FinalInv, NEW g \in requests, RequestFCU(g) \/ RequestFCUFails(g)
    PROVE  FinalInv'
<1>1. UNCHANGED <<optimistic, chain, height, committed, started, cache, posts, proposal, elRestarts,
                  crashes>>
  BY DEF RequestFCU, RequestFCUFails
<1>2. /\ Roots' = Roots /\ Payloads' = Payloads /\ Requests' = Requests
      /\ Finalized' = Finalized
  BY <1>1, Frame
<1>3. /\ g \in Requests /\ requests \subseteq Requests /\ \A h \in requests : h.final \in Finalized
      /\ g.payload \in Payloads
  BY DEF FinalInv, TypeOK, Requests
<1>4. [g EXCEPT !.pc = "set"] \in Requests /\ [g EXCEPT !.pc = "set"].final = g.final
  BY <1>3, AdvanceFacts DEF Steps
<1>5. /\ requests' \subseteq Requests /\ \A h \in requests' : h.final \in Finalized
      /\ abci' \in Payloads \cup {None, SyncCall}
      /\ elPayloads' \subseteq Payloads /\ elFinal' \in Finalized
  BY <1>3, <1>4 DEF RequestFCU, RequestFCUFails, Advance, Return, FinalInv, TypeOK, ElFinalIsFinalized
<1>6. elFinal' \in Roots
  BY <1>5, HeightFacts
<1> QED BY <1>1, <1>2, <1>5, <1>6 DEF FinalInv, TypeOK, ElFinalIsFinalized

LEMMA RequestSetFinal ==
    ASSUME FinalInv, NEW g \in requests, RequestSet(g)
    PROVE  FinalInv'
<1>1. UNCHANGED <<optimistic, chain, height, committed, started, posts, proposal, elPayloads,
                  elFinal, elRestarts, crashes>>
  BY DEF RequestSet
<1>2. /\ Roots' = Roots /\ Payloads' = Payloads /\ Requests' = Requests
      /\ Finalized' = Finalized
  BY <1>1, Frame
<1>3. g \in Requests
  BY DEF FinalInv, TypeOK
<1>4. cache' \subseteq [slot : 0..(MaxSlot[optimistic] + 1), root : Roots, payload : Payloads]
  BY <1>3 DEF RequestSet, CacheAfterSet, FinalInv, TypeOK, Requests
<1>5. /\ requests' \subseteq requests
      /\ abci' \in Payloads \cup {None, SyncCall}
  BY <1>3 DEF RequestSet, Return, FinalInv, TypeOK, Requests
<1> QED BY <1>1, <1>2, <1>4, <1>5 DEF FinalInv, TypeOK, ElFinalIsFinalized

LEMMA PrepareFinal ==
    ASSUME FinalInv, PrepareCached \/ PrepareSync \/ GetPayload \/ GetPayloadFails
    PROVE  FinalInv'
<1>1. UNCHANGED <<optimistic, chain, height, committed, started, cache, posts, elPayloads, elFinal,
                  elRestarts, crashes>>
  BY DEF PrepareCached, PrepareSync, GetPayload, GetPayloadFails
<1>2. /\ Roots' = Roots /\ Payloads' = Payloads /\ Requests' = Requests
      /\ Finalized' = Finalized
  BY <1>1, Frame
<1>3. abci' \in Payloads \cup {None, SyncCall}
  BY DEF PrepareCached, PrepareSync, GetPayload, GetPayloadFails, FinalInv, TypeOK
<1>4. requests' \subseteq Requests /\ \A h \in requests' : h.final \in Finalized
  <2>1. requests \subseteq Requests /\ \A h \in requests : h.final \in Finalized
    BY DEF FinalInv, TypeOK
  <2>2. CASE PrepareSync
    <3>1. /\ height + 1 \in 0 .. (MaxSlot[optimistic] + 1)
          /\ Block(height) \in Roots /\ Parent(Block(height)) \in Roots
          /\ Parent(Block(height)) \in Finalized
      BY HeightFacts
    <3>2. SyncRequest \in Requests /\ SyncRequest.final \in Finalized
      BY <3>1 DEF SyncRequest, Request, Requests, Payloads
    <3> QED BY <2>1, <2>2, <3>2 DEF PrepareSync
  <2>3. CASE PrepareCached \/ GetPayload \/ GetPayloadFails
    BY <2>1, <2>3 DEF PrepareCached, GetPayload, GetPayloadFails
  <2> QED BY <2>2, <2>3
<1>5. proposal' \in [slot : 1..(MaxSlot[optimistic] + 1), payload : Payloads] \cup {None}
  <2>0. height + 1 \in 1 .. (MaxSlot[optimistic] + 1)
    BY HeightFacts
  <2>1. CASE PrepareCached
    BY <2>1, <2>0 DEF PrepareCached, FinalInv, TypeOK
  <2>2. CASE GetPayload
    BY <2>2, <2>0 DEF GetPayload, FinalInv, TypeOK
  <2>3. CASE PrepareSync \/ GetPayloadFails
    BY <2>3 DEF PrepareSync, GetPayloadFails, FinalInv, TypeOK
  <2> QED BY <2>1, <2>2, <2>3
<1> QED BY <1>1, <1>2, <1>3, <1>4, <1>5 DEF FinalInv, TypeOK, ElFinalIsFinalized

\* The chain only grows: what is decided stays decided.
LEMMA Grows ==
    ASSUME FinalInv, FinalizeBlock
    PROVE  /\ chain' \in Seq(Variants) /\ Len(chain) <= Len(chain') /\ Len(chain') \in Nat
           /\ height + 1 <= Len(chain') /\ Len(chain') <= MaxSlot[optimistic]
           /\ \A s \in 0 .. Len(chain) : Block(s)' = Block(s)
           /\ Finalized \subseteq Finalized'
           /\ <<height + 1, chain'[height + 1]>> \in Finalized'
<1>1. /\ chain \in Seq(Variants) /\ Len(chain) \in Nat /\ height \in 0 .. Len(chain)
      /\ height < MaxSlot[optimistic] /\ Len(chain) <= MaxSlot[optimistic]
      /\ MaxSlot[optimistic] \in Nat
  BY HeightFacts DEF FinalInv, TypeOK, FinalizeBlock, BetweenBlocks
<1>2. /\ chain' \in Seq(Variants) /\ Len(chain) <= Len(chain') /\ Len(chain') \in Nat
      /\ height + 1 <= Len(chain') /\ Len(chain') <= MaxSlot[optimistic]
      /\ \A s \in 1 .. Len(chain) : chain'[s] = chain[s]
  BY <1>1 DEF FinalizeBlock
<1>3. \A s \in 0 .. Len(chain) : Block(s)' = Block(s)
  BY <1>1, <1>2 DEF Block
<1>4. Finalized \subseteq Finalized'
  BY <1>1, <1>2, <1>3 DEF Finalized
<1>5. height + 1 \in 0 .. Len(chain') /\ height + 1 # 0
  BY <1>1, <1>2
<1>6. <<height + 1, chain'[height + 1]>> \in Finalized'
  BY <1>5 DEF Finalized, Block
<1> QED BY <1>2, <1>3, <1>4, <1>6

LEMMA FinalizeBlockFinal ==
    ASSUME FinalInv, FinalizeBlock
    PROVE  FinalInv'
<1> DEFINE blk == <<height + 1, chain'[height + 1]>>
<1>1. /\ height' = height + 1 /\ committed = height
      /\ posts' = posts \cup {[blk |-> blk, lph |-> None]}
      /\ proposal' = None
      /\ UNCHANGED <<optimistic, committed, started, cache, requests, abci, elPayloads, elFinal,
                     elRestarts, crashes>>
  BY DEF FinalizeBlock, BetweenBlocks
<1>2. Roots' = Roots /\ Payloads' = Payloads /\ Requests' = Requests
  BY <1>1, Frame
<1>3. blk \in Roots /\ height' \in 0 .. Len(chain') /\ committed' \in 0 .. height'
  <2>1. height + 1 \in 1 .. Len(chain') /\ height + 1 \in 1 .. MaxSlot[optimistic]
    BY Grows, HeightFacts
  <2>2. chain'[height + 1] \in Variants
    BY <2>1, Grows
  <2> QED BY <1>1, <2>1, <2>2, HeightFacts, Grows DEF Roots
<1>4. blk \in Finalized'
  BY Grows
<1> HIDE DEF blk
<1>5. TypeOK'
  BY <1>1, <1>2, <1>3, Grows DEF FinalInv, TypeOK
<1>6. \A p \in posts' : p.blk \in Finalized' /\ p.lph \in Finalized' \cup {None}
  BY <1>1, <1>4, Grows DEF FinalInv
<1> QED BY <1>1, <1>5, <1>6, Grows DEF FinalInv, ElFinalIsFinalized

LEMMA CommitFinal ==
    ASSUME FinalInv, Commit
    PROVE  FinalInv'
<1>1. /\ committed' = height
      /\ UNCHANGED <<optimistic, chain, height, started, cache, requests, posts, abci, proposal,
                     elPayloads, elFinal, elRestarts, crashes>>
  BY DEF Commit
<1>2. /\ Roots' = Roots /\ Payloads' = Payloads /\ Requests' = Requests
      /\ Finalized' = Finalized
  BY <1>1, Frame
<1>3. committed' \in 0 .. height
  BY <1>1, HeightFacts
<1> QED BY <1>1, <1>2, <1>3 DEF FinalInv, TypeOK, ElFinalIsFinalized

LEMMA StateSeenFacts ==
    ASSUME FinalInv, NEW blk \in Finalized
    PROVE  /\ StateSeen(blk) \in Finalized
           /\ StateSeen(blk) = blk \/ Slot(blk) < committed
BY HeightFacts DEF StateSeen

LEMMA PostFinal ==
    ASSUME FinalInv, NEW p \in posts, PostRead(p) \/ PostFCU(p) \/ PostRequest(p)
    PROVE  FinalInv'
<1>1. UNCHANGED <<optimistic, chain, height, committed, started, cache, abci, proposal,
                  elPayloads, elRestarts, crashes>>
  BY DEF PostRead, PostFCU, PostRequest
<1>2. /\ Roots' = Roots /\ Payloads' = Payloads /\ Requests' = Requests
      /\ Finalized' = Finalized
  BY <1>1, Frame
<1>3. /\ p \in [blk : Roots, lph : Roots \cup {None}]
      /\ p.blk \in Finalized /\ p.lph \in Finalized \cup {None}
      /\ StateSeen(p.blk) \in Finalized /\ Finalized \subseteq Roots
  BY StateSeenFacts, HeightFacts DEF FinalInv, TypeOK
<1>4. /\ posts' \subseteq [blk : Roots, lph : Roots \cup {None}]
      /\ \A q \in posts' : q.blk \in Finalized /\ q.lph \in Finalized \cup {None}
  BY <1>3 DEF PostRead, PostFCU, PostRequest, FinalInv, TypeOK
<1>5. elFinal' \in Finalized /\ elFinal' \in Roots
  <2>1. p.lph # None => Parent(p.lph) \in Finalized
    BY <1>3, HeightFacts
  <2> QED BY <1>3, <2>1 DEF PostRead, PostFCU, PostRequest, FinalInv, TypeOK, ElFinalIsFinalized
<1>6. requests' \subseteq Requests /\ \A h \in requests' : h.final \in Finalized
  <2>1. requests \subseteq Requests /\ \A h \in requests : h.final \in Finalized
    BY DEF FinalInv, TypeOK
  <2>2. CASE PostRequest(p)
    <3>1. /\ Slot(p.blk) + 1 \in 0 .. (MaxSlot[optimistic] + 1)
          /\ p.lph \in Finalized /\ Parent(p.lph) \in Finalized
      BY <1>3, <2>2, HeightFacts DEF PostRequest
    <3> DEFINE request == Request("nextblock", Slot(p.blk) + 1, p.blk, p.lph, StateSeen(p.blk),
                                  Parent(p.lph), "get")
    <3>2. request \in Requests /\ request.final \in Finalized
      BY <1>3, <3>1 DEF Request, Requests, Payloads
    <3>3. requests' = requests \cup {request}
      BY <2>2 DEF PostRequest
    <3> HIDE DEF request
    <3> QED BY <2>1, <3>2, <3>3
  <2>3. CASE PostRead(p) \/ PostFCU(p)
    BY <2>1, <2>3 DEF PostRead, PostFCU
  <2> QED BY <2>2, <2>3
<1> QED BY <1>1, <1>2, <1>4, <1>5, <1>6 DEF FinalInv, TypeOK, ElFinalIsFinalized

LEMMA FailureFinal ==
    ASSUME FinalInv, ElRestart \/ Crash
    PROVE  FinalInv'
<1>1. /\ UNCHANGED <<optimistic, chain, committed, elFinal>>
      /\ MaxElRestarts[optimistic] \in Nat /\ MaxCrashes[optimistic] \in Nat
      /\ committed \in 0 .. Len(chain)
  BY HeightFacts, MaxSlotNat DEF ElRestart, Crash, FinalInv, TypeOK
<1>2. /\ Roots' = Roots /\ Payloads' = Payloads /\ Requests' = Requests
      /\ Finalized' = Finalized
  BY <1>1, Frame
<1>3. CASE ElRestart
  BY <1>1, <1>2, <1>3 DEF ElRestart, FinalInv, TypeOK, ElFinalIsFinalized
<1>4. CASE Crash
  <2>1. /\ height' \in 0 .. Len(chain) /\ committed' \in 0 .. height'
        /\ crashes' \in 0 .. MaxCrashes[optimistic]
    BY <1>1, <1>4 DEF Crash, FinalInv, TypeOK
  <2>2. /\ started' \in BOOLEAN /\ cache' = {} /\ requests' = {} /\ posts' = {}
        /\ abci' = None /\ proposal' = None
        /\ UNCHANGED <<elPayloads, elRestarts>>
    BY <1>4 DEF Crash
  <2> QED BY <1>1, <1>2, <2>1, <2>2 DEF FinalInv, TypeOK, ElFinalIsFinalized
<1> QED BY <1>3, <1>4

LEMMA FinalInit == ASSUME Init PROVE FinalInv
<1>1. optimistic \in Configurations /\ Len(chain) = 0 /\ chain \in Seq(Variants)
  BY DEF Init
<1>2. /\ MaxSlot[optimistic] \in Nat /\ MaxElRestarts[optimistic] \in Nat
      /\ MaxCrashes[optimistic] \in Nat
  BY <1>1, MaxSlotNat
<1>3. Genesis \in Roots /\ Genesis \in Finalized
  BY <1>1 DEF Roots, Finalized, Block
<1>4. /\ height \in 0 .. Len(chain) /\ committed \in 0 .. height
      /\ elRestarts \in 0 .. MaxElRestarts[optimistic] /\ crashes \in 0 .. MaxCrashes[optimistic]
      /\ Len(chain) <= MaxSlot[optimistic]
  BY <1>1, <1>2 DEF Init
<1>5. /\ started \in BOOLEAN /\ cache = {} /\ requests = {} /\ posts = {} /\ abci = None
      /\ proposal = None /\ elPayloads = {} /\ elFinal = Genesis
  BY DEF Init
<1> QED BY <1>1, <1>3, <1>4, <1>5 DEF FinalInv, TypeOK, ElFinalIsFinalized

LEMMA FinalStep == ASSUME FinalInv, [Next]_vars PROVE FinalInv'
<1>1. CASE \E v \in Variants, outcome \in VerifyOutcomes : ProcessProposal(v, outcome)
  BY <1>1, ProcessProposalFinal
<1>2. CASE \E g \in requests : RebuildRead(g) \/ RequestGet(g)
  BY <1>2, RebuildReadFinal, RequestGetFinal
<1>3. CASE \E g \in requests : RequestFCU(g) \/ RequestFCUFails(g) \/ RequestSet(g)
  BY <1>3, RequestFCUFinal, RequestSetFinal
<1>4. CASE PrepareCached \/ PrepareSync \/ GetPayload \/ GetPayloadFails
  BY <1>4, PrepareFinal
<1>5. CASE FinalizeBlock
  BY <1>5, FinalizeBlockFinal
<1>6. CASE Commit
  BY <1>6, CommitFinal
<1>7. CASE \E p \in posts : PostRead(p) \/ PostFCU(p) \/ PostRequest(p)
  BY <1>7, PostFinal
<1>8. CASE ElRestart \/ Crash
  BY <1>8, FailureFinal
<1>9. CASE UNCHANGED vars
  <2>1. /\ Roots' = Roots /\ Payloads' = Payloads /\ Requests' = Requests
        /\ Finalized' = Finalized
    BY <1>9, Frame DEF vars
  <2> QED BY <1>9, <2>1 DEF FinalInv, TypeOK, ElFinalIsFinalized, vars
<1> QED BY <1>1, <1>2, <1>3, <1>4, <1>5, <1>6, <1>7, <1>8, <1>9 DEF Next

\* Every goroutine, of whichever round and however late, knows only decided blocks
\* as finalized.
THEOREM FinalInvariant == Spec => []FinalInv
<1>1. Init => FinalInv
  BY FinalInit
<1>2. FinalInv /\ [Next]_vars => FinalInv'
  BY FinalStep
<1> QED BY <1>1, <1>2, PTL DEF Spec

\* The type invariant of payload building.
THEOREM TypeCorrect == Spec => []TypeOK
<1>1. FinalInv => TypeOK
  BY DEF FinalInv
<1> QED BY <1>1, FinalInvariant, PTL

\* The execution client is never told that an undecided block is finalized
\* (ElFinalIsFinalized), with any number of rounds, goroutines and restarts.
THEOREM FinalizedOnlyDecided == Spec => []ElFinalIsFinalized
<1>1. FinalInv => ElFinalIsFinalized
  BY DEF FinalInv
<1> QED BY <1>1, FinalInvariant, PTL

-----------------------------------------------------------------------------
(* The payloads that are cached and proposed.                              *)

LEMMA NotPayloads ==
    ASSUME FinalInv
    PROVE  None \notin Payloads /\ SyncCall \notin Payloads /\ None # SyncCall
<1>1. Roots \subseteq AllRoots
  BY HeightFacts DEF Roots, AllRoots
<1>2. Payloads \subseteq [parent : AllRoots, attrs : AllRoots]
  BY <1>1 DEF Payloads
<1> QED BY <1>2, DistinctAssumption

\* What a request, an entry and a goroutine are judged by.
LEMMA BuildFrame ==
    ASSUME UNCHANGED <<optimistic, chain, height, committed>>
    PROVE  /\ \A e : EntryRight(e)' <=> EntryRight(e)
           /\ \A p : PostRight(p)' <=> PostRight(p)
           /\ Block(height)' = Block(height)
           /\ \A g : (g.kind # "sync" \/ abci' = abci) => (RequestRight(g) => RequestRight(g)')
           /\ Payloads' = Payloads
           /\ proposal' = proposal => (ProposalExtendsFinalized => ProposalExtendsFinalized')
<1>1. \A s : Block(s)' = Block(s)
  BY Frame
<1>2. \A e : EntryRight(e)' <=> EntryRight(e)
  BY DEF EntryRight, Slot, Extends
<1>3. \A p : PostRight(p)' <=> PostRight(p)
  BY DEF PostRight, Slot
<1>4. Block(height)' = Block(height)
  BY <1>1 DEF Block
<1>5. \A g : (g.kind # "sync" \/ abci' = abci) => (RequestRight(g) => RequestRight(g)')
  BY <1>2, <1>4 DEF RequestRight
<1>6. proposal' = proposal => (ProposalExtendsFinalized => ProposalExtendsFinalized')
  BY DEF ProposalExtendsFinalized, Block, Extends
<1> QED BY <1>2, <1>3, <1>4, <1>5, <1>6, Frame

\* Where the proposer of the next slot looks, it finds a payload on the last block.
LEMMA EntryExtends ==
    ASSUME FinalInv, NEW e, EntryRight(e), e.slot = height + 1, e.root = Block(height),
           committed = height
    PROVE  e.payload = Extends(Block(height))
BY HeightFacts DEF EntryRight

LEMMA ProcessProposalBuild ==
    ASSUME "accepted" \notin VerifyOutcomes, FinalInv, BuildInv,
           NEW v \in Variants, NEW outcome \in VerifyOutcomes, ProcessProposal(v, outcome)
    PROVE  BuildInv'
<1> DEFINE blk == <<height + 1, v>>
           request == IF outcome = "valid" THEN OptimisticRequest(blk, blk) ELSE RebuildRequest
<1>1. /\ requests' = requests \/ requests' = requests \cup {request}
      /\ UNCHANGED <<optimistic, chain, height, committed, cache, posts, abci, proposal>>
  BY PayloadAssumption DEF ProcessProposal, Outcomes
<1>2. Slot(blk) = height + 1 /\ height \in Nat
  BY HeightFacts DEF Slot
<1> HIDE DEF blk
<1>3. RequestRight(request) /\ request.kind # "sync"
  BY <1>2 DEF RequestRight, EntryRight, OptimisticRequest, RebuildRequest, Request, Extends
<1> HIDE DEF request
<1>4. \A g \in requests' : RequestRight(g)'
  BY <1>1, <1>3, BuildFrame DEF BuildInv
<1>5. CallRight'
  BY <1>1, <1>3, BuildFrame DEF BuildInv, CallRight
<1> QED BY <1>1, <1>4, <1>5, BuildFrame DEF BuildInv

LEMMA RebuildReadBuild ==
    ASSUME FinalInv, BuildInv, NEW g \in requests, RebuildRead(g)
    PROVE  BuildInv'
<1> DEFINE blk == Block(committed)
           request == Request("rebuild", Slot(blk), blk, blk, blk, blk, "get")
<1>1. /\ requests' = (requests \ {g}) \cup {request}
      /\ UNCHANGED <<optimistic, chain, height, committed, cache, posts, abci, proposal>>
  BY DEF RebuildRead
<1> HIDE DEF blk
<1>2. RequestRight(request) /\ request.kind # "sync"
  BY DEF RequestRight, EntryRight, Request
<1> HIDE DEF request
<1>3. \A h \in requests' : RequestRight(h)'
  BY <1>1, <1>2, BuildFrame DEF BuildInv
<1>4. CallRight'
  BY <1>1, <1>2, BuildFrame DEF BuildInv, CallRight
<1> QED BY <1>1, <1>3, <1>4, BuildFrame DEF BuildInv

\* A call that goes on keeps its arguments.
LEMMA AdvanceBuild ==
    ASSUME FinalInv, BuildInv, NEW g \in requests, NEW pc \in {"fcu", "set"}, g.pc # "read",
           Advance(g, pc), UNCHANGED <<optimistic, chain, height, committed>>
    PROVE  (\A h \in requests' : RequestRight(h)') /\ CallRight'
<1> DEFINE next == [g EXCEPT !.pc = pc]
<1>1. requests' = (requests \ {g}) \cup {next} /\ abci' = abci
  BY DEF Advance
<1>2. /\ next.pc = pc /\ next.kind = g.kind /\ next.slot = g.slot /\ next.root = g.root
      /\ next.payload = g.payload
  BY AdvanceFacts DEF FinalInv, TypeOK, Steps
<1> HIDE DEF next
<1>3. RequestRight(next)
  BY <1>2 DEF BuildInv, RequestRight, EntryRight
<1> QED BY <1>1, <1>2, <1>3, BuildFrame DEF BuildInv, CallRight

\* The call that PrepareProposal waits for returns nothing, or a payload on the last
\* block; any other call leaves PrepareProposal alone.
LEMMA ReturnBuild ==
    ASSUME FinalInv, BuildInv, NEW g \in requests, NEW payload, Return(g, payload),
           UNCHANGED <<optimistic, chain, height, committed>>,
           g.kind = "sync" => payload = None \/ payload = Extends(Block(height))
    PROVE  (\A h \in requests' : RequestRight(h)') /\ CallRight'
<1>1. requests' = requests \ {g} /\ abci' = IF g.kind = "sync" THEN payload ELSE abci
  BY DEF Return
<1>2. CASE g.kind # "sync"
  BY <1>1, <1>2, BuildFrame DEF BuildInv, CallRight
<1>3. CASE g.kind = "sync"
  <2>1. \A h \in requests' : h.kind # "sync"
    BY <1>1, <1>3 DEF BuildInv, CallRight
  <2>2. committed = height
    BY <1>3, NotPayloads DEF BuildInv, RequestRight, CallRight
  <2>3. \A h \in requests' : RequestRight(h)'
    BY <1>1, <2>1, BuildFrame DEF BuildInv
  <2>4. abci' \in Payloads' => abci' = Extends(Block(height))'
    BY <1>1, <1>3, NotPayloads, BuildFrame DEF Extends
  <2> QED BY <2>1, <2>2, <2>3, <2>4 DEF CallRight
<1> QED BY <1>2, <1>3

LEMMA RequestGetBuild ==
    ASSUME FinalInv, BuildInv, NEW g \in requests, RequestGet(g)
    PROVE  BuildInv'
<1>1. /\ UNCHANGED <<optimistic, chain, height, committed, cache, posts, proposal>>
      /\ g.pc # "read"
  BY DEF RequestGet
<1>2. (\A h \in requests' : RequestRight(h)') /\ CallRight'
  <2>1. CASE Advance(g, "fcu")
    BY <1>1, <2>1, AdvanceBuild
  <2>2. ASSUME NEW payload \in Get(g.slot, g.root), Return(g, payload)
        PROVE  (\A h \in requests' : RequestRight(h)') /\ CallRight'
    <3>1. PICK e \in cache : e.slot = g.slot /\ e.root = g.root /\ e.payload = payload
      BY GetFacts DEF FinalInv
    <3>2. ASSUME g.kind = "sync" PROVE payload = Extends(Block(height))
      <4>1. e.slot = height + 1 /\ e.root = Block(height) /\ committed = height /\ EntryRight(e)
        BY <3>1, <3>2, NotPayloads DEF BuildInv, RequestRight, CallRight
      <4> QED BY <3>1, <4>1, EntryExtends
    <3> QED BY <1>1, <2>2, <3>2, ReturnBuild
  <2> QED BY <2>1, <2>2 DEF RequestGet
<1> QED BY <1>1, <1>2, BuildFrame DEF BuildInv

LEMMA RequestFCUBuild ==
    ASSUME FinalInv, BuildInv, NEW g \in requests, RequestFCU(g) \/ RequestFCUFails(g)
    PROVE  BuildInv'
<1>1. /\ UNCHANGED <<optimistic, chain, height, committed, cache, posts, proposal>>
      /\ (g.pc # "read" /\ Advance(g, "set")) \/ Return(g, None)
  BY DEF RequestFCU, RequestFCUFails
<1>2. (\A h \in requests' : RequestRight(h)') /\ CallRight'
  BY <1>1, AdvanceBuild, ReturnBuild
<1> QED BY <1>1, <1>2, BuildFrame DEF BuildInv

LEMMA RequestSetBuild ==
    ASSUME FinalInv, BuildInv, NEW g \in requests, RequestSet(g)
    PROVE  BuildInv'
<1>1. /\ UNCHANGED <<optimistic, chain, height, committed, posts, proposal>>
      /\ g.pc # "read" /\ Return(g, g.payload)
      /\ cache' = CacheAfterSet(g.slot, g.root, g.payload)
  BY DEF RequestSet
<1>2. RequestRight(g) /\ EntryRight(g)
  BY <1>1 DEF BuildInv, RequestRight
<1>3. \A e \in cache' : EntryRight(e)'
  <2> DEFINE entry == [slot |-> g.slot, root |-> g.root, payload |-> g.payload]
  <2>1. EntryRight(entry)
    BY <1>2 DEF EntryRight
  <2>2. \A e \in cache' : e \in cache \/ e = entry
    BY <1>1 DEF CacheAfterSet
  <2> HIDE DEF entry
  <2> QED BY <1>1, <2>1, <2>2, BuildFrame DEF BuildInv
<1>4. ASSUME g.kind = "sync" PROVE g.payload = Extends(Block(height))
  <2>1. g.slot = height + 1 /\ g.root = Block(height) /\ committed = height
    BY <1>2, <1>4, NotPayloads DEF BuildInv, RequestRight, CallRight
  <2> QED BY <1>2, <2>1, EntryExtends
<1>5. (\A h \in requests' : RequestRight(h)') /\ CallRight'
  BY <1>1, <1>4, ReturnBuild
<1> QED BY <1>1, <1>3, <1>5, BuildFrame DEF BuildInv

LEMMA PrepareCachedBuild ==
    ASSUME FinalInv, BuildInv, PrepareCached
    PROVE  BuildInv'
<1>1. /\ UNCHANGED <<optimistic, chain, height, committed, cache, requests, posts, abci>>
      /\ committed = height /\ abci = None
  BY DEF PrepareCached, BetweenBlocks
<1>2. PICK payload \in Get(height + 1, Block(height)) :
          proposal' = [slot |-> height + 1, payload |-> payload]
  BY DEF PrepareCached
<1>3. PICK e \in cache : e.slot = height + 1 /\ e.root = Block(height) /\ e.payload = payload
  BY GetFacts DEF FinalInv
<1>4. payload = Extends(Block(height))
  BY <1>1, <1>3, EntryExtends DEF BuildInv
<1>5. proposal'.slot - 1 = height /\ proposal'.payload = payload
  BY <1>2, HeightFacts
<1>6. ProposalExtendsFinalized'
  BY <1>1, <1>4, <1>5 DEF ProposalExtendsFinalized, Block, Extends
<1>7. CallRight' /\ \A h \in requests' : RequestRight(h)'
  BY <1>1, BuildFrame DEF BuildInv, CallRight
<1> QED BY <1>1, <1>6, <1>7, BuildFrame DEF BuildInv

LEMMA PrepareSyncBuild ==
    ASSUME FinalInv, BuildInv, PrepareSync
    PROVE  BuildInv'
<1>1. /\ UNCHANGED <<optimistic, chain, height, committed, cache, posts>>
      /\ committed = height /\ abci = None /\ abci' = SyncCall /\ proposal' = None
      /\ requests' = requests \cup {SyncRequest}
  BY DEF PrepareSync, BetweenBlocks
<1>2. \A h \in requests : h.kind # "sync"
  BY <1>1, NotPayloads DEF BuildInv, RequestRight
<1>3. /\ SyncRequest.kind = "sync" /\ SyncRequest.pc = "get" /\ SyncRequest.slot = height + 1
      /\ SyncRequest.root = Block(height) /\ SyncRequest.payload = Extends(Block(height))
  BY DEF SyncRequest, Request, Extends
<1>4. EntryRight(SyncRequest)
  BY <1>3, HeightFacts DEF EntryRight
<1>5. RequestRight(SyncRequest)'
  <2>1. SyncRequest' = SyncRequest
    BY <1>1 DEF SyncRequest, Block, Parent, Slot
  <2>2. EntryRight(SyncRequest)' /\ Block(height)' = Block(height)
    BY <1>1, <1>4, <2>1, BuildFrame
  <2> HIDE DEF SyncRequest
  <2> QED BY <1>1, <1>3, <2>1, <2>2 DEF RequestRight
<1>6. \A h \in requests : RequestRight(h)'
  BY <1>1, <1>2, BuildFrame DEF BuildInv
<1>7. CallRight'
  BY <1>1, <1>2, NotPayloads, BuildFrame DEF CallRight
<1>8. SyncRequest' = SyncRequest
  BY <1>1 DEF SyncRequest, Block, Parent, Slot
<1>9. \A h \in requests' : RequestRight(h)'
  BY <1>1, <1>5, <1>6, <1>8
<1> QED BY <1>1, <1>7, <1>9, BuildFrame DEF BuildInv, ProposalExtendsFinalized

\* Without a running PrepareProposal no call is its own.
LEMMA NoSyncRequest ==
    ASSUME BuildInv, abci # SyncCall
    PROVE  \A h \in requests : h.kind # "sync"
BY DEF BuildInv, RequestRight

LEMMA GetPayloadBuild ==
    ASSUME FinalInv, BuildInv, GetPayload \/ GetPayloadFails
    PROVE  BuildInv'
<1>1. /\ UNCHANGED <<optimistic, chain, height, committed, cache, requests, posts>>
      /\ abci \in Payloads /\ abci' = None
      /\ proposal' = proposal \/ proposal' = [slot |-> height + 1, payload |-> abci]
  BY DEF GetPayload, GetPayloadFails, FinalInv, TypeOK
<1>2. abci = Extends(Block(height)) /\ \A h \in requests : h.kind # "sync"
  BY <1>1, NotPayloads, NoSyncRequest DEF BuildInv, CallRight
<1>3. ProposalExtendsFinalized'
  <2>1. CASE proposal' = proposal
    BY <1>1, <2>1, BuildFrame DEF BuildInv
  <2>2. CASE proposal' = [slot |-> height + 1, payload |-> abci]
    <3>1. proposal'.slot - 1 = height /\ proposal'.payload = abci
      BY <2>2, HeightFacts
    <3> QED BY <1>1, <1>2, <3>1 DEF ProposalExtendsFinalized, Block, Extends
  <2> QED BY <1>1, <2>1, <2>2
<1>4. CallRight'
  BY <1>1, <1>2, NotPayloads, BuildFrame DEF CallRight
<1>5. \A h \in requests' : RequestRight(h)'
  BY <1>1, <1>2, BuildFrame DEF BuildInv
<1> QED BY <1>1, <1>3, <1>4, <1>5, BuildFrame DEF BuildInv

\* Committing a block makes no entry wrong.
LEMMA EntryStable ==
    ASSUME FinalInv, NEW e, Slot(e.root) \in Nat, EntryRight(e),
           committed' \in Nat, committed <= committed'
    PROVE  EntryRight(e)'
BY HeightFacts DEF EntryRight, Slot, Extends

LEMMA SlotNat ==
    ASSUME FinalInv
    PROVE  /\ \A r \in Roots : Slot(r) \in Nat
           /\ \A e \in cache : Slot(e.root) \in Nat
           /\ \A g \in requests : Slot(g.root) \in Nat
           /\ \A p \in posts : Slot(p.blk) \in Nat
<1>1. \A r \in Roots : Slot(r) \in Nat
  BY HeightFacts DEF Roots, Slot, Genesis
<1> QED BY <1>1 DEF FinalInv, TypeOK, Requests

\* While no proposal is prepared the chain may go on.
LEMMA ChainBuild ==
    ASSUME FinalInv, BuildInv, abci = None, committed' \in Nat, committed <= committed',
           UNCHANGED <<optimistic, cache, requests, abci>>
    PROVE  /\ \A e \in cache' : EntryRight(e)'
           /\ \A g \in requests' : RequestRight(g)'
           /\ \A p \in posts : PostRight(p)'
           /\ CallRight'
<1>1. \A h \in requests : h.kind # "sync"
  BY NotPayloads, NoSyncRequest
<1>2. \A e \in cache' : EntryRight(e)'
  BY SlotNat, EntryStable DEF BuildInv
<1>3. \A g \in requests' : RequestRight(g)'
  BY <1>1, SlotNat, EntryStable DEF BuildInv, RequestRight
<1>4. \A p \in posts : PostRight(p)'
  BY SlotNat, HeightFacts DEF BuildInv, PostRight, Slot
<1>5. CallRight'
  BY <1>1, NotPayloads, Frame DEF CallRight
<1> QED BY <1>2, <1>3, <1>4, <1>5

LEMMA FinalizeBlockBuild ==
    ASSUME FinalInv, BuildInv, FinalizeBlock
    PROVE  BuildInv'
<1>1. /\ abci = None /\ proposal' = None
      /\ UNCHANGED <<optimistic, committed, cache, requests, abci>>
      /\ \A p \in posts' : p \in posts \/ p.lph = None
  BY DEF FinalizeBlock, BetweenBlocks
<1>2. committed' \in Nat /\ committed <= committed'
  BY <1>1, HeightFacts
<1>3. /\ \A e \in cache' : EntryRight(e)'
      /\ \A g \in requests' : RequestRight(g)'
      /\ \A p \in posts : PostRight(p)'
      /\ CallRight'
  BY <1>1, <1>2, ChainBuild
<1>4. \A p \in posts' : PostRight(p)'
  BY <1>1, <1>3 DEF PostRight
<1>5. ProposalExtendsFinalized'
  BY <1>1 DEF ProposalExtendsFinalized
<1> QED BY <1>3, <1>4, <1>5 DEF BuildInv

LEMMA CommitBuild ==
    ASSUME FinalInv, BuildInv, Commit
    PROVE  BuildInv'
<1>1. /\ committed' = height /\ committed < height
      /\ UNCHANGED <<optimistic, chain, height, cache, requests, posts, abci, proposal>>
  BY DEF Commit
<1>2. abci = None /\ committed' \in Nat /\ committed <= committed'
  BY <1>1, HeightFacts DEF BuildInv, CallRight
<1>3. ProposalExtendsFinalized'
  BY <1>1 DEF BuildInv, ProposalExtendsFinalized, Block, Extends
<1> QED BY <1>1, <1>2, <1>3, ChainBuild DEF BuildInv

LEMMA PostBuild ==
    ASSUME FinalInv, BuildInv, NEW p \in posts, PostRead(p) \/ PostFCU(p) \/ PostRequest(p)
    PROVE  BuildInv'
<1>1. UNCHANGED <<optimistic, chain, height, committed, cache, abci, proposal>>
  BY DEF PostRead, PostFCU, PostRequest
<1>2. /\ p \in [blk : Roots, lph : Roots \cup {None}] /\ p.blk \in Finalized /\ PostRight(p)
      /\ StateSeen(p.blk) = p.blk \/ Slot(p.blk) < committed
  BY StateSeenFacts DEF FinalInv, TypeOK, BuildInv
<1>3. \A q \in posts' : PostRight(q)'
  <2>1. CASE PostRead(p)
    <3> DEFINE next == [p EXCEPT !.lph = StateSeen(p.blk)]
    <3>1. next.blk = p.blk /\ next.lph = StateSeen(p.blk)
      BY <1>2
    <3>2. posts' = (posts \ {p}) \cup {next}
      BY <2>1 DEF PostRead
    <3> HIDE DEF next
    <3>3. PostRight(next)
      BY <1>2, <3>1 DEF PostRight
    <3> QED BY <1>1, <3>2, <3>3, BuildFrame DEF BuildInv
  <2>2. CASE PostFCU(p) \/ PostRequest(p)
    BY <1>1, <2>2, BuildFrame DEF PostFCU, PostRequest, BuildInv
  <2> QED BY <2>1, <2>2
<1>4. (\A h \in requests' : RequestRight(h)') /\ CallRight'
  <2>1. CASE PostRequest(p)
    <3> DEFINE request == Request("nextblock", Slot(p.blk) + 1, p.blk, p.lph, StateSeen(p.blk),
                                  Parent(p.lph), "get")
    <3>1. requests' = requests \cup {request} /\ p.lph # None
      BY <2>1 DEF PostRequest
    <3>2. RequestRight(request) /\ request.kind # "sync"
      BY <1>2, <3>1 DEF RequestRight, EntryRight, PostRight, Request, Extends
    <3> HIDE DEF request
    <3> QED BY <1>1, <3>1, <3>2, BuildFrame DEF BuildInv, CallRight
  <2>2. CASE PostRead(p) \/ PostFCU(p)
    BY <1>1, <2>2, BuildFrame DEF PostRead, PostFCU, BuildInv, CallRight
  <2> QED BY <2>1, <2>2
<1> QED BY <1>1, <1>3, <1>4, BuildFrame DEF BuildInv

LEMMA FailureBuild ==
    ASSUME FinalInv, BuildInv, ElRestart \/ Crash
    PROVE  BuildInv'
<1>1. CASE ElRestart
  <2>1. UNCHANGED <<optimistic, chain, height, committed, cache, requests, posts, abci, proposal>>
    BY <1>1 DEF ElRestart
  <2> QED BY <2>1, BuildFrame DEF BuildInv, CallRight
<1>2. CASE Crash
  <2>1. /\ cache' = {} /\ requests' = {} /\ posts' = {} /\ abci' = None /\ proposal' = None
        /\ optimistic' = optimistic
    BY <1>2 DEF Crash
  <2>2. abci' \notin Payloads'
    BY <2>1, NotPayloads, Frame
  <2> QED BY <2>1, <2>2 DEF BuildInv, CallRight, ProposalExtendsFinalized
<1> QED BY <1>1, <1>2

LEMMA BuildStep ==
    ASSUME "accepted" \notin VerifyOutcomes, FinalInv, BuildInv, [Next]_vars
    PROVE  BuildInv'
<1>1. CASE \E v \in Variants, outcome \in VerifyOutcomes : ProcessProposal(v, outcome)
  BY <1>1, ProcessProposalBuild
<1>2. CASE \E g \in requests : RebuildRead(g) \/ RequestGet(g)
  BY <1>2, RebuildReadBuild, RequestGetBuild
<1>3. CASE \E g \in requests : RequestFCU(g) \/ RequestFCUFails(g) \/ RequestSet(g)
  BY <1>3, RequestFCUBuild, RequestSetBuild
<1>4. CASE PrepareCached \/ PrepareSync \/ GetPayload \/ GetPayloadFails
  BY <1>4, PrepareCachedBuild, PrepareSyncBuild, GetPayloadBuild
<1>5. CASE FinalizeBlock \/ Commit
  BY <1>5, FinalizeBlockBuild, CommitBuild
<1>6. CASE \E p \in posts : PostRead(p) \/ PostFCU(p) \/ PostRequest(p)
  BY <1>6, PostBuild
<1>7. CASE ElRestart \/ Crash
  BY <1>7, FailureBuild
<1>8. CASE UNCHANGED vars
  BY <1>8, BuildFrame DEF BuildInv, CallRight, vars
<1> QED BY <1>1, <1>2, <1>3, <1>4, <1>5, <1>6, <1>7, <1>8 DEF Next

\* Unless NewPayload answers ACCEPTED, whichever goroutine asked for it, the payload of
\* a proposal is on the finalized block and has the attributes of the state after it
\* (ProposalExtendsFinalized).  PayloadAccepted shows that the condition is needed.
THEOREM ProposalsExtendFinalized ==
    ASSUME "accepted" \notin VerifyOutcomes
    PROVE  Spec => []ProposalExtendsFinalized
<1>1. Init => BuildInv
  <2> SUFFICES ASSUME Init PROVE BuildInv
    OBVIOUS
  <2>1. cache = {} /\ requests = {} /\ posts = {} /\ abci = None /\ proposal = None
    BY DEF Init
  <2>2. None \notin Payloads
    BY FinalInit, NotPayloads
  <2> QED BY <2>1, <2>2 DEF BuildInv, CallRight, ProposalExtendsFinalized
<1>2. FinalInv /\ BuildInv /\ [Next]_vars => BuildInv'
  BY BuildStep
<1>3. BuildInv => ProposalExtendsFinalized
  BY DEF BuildInv
<1> QED BY <1>1, <1>2, <1>3, FinalInvariant, PTL DEF Spec
=============================================================================
