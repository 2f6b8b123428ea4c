----------------------- MODULE DepositPipelineProofs -----------------------
(***************************************************************************)
(* Theorems about DepositPipeline for every number of nodes, every chain   *)
(* length and every value of the chain-spec constants.                     *)
(***************************************************************************)
EXTENDS DepositPipeline, TLAPS

LEMMA FetchNumberFollowed ==
    ASSUME TypeOK, NEW h \in 1..Len(chain)
    PROVE  FetchNumber(h) \in 0..(U64Mod - 1) /\ Fetchable(FetchNumber(h))
BY ConstantsAssumption DEF TypeOK, FetchNumber, Fetchable

LEMMA TypeInit == Init => TypeOK
BY ConstantsAssumption DEF Init, TypeOK, Idle

LEMMA ChainType ==
    ASSUME TypeOK
    PROVE  /\ Len(chain) \in Nat
           /\ DOMAIN chain = 1..Len(chain)
           /\ \A h \in 1..Len(chain) : /\ chain[h] \in Blocks
                                      /\ chain[h].logs \in Nat
                                      /\ chain[h].deps \in Seq(Nat)
                                      /\ chain[h].next \in Nat
<1>1. chain \in Seq(Blocks)
  BY DEF TypeOK
<1>2. /\ Len(chain) \in Nat
      /\ DOMAIN chain = 1..Len(chain)
      /\ \A h \in 1..Len(chain) : chain[h] \in Blocks
  BY <1>1
<1> QED BY <1>2 DEF Blocks

LEMMA CounterTypes ==
    ASSUME TypeOK
    PROVE  \A h \in Int : DepositCount(h) \in Nat /\ Eth1DepositIndex(h) \in Nat
BY ChainType, ConstantsAssumption DEF DepositCount, Eth1DepositIndex

LEMMA BatchType ==
    ASSUME NEW S, NEW start \in Nat, NEW deps \in GetDepositsByIndex(S, start, MaxDepositsPerBlock)
    PROVE  /\ deps \in Seq(Nat)
           /\ Len(deps) \in 0..MaxDepositsPerBlock
           /\ deps = [i \in 1..Len(deps) |-> start + i - 1]
           /\ \A i \in 1..Len(deps) : deps[i] \in S
<1>1. PICK num \in 0..MaxDepositsPerBlock :
          /\ deps = [i \in 1..num |-> start + i - 1]
          /\ \A i \in 0..(num - 1) : start + i \in S
  BY ConstantsAssumption DEF GetDepositsByIndex
<1>2. deps \in Seq(Nat) /\ Len(deps) = num
  BY <1>1, ConstantsAssumption
<1>3. ASSUME NEW i \in 1..num PROVE deps[i] \in S
  <2>1. i - 1 \in 0..(num - 1)
    BY <1>1, <1>3, ConstantsAssumption
  <2>2. start + (i - 1) \in S
    BY <1>1, <2>1
  <2> QED BY <1>1, <2>2, <1>3
<1> QED BY <1>1, <1>2, <1>3

\* The shape of the chain after a proposal.
LEMMA ProposeShape ==
    ASSUME TypeOK, NEW n \in Nodes, ProposeBlock(n)
    PROVE  \E newLogs \in Nat, deps \in Seq(Nat) :
             LET index == Eth1DepositIndex(Len(chain)) IN
             /\ index \in Nat
             /\ newLogs \in DepositsPerEth1Block
             /\ Len(deps) \in 0..MaxDepositsPerBlock
             /\ deps = [i \in 1..Len(deps) |-> index + i - 1]
             /\ \A i \in 1..Len(deps) : deps[i] \in store[n]
             /\ chain' = Append(chain, [logs |-> DepositCount(Len(chain)) + newLogs,
                                        deps |-> deps,
                                        next |-> index + Len(deps)])
<1>1. committed[n] = Len(chain)
  BY DEF ProposeBlock
<1>2. Eth1DepositIndex(Len(chain)) \in Nat
  BY ChainType, CounterTypes
<1>3. PICK newLogs \in DepositsPerEth1Block,
           deps \in GetDepositsByIndex(store[n], Eth1DepositIndex(Len(chain)), MaxDepositsPerBlock) :
          chain' = Append(chain, [logs |-> DepositCount(Len(chain)) + newLogs,
                                  deps |-> deps,
                                  next |-> Eth1DepositIndex(Len(chain)) + Len(deps)])
  BY <1>1 DEF ProposeBlock
<1>4. newLogs \in Nat
  BY <1>3, ConstantsAssumption
<1>5. /\ deps \in Seq(Nat)
      /\ Len(deps) \in 0..MaxDepositsPerBlock
      /\ deps = [i \in 1..Len(deps) |-> Eth1DepositIndex(Len(chain)) + i - 1]
      /\ \A i \in 1..Len(deps) : deps[i] \in store[n]
  BY <1>2, <1>3, BatchType
<1> QED BY <1>2, <1>3, <1>4, <1>5

\* A proposal appends one block and changes no other.
LEMMA ProposeAppends ==
    ASSUME TypeOK, NEW n \in Nodes, ProposeBlock(n)
    PROVE  /\ chain' \in Seq(Blocks)
           /\ Len(chain') = Len(chain) + 1
           /\ Len(chain) < MaxHeight
           /\ \A h \in 1..Len(chain) : chain'[h] = chain[h]
<1>1. PICK newLogs \in Nat, deps \in Seq(Nat) :
             /\ Eth1DepositIndex(Len(chain)) \in Nat
             /\ chain' = Append(chain, [logs |-> DepositCount(Len(chain)) + newLogs,
                                        deps |-> deps,
                                        next |-> Eth1DepositIndex(Len(chain)) + Len(deps)])
  BY ProposeShape
<1>2. DepositCount(Len(chain)) \in Nat
  BY ChainType, CounterTypes
<1> DEFINE e == [logs |-> DepositCount(Len(chain)) + newLogs,
                 deps |-> deps,
                 next |-> Eth1DepositIndex(Len(chain)) + Len(deps)]
<1>3. e \in Blocks
  BY <1>1, <1>2 DEF Blocks
<1>4. chain' = Append(chain, e)
  BY <1>1
<1> HIDE DEF e
<1> QED BY <1>3, <1>4 DEF TypeOK, ProposeBlock

\* Whatever its end, a fetch of block b stores only deposits of block b.
LEMMA FetchEffect ==
    ASSUME NEW n \in Nodes, NEW b, FetchStep(n, b)
    PROVE  \E stored \in SUBSET LogsOf(b) :
             /\ store' = [store EXCEPT ![n] = @ \cup stored]
             /\ \/ failed' = [failed EXCEPT ![n] = @ \ {b}]
                \/ failed' = [failed EXCEPT ![n] = @ \cup {b}]
<1>1. CASE FetchSucceeds(n, b)
  <2>1. PICK deposits \in {LogsOf(b), {}} :
            /\ store' = [store EXCEPT ![n] = @ \cup deposits]
            /\ failed' = [failed EXCEPT ![n] = @ \ {b}]
    BY <1>1 DEF FetchSucceeds
  <2> QED BY <2>1
<1>2. CASE FetchFails(n, b)
  <2>1. PICK deposits \in {LogsOf(b), {}} :
            \E stored \in SUBSET deposits :
                store' = [store EXCEPT ![n] = @ \cup stored]
    BY <1>2 DEF FetchFails
  <2>2. PICK stored \in SUBSET deposits :
            store' = [store EXCEPT ![n] = @ \cup stored]
    BY <2>1
  <2>3. failed' = [failed EXCEPT ![n] = @ \cup {b}]
    BY <1>2 DEF FetchFails
  <2> QED BY <2>2, <2>3
<1> QED BY <1>1, <1>2 DEF FetchStep

LEMMA TypeStep == TypeOK /\ [Next]_vars => TypeOK'
<1> SUFFICES ASSUME TypeOK, [Next]_vars PROVE TypeOK'
  OBVIOUS
<1> USE ConstantsAssumption
<1>1. ASSUME NEW n \in Nodes, ProposeBlock(n) PROVE TypeOK'
  <2>1. /\ chain' \in Seq(Blocks)
        /\ Len(chain') = Len(chain) + 1
        /\ Len(chain') <= MaxHeight
        /\ Len(chain) \in Nat
    BY <1>1, ProposeAppends DEF TypeOK
  <2>2. UNCHANGED <<height, committed, feedq, sending, fetcher, pruner, store, failed, lost, crashes>>
    BY <1>1 DEF ProposeBlock
  <2>3. /\ 0..Len(chain) \subseteq 0..Len(chain')
        /\ 1..Len(chain) \subseteq 1..Len(chain')
    BY <2>1
  <2> QED BY <2>1, <2>2, <2>3 DEF TypeOK
<1>2. ASSUME NEW n \in Nodes, FinalizeBlock(n) PROVE TypeOK'
  BY <1>2 DEF TypeOK, FinalizeBlock
<1>3. ASSUME NEW n \in Nodes, Commit(n) PROVE TypeOK'
  BY <1>3 DEF TypeOK, Commit
<1>4. ASSUME NEW n \in Nodes, NEW h \in feedq[n], SendEvent(n, h) PROVE TypeOK'
  BY <1>4 DEF TypeOK, SendEvent
<1>5. ASSUME NEW n \in Nodes, NEW s, Deliver(n, s)
      PROVE  /\ sending' \in [Nodes -> [h : 1..Len(chain), todo : SUBSET Subscribers] \cup {Idle}]
             /\ sending[n].h \in 1..Len(chain)
  BY <1>5 DEF TypeOK, Deliver, Idle
<1>6. ASSUME NEW n \in Nodes, FetcherReceive(n) PROVE TypeOK'
  <2>1. FetchNumber(sending[n].h) \in 0..(U64Mod - 1)
    BY <1>5, <1>6, FetchNumberFollowed DEF FetcherReceive
  <2> QED BY <1>5, <1>6, <2>1 DEF TypeOK, FetcherReceive
<1>7. ASSUME NEW n \in Nodes, PrunerReceive(n) PROVE TypeOK'
  BY <1>5, <1>7 DEF TypeOK, PrunerReceive
<1>8. ASSUME NEW n \in Nodes, PruneDeposits(n) PROVE TypeOK'
  BY <1>8 DEF TypeOK, PruneDeposits
<1>9. ASSUME NEW n \in Nodes, NEW b \in 0..(U64Mod - 1), FetchStep(n, b)
      PROVE  /\ store' \in [Nodes -> SUBSET Nat]
             /\ failed' \in [Nodes -> SUBSET (0..(U64Mod - 1))]
  <2>1. LogsOf(b) \subseteq Nat
    BY ChainType, CounterTypes DEF LogsOf
  <2>2. PICK stored \in SUBSET LogsOf(b) :
            /\ store' = [store EXCEPT ![n] = @ \cup stored]
            /\ \/ failed' = [failed EXCEPT ![n] = @ \ {b}]
               \/ failed' = [failed EXCEPT ![n] = @ \cup {b}]
    BY <1>9, FetchEffect
  <2>3. stored \in SUBSET Nat
    BY <2>1
  <2>4. store' \in [Nodes -> SUBSET Nat]
    BY <2>2, <2>3 DEF TypeOK
  <2>5. failed' \in [Nodes -> SUBSET (0..(U64Mod - 1))]
    <3>1. failed \in [Nodes -> SUBSET (0..(U64Mod - 1))]
      BY DEF TypeOK
    <3>2. CASE failed' = [failed EXCEPT ![n] = @ \ {b}]
      BY <3>1, <3>2
    <3>3. CASE failed' = [failed EXCEPT ![n] = @ \cup {b}]
      BY <3>1, <3>3, <1>9
    <3> QED BY <2>2, <3>2, <3>3
  <2> QED BY <2>4, <2>5
<1>10. ASSUME NEW n \in Nodes, FetcherFetch(n) PROVE TypeOK'
  <2>1. fetcher[n] \in 0..(U64Mod - 1)
    BY <1>10 DEF TypeOK, FetcherFetch
  <2> QED BY <1>9, <1>10, <2>1 DEF TypeOK, FetcherFetch
<1>11. ASSUME NEW n \in Nodes, NEW b \in failed[n], CatchupFetch(n, b) PROVE TypeOK'
  <2>1. b \in 0..(U64Mod - 1)
    BY <1>11 DEF TypeOK
  <2> QED BY <1>9, <1>11, <2>1 DEF TypeOK, CatchupFetch
<1>12. ASSUME NEW n \in Nodes, Crash(n) PROVE TypeOK'
  <2>1. Outstanding(n) \subseteq 0..(U64Mod - 1)
    <3>1. \A h \in feedq[n] : FetchNumber(h) \in 0..(U64Mod - 1)
      BY FetchNumberFollowed DEF TypeOK
    <3>2. "fetcher" \in sending[n].todo => FetchNumber(sending[n].h) \in 0..(U64Mod - 1)
      <4>1. "fetcher" \in sending[n].todo => sending[n].h \in 1..Len(chain)
        BY DEF TypeOK, Idle
      <4> QED BY <4>1, FetchNumberFollowed
    <3> QED BY <3>1, <3>2 DEF TypeOK, Outstanding
  <2>2. crashes' \in 0..MaxCrashes
    BY <1>12 DEF TypeOK, Crash
  <2>3. /\ lost' \in [Nodes -> SUBSET (0..(U64Mod - 1))]
        /\ failed' \in [Nodes -> SUBSET (0..(U64Mod - 1))]
    BY <1>12, <2>1 DEF TypeOK, Crash
  <2> QED BY <1>12, <2>2, <2>3 DEF TypeOK, Crash
<1>13. CASE UNCHANGED vars
  BY <1>13 DEF TypeOK, vars
<1> QED
  BY <1>1, <1>2, <1>3, <1>4, <1>6, <1>7, <1>8, <1>10, <1>11, <1>12, <1>13 DEF Next, NodeStep

\* The types of the pipeline's state are kept by every handler, on every node.
THEOREM TypeCorrect == Spec => []TypeOK
BY TypeInit, TypeStep, PTL DEF Spec

-----------------------------------------------------------------------------
(* The counters.                                                           *)

\* The contract's count, read at two heights.
LEMMA CountMonotone ==
    ASSUME TypeOK, CountersMonotone, NEW g \in Int, NEW h \in Int, g <= h, h <= Len(chain)
    PROVE  DepositCount(g) <= DepositCount(h)
<1>1. CASE g \in 1..Len(chain)
  BY <1>1, ChainType DEF CountersMonotone, DepositCount
<1>2. CASE g \notin 1..Len(chain)
  BY <1>2, ChainType, CounterTypes DEF DepositCount
<1> QED BY <1>1, <1>2

\* A proposal leaves the counters of the old heights alone and moves the new
\* ones forward.
LEMMA ProposeCounters ==
    ASSUME TypeOK, NEW n \in Nodes, ProposeBlock(n), NEW L \in Nat, L = Len(chain)
    PROVE  /\ \A h \in Int : h <= L =>
                 /\ DepositCount(h)' = DepositCount(h)
                 /\ Eth1DepositIndex(h)' = Eth1DepositIndex(h)
           /\ DepositCount(L) <= DepositCount(L + 1)'
           /\ Eth1DepositIndex(L + 1)'
                = Eth1DepositIndex(L) + Len(chain'[L + 1].deps)
           /\ Len(chain'[L + 1].deps) \in 0..MaxDepositsPerBlock
           /\ chain'[L + 1].deps
                = [i \in 1..Len(chain'[L + 1].deps) |->
                      Eth1DepositIndex(L) + i - 1]
           /\ \A i \in 1..Len(chain'[L + 1].deps) :
                 chain'[L + 1].deps[i] \in store[n]
<1>1. PICK newLogs \in Nat, deps \in Seq(Nat) :
             /\ Eth1DepositIndex(Len(chain)) \in Nat
             /\ Len(deps) \in 0..MaxDepositsPerBlock
             /\ deps = [i \in 1..Len(deps) |-> Eth1DepositIndex(Len(chain)) + i - 1]
             /\ \A i \in 1..Len(deps) : deps[i] \in store[n]
             /\ chain' = Append(chain, [logs |-> DepositCount(Len(chain)) + newLogs,
                                        deps |-> deps,
                                        next |-> Eth1DepositIndex(Len(chain)) + Len(deps)])
  BY ProposeShape
<1> DEFINE e == [logs |-> DepositCount(Len(chain)) + newLogs,
                 deps |-> deps,
                 next |-> Eth1DepositIndex(Len(chain)) + Len(deps)]
<1>2. /\ e.logs = DepositCount(Len(chain)) + newLogs
      /\ e.deps = deps
      /\ e.next = Eth1DepositIndex(Len(chain)) + Len(deps)
  OBVIOUS
<1>3. chain' = Append(chain, e)
  BY <1>1
<1> HIDE DEF e
<1>4. chain \in Seq(Blocks) /\ Len(chain) \in Nat
  BY ChainType DEF TypeOK
<1>5. /\ DOMAIN chain' = 1..(Len(chain) + 1)
      /\ chain'[Len(chain) + 1] = e
      /\ \A h \in 1..Len(chain) : chain'[h] = chain[h]
      /\ DOMAIN chain = 1..Len(chain)
  <2>1. Len(chain') = Len(chain) + 1 /\ \A h \in 1..Len(chain) : chain'[h] = chain[h]
    BY ProposeAppends
  <2>2. chain' \in Seq(Blocks)
    BY ProposeAppends
  <2>3. DOMAIN chain' = 1..Len(chain')
    BY <2>2
  <2>4. chain'[Len(chain) + 1] = e
    BY <1>3, <1>4
  <2> QED BY <2>1, <2>3, <2>4, ChainType
<1>6. \A h \in Int : h <= Len(chain) =>
                 /\ DepositCount(h)' = DepositCount(h)
                 /\ Eth1DepositIndex(h)' = Eth1DepositIndex(h)
  BY <1>4, <1>5 DEF DepositCount, Eth1DepositIndex
<1>7. DepositCount(Len(chain)) \in Nat
  BY <1>4, CounterTypes
<1>8. DepositCount(Len(chain)) <= DepositCount(L + 1)'
  BY <1>2, <1>4, <1>5, <1>7 DEF DepositCount
<1>9. Eth1DepositIndex(L + 1)' = e.next
  BY <1>4, <1>5 DEF Eth1DepositIndex
<1> QED BY <1>1, <1>2, <1>5, <1>6, <1>8, <1>9

LEMMA CountersStep ==
    ASSUME TypeOK, CountersMonotone, AppliedInLogOrder, [Next]_vars
    PROVE  CountersMonotone' /\ AppliedInLogOrder'
<1> USE ConstantsAssumption
<1>1. CASE chain' = chain
  BY <1>1 DEF CountersMonotone, AppliedInLogOrder, Eth1DepositIndex
<1>2. ASSUME NEW n \in Nodes, ProposeBlock(n)
      PROVE  CountersMonotone' /\ AppliedInLogOrder'
  <2>a. PICK L \in Nat : L = Len(chain)
    BY ChainType
  <2>0. /\ L \in Nat
        /\ DOMAIN chain = 1..L
        /\ DOMAIN chain' = 1..(L + 1)
        /\ \A h \in 1..L : chain'[h] = chain[h]
        /\ \A h \in 1..L : chain[h].logs \in Nat /\ chain[h].next \in Nat
        /\ chain'[L + 1].logs = DepositCount(L + 1)'
        /\ chain'[L + 1].next = Eth1DepositIndex(L + 1)'
        /\ \A h \in 1..L : DepositCount(h) = chain[h].logs /\ Eth1DepositIndex(h) = chain[h].next
    <3>1. /\ DOMAIN chain = 1..L
          /\ \A h \in 1..L : chain'[h] = chain[h]
          /\ Len(chain') = L + 1
          /\ chain' \in Seq(Blocks)
      BY <1>2, <2>a, ChainType, ProposeAppends
    <3>2. DOMAIN chain' = 1..(L + 1)
      BY <3>1
    <3> QED BY <2>a, <3>1, <3>2, ChainType DEF DepositCount, Eth1DepositIndex
  <2>1. /\ \A h \in Int : h <= L => Eth1DepositIndex(h)' = Eth1DepositIndex(h)
        /\ DepositCount(L) <= DepositCount(L + 1)'
        /\ Eth1DepositIndex(L + 1)' = Eth1DepositIndex(L) + Len(chain'[L + 1].deps)
        /\ Len(chain'[L + 1].deps) \in Nat
        /\ chain'[L + 1].deps = [i \in 1..Len(chain'[L + 1].deps) |-> Eth1DepositIndex(L) + i - 1]
    BY <1>2, <2>a, ProposeCounters
  <2>2. DepositCount(L) \in Nat /\ Eth1DepositIndex(L) \in Nat /\ chain'[L + 1].logs \in Nat
    <3>1. L + 1 \in 1..Len(chain') /\ chain' \in Seq(Blocks)
      BY <1>2, <2>0, <2>a, ProposeAppends
    <3>2. chain'[L + 1] \in Blocks
      BY <3>1
    <3> QED BY <2>0, <3>2, CounterTypes DEF Blocks
  <2>3. CountersMonotone'
    <3> SUFFICES ASSUME NEW g \in 1..(L + 1), NEW h \in 1..(L + 1), g <= h
                 PROVE  chain'[g].logs <= chain'[h].logs /\ chain'[g].next <= chain'[h].next
      BY <2>0 DEF CountersMonotone
    <3>1. CASE h \in 1..L
      <4>1. g \in 1..L
        BY <2>0, <3>1
      <4>2. chain[g].logs <= chain[h].logs /\ chain[g].next <= chain[h].next
        BY <2>0, <3>1, <4>1 DEF CountersMonotone
      <4> QED BY <2>0, <3>1, <4>1, <4>2
    <3>2. CASE h = L + 1 /\ g \in 1..L
      <4>1. chain[g].logs <= chain[L].logs /\ chain[g].next <= chain[L].next
        BY <2>0, <3>2 DEF CountersMonotone
      <4>2. L \in 1..L
        BY <2>0, <3>2
      <4> QED BY <2>0, <2>1, <2>2, <3>2, <4>1, <4>2
    <3>3. CASE h = L + 1 /\ g = L + 1
      BY <2>0, <2>1, <2>2, <3>3
    <3> QED BY <2>0, <3>1, <3>2, <3>3
  <2>4. AppliedInLogOrder'
    <3> SUFFICES ASSUME NEW h \in 1..(L + 1)
                 PROVE  /\ chain'[h].deps = [i \in 1..Len(chain'[h].deps) |-> Eth1DepositIndex(h - 1)' + i - 1]
                        /\ Eth1DepositIndex(h)' = Eth1DepositIndex(h - 1)' + Len(chain'[h].deps)
      BY <2>0 DEF AppliedInLogOrder
    <3>1. CASE h \in 1..L
      <4>1. h - 1 \in Int /\ h - 1 <= L /\ h \in Int /\ h <= L
        BY <2>0, <3>1
      <4>2. Eth1DepositIndex(h - 1)' = Eth1DepositIndex(h - 1) /\ Eth1DepositIndex(h)' = Eth1DepositIndex(h)
        BY <2>1, <4>1
      <4> QED BY <2>0, <3>1, <4>2 DEF AppliedInLogOrder
    <3>2. CASE h = L + 1
      <4>1. h - 1 = L /\ L \in Int /\ L <= L
        BY <2>0, <3>2
      <4>2. Eth1DepositIndex(h - 1)' = Eth1DepositIndex(L)
        BY <2>1, <4>1
      <4> QED BY <2>1, <3>2, <4>2
    <3> QED BY <2>0, <3>1, <3>2
  <2> QED BY <2>3, <2>4
<1>3. (\E n \in Nodes : ProposeBlock(n)) \/ chain' = chain
  BY DEF Next, NodeStep, vars, FinalizeBlock, Commit, SendEvent, FetcherReceive,
         PrunerReceive, PruneDeposits, FetcherFetch, CatchupFetch, Crash
<1> QED BY <1>1, <1>2, <1>3

-----------------------------------------------------------------------------
(* Events, fetches and stores.                                             *)

LEMMA DeliverEvent ==
    ASSUME TypeOK, EventsAreFinalized, NEW n \in Nodes, NEW s, Deliver(n, s)
    PROVE  /\ sending[n].h \in 1..Len(chain)
           /\ sending[n].h <= height[n]
           /\ sending'[n] # Idle => sending'[n].h = sending[n].h
           /\ \A m \in Nodes \ {n} : sending'[m] = sending[m]
<1>1. sending[n] # Idle
  BY DEF Deliver, Idle
<1>2. sending[n].h \in 1..Len(chain) /\ sending[n].h <= height[n]
  BY <1>1 DEF TypeOK, EventsAreFinalized
<1>3. CASE sending[n].todo \ {s} = {}
  BY <1>2, <1>3 DEF TypeOK, Deliver
<1>4. CASE sending[n].todo \ {s} # {}
  <2>1. sending[n] \in [h : 1..Len(chain), todo : SUBSET Subscribers]
    BY <1>1 DEF TypeOK
  <2>2. sending' = [sending EXCEPT ![n] = [@ EXCEPT !.todo = sending[n].todo \ {s}]]
    BY <1>4 DEF Deliver
  <2>3. /\ sending'[n] = [sending[n] EXCEPT !.todo = sending[n].todo \ {s}]
        /\ \A m \in Nodes \ {n} : sending'[m] = sending[m]
    BY <2>2 DEF TypeOK
  <2>4. [sending[n] EXCEPT !.todo = sending[n].todo \ {s}].h = sending[n].h
    BY <2>1
  <2> QED BY <1>2, <2>3, <2>4
<1> QED BY <1>3, <1>4

LEMMA EventsStep ==
    ASSUME TypeOK, EventsAreFinalized, [Next]_vars
    PROVE  EventsAreFinalized'
<1> USE ConstantsAssumption DEF EventsAreFinalized
<1>1. ASSUME NEW n \in Nodes, ProposeBlock(n) PROVE EventsAreFinalized'
  BY <1>1 DEF ProposeBlock
<1>2. ASSUME NEW n \in Nodes, FinalizeBlock(n) PROVE EventsAreFinalized'
  <2> SUFFICES ASSUME NEW m \in Nodes
               PROVE  /\ committed'[m] <= height'[m]
                      /\ \A h \in feedq'[m] : h <= height'[m]
                      /\ sending'[m] # Idle => sending'[m].h <= height'[m]
                      /\ pruner'[m] # NoBlock => pruner'[m] <= height'[m]
    BY DEF Idle
  <2>1. height[m] \in Nat /\ (height'[m] = height[m] \/ height'[m] = height[m] + 1)
    BY <1>2, ChainType DEF TypeOK, FinalizeBlock
  <2>2. committed[m] \in Nat /\ committed[m] <= height[m] /\ committed'[m] = committed[m]
    BY <1>2, ChainType DEF TypeOK, FinalizeBlock
  <2>3. \A h \in feedq'[m] : h <= height'[m]
    <3>1. CASE m = n
      <4>1. feedq'[m] = feedq[m] \cup {height[m] + 1} /\ height'[m] = height[m] + 1
        BY <1>2, <3>1 DEF TypeOK, FinalizeBlock
      <4>2. feedq[m] \subseteq Int
        BY ChainType DEF TypeOK
      <4> QED BY <2>1, <4>1, <4>2
    <3>2. CASE m # n
      BY <1>2, <3>2 DEF TypeOK, FinalizeBlock
    <3> QED BY <3>1, <3>2
  <2>4. sending'[m] # Idle => sending'[m].h <= height'[m]
    <3>1. sending[m] # Idle => sending[m].h \in Int
      BY ChainType DEF TypeOK
    <3> QED BY <1>2, <2>1, <3>1 DEF FinalizeBlock, Idle
  <2>5. pruner'[m] # NoBlock => pruner'[m] <= height'[m]
    <3>1. pruner[m] # NoBlock => pruner[m] \in Int
      BY ChainType DEF TypeOK
    <3> QED BY <1>2, <2>1, <3>1 DEF FinalizeBlock
  <2> QED BY <2>1, <2>2, <2>3, <2>4, <2>5
<1>3. ASSUME NEW n \in Nodes, Commit(n) PROVE EventsAreFinalized'
  BY <1>3 DEF TypeOK, Commit, Idle
<1>4. ASSUME NEW n \in Nodes, NEW h \in feedq[n], SendEvent(n, h) PROVE EventsAreFinalized'
  BY <1>4 DEF TypeOK, SendEvent, Idle
<1>5. ASSUME NEW n \in Nodes, FetcherReceive(n) PROVE EventsAreFinalized'
  <2>1. Deliver(n, "fetcher")
    BY <1>5 DEF FetcherReceive
  <2> QED BY <1>5, <2>1, DeliverEvent DEF FetcherReceive, Idle
<1>6. ASSUME NEW n \in Nodes, PrunerReceive(n) PROVE EventsAreFinalized'
  <2>1. Deliver(n, "pruner")
    BY <1>6 DEF PrunerReceive
  <2> QED BY <1>6, <2>1, DeliverEvent DEF TypeOK, PrunerReceive, Idle
<1>7. ASSUME NEW n \in Nodes, PruneDeposits(n) PROVE EventsAreFinalized'
  BY <1>7 DEF TypeOK, PruneDeposits, Idle
<1>8. ASSUME NEW n \in Nodes, FetcherFetch(n) PROVE EventsAreFinalized'
  BY <1>8 DEF FetcherFetch, Idle
<1>9. ASSUME NEW n \in Nodes, NEW b \in failed[n], CatchupFetch(n, b) PROVE EventsAreFinalized'
  BY <1>9 DEF CatchupFetch, Idle
<1>10. ASSUME NEW n \in Nodes, Crash(n) PROVE EventsAreFinalized'
  <2>1. /\ height' = [height EXCEPT ![n] = committed[n]]
        /\ committed' = committed
        /\ feedq' = [feedq EXCEPT ![n] = {}]
        /\ sending' = [sending EXCEPT ![n] = Idle]
        /\ pruner' = [pruner EXCEPT ![n] = NoBlock]
    BY <1>10 DEF Crash
  <2>2. committed[n] \in Int
    BY ChainType DEF TypeOK
  <2> SUFFICES ASSUME NEW m \in Nodes
               PROVE  /\ committed'[m] <= height'[m]
                      /\ \A h \in feedq'[m] : h <= height'[m]
                      /\ sending'[m] # Idle => sending'[m].h <= height'[m]
                      /\ pruner'[m] # NoBlock => pruner'[m] <= height'[m]
    BY DEF Idle
  <2>3. CASE m = n
    <3>1. /\ height'[m] = committed[m] /\ committed'[m] = committed[m]
          /\ feedq'[m] = {} /\ sending'[m] = Idle /\ pruner'[m] = NoBlock
      BY <2>1, <2>3 DEF TypeOK
    <3> QED BY <2>2, <2>3, <3>1
  <2>4. CASE m # n
    <3>1. /\ height'[m] = height[m] /\ committed'[m] = committed[m]
          /\ feedq'[m] = feedq[m] /\ sending'[m] = sending[m] /\ pruner'[m] = pruner[m]
      BY <2>1, <2>4 DEF TypeOK
    <3> QED BY <3>1
  <2> QED BY <2>3, <2>4
<1>11. CASE UNCHANGED vars
  BY <1>11 DEF vars, Idle
<1> QED
  BY <1>1, <1>2, <1>3, <1>4, <1>5, <1>6, <1>7, <1>8, <1>9, <1>10, <1>11 DEF Next, NodeStep

\* What a fetch can bring into a store is followed.
LEMMA LogsAreFollowed ==
    ASSUME TypeOK, CountersMonotone, NEW b \in Nat, Fetchable(b)
    PROVE  \A i \in LogsOf(b) : i < DepositCount(Len(chain) - Eth1FollowDistance)
<1> SUFFICES ASSUME NEW i \in LogsOf(b)
             PROVE  i < DepositCount(Len(chain) - Eth1FollowDistance)
  OBVIOUS
<1>1. b \in 1..Len(chain)
  BY ChainType DEF LogsOf
<1>2. Len(chain) <= MaxHeight
  BY DEF TypeOK
<1>3. b <= Len(chain) - Eth1FollowDistance
  BY <1>1, <1>2, ChainType, ConstantsAssumption DEF Fetchable
<1>4. DepositCount(b) <= DepositCount(Len(chain) - Eth1FollowDistance)
  BY <1>1, <1>3, ChainType, ConstantsAssumption, CountMonotone
<1>5. /\ i \in Int
      /\ i < DepositCount(b)
      /\ DepositCount(b) \in Nat
      /\ DepositCount(Len(chain) - Eth1FollowDistance) \in Nat
  <2>1. i \in DepositCount(b - 1)..(chain[b].logs - 1) /\ DepositCount(b) = chain[b].logs
    BY <1>1, ChainType DEF LogsOf, DepositCount
  <2>2. b - 1 \in Int /\ Len(chain) - Eth1FollowDistance \in Int
    BY <1>1, ChainType, ConstantsAssumption
  <2>3. /\ DepositCount(b - 1) \in Nat
        /\ DepositCount(b) \in Nat
        /\ DepositCount(Len(chain) - Eth1FollowDistance) \in Nat
    <3>1. \A h \in Int : DepositCount(h) \in Nat
      BY CounterTypes
    <3>2. b \in Int
      OBVIOUS
    <3> QED BY <2>2, <3>1, <3>2, Zenon
  <2> QED BY <2>1, <2>3
<1> QED BY <1>4, <1>5

LEMMA FetchesStep ==
    ASSUME TypeOK, TypeOK', EventsAreFinalized, FetchesAreFollowed, [Next]_vars
    PROVE  FetchesAreFollowed'
<1> USE ConstantsAssumption
<1>0. ASSUME NEW b \in Int, Fetchable(b), Len(chain) <= Len(chain')
      PROVE  Fetchable(b)'
  BY <1>0, ChainType, Len(chain') \in Nat DEF Fetchable, TypeOK
<1>1. ASSUME NEW n \in Nodes, ProposeBlock(n) PROVE FetchesAreFollowed'
  <2>1. Len(chain) <= Len(chain') /\ failed' = failed /\ fetcher' = fetcher
    BY <1>1, ProposeAppends, ChainType DEF ProposeBlock
  <2>2. \A m \in Nodes : failed[m] \subseteq Int /\ (fetcher[m] # NoBlock => fetcher[m] \in Int)
    BY DEF TypeOK
  <2> QED BY <1>0, <2>1, <2>2 DEF FetchesAreFollowed
<1>2. ASSUME NEW n \in Nodes, FetcherReceive(n) PROVE FetchesAreFollowed'
  <2>1. Deliver(n, "fetcher")
    BY <1>2 DEF FetcherReceive
  <2>2. Fetchable(FetchNumber(sending[n].h))
    BY <2>1, DeliverEvent, FetchNumberFollowed
  <2> QED BY <1>2, <2>2 DEF TypeOK, FetcherReceive, FetchesAreFollowed, Fetchable
<1>3. ASSUME NEW n \in Nodes, NEW b, FetchStep(n, b), Fetchable(b), chain' = chain,
             fetcher' = fetcher \/ fetcher' = [fetcher EXCEPT ![n] = NoBlock]
      PROVE  FetchesAreFollowed'
  <2>1. failed' = [failed EXCEPT ![n] = @ \ {b}] \/ failed' = [failed EXCEPT ![n] = @ \cup {b}]
    BY <1>3, FetchEffect
  <2>2. \A m \in Nodes : \A c \in failed'[m] : c \in failed[m] \/ c = b
    <3>1. failed \in [Nodes -> SUBSET (0..(U64Mod - 1))]
      BY DEF TypeOK
    <3>2. CASE failed' = [failed EXCEPT ![n] = @ \ {b}]
      BY <3>1, <3>2
    <3>3. CASE failed' = [failed EXCEPT ![n] = @ \cup {b}]
      BY <3>1, <3>3
    <3> QED BY <2>1, <3>2, <3>3
  <2>3. \A m \in Nodes : fetcher'[m] # NoBlock => fetcher'[m] = fetcher[m]
    BY <1>3 DEF TypeOK
  <2> QED BY <1>3, <2>2, <2>3 DEF FetchesAreFollowed, Fetchable
<1>4. ASSUME NEW n \in Nodes, FetcherFetch(n) PROVE FetchesAreFollowed'
  <2>1. FetchStep(n, fetcher[n]) /\ Fetchable(fetcher[n]) /\ chain' = chain
        /\ fetcher' = [fetcher EXCEPT ![n] = NoBlock]
    BY <1>4 DEF FetcherFetch, FetchesAreFollowed
  <2> QED BY <1>3, <2>1
<1>5. ASSUME NEW n \in Nodes, NEW b \in failed[n], CatchupFetch(n, b) PROVE FetchesAreFollowed'
  <2>1. FetchStep(n, b) /\ Fetchable(b) /\ chain' = chain /\ fetcher' = fetcher
    BY <1>5 DEF CatchupFetch, FetchesAreFollowed
  <2> QED BY <1>3, <2>1
<1>6. ASSUME NEW n \in Nodes, Crash(n) PROVE FetchesAreFollowed'
  <2>1. \A m \in Nodes : /\ failed'[m] = {} \/ failed'[m] = failed[m]
                         /\ fetcher'[m] = NoBlock \/ fetcher'[m] = fetcher[m]
    BY <1>6 DEF TypeOK, Crash
  <2>2. chain' = chain
    BY <1>6 DEF Crash
  <2> QED BY <2>1, <2>2 DEF FetchesAreFollowed, Fetchable
<1>7. CASE chain' = chain /\ failed' = failed /\ fetcher' = fetcher
  BY <1>7 DEF FetchesAreFollowed, Fetchable
<1>8. \/ \E n \in Nodes : \/ ProposeBlock(n) \/ FetcherReceive(n) \/ FetcherFetch(n) \/ Crash(n)
                          \/ \E b \in failed[n] : CatchupFetch(n, b)
      \/ chain' = chain /\ failed' = failed /\ fetcher' = fetcher
  BY DEF Next, NodeStep, vars, FinalizeBlock, Commit, SendEvent, PrunerReceive, PruneDeposits
<1> QED BY <1>1, <1>2, <1>4, <1>5, <1>6, <1>7, <1>8

LEMMA StoresStep ==
    ASSUME TypeOK, TypeOK', CountersMonotone, CountersMonotone', FetchesAreFollowed,
           StoresAreFollowed, [Next]_vars
    PROVE  StoresAreFollowed'
<1> USE ConstantsAssumption
<1>1. ASSUME NEW n \in Nodes, ProposeBlock(n) PROVE StoresAreFollowed'
  <2>1. PICK L \in Nat : L = Len(chain)
    BY ChainType
  <2>2. Len(chain') = L + 1 /\ store' = store
    BY <1>1, <2>1, ProposeAppends DEF ProposeBlock
  <2>3. DepositCount(L - Eth1FollowDistance) <= DepositCount(L + 1 - Eth1FollowDistance)'
    <3>1. CASE Eth1FollowDistance = 0
      <4>1. DepositCount(L) <= DepositCount(L + 1)'
        BY <1>1, <2>1, ProposeCounters
      <4>2. L - Eth1FollowDistance = L /\ L + 1 - Eth1FollowDistance = L + 1
        BY <3>1
      <4> QED BY <4>1, <4>2
    <3>2. CASE Eth1FollowDistance # 0
      <4>1. /\ L - Eth1FollowDistance \in Int
            /\ L + 1 - Eth1FollowDistance \in Int
            /\ L - Eth1FollowDistance <= L + 1 - Eth1FollowDistance
            /\ L + 1 - Eth1FollowDistance <= Len(chain)
        BY <2>1, <3>2
      <4>2. DepositCount(L - Eth1FollowDistance) <= DepositCount(L + 1 - Eth1FollowDistance)
        BY <4>1, CountMonotone
      <4>3. DepositCount(L + 1 - Eth1FollowDistance)' = DepositCount(L + 1 - Eth1FollowDistance)
        <5>1. \A h \in Int : h <= L => DepositCount(h)' = DepositCount(h)
          BY <1>1, <2>1, ProposeCounters
        <5> QED BY <2>1, <4>1, <5>1
      <4> QED BY <4>2, <4>3
    <3> QED BY <3>1, <3>2
  <2>4. DepositCount(L - Eth1FollowDistance) \in Nat
    BY CounterTypes, L - Eth1FollowDistance \in Int
  <2>5. \A m \in Nodes : \A i \in store[m] : i \in Nat /\ i < DepositCount(L - Eth1FollowDistance)
    BY <2>1 DEF TypeOK, StoresAreFollowed
  <2>6. DepositCount(L + 1 - Eth1FollowDistance)' \in Nat
    <3>1. \A h \in Int : DepositCount(h)' \in Nat
      <4>1. chain' \in Seq(Blocks)
        BY DEF TypeOK
      <4>2. DOMAIN chain' = 1..Len(chain') /\ \A h \in 1..Len(chain') : chain'[h] \in Blocks
        BY <4>1
      <4> QED BY <4>2 DEF DepositCount, Blocks
    <3> QED BY <3>1, L + 1 - Eth1FollowDistance \in Int
  <2>7. \A m \in Nodes : \A i \in store[m] : i < DepositCount(L + 1 - Eth1FollowDistance)'
    BY <2>3, <2>4, <2>5, <2>6
  <2> QED BY <2>2, <2>7 DEF StoresAreFollowed, DepositCount
<1>2. ASSUME NEW n \in Nodes, NEW b \in Nat, FetchStep(n, b), Fetchable(b), chain' = chain
      PROVE  StoresAreFollowed'
  <2>1. PICK stored \in SUBSET LogsOf(b) : store' = [store EXCEPT ![n] = @ \cup stored]
    BY <1>2, FetchEffect
  <2>2. \A m \in Nodes : \A i \in store'[m] : i \in store[m] \/ i \in LogsOf(b)
    BY <2>1 DEF TypeOK
  <2>3. \A i \in LogsOf(b) : i < DepositCount(Len(chain) - Eth1FollowDistance)
    BY <1>2, LogsAreFollowed
  <2> QED BY <1>2, <2>2, <2>3 DEF StoresAreFollowed, DepositCount
<1>3. ASSUME NEW n \in Nodes, FetcherFetch(n) PROVE StoresAreFollowed'
  <2>1. FetchStep(n, fetcher[n]) /\ Fetchable(fetcher[n]) /\ fetcher[n] \in Nat /\ chain' = chain
    BY <1>3 DEF TypeOK, FetcherFetch, FetchesAreFollowed
  <2> QED BY <1>2, <2>1
<1>4. ASSUME NEW n \in Nodes, NEW b \in failed[n], CatchupFetch(n, b) PROVE StoresAreFollowed'
  <2>1. FetchStep(n, b) /\ Fetchable(b) /\ b \in Nat /\ chain' = chain
    BY <1>4 DEF TypeOK, CatchupFetch, FetchesAreFollowed
  <2> QED BY <1>2, <2>1
<1>5. ASSUME NEW n \in Nodes, PruneDeposits(n) PROVE StoresAreFollowed'
  <2>1. \A m \in Nodes : store'[m] \subseteq store[m]
    BY <1>5 DEF TypeOK, PruneDeposits
  <2>2. chain' = chain
    BY <1>5 DEF PruneDeposits
  <2> QED BY <2>1, <2>2 DEF StoresAreFollowed, DepositCount
<1>6. CASE chain' = chain /\ store' = store
  BY <1>6 DEF StoresAreFollowed, DepositCount
<1>7. \/ \E n \in Nodes : \/ ProposeBlock(n) \/ FetcherFetch(n) \/ PruneDeposits(n)
                          \/ \E b \in failed[n] : CatchupFetch(n, b)
      \/ chain' = chain /\ store' = store
  BY DEF Next, NodeStep, vars, FinalizeBlock, Commit, SendEvent, FetcherReceive,
         PrunerReceive, Crash
<1> QED BY <1>1, <1>3, <1>4, <1>5, <1>6, <1>7

LEMMA FollowedStep ==
    ASSUME TypeOK, StoresAreFollowed, AppliedOnlyWhenFollowed, [Next]_vars
    PROVE  AppliedOnlyWhenFollowed'
<1> USE ConstantsAssumption
<1>1. CASE chain' = chain
  BY <1>1 DEF AppliedOnlyWhenFollowed, DepositCount
<1>2. ASSUME NEW n \in Nodes, ProposeBlock(n) PROVE AppliedOnlyWhenFollowed'
  <2>1. PICK L \in Nat : L = Len(chain)
    BY ChainType
  <2>2. /\ DOMAIN chain' = 1..(L + 1)
        /\ DOMAIN chain = 1..L
        /\ \A h \in 1..L : chain'[h] = chain[h]
    <3>1. chain' \in Seq(Blocks) /\ Len(chain') = L + 1
      BY <1>2, <2>1, ProposeAppends
    <3>2. DOMAIN chain' = 1..(L + 1)
      BY <3>1
    <3> QED BY <1>2, <2>1, <3>2, ChainType, ProposeAppends
  <2>3. \A h \in Int : h <= L => DepositCount(h)' = DepositCount(h)
    BY <1>2, <2>1, ProposeCounters
  <2> SUFFICES ASSUME NEW h \in 1..(L + 1), NEW i \in DOMAIN chain'[h].deps
               PROVE  chain'[h].deps[i] < DepositCount(h - 1 - Eth1FollowDistance)'
    BY <2>2 DEF AppliedOnlyWhenFollowed
  <2>4. DepositCount(h - 1 - Eth1FollowDistance)' = DepositCount(h - 1 - Eth1FollowDistance)
    <3>1. h - 1 - Eth1FollowDistance \in Int /\ h - 1 - Eth1FollowDistance <= L
      BY <2>1
    <3> QED BY <2>3, <3>1
  <2>5. CASE h \in 1..L
    BY <2>2, <2>4, <2>5 DEF AppliedOnlyWhenFollowed
  <2>6. CASE h = L + 1
    <3>1. /\ \A k \in 1..Len(chain'[L + 1].deps) : chain'[L + 1].deps[k] \in store[n]
          /\ chain'[L + 1].deps = [k \in 1..Len(chain'[L + 1].deps) |-> Eth1DepositIndex(L) + k - 1]
      BY <1>2, <2>1, ProposeCounters
    <3>2. chain'[h].deps[i] \in store[n]
      BY <2>6, <3>1
    <3>3. h - 1 - Eth1FollowDistance = Len(chain) - Eth1FollowDistance
      BY <2>1, <2>6
    <3> QED BY <2>4, <3>2, <3>3 DEF StoresAreFollowed
  <2> QED BY <2>5, <2>6
<1>3. (\E n \in Nodes : ProposeBlock(n)) \/ chain' = chain
  BY DEF Next, NodeStep, vars, FinalizeBlock, Commit, SendEvent, FetcherReceive,
         PrunerReceive, PruneDeposits, FetcherFetch, CatchupFetch, Crash
<1> QED BY <1>1, <1>2, <1>3

-----------------------------------------------------------------------------
(* The theorems.                                                           *)

LEMMA InvInit == Init => PipelineInv
<1> SUFFICES ASSUME Init PROVE PipelineInv
  OBVIOUS
<1>1. TypeOK
  BY TypeInit
<1>2. CountersMonotone /\ AppliedInLogOrder /\ AppliedOnlyWhenFollowed
  BY DEF Init, CountersMonotone, AppliedInLogOrder, AppliedOnlyWhenFollowed
<1>3. EventsAreFinalized
  BY DEF Init, EventsAreFinalized
<1>4. FetchesAreFollowed /\ StoresAreFollowed
  BY DEF Init, FetchesAreFollowed, StoresAreFollowed
<1> QED BY <1>1, <1>2, <1>3, <1>4 DEF PipelineInv

LEMMA InvStep == PipelineInv /\ [Next]_vars => PipelineInv'
<1> SUFFICES ASSUME PipelineInv, [Next]_vars PROVE PipelineInv'
  OBVIOUS
<1>1. /\ TypeOK /\ CountersMonotone /\ AppliedInLogOrder /\ AppliedOnlyWhenFollowed
      /\ EventsAreFinalized /\ FetchesAreFollowed /\ StoresAreFollowed
  BY DEF PipelineInv
<1>2. TypeOK'
  BY <1>1, TypeStep
<1>3. CountersMonotone' /\ AppliedInLogOrder'
  BY <1>1, CountersStep
<1>4. EventsAreFinalized'
  BY <1>1, EventsStep
<1>5. FetchesAreFollowed'
  BY <1>1, <1>2, FetchesStep
<1>6. StoresAreFollowed'
  BY <1>1, <1>2, <1>3, StoresStep
<1>7. AppliedOnlyWhenFollowed'
  BY <1>1, FollowedStep
<1> QED BY <1>2, <1>3, <1>4, <1>5, <1>6, <1>7 DEF PipelineInv

\* The invariant of the pipeline: what is queued, fetched, stored and applied
\* is always old enough, and the counters only move forward.
THEOREM PipelineInvariant == Spec => []PipelineInv
BY InvInit, InvStep, PTL DEF Spec

\* Blocks apply the contract's deposits in log order, with no gap and no
\* repetition, although processDeposit never checks a deposit's index.
THEOREM DepositsInLogOrder == Spec => []AppliedInLogOrder
<1>1. PipelineInv => AppliedInLogOrder
  BY DEF PipelineInv
<1> QED BY <1>1, PipelineInvariant, PTL

\* What a step takes out of a node's store the node's state has counted.
LEMMA PrunedAreApplied ==
    ASSUME PipelineInv, Next, NEW n \in Nodes, NEW i \in store[n] \ store'[n]
    PROVE  height[n] \in 1..Len(chain) /\ i < Eth1DepositIndex(height[n])
<1> USE ConstantsAssumption
<1>1. TypeOK /\ CountersMonotone /\ AppliedInLogOrder /\ EventsAreFinalized
  BY DEF PipelineInv
<1>2. ASSUME NEW m \in Nodes, NEW b, FetchStep(m, b) PROVE FALSE
  <2>1. PICK stored : store' = [store EXCEPT ![m] = @ \cup stored]
    BY <1>2, FetchEffect
  <2> QED BY <1>1, <2>1 DEF TypeOK
<1>3. \E m \in Nodes : PruneDeposits(m)
  BY <1>2 DEF Next, NodeStep, FinalizeBlock, Commit, SendEvent, FetcherReceive, ProposeBlock,
       PrunerReceive, FetcherFetch, CatchupFetch, Crash
<1>4. PruneDeposits(n)
  BY <1>1, <1>3 DEF PruneDeposits, TypeOK
<1>5. PICK h \in 1..Len(chain) : h = pruner[n] /\ h <= height[n] /\ h \in DOMAIN chain
  BY <1>1, <1>4, ChainType DEF TypeOK, PruneDeposits, EventsAreFinalized
<1> DEFINE deps == chain[h].deps
           range == PruneRange(deps)
<1>6. i \in PrunedIndices(range.start, range.end)
  BY <1>1, <1>4, <1>5 DEF TypeOK, PruneDeposits
<1>7. /\ deps \in Seq(Nat) /\ Len(deps) \in Nat
      /\ chain[h].next \in Nat
      /\ \A k \in 1..Len(deps) : deps[k] \in Nat
  <2>1. deps \in Seq(Nat) /\ chain[h].next \in Nat
    BY <1>1, ChainType, Zenon
  <2> HIDE DEF deps
  <2> QED BY <2>1
<1>8. Len(deps) # 0 => deps[Len(deps)] < chain[h].next
  <2>1. /\ deps = [k \in 1..Len(deps) |-> Eth1DepositIndex(h - 1) + k - 1]
        /\ chain[h].next = Eth1DepositIndex(h - 1) + Len(deps)
    BY <1>1, <1>5 DEF AppliedInLogOrder, Eth1DepositIndex
  <2>2. Eth1DepositIndex(h - 1) \in Nat
    BY <1>1, CounterTypes, h - 1 \in Int
  <2>3. ASSUME Len(deps) # 0 PROVE deps[Len(deps)] = Eth1DepositIndex(h - 1) + Len(deps) - 1
    <3>1. Len(deps) \in 1..Len(deps)
      BY <1>7, <2>3
    <3> QED BY <2>1, <3>1, Zenon
  <2> QED BY <1>7, <2>1, <2>2, <2>3
<1>9. i < chain[h].next
  <2> HIDE DEF deps
  <2>1. CASE Len(deps) = 0
    BY <1>6, <2>1 DEF PruneRange, PrunedIndices
  <2>2. CASE Len(deps) # 0
    <3>1. deps[Len(deps)] \in Nat
      BY <1>7, <2>2
    <3> QED BY <1>6, <1>7, <1>8, <2>2, <3>1 DEF PruneRange, PrunedIndices
  <2> QED BY <2>1, <2>2
<1>10. height[n] \in 1..Len(chain)
  BY <1>1, <1>5, ChainType DEF TypeOK
<1>11. chain[h].next <= Eth1DepositIndex(height[n])
  BY <1>1, <1>5, <1>10, ChainType DEF CountersMonotone, Eth1DepositIndex
<1>12. i \in Int /\ Eth1DepositIndex(height[n]) \in Nat
  <2>1. height[n] \in Int
    BY <1>1, ChainType DEF TypeOK
  <2>2. Eth1DepositIndex(height[n]) \in Nat
    BY <1>1, <2>1, CounterTypes
  <2> QED BY <1>1, <2>2 DEF TypeOK
<1> QED BY <1>7, <1>9, <1>10, <1>11, <1>12

\* Pruning on late and reordered events never removes a deposit that the node's
\* beacon state has not counted.
THEOREM PrunerSafe == Spec => PrunerKeepsUnapplied
<1>1. PipelineInv /\ [Next]_vars =>
        [\A n \in Nodes : \A i \in store[n] \ store'[n] : i < Eth1DepositIndex(height[n])]_vars
  BY PrunedAreApplied DEF vars
<1> QED BY <1>1, PipelineInvariant, PTL DEF Spec, PrunerKeepsUnapplied

-----------------------------------------------------------------------------
(* No deposit is lost on the way into a store.                             *)

\* A block number far enough behind the node is not a wrapped subtraction.
LEMMA FetchNumberBehind ==
    ASSUME NEW h \in Nat, NEW b \in 1..(h - Eth1FollowDistance)
    PROVE  FetchNumber(h) = h - Eth1FollowDistance
BY ConstantsAssumption DEF FetchNumber

\* The chain only grows: logs of its blocks stay and the counter does not fall.
LEMMA ChainGrows ==
    ASSUME PipelineInv, [Next]_vars
    PROVE  /\ \A b \in 1..Len(chain) : LogsOf(b)' = LogsOf(b)
           /\ Eth1DepositIndex(Len(chain)) \in Nat
           /\ Eth1DepositIndex(Len(chain))' \in Nat
           /\ Eth1DepositIndex(Len(chain)) <= Eth1DepositIndex(Len(chain))'
<1>1. TypeOK
  BY DEF PipelineInv
<1>2. Len(chain) \in Nat /\ DOMAIN chain = 1..Len(chain) /\ Eth1DepositIndex(Len(chain)) \in Nat
  BY <1>1, ChainType, CounterTypes
<1>3. CASE chain' = chain
  BY <1>2, <1>3 DEF LogsOf, DepositCount, Eth1DepositIndex
<1>4. ASSUME NEW m \in Nodes, ProposeBlock(m)
      PROVE  /\ \A b \in 1..Len(chain) : LogsOf(b)' = LogsOf(b)
             /\ Eth1DepositIndex(Len(chain))' \in Nat
             /\ Eth1DepositIndex(Len(chain)) <= Eth1DepositIndex(Len(chain))'
  <2>1. PICK L \in Nat : L = Len(chain)
    BY <1>2
  <2>2. /\ chain' \in Seq(Blocks) /\ Len(chain') = L + 1
        /\ \A h \in 1..L : chain'[h] = chain[h]
    BY <1>1, <1>4, <2>1, ProposeAppends
  <2>3. DOMAIN chain' = 1..(L + 1)
    BY <2>2
  <2>4. /\ \A h \in Int : h <= L => DepositCount(h)' = DepositCount(h)
        /\ Eth1DepositIndex(L + 1)' = Eth1DepositIndex(L) + Len(chain'[L + 1].deps)
        /\ Len(chain'[L + 1].deps) \in Nat
    <3>1. Len(chain'[L + 1].deps) \in 0..MaxDepositsPerBlock
      BY <1>1, <1>4, <2>1, ProposeCounters
    <3>2. /\ \A h \in Int : h <= L => DepositCount(h)' = DepositCount(h)
          /\ Eth1DepositIndex(L + 1)' = Eth1DepositIndex(L) + Len(chain'[L + 1].deps)
      BY <1>1, <1>4, <2>1, ProposeCounters
    <3> QED BY <3>1, <3>2, ConstantsAssumption
  <2>5. Eth1DepositIndex(Len(chain))' = Eth1DepositIndex(L + 1)'
    BY <2>2
  <2>6. ASSUME NEW b \in 1..L PROVE LogsOf(b)' = LogsOf(b)
    <3>1. chain'[b] = chain[b] /\ b \in DOMAIN chain' /\ b \in DOMAIN chain
      BY <1>2, <2>1, <2>2, <2>3
    <3>2. DepositCount(b - 1)' = DepositCount(b - 1)
      BY <2>4, b - 1 \in Int, b - 1 <= L
    <3> QED BY <3>1, <3>2 DEF LogsOf
  <2> QED BY <1>2, <2>1, <2>4, <2>5, <2>6
<1>5. (\E m \in Nodes : ProposeBlock(m)) \/ chain' = chain
  BY DEF Next, NodeStep, vars, FinalizeBlock, Commit, SendEvent, FetcherReceive,
         PrunerReceive, PruneDeposits, FetcherFetch, CatchupFetch, Crash
<1> QED BY <1>2, <1>3, <1>4, <1>5

\* A client that lags no more than the follow distance knows the logs of every
\* block far enough behind the node: a fetch stores them or stays outstanding.
LEMMA FetchSettles ==
    ASSUME MaxElLag <= Eth1FollowDistance, TypeOK, NEW n \in Nodes,
           NEW b \in 1..(height[n] - Eth1FollowDistance), FetchStep(n, b)
    PROVE  b \in failed'[n] \/ LogsOf(b) \subseteq store'[n]
<1>1. CASE FetchFails(n, b)
  BY <1>1 DEF FetchFails, TypeOK
<1>2. CASE FetchSucceeds(n, b)
  <2>1. PICK deposits : ReadDeposits(n, b, deposits) /\ store' = [store EXCEPT ![n] = @ \cup deposits]
    BY <1>2 DEF FetchSucceeds
  <2>2. height[n] \in Nat /\ b \in Nat
    BY ChainType DEF TypeOK
  <2>3. deposits = LogsOf(b)
    BY <2>1, <2>2, ConstantsAssumption DEF ReadDeposits
  <2> QED BY <2>1, <2>3 DEF TypeOK
<1> QED BY <1>1, <1>2 DEF FetchStep

\* A fetch of one block leaves the others in failedBlocks where they are.
LEMMA FetchKeepsOthers ==
    ASSUME TypeOK, NEW n \in Nodes, NEW b, FetchStep(n, b), NEW c \in failed[n], c # b
    PROVE  c \in failed'[n]
BY DEF FetchStep, FetchSucceeds, FetchFails, TypeOK

\* Each step of a node keeps what it still has to fetch, except what it stores
\* and what a crash forgets; the block of a new event is added.
LEMMA OutstandingStep ==
    ASSUME MaxElLag <= Eth1FollowDistance, PipelineInv, NEW n \in Nodes, NodeStep(n),
           NEW b \in 1..(height'[n] - Eth1FollowDistance),
           b \in Outstanding(n) \/ b > height[n] - Eth1FollowDistance
    PROVE  b \in Outstanding(n)' \cup lost'[n] \/ LogsOf(b) \subseteq store'[n]
<1> USE ConstantsAssumption
<1>0. /\ TypeOK /\ height[n] \in Nat /\ b \in Nat \ {0} /\ committed[n] \in Nat
      /\ committed[n] <= height[n]
  BY ChainType DEF PipelineInv, TypeOK, EventsAreFinalized
<1>1. CASE FinalizeBlock(n)
  <2>1. height'[n] = height[n] + 1 /\ height[n] + 1 \in feedq'[n]
    BY <1>0, <1>1 DEF FinalizeBlock, TypeOK
  <2>2. CASE b \in Outstanding(n)
    <3>1. feedq[n] \subseteq feedq'[n]
      BY <1>0, <1>1 DEF FinalizeBlock, TypeOK
    <3> QED BY <1>1, <2>2, <3>1 DEF FinalizeBlock, Outstanding
  <2>3. CASE b > height[n] - Eth1FollowDistance
    <3>1. b = height[n] + 1 - Eth1FollowDistance
      BY <1>0, <2>1, <2>3
    <3>2. b = FetchNumber(height[n] + 1)
      BY <1>0, <3>1, FetchNumberBehind DEF FetchNumber
    <3> QED BY <2>1, <3>2 DEF Outstanding
  <2> QED BY <2>2, <2>3
<1>2. CASE Crash(n)
  <2>1. height'[n] = committed[n] /\ lost'[n] = lost[n] \cup (Outstanding(n) \ Replayed(n))
    BY <1>0, <1>2 DEF Crash, TypeOK
  <2>2. b \in Outstanding(n)
    BY <1>0, <2>1
  <2>3. b \notin Replayed(n)
    <3> SUFFICES ASSUME committed[n] < height[n] PROVE b # FetchNumber(height[n])
      BY DEF Replayed
    <3> QED BY <1>0, <2>1 DEF FetchNumber
  <2> QED BY <2>1, <2>2, <2>3
<1>3. ASSUME height'[n] = height[n] PROVE b \in Outstanding(n)
  BY <1>0, <1>3
<1>4. CASE ProposeBlock(n) \/ Commit(n) \/ PruneDeposits(n)
  BY <1>3, <1>4 DEF ProposeBlock, Commit, PruneDeposits, Outstanding
<1>5. ASSUME NEW h \in feedq[n], SendEvent(n, h) PROVE b \in Outstanding(n)'
  <2>1. /\ b \in Outstanding(n)
        /\ feedq'[n] = feedq[n] \ {h}
        /\ sending[n] = Idle
        /\ sending'[n] = [h |-> h, todo |-> Subscribers]
        /\ failed' = failed /\ fetcher' = fetcher
    BY <1>0, <1>3, <1>5 DEF SendEvent, TypeOK
  <2> QED BY <2>1 DEF Outstanding, Idle, Subscribers
<1>6. CASE PrunerReceive(n)
  <2>1. /\ b \in Outstanding(n)
        /\ feedq' = feedq /\ failed' = failed /\ fetcher' = fetcher
    BY <1>3, <1>6 DEF PrunerReceive
  <2>2. "fetcher" \in sending[n].todo
          => "fetcher" \in sending'[n].todo /\ sending'[n].h = sending[n].h
    <3> SUFFICES ASSUME "fetcher" \in sending[n].todo
                 PROVE  "fetcher" \in sending'[n].todo /\ sending'[n].h = sending[n].h
      OBVIOUS
    <3>1. sending[n] \in [h : 1..Len(chain), todo : SUBSET Subscribers]
      BY <1>0 DEF TypeOK, Idle
    <3>2. sending'[n] = [sending[n] EXCEPT !.todo = sending[n].todo \ {"pruner"}]
      BY <1>0, <1>6 DEF PrunerReceive, Deliver, TypeOK
    <3> QED BY <3>1, <3>2
  <2> QED BY <2>1, <2>2 DEF Outstanding
<1>7. CASE FetcherReceive(n)
  <2>1. /\ b \in Outstanding(n)
        /\ feedq' = feedq /\ failed' = failed
        /\ fetcher[n] = NoBlock
        /\ fetcher'[n] = FetchNumber(sending[n].h)
    BY <1>0, <1>3, <1>7 DEF FetcherReceive, TypeOK
  <2>2. "fetcher" \in sending[n].todo /\ sending[n] # Idle
    BY <1>7 DEF FetcherReceive, Deliver, Idle
  <2>3. FetchNumber(sending[n].h) # NoBlock
    <3>1. sending[n].h \in 1..Len(chain)
      BY <1>0, <2>2 DEF TypeOK
    <3>2. FetchNumber(sending[n].h) \in Nat
      BY <1>0, <3>1, FetchNumberFollowed
    <3> QED BY <3>2
  <2> QED BY <2>1, <2>3 DEF Outstanding
<1>8. CASE FetcherFetch(n)
  <2>1. /\ b \in Outstanding(n)
        /\ feedq' = feedq /\ sending' = sending /\ height' = height
    BY <1>3, <1>8 DEF FetcherFetch
  <2>2. FetchStep(n, fetcher[n])
    BY <1>8 DEF FetcherFetch
  <2>3. CASE b = fetcher[n]
    BY <1>0, <2>1, <2>2, <2>3, FetchSettles DEF Outstanding
  <2>4. CASE b # fetcher[n]
    <3>1. b \in failed[n] => b \in failed'[n]
      BY <1>0, <2>2, <2>4, FetchKeepsOthers
    <3> QED BY <2>1, <2>4, <3>1 DEF Outstanding
  <2> QED BY <2>3, <2>4
<1>9. ASSUME NEW c \in failed[n], CatchupFetch(n, c)
      PROVE  b \in Outstanding(n)' \/ LogsOf(b) \subseteq store'[n]
  <2>1. /\ b \in Outstanding(n)
        /\ feedq' = feedq /\ sending' = sending /\ fetcher' = fetcher /\ height' = height
        /\ FetchStep(n, c)
    BY <1>3, <1>9 DEF CatchupFetch
  <2>2. CASE b = c
    BY <1>0, <2>1, <2>2, FetchSettles DEF Outstanding
  <2>3. CASE b # c
    <3>1. b \in failed[n] => b \in failed'[n]
      BY <1>0, <2>1, <2>3, FetchKeepsOthers
    <3> QED BY <2>1, <3>1 DEF Outstanding
  <2> QED BY <2>2, <2>3
<1> QED BY <1>1, <1>2, <1>4, <1>5, <1>6, <1>7, <1>8, <1>9 DEF NodeStep

\* A step of one node leaves the others alone.
LEMMA OtherNodes ==
    ASSUME TypeOK, NEW m \in Nodes, NodeStep(m), NEW n \in Nodes, n # m
    PROVE  /\ height'[n] = height[n]
           /\ lost'[n] = lost[n]
           /\ feedq'[n] = feedq[n]
           /\ sending'[n] = sending[n]
           /\ fetcher'[n] = fetcher[n]
           /\ failed'[n] = failed[n]
<1>1. ASSUME NEW b, FetchStep(m, b) PROVE failed'[n] = failed[n]
  BY <1>1 DEF FetchStep, FetchSucceeds, FetchFails, TypeOK
<1> QED BY <1>1 DEF TypeOK, NodeStep, ProposeBlock, FinalizeBlock, Commit, SendEvent, Deliver,
        FetcherReceive, PrunerReceive, PruneDeposits, FetcherFetch, CatchupFetch, Crash

LEMMA LostOnlyGrows ==
    ASSUME TypeOK, Next, NEW n \in Nodes
    PROVE  lost[n] \subseteq lost'[n]
<1>1. PICK m \in Nodes : NodeStep(m)
  BY DEF Next
<1>2. CASE Crash(m)
  <2>1. PICK S : lost' = [lost EXCEPT ![m] = @ \cup S]
    BY <1>2 DEF Crash
  <2> QED BY <2>1 DEF TypeOK
<1>3. CASE ~Crash(m)
  <2>1. lost' = lost
    BY <1>1, <1>3 DEF NodeStep, ProposeBlock, FinalizeBlock, Commit, SendEvent,
       FetcherReceive, PrunerReceive, PruneDeposits, FetcherFetch, CatchupFetch
  <2> QED BY <2>1
<1> QED BY <1>2, <1>3

LEMMA LossStep ==
    ASSUME MaxElLag <= Eth1FollowDistance, PipelineInv, PipelineInv', NoSilentLoss, [Next]_vars
    PROVE  NoSilentLoss'
<1>1. CASE UNCHANGED vars
  BY <1>1 DEF vars, NoSilentLoss, Outstanding, LogsOf, DepositCount, Eth1DepositIndex
<1>2. CASE Next
  <2> SUFFICES ASSUME NEW n \in Nodes, NEW b \in 1..(height'[n] - Eth1FollowDistance)
               PROVE  \/ b \in Outstanding(n)' \cup lost'[n]
                      \/ \A i \in LogsOf(b)' :
                            i \in store'[n] \/ i < Eth1DepositIndex(Len(chain))'
    BY DEF NoSilentLoss
  <2>1. TypeOK /\ TypeOK'
    BY DEF PipelineInv
  <2>2. PICK m \in Nodes : NodeStep(m)
    BY <1>2 DEF Next
  <2>3. height[n] \in 0..Len(chain) /\ Len(chain) \in Nat /\ height'[n] \in 0..Len(chain)
    <3>1. height[n] \in 0..Len(chain) /\ Len(chain) \in Nat
      BY <2>1, ChainType DEF TypeOK
    <3>2. height'[n] \in 0..Len(chain)
      BY <2>1, <2>2, <3>1 DEF TypeOK, NodeStep, ProposeBlock, FinalizeBlock, Commit, SendEvent,
         FetcherReceive, PrunerReceive, PruneDeposits, FetcherFetch, CatchupFetch, Crash
    <3> QED BY <3>1, <3>2
  <2>4. b \in 1..Len(chain)
    BY <2>3, ConstantsAssumption
  <2>5. /\ LogsOf(b)' = LogsOf(b)
        /\ Eth1DepositIndex(Len(chain)) \in Nat
        /\ Eth1DepositIndex(Len(chain))' \in Nat
        /\ Eth1DepositIndex(Len(chain)) <= Eth1DepositIndex(Len(chain))'
    BY <1>2, <2>4, ChainGrows
  <2>6. CASE n = m /\ (b \in Outstanding(n) \/ b > height[n] - Eth1FollowDistance)
    BY <2>2, <2>5, <2>6, OutstandingStep
  <2>7. CASE n # m /\ b \in Outstanding(n)
    BY <2>1, <2>2, <2>7, OtherNodes DEF Outstanding
  <2>8. CASE b \in lost[n]
    BY <1>2, <2>1, <2>8, LostOnlyGrows
  <2>9. CASE \A i \in LogsOf(b) : i \in store[n] \/ i < Eth1DepositIndex(Len(chain))
    <3> SUFFICES ASSUME NEW i \in LogsOf(b)
                 PROVE  i \in store'[n] \/ i < Eth1DepositIndex(Len(chain))'
      BY <2>5
    <3>1. i \in Int
      <4>1. DepositCount(b - 1) \in Nat /\ chain[b].logs \in Nat
        <5>1. b - 1 \in Int
          BY <2>4
        <5> QED BY <2>1, <2>4, <5>1, ChainType, CounterTypes
      <4> QED BY <4>1 DEF LogsOf
    <3>2. CASE i < Eth1DepositIndex(Len(chain))
      BY <2>5, <3>1, <3>2
    <3>3. CASE i \in store[n] /\ i \notin store'[n]
      <4>1. height[n] \in 1..Len(chain) /\ i < Eth1DepositIndex(height[n])
        BY <1>2, <3>3, PrunedAreApplied
      <4>2. Eth1DepositIndex(height[n]) <= Eth1DepositIndex(Len(chain))
        BY <2>1, <2>3, <4>1, ChainType DEF PipelineInv, CountersMonotone, Eth1DepositIndex
      <4>3. Eth1DepositIndex(height[n]) \in Nat
        <5>1. height[n] \in Int
          BY <2>3
        <5> QED BY <2>1, <5>1, CounterTypes
      <4> QED BY <2>5, <3>1, <4>1, <4>2, <4>3
    <3> QED BY <2>9, <3>2, <3>3
  <2>10. b > height[n] - Eth1FollowDistance => n = m
    BY <2>1, <2>2, <2>3, OtherNodes, ConstantsAssumption
  <2>11. b \in 1..(height[n] - Eth1FollowDistance) \/ b > height[n] - Eth1FollowDistance
    BY <2>3, <2>4, ConstantsAssumption
  <2> QED BY <2>6, <2>7, <2>8, <2>9, <2>10, <2>11 DEF NoSilentLoss
<1> QED BY <1>1, <1>2

\* Where the execution client is never further behind the node than the follow
\* distance, every deposit that is old enough is stored, applied, or on a list of
\* blocks to fetch, except what a crash forgot: for any number of nodes, lost
\* reads, partial writes and any order of events.
THEOREM DepositsAccountedFor ==
    ASSUME MaxElLag <= Eth1FollowDistance
    PROVE  Spec => []NoSilentLoss
<1>1. Init => NoSilentLoss
  BY ConstantsAssumption DEF Init, NoSilentLoss
<1>2. PipelineInv /\ PipelineInv' /\ NoSilentLoss /\ [Next]_vars => NoSilentLoss'
  BY LossStep
<1> QED BY <1>1, <1>2, PipelineInvariant, PTL DEF Spec

-----------------------------------------------------------------------------
(* The pipeline implements the queue.                                      *)

LEMMA QueueInit == Init => Queue!Init
BY DEF Init, Queue!Init, Eth1DepositIndex

LEMMA QueueCount ==
    ASSUME TypeOK, NEW h \in Int
    PROVE  Queue!Count(h) = DepositCount(h)
BY ChainType DEF Queue!Count, DepositCount

LEMMA QueueStep ==
    ASSUME PipelineInv, PipelineInv', [Next]_vars
    PROVE  [Queue!Block]_<<[h \in DOMAIN chain |-> chain[h].logs], Eth1DepositIndex(Len(chain))>>
<1> USE ConstantsAssumption
<1>0. TypeOK /\ TypeOK' /\ StoresAreFollowed /\ AppliedInLogOrder' /\ AppliedOnlyWhenFollowed'
  BY DEF PipelineInv
<1>1. CASE chain' = chain
  BY <1>1 DEF Eth1DepositIndex
<1>2. ASSUME NEW n \in Nodes, ProposeBlock(n) PROVE Queue!Block
  <2>1. PICK L \in Nat : L = Len(chain)
    BY <1>0, ChainType
  <2>2. PICK newLogs \in Nat, deps \in Seq(Nat) :
             /\ newLogs \in DepositsPerEth1Block
             /\ Eth1DepositIndex(L) \in Nat
             /\ Len(deps) \in 0..MaxDepositsPerBlock
             /\ deps = [i \in 1..Len(deps) |-> Eth1DepositIndex(L) + i - 1]
             /\ \A i \in 1..Len(deps) : deps[i] \in store[n]
             /\ chain' = Append(chain, [logs |-> DepositCount(L) + newLogs,
                                        deps |-> deps,
                                        next |-> Eth1DepositIndex(L) + Len(deps)])
    BY <1>0, <1>2, <2>1, ProposeShape
  <2> DEFINE e == [logs |-> DepositCount(L) + newLogs,
                   deps |-> deps,
                   next |-> Eth1DepositIndex(L) + Len(deps)]
             counts == [h \in DOMAIN chain |-> chain[h].logs]
  <2>3. e.logs = DepositCount(L) + newLogs /\ e.next = Eth1DepositIndex(L) + Len(deps)
    OBVIOUS
  <2>4. chain' = Append(chain, e)
    BY <2>2
  <2> HIDE DEF e
  <2>5. /\ chain \in Seq(Blocks) /\ DOMAIN chain = 1..L
        /\ chain' \in Seq(Blocks) /\ Len(chain') = L + 1 /\ DOMAIN chain' = 1..(L + 1)
        /\ chain'[L + 1] = e
        /\ \A h \in 1..L : chain'[h] = chain[h]
    <3>1. chain \in Seq(Blocks) /\ DOMAIN chain = 1..L
      BY <1>0, <2>1, ChainType DEF TypeOK
    <3>2. /\ chain' \in Seq(Blocks) /\ Len(chain') = L + 1
          /\ \A h \in 1..L : chain'[h] = chain[h]
      BY <1>0, <1>2, <2>1, ProposeAppends
    <3>3. DOMAIN chain' = 1..(L + 1)
      BY <3>2
    <3>4. chain'[L + 1] = e
      BY <2>1, <2>4, <3>1
    <3> QED BY <3>1, <3>2, <3>3, <3>4
  <2>6. \A h \in 1..L : chain[h].logs \in Nat
    BY <1>0, <2>1, ChainType
  <2>7. counts \in Seq(Nat) /\ Len(counts) = L
    BY <2>5, <2>6
  <2>8. [h \in DOMAIN chain |-> chain[h].logs]' = Append(counts, DepositCount(L) + newLogs)
    <3>1. [h \in DOMAIN chain |-> chain[h].logs]' = [h \in 1..(L + 1) |-> chain'[h].logs]
      BY <2>5
    <3>2. Append(counts, DepositCount(L) + newLogs)
            = [h \in 1..(L + 1) |-> IF h = L + 1 THEN DepositCount(L) + newLogs ELSE counts[h]]
      BY <2>7
    <3>3. \A h \in 1..(L + 1) :
             chain'[h].logs = IF h = L + 1 THEN DepositCount(L) + newLogs ELSE counts[h]
      BY <2>3, <2>5
    <3> QED BY <3>1, <3>2, <3>3
  <2>9. Eth1DepositIndex(Len(chain))' = Eth1DepositIndex(L) + Len(deps)
    BY <2>3, <2>5 DEF Eth1DepositIndex
  <2>10. Len(deps) > 0 => Eth1DepositIndex(L) + Len(deps) <= DepositCount(L - Eth1FollowDistance)
    <3> SUFFICES ASSUME Len(deps) > 0
                 PROVE  Eth1DepositIndex(L) + Len(deps) <= DepositCount(L - Eth1FollowDistance)
      OBVIOUS
    <3>1. Len(deps) \in 1..Len(deps)
      BY <2>2
    <3>2. deps[Len(deps)] \in store[n] /\ deps[Len(deps)] = Eth1DepositIndex(L) + Len(deps) - 1
      <4>1. deps[Len(deps)] \in store[n]
        BY <2>2, <3>1
      <4>2. deps[Len(deps)] = Eth1DepositIndex(L) + Len(deps) - 1
        BY <2>2, <3>1, Zenon
      <4> QED BY <4>1, <4>2
    <3>3. deps[Len(deps)] < DepositCount(L - Eth1FollowDistance)
      BY <1>0, <2>1, <3>2 DEF StoresAreFollowed
    <3>4. L - Eth1FollowDistance \in Int
      OBVIOUS
    <3>5. DepositCount(L - Eth1FollowDistance) \in Nat
      BY <1>0, <3>4, CounterTypes
    <3> QED BY <2>2, <3>2, <3>3, <3>5
  <2>11. /\ Queue!Count(L) = DepositCount(L)
         /\ Queue!Count(L - Eth1FollowDistance) = DepositCount(L - Eth1FollowDistance)
    BY <1>0, QueueCount, L - Eth1FollowDistance \in Int
  <2>12. \E new \in DepositsPerEth1Block, num \in 0..MaxDepositsPerBlock :
            /\ num > 0 => Eth1DepositIndex(L) + num <= Queue!Count(L - Eth1FollowDistance)
            /\ [h \in DOMAIN chain |-> chain[h].logs]' = Append(counts, Queue!Count(L) + new)
            /\ Eth1DepositIndex(Len(chain))' = Eth1DepositIndex(L) + num
    BY <2>2, <2>8, <2>9, <2>10, <2>11
  <2> QED BY <2>1, <2>7, <2>12 DEF Queue!Block
<1>3. (\E n \in Nodes : ProposeBlock(n)) \/ chain' = chain
  BY DEF Next, NodeStep, vars, FinalizeBlock, Commit, SendEvent, FetcherReceive,
         PrunerReceive, PruneDeposits, FetcherFetch, CatchupFetch, Crash
<1> QED BY <1>1, <1>2, <1>3

\* Stores, queues, retries, pruning and crashes of all nodes together behave
\* as one first-in first-out queue of deposits.
THEOREM PipelineImplementsQueue == Spec => ImplementsQueue
<1>1. PipelineInv /\ PipelineInv' /\ [Next]_vars
        => [Queue!Block]_<<[h \in DOMAIN chain |-> chain[h].logs], Eth1DepositIndex(Len(chain))>>
  BY QueueStep
<1> QED BY <1>1, QueueInit, PipelineInvariant, PTL DEF Spec, ImplementsQueue, Queue!Spec
=============================================================================
