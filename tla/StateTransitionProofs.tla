------------------------ MODULE StateTransitionProofs ------------------------
(***************************************************************************)
(* Proofs about StateTransition.  Proposer, verifier and finalizer run the *)
(* same transition at different times, over tables of hashes that have     *)
(* grown in between.  The proofs show first that a transition does the     *)
(* same over every table that holds what it hashed, for any number of      *)
(* slots without a block, by induction over the rounds of ProcessSlots;    *)
(* then what the rounds leave in the rings of the state; and then that     *)
(* every action keeps TransitionInv.                                       *)
(***************************************************************************)
EXTENDS StateTransition, NumberLemmas, FiniteSetTheorems, TLAPS

-----------------------------------------------------------------------------
(* Tables of hashes.                                                       *)

\* Table u begins with table t.
Within(t, u) == Len(t) <= Len(u) /\ \A i \in 1 .. Len(t) : u[i] = t[i]

LEMMA TableLen ==
    ASSUME NEW tab, IsTable(tab) PROVE Len(tab) \in Nat
BY DEF IsTable, IsSequence

\* The root of a value that is in the table is its index.
LEMMA RootIn ==
    ASSUME NEW tab, IsTable(tab), NEW i \in 1 .. Len(tab)
    PROVE  RootOf(tab[i], tab) = i
BY DEF RootOf, IsTable, IsSequence

\* Remember adds the value at the end unless it is there, so that its root is the
\* same before and after.
LEMMA Remembering ==
    ASSUME NEW tab, IsTable(tab), NEW x
    PROVE  LET u == Remember(x, tab)
               r == RootOf(x, tab)
           IN /\ IsTable(u) /\ Within(tab, u)
              /\ r \in 1 .. Len(u) /\ u[r] = x /\ RootOf(x, u) = r
<1> DEFINE u == Remember(x, tab)
           r == RootOf(x, tab)
<1>1. CASE \E i \in 1 .. Len(tab) : tab[i] = x
  <2>1. u = tab
    BY <1>1 DEF Remember
  <2>2. PICK i \in 1 .. Len(tab) : tab[i] = x
    BY <1>1
  <2>3. r = i
    BY <2>2, RootIn
  <2> QED BY <2>1, <2>2, <2>3 DEF Within
<1>2. CASE ~ \E i \in 1 .. Len(tab) : tab[i] = x
  <2> DEFINE V == {tab[i] : i \in 1 .. Len(tab)}
             W == V \cup {x}
  <2>1. u = Append(tab, x) /\ r = Len(tab) + 1
    BY <1>2 DEF Remember, RootOf
  <2>2. tab \in Seq(W) /\ Len(tab) \in Nat
    <3>1. tab \in Seq(V)
      BY DEF IsTable, IsSequence
    <3>2. V \subseteq W
      OBVIOUS
    <3> HIDE DEF V, W
    <3> QED BY <3>1, <3>2
  <2> HIDE DEF W
  <2>3. /\ Len(u) = Len(tab) + 1 /\ u[Len(tab) + 1] = x
        /\ \A i \in 1 .. Len(tab) : u[i] = tab[i]
    BY <2>1, <2>2, x \in W DEF W
  <2>4. {u[i] : i \in 1 .. Len(u)} = W
    BY <2>2, <2>3 DEF W
  <2>5. u \in Seq(W)
    BY <2>1, <2>2 DEF W
  <2>6. \A i, j \in 1 .. Len(u) : u[i] = u[j] => i = j
    BY <1>2, <2>2, <2>3 DEF IsTable, IsSequence
  <2>7. IsTable(u)
    BY <2>4, <2>5, <2>6 DEF IsTable, IsSequence
  <2>8. RootOf(x, u) = r
    BY <2>1, <2>2, <2>3, <2>7, RootIn, Len(tab) + 1 \in 1 .. Len(u)
  <2>9. Within(tab, u) /\ r \in 1 .. Len(u) /\ u[r] = x
    BY <2>1, <2>2, <2>3 DEF Within
  <2> QED BY <2>7, <2>8, <2>9
<1> QED BY <1>1, <1>2

LEMMA WithinItself ==
    ASSUME NEW tab, IsTable(tab) PROVE Within(tab, tab)
BY DEF Within, IsTable, IsSequence

LEMMA WithinTransitive ==
    ASSUME NEW t, NEW u, NEW v, IsTable(t), IsTable(u), IsTable(v), Within(t, u), Within(u, v)
    PROVE  Within(t, v)
<1>1. Len(t) \in Nat /\ Len(u) \in Nat /\ Len(v) \in Nat
  BY DEF IsTable, IsSequence
<1> QED BY <1>1 DEF Within

\* A table that begins with one that holds a value gives the value the same root
\* and is left alone by Remember.
LEMMA Remembered ==
    ASSUME NEW t, NEW u, IsTable(t), IsTable(u), NEW x, Within(Remember(x, t), u)
    PROVE  Within(t, u) /\ Remember(x, u) = u /\ RootOf(x, u) = RootOf(x, t)
<1> DEFINE v == Remember(x, t)
           r == RootOf(x, t)
<1>1. /\ IsTable(v) /\ Within(t, v) /\ r \in 1 .. Len(v) /\ v[r] = x
  BY Remembering
<1>2. Len(v) \in Nat /\ Len(u) \in Nat
  BY <1>1 DEF IsTable, IsSequence
<1>3. r \in 1 .. Len(u) /\ u[r] = x
  BY <1>1, <1>2 DEF Within
<1>4. Remember(x, u) = u
  BY <1>3 DEF Remember
<1>5. RootOf(x, u) = r
  BY <1>3, RootIn
<1> QED BY <1>1, <1>4, <1>5, WithinTransitive

-----------------------------------------------------------------------------
(* The loop of ProcessSlots as a recursive function.                       *)

\* f holds the first n rounds of the loop of ProcessSlots.
IsRun(f, n, w) == f = [i \in 0 .. n |-> IF i = 0 THEN w ELSE advanceSlot(f[i - 1])]

LEMMA RunUnique ==
    ASSUME NEW w, NEW m \in Nat, NEW n \in Nat, m <= n, NEW f, NEW g,
           IsRun(f, m, w), IsRun(g, n, w)
    PROVE  \A i \in 0 .. m : f[i] = g[i]
<1>f. f = [i \in 0 .. m |-> IF i = 0 THEN w ELSE advanceSlot(f[i - 1])]
  BY DEF IsRun
<1>g. g = [i \in 0 .. n |-> IF i = 0 THEN w ELSE advanceSlot(g[i - 1])]
  BY DEF IsRun
<1> DEFINE S == {i \in Nat : i <= m => f[i] = g[i]}
<1>1. 0 \in S
  BY <1>f, <1>g
<1>2. ASSUME NEW i \in Nat, i \in S PROVE i + 1 \in S
  <2> SUFFICES ASSUME i + 1 <= m PROVE f[i + 1] = g[i + 1]
    OBVIOUS
  <2>1. i + 1 \in 0 .. m /\ i + 1 \in 0 .. n /\ i + 1 # 0 /\ i + 1 - 1 = i
    OBVIOUS
  <2>2. f[i + 1] = advanceSlot(f[i]) /\ g[i + 1] = advanceSlot(g[i])
    BY <1>f, <1>g, <2>1
  <2>3. f[i] = g[i]
    BY <1>2
  <2> QED BY <2>2, <2>3
<1> HIDE DEF S
<1>3. \A i \in Nat : i \in S
  BY <1>1, <1>2, InductionOverNat
<1>4. ASSUME NEW i \in 0 .. m PROVE f[i] = g[i]
  <2>1. i \in Nat /\ i <= m
    OBVIOUS
  <2>2. i \in S
    BY <1>3, <2>1
  <2> QED BY <2>1, <2>2 DEF S
<1> QED BY <1>4

LEMMA RunExists ==
    ASSUME NEW w
    PROVE  \A n \in Nat : \E g : IsRun(g, n, w)
<1> DEFINE S == {n \in Nat : \E g : IsRun(g, n, w)}
<1>1. 0 \in S
  <2> DEFINE g == [i \in 0 .. 0 |-> w]
  <2>1. g = [i \in 0 .. 0 |-> IF i = 0 THEN w ELSE advanceSlot(g[i - 1])]
    OBVIOUS
  <2> HIDE DEF g
  <2> QED BY <2>1 DEF IsRun
<1>2. ASSUME NEW n \in Nat, n \in S PROVE n + 1 \in S
  <2> n \in 0 .. n /\ n + 1 \in 0 .. n + 1 /\ n + 1 # 0
    OBVIOUS
  <2>1. PICK g : g = [i \in 0 .. n |-> IF i = 0 THEN w ELSE advanceSlot(g[i - 1])]
    BY <1>2 DEF IsRun
  <2> DEFINE h == [i \in 0 .. n + 1 |-> IF i = n + 1 THEN advanceSlot(g[n]) ELSE g[i]]
  <2>2. ASSUME NEW i \in 0 .. n + 1
        PROVE  h[i] = IF i = 0 THEN w ELSE advanceSlot(h[i - 1])
    <3>1. CASE i = n + 1
      <4>1. h[i - 1] = g[n] /\ h[i] = advanceSlot(g[n])
        BY <3>1
      <4> QED BY <3>1, <4>1
    <3>2. CASE i # n + 1
      <4>1. i \in 0 .. n /\ (i # 0 => i - 1 \in 0 .. n)
        BY <3>2
      <4>2. h[i] = g[i] /\ (i # 0 => h[i - 1] = g[i - 1])
        BY <3>2, <4>1
      <4>3. g[i] = IF i = 0 THEN w ELSE advanceSlot(g[i - 1])
        BY <2>1, <4>1
      <4> QED BY <4>2, <4>3
    <3> QED BY <3>1, <3>2
  <2>3. h = [i \in 0 .. n + 1 |-> h[i]]
    OBVIOUS
  <2> HIDE DEF h
  <2>4. h = [i \in 0 .. n + 1 |-> IF i = 0 THEN w ELSE advanceSlot(h[i - 1])]
    BY <2>2, <2>3
  <2> QED BY <2>4 DEF IsRun
<1> HIDE DEF S
<1>3. \A n \in Nat : n \in S
  BY <1>1, <1>2, InductionOverNat
<1> QED BY <1>3 DEF S

\* The recursive function advanceSlots exists and satisfies its equation.
LEMMA AdvanceSlots ==
    ASSUME NEW w
    PROVE  /\ advanceSlots(w)[0] = w
           /\ \A n \in Nat : advanceSlots(w)[n + 1] = advanceSlot(advanceSlots(w)[n])
<1> DEFINE Partial(n) == CHOOSE g : IsRun(g, n, w)
           f == [n \in Nat |-> Partial(n)[n]]
<1>1. ASSUME NEW n \in Nat PROVE IsRun(Partial(n), n, w)
  <2>1. \E g : IsRun(g, n, w)
    BY RunExists
  <2> QED BY <2>1
<1>2. ASSUME NEW n \in Nat PROVE f[n] = IF n = 0 THEN w ELSE advanceSlot(f[n - 1])
  <2>1. CASE n = 0
    <3>1. IsRun(Partial(0), 0, w)
      BY <1>1
    <3> HIDE DEF Partial
    <3>2. f[0] = Partial(0)[0] /\ 0 \in 0 .. 0
      OBVIOUS
    <3>3. Partial(0)[0] = w
      BY <3>1, <3>2 DEF IsRun
    <3> QED BY <2>1, <3>2, <3>3
  <2>2. CASE n # 0
    <3> DEFINE m == n - 1
    <3>1. m \in Nat /\ m <= n /\ n \in 0 .. n /\ m \in 0 .. m
      BY <2>2
    <3>2. Partial(m)[m] = Partial(n)[m]
      <4>1. IsRun(Partial(m), m, w) /\ IsRun(Partial(n), n, w)
        BY <1>1, <3>1
      <4> HIDE DEF Partial, m
      <4>2. \A i \in 0 .. m : Partial(m)[i] = Partial(n)[i]
        BY <3>1, <4>1, RunUnique
      <4> QED BY <3>1, <4>2
    <3>3. Partial(n)[n] = advanceSlot(Partial(n)[m])
      <4>1. IsRun(Partial(n), n, w)
        BY <1>1
      <4> HIDE DEF Partial
      <4> QED BY <2>2, <3>1, <4>1 DEF IsRun
    <3> HIDE DEF Partial
    <3>4. f[n] = Partial(n)[n] /\ f[m] = Partial(m)[m]
      BY <3>1
    <3> QED BY <2>2, <3>2, <3>3, <3>4
  <2> QED BY <2>1, <2>2
<1>3. f = [n \in Nat |-> f[n]]
  OBVIOUS
<1> HIDE DEF f
<1>4. f = [n \in Nat |-> IF n = 0 THEN w ELSE advanceSlot(f[n - 1])]
  BY <1>2, <1>3
<1> DEFINE Q(g) == g = [n \in Nat |-> IF n = 0 THEN w ELSE advanceSlot(g[n - 1])]
<1>5. advanceSlots(w) = CHOOSE g : Q(g)
  BY DEF advanceSlots
<1>6. Q(advanceSlots(w))
  <2>1. Q(f)
    BY <1>4
  <2> HIDE DEF Q
  <2> QED BY <2>1, <1>5
<1>7. ASSUME NEW n \in Nat PROVE advanceSlots(w)[n + 1] = advanceSlot(advanceSlots(w)[n])
  <2>1. n + 1 \in Nat /\ n + 1 # 0 /\ n + 1 - 1 = n
    OBVIOUS
  <2> QED BY <1>6, <2>1
<1> QED BY <1>6, <1>7

-----------------------------------------------------------------------------
(* One round of the loop.                                                  *)

\* A state, field by field.
StateOf(slot, header, block, state, mix, slashed, payload) ==
    [slot |-> slot, header |-> header, blockRoots |-> block, stateRoots |-> state,
     mixes |-> mix, slashings |-> slashed, payload |-> payload]

LEMMA StateFields ==
    ASSUME NEW a, NEW b, NEW c, NEW d, NEW e, NEW f, NEW g
    PROVE  LET s == StateOf(a, b, c, d, e, f, g)
           IN /\ s.slot = a /\ s.header = b /\ s.blockRoots = c /\ s.stateRoots = d
              /\ s.mixes = e /\ s.slashings = f /\ s.payload = g
BY DEF StateOf

\* The header of a state once it has its state root.
Sealed(s, tab) == [slot |-> s.header.slot, proposer |-> s.header.proposer,
                   parent |-> s.header.parent,
                   stateRoot |-> IF s.header.stateRoot = ZeroRoot THEN RootOf(s, tab)
                                 ELSE s.header.stateRoot,
                   body |-> s.header.body]
\* What processSlot adds to the table: the state, and the header with its root.
Sealing(s, tab) == Remember(Sealed(s, tab), Remember(s, tab))
NextMixes(s) ==
    IF (s.slot + 1) % SlotsPerEpoch = 0
    THEN [s.mixes EXCEPT ![(SlotToEpoch(s.slot) + 1) % EpochsPerHistoricalVector] =
              s.mixes[SlotToEpoch(s.slot) % EpochsPerHistoricalVector]]
    ELSE s.mixes
NextSlashings(s) ==
    IF (s.slot + 1) % SlotsPerEpoch = 0
    THEN s.slashings \cup {(SlotToEpoch(s.slot) + 1) % EpochsPerSlashingsVector}
    ELSE s.slashings
\* The state after one round of the loop, field by field.
NextState(s, tab) ==
    LET i == s.slot % SlotsPerHistoricalRoot
    IN StateOf(s.slot + 1, Sealed(s, tab),
               [s.blockRoots EXCEPT ![i] = RootOf(Sealed(s, tab), Remember(s, tab))],
               [s.stateRoots EXCEPT ![i] = RootOf(s, tab)],
               NextMixes(s), NextSlashings(s), s.payload)

\* processSlot and a round of the loop, field by field.
LEMMA ProcessSlotForm ==
    ASSUME NEW s, NEW tab, IsState(s)
    PROVE  processSlot([st |-> s, tab |-> tab]) =
             [st |-> LET i == s.slot % SlotsPerHistoricalRoot
                     IN StateOf(s.slot, Sealed(s, tab),
                                [s.blockRoots EXCEPT ![i] = RootOf(Sealed(s, tab), Remember(s, tab))],
                                [s.stateRoots EXCEPT ![i] = RootOf(s, tab)],
                                s.mixes, s.slashings, s.payload),
              tab |-> Sealing(s, tab)]
<1> DEFINE w == [st |-> s, tab |-> tab]
           i == s.slot % SlotsPerHistoricalRoot
           r == RootOf(Sealed(s, tab), Remember(s, tab))
           prev == RootOf(s, tab)
           h == [s.header EXCEPT !.stateRoot = IF @ = ZeroRoot THEN prev ELSE @]
<1>1. h = Sealed(s, tab)
  BY DEF IsState, IsHeader, Sealed
<1>2. processSlot(w) =
        [st |-> [s EXCEPT !.stateRoots[i] = prev, !.header = h,
                          !.blockRoots[i] = RootOf(h, Remember(s, tab))],
         tab |-> Remember(h, Remember(s, tab))]
  BY DEF processSlot
<1> HIDE DEF i, prev, h
<1>3. [s EXCEPT !.stateRoots[i] = prev, !.header = h, !.blockRoots[i] = r] =
        [[[s EXCEPT !.stateRoots[i] = prev] EXCEPT !.header = h] EXCEPT !.blockRoots[i] = r]
  OBVIOUS
<1> HIDE DEF r
<1>4. s = StateOf(s.slot, s.header, s.blockRoots, s.stateRoots, s.mixes, s.slashings, s.payload)
  BY DEF IsState, StateOf
<1> DEFINE s1 == [s EXCEPT !.stateRoots[i] = prev]
           s2 == [s1 EXCEPT !.header = h]
           s3 == [s2 EXCEPT !.blockRoots[i] = r]
<1>5. s1 = StateOf(s.slot, s.header, s.blockRoots, [s.stateRoots EXCEPT ![i] = prev],
                   s.mixes, s.slashings, s.payload)
  BY <1>4 DEF StateOf
<1> HIDE DEF s1
<1>6. s2 = StateOf(s.slot, h, s.blockRoots, [s.stateRoots EXCEPT ![i] = prev],
                   s.mixes, s.slashings, s.payload)
  BY <1>5 DEF StateOf
<1> HIDE DEF s2
<1>7. s3 = StateOf(s.slot, h, [s.blockRoots EXCEPT ![i] = r], [s.stateRoots EXCEPT ![i] = prev],
                   s.mixes, s.slashings, s.payload)
  BY <1>6 DEF StateOf
<1> QED BY <1>1, <1>2, <1>3, <1>7 DEF Sealing, i, r, prev, s1, s2

LEMMA AdvanceForm ==
    ASSUME NEW s, NEW tab, IsState(s)
    PROVE  advanceSlot([st |-> s, tab |-> tab]) =
             [st |-> NextState(s, tab), tab |-> Sealing(s, tab)]
<1> DEFINE w == [st |-> s, tab |-> tab]
           i == s.slot % SlotsPerHistoricalRoot
           B == [s.blockRoots EXCEPT ![i] = RootOf(Sealed(s, tab), Remember(s, tab))]
           T == [s.stateRoots EXCEPT ![i] = RootOf(s, tab)]
           e == SlotToEpoch(s.slot)
           L == (e + 1) % EpochsPerSlashingsVector
           X == (e + 1) % EpochsPerHistoricalVector
           M == [s.mixes EXCEPT ![X] = s.mixes[e % EpochsPerHistoricalVector]]
           y == StateOf(s.slot, Sealed(s, tab), B, T, s.mixes, s.slashings, s.payload)
           G == s.slashings \cup {L}
           z == StateOf(s.slot, Sealed(s, tab), B, T, s.mixes, G, s.payload)
<1>1. processSlot(w) = [st |-> y, tab |-> Sealing(s, tab)]
  BY ProcessSlotForm
<1>2. NextState(s, tab) = StateOf(s.slot + 1, Sealed(s, tab), B, T, NextMixes(s), NextSlashings(s), s.payload)
  BY DEF NextState
<1> HIDE DEF B, T
<1>3. y.slot = s.slot /\ y.slashings = s.slashings /\ z.slot = s.slot /\ z.mixes = s.mixes
  BY StateFields
<1>4. CASE (s.slot + 1) % SlotsPerEpoch = 0
  <2> DEFINE v == StateOf(s.slot, Sealed(s, tab), B, T, M, G, s.payload)
  <2>1. processSlashingsReset(y) = z
    <3>1. processSlashingsReset(y) = [y EXCEPT !.slashings = G]
      BY <1>3 DEF processSlashingsReset
    <3> HIDE DEF G
    <3>2. [y EXCEPT !.slashings = G] = z
      BY DEF StateOf
    <3> QED BY <3>1, <3>2
  <2>2. processRandaoMixesReset(z) = v
    <3> HIDE DEF G
    <3>1. processRandaoMixesReset(z) = [z EXCEPT !.mixes[X] = s.mixes[e % EpochsPerHistoricalVector]]
      <4> HIDE DEF z
      <4> QED BY <1>3 DEF processRandaoMixesReset
    <3> HIDE DEF e, X
    <3>2. [z EXCEPT !.mixes[X] = s.mixes[e % EpochsPerHistoricalVector]] = v
      BY DEF StateOf
    <3> QED BY <3>1, <3>2
  <2>3. processEpoch(y) = v
    BY <2>1, <2>2 DEF processEpoch
  <2>4. advanceSlot(w) = [st |-> [processEpoch(y) EXCEPT !.slot = @ + 1], tab |-> Sealing(s, tab)]
    BY <1>1, <1>4 DEF advanceSlot
  <2>5. NextMixes(s) = M /\ NextSlashings(s) = G
    BY <1>4 DEF NextMixes, NextSlashings
  <2> HIDE DEF M, G
  <2>6. v.slot = s.slot
    BY StateFields
  <2>7. [v EXCEPT !.slot = s.slot + 1] = StateOf(s.slot + 1, Sealed(s, tab), B, T, M, G, s.payload)
    BY DEF StateOf
  <2> HIDE DEF v, y
  <2> QED BY <1>2, <2>3, <2>4, <2>5, <2>6, <2>7
<1>5. CASE (s.slot + 1) % SlotsPerEpoch # 0
  <2>1. advanceSlot(w) = [st |-> [y EXCEPT !.slot = @ + 1], tab |-> Sealing(s, tab)]
    BY <1>1, <1>5 DEF advanceSlot
  <2>2. [y EXCEPT !.slot = s.slot + 1] = StateOf(s.slot + 1, Sealed(s, tab), B, T, s.mixes, s.slashings, s.payload)
    BY DEF StateOf
  <2>3. NextMixes(s) = s.mixes /\ NextSlashings(s) = s.slashings
    BY <1>5 DEF NextMixes, NextSlashings
  <2> HIDE DEF y
  <2> QED BY <1>2, <1>3, <2>1, <2>2, <2>3
<1> QED BY <1>4, <1>5

LEMMA EpochType ==
    ASSUME NEW slot \in Nat PROVE SlotToEpoch(slot) \in Nat
BY BoundsAssumption, DivMod DEF SlotToEpoch

\* After processSlot the state and the sealed header are in the table.
LEMMA SealingFacts ==
    ASSUME NEW s, NEW tab, IsState(s), IsTable(tab)
    PROVE  LET u == Sealing(s, tab)
               h == Sealed(s, tab)
           IN /\ IsTable(u) /\ Within(tab, u)
              /\ RootOf(s, tab) \in 1 .. Len(u) /\ u[RootOf(s, tab)] = s
              /\ RootOf(h, u) \in 1 .. Len(u) /\ u[RootOf(h, u)] = h
              /\ RootOf(h, Remember(s, tab)) = RootOf(h, u)
              /\ IsHeader(h) /\ h.stateRoot \in Nat \ {0}
              /\ h.slot = s.header.slot
<1> DEFINE v == Remember(s, tab)
           h == Sealed(s, tab)
           u == Remember(h, v)
<1>1. /\ IsTable(v) /\ Within(tab, v) /\ RootOf(s, tab) \in 1 .. Len(v) /\ v[RootOf(s, tab)] = s
  BY Remembering
<1>2. /\ IsTable(u) /\ Within(v, u) /\ RootOf(h, v) \in 1 .. Len(u) /\ u[RootOf(h, v)] = h
      /\ RootOf(h, u) = RootOf(h, v)
  <2> HIDE DEF v, h
  <2> QED BY <1>1, Remembering
<1>3. Within(tab, u)
  BY <1>1, <1>2, WithinTransitive
<1>4. Len(u) \in Nat /\ Len(v) \in Nat
  <2> HIDE DEF u, v
  <2> QED BY <1>1, <1>2, TableLen
<1>5. IsHeader(h) /\ h.stateRoot \in Nat \ {0} /\ h.slot = s.header.slot
  <2>1. RootOf(s, tab) \in Nat \ {0}
    BY <1>1, <1>4
  <2> HIDE DEF v, u
  <2> QED BY <2>1 DEF IsState, IsHeader, Sealed, ZeroRoot
<1>6. RootOf(s, tab) \in 1 .. Len(u) /\ u[RootOf(s, tab)] = s
  <2> HIDE DEF v, u
  <2> QED BY <1>1, <1>2, <1>4 DEF Within
<1>7. Sealing(s, tab) = u
  BY DEF Sealing
<1> HIDE DEF v, u, h
<1> QED BY <1>1, <1>2, <1>3, <1>5, <1>6, <1>7 DEF v, h

LEMMA NextStateType ==
    ASSUME NEW s, NEW tab, IsState(s), IsTable(tab)
    PROVE  /\ IsState(NextState(s, tab))
           /\ LET y == NextState(s, tab)
                  i == s.slot % SlotsPerHistoricalRoot
              IN /\ y.slot = s.slot + 1 /\ y.payload = s.payload
                 /\ y.header = Sealed(s, tab)
                 /\ y.blockRoots = [s.blockRoots EXCEPT ![i] = RootOf(Sealed(s, tab), Sealing(s, tab))]
                 /\ y.stateRoots = [s.stateRoots EXCEPT ![i] = RootOf(s, tab)]
                 /\ y.mixes = NextMixes(s)
<1> DEFINE y == NextState(s, tab)
           i == s.slot % SlotsPerHistoricalRoot
           r == RootOf(Sealed(s, tab), Sealing(s, tab))
           B == [s.blockRoots EXCEPT ![i] = r]
           T == [s.stateRoots EXCEPT ![i] = RootOf(s, tab)]
<1>1. RootOf(Sealed(s, tab), Remember(s, tab)) = r
  BY SealingFacts
<1>2. y = StateOf(s.slot + 1, Sealed(s, tab), B, T, NextMixes(s), NextSlashings(s), s.payload)
  BY <1>1 DEF NextState
<1>3. Len(Sealing(s, tab)) \in Nat
  BY SealingFacts DEF IsTable, IsSequence
<1>4. r \in Nat /\ RootOf(s, tab) \in Nat /\ IsHeader(Sealed(s, tab))
  BY <1>3, SealingFacts
<1>5. s.slot \in Nat /\ i \in 0 .. SlotsPerHistoricalRoot - 1
  BY BoundsAssumption, ModRange DEF IsState
<1> HIDE DEF i, r
<1>6. /\ B \in [0 .. SlotsPerHistoricalRoot - 1 -> Nat]
      /\ T \in [0 .. SlotsPerHistoricalRoot - 1 -> Nat]
  BY <1>4, <1>5 DEF IsState
<1>7. NextMixes(s) \in [0 .. EpochsPerHistoricalVector - 1 -> SUBSET Reveals]
  <2> DEFINE e == SlotToEpoch(s.slot)
             j == e % EpochsPerHistoricalVector
             k == (e + 1) % EpochsPerHistoricalVector
  <2>1. /\ j \in 0 .. EpochsPerHistoricalVector - 1
        /\ k \in 0 .. EpochsPerHistoricalVector - 1
    <3>1. e \in Nat /\ e + 1 \in Nat
      BY <1>5, EpochType
    <3> HIDE DEF e
    <3> QED BY <3>1, ModRange, BoundsAssumption
  <2>2. NextMixes(s) \in {s.mixes, [s.mixes EXCEPT ![k] = s.mixes[j]]}
    BY DEF NextMixes
  <2>3. s.mixes \in [0 .. EpochsPerHistoricalVector - 1 -> SUBSET Reveals]
    BY DEF IsState
  <2> HIDE DEF j, k
  <2> QED BY <2>1, <2>2, <2>3
<1> HIDE DEF B, T, y
<1>8. /\ y.slot = s.slot + 1 /\ y.payload = s.payload /\ y.header = Sealed(s, tab)
      /\ y.blockRoots = B /\ y.stateRoots = T /\ y.mixes = NextMixes(s)
      /\ y.slashings = NextSlashings(s)
  BY <1>2, StateFields
<1>9. y = StateOf(y.slot, y.header, y.blockRoots, y.stateRoots, y.mixes, y.slashings, y.payload)
  BY <1>2, <1>8
<1>10. IsState(y)
  BY <1>4, <1>5, <1>6, <1>7, <1>8, <1>9 DEF IsState, StateOf
<1> QED BY <1>8, <1>10 DEF B, T, y, i, r

\* A round of the loop does the same over a table that holds what it hashed.
LEMMA NextStateRerun ==
    ASSUME NEW s, NEW tab, NEW u, IsState(s), IsTable(tab), IsTable(u), Within(Sealing(s, tab), u)
    PROVE  NextState(s, u) = NextState(s, tab) /\ Sealing(s, u) = u
<1> DEFINE v == Remember(s, tab)
           h == Sealed(s, tab)
<1>1. IsTable(v)
  BY Remembering
<1>2. Within(v, u) /\ Remember(h, u) = u /\ RootOf(h, u) = RootOf(h, v)
  <2> HIDE DEF v, h
  <2> QED BY <1>1, Remembered DEF Sealing, v, h
<1>3. Remember(s, u) = u /\ RootOf(s, u) = RootOf(s, tab)
  BY <1>2, Remembered
<1>4. Sealed(s, u) = h
  BY <1>3 DEF Sealed
<1> QED BY <1>2, <1>3, <1>4 DEF NextState, Sealing

-----------------------------------------------------------------------------
(* Many rounds of the loop.                                                *)

\* y is where n rounds of the loop lead from state s and table tab.
Reached(s, tab, y, n) ==
    /\ y = [st |-> y.st, tab |-> y.tab] /\ IsState(y.st) /\ IsTable(y.tab)
    /\ Within(tab, y.tab)
    /\ y.st.slot = s.slot + n /\ y.st.payload = s.payload
    /\ n = 0 => y = [st |-> s, tab |-> tab]
    /\ n > 0 => y.st.header = Sealed(s, tab) /\ Within(Sealing(s, tab), y.tab)

\* The header is sealed in the first round only.
LEMMA SealedTwice ==
    ASSUME NEW s, NEW y, NEW tab, NEW u, IsState(s), IsState(y), IsTable(tab),
           y.header = Sealed(s, tab)
    PROVE  Sealed(y, u) = Sealed(s, tab)
BY SealingFacts DEF Sealed, ZeroRoot

LEMMA ReachedNext ==
    ASSUME NEW s, NEW tab, NEW y, NEW n \in Nat, IsState(s), IsTable(tab), Reached(s, tab, y, n)
    PROVE  /\ advanceSlot(y) = [st |-> NextState(y.st, y.tab), tab |-> Sealing(y.st, y.tab)]
           /\ Sealed(y.st, y.tab) = Sealed(s, tab)
           /\ Reached(s, tab, advanceSlot(y), n + 1)
<1> DEFINE a == y.st
           t == y.tab
           z == [st |-> NextState(a, t), tab |-> Sealing(a, t)]
<1>1. y = [st |-> a, tab |-> t] /\ IsState(a) /\ IsTable(t) /\ Within(tab, t)
  BY DEF Reached
<1>2. advanceSlot(y) = z
  BY <1>1, AdvanceForm
<1>3. Sealed(a, t) = Sealed(s, tab) /\ Within(Sealing(s, tab), Sealing(a, t))
  <2>1. CASE n = 0
    <3>1. a = s /\ t = tab
      BY <2>1 DEF Reached
    <3>2. Within(Sealing(s, tab), Sealing(s, tab))
      BY SealingFacts, WithinItself
    <3> QED BY <3>1, <3>2
  <2>2. CASE n > 0
    <3>1. a.header = Sealed(s, tab) /\ Within(Sealing(s, tab), t)
      BY <2>2 DEF Reached
    <3>2. Sealed(a, t) = Sealed(s, tab)
      BY <1>1, <3>1, SealedTwice
    <3>3. Within(t, Sealing(a, t)) /\ IsTable(Sealing(a, t)) /\ IsTable(Sealing(s, tab))
      BY <1>1, SealingFacts
    <3> QED BY <1>1, <3>1, <3>2, <3>3, WithinTransitive
  <2> QED BY <2>1, <2>2
<1>4. IsState(z.st) /\ z.st.slot = a.slot + 1 /\ z.st.payload = a.payload /\ z.st.header = Sealed(a, t)
  BY <1>1, NextStateType
<1>5. IsTable(z.tab) /\ Within(tab, z.tab)
  BY <1>1, SealingFacts, WithinTransitive
<1>6. a.slot = s.slot + n /\ a.payload = s.payload /\ s.slot \in Nat
  BY DEF Reached, IsState
<1>7. z = [st |-> z.st, tab |-> z.tab] /\ z.tab = Sealing(a, t)
  OBVIOUS
<1>8. Reached(s, tab, z, n + 1)
  <2> HIDE DEF z, a, t
  <2> QED BY <1>3, <1>4, <1>5, <1>6, <1>7 DEF Reached
<1> QED BY <1>2, <1>3, <1>8

\* A state and a table, as the transition passes them on.
Work(s, tab) == [st |-> s, tab |-> tab]

\* n rounds of the loop, by induction over n.
LEMMA Run ==
    ASSUME NEW s, NEW tab, IsState(s), IsTable(tab)
    PROVE  \A n \in Nat : Reached(s, tab, advanceSlots(Work(s, tab))[n], n)
<1> DEFINE run == advanceSlots(Work(s, tab))
           S == {n \in Nat : Reached(s, tab, run[n], n)}
<1>1. 0 \in S
  <2>1. run[0] = Work(s, tab)
    BY AdvanceSlots
  <2> HIDE DEF run
  <2>2. s.slot + 0 = s.slot /\ Within(tab, tab)
    BY WithinItself DEF IsState
  <2> QED BY <2>1, <2>2 DEF Reached, Work
<1>2. ASSUME NEW n \in Nat, n \in S PROVE n + 1 \in S
  <2>1. run[n + 1] = advanceSlot(run[n])
    BY AdvanceSlots
  <2> HIDE DEF run
  <2> QED BY <1>2, <2>1, ReachedNext
<1> HIDE DEF S
<1>3. \A n \in Nat : n \in S
  BY <1>1, <1>2, InductionOverNat
<1> QED BY <1>3 DEF S

\* n rounds over a table that holds all that they hash.
LEMMA RunAgain ==
    ASSUME NEW s, NEW tab, IsState(s), IsTable(tab), NEW u, IsTable(u)
    PROVE  \A n \in Nat : LET y == advanceSlots(Work(s, tab))[n]
                          IN Within(y.tab, u) => advanceSlots(Work(s, u))[n] = Work(y.st, u)
<1> DEFINE run == advanceSlots(Work(s, tab))
           rerun == advanceSlots(Work(s, u))
           S == {n \in Nat : Within(run[n].tab, u) => rerun[n] = Work(run[n].st, u)}
<1>1. 0 \in S
  <2>1. run[0] = Work(s, tab) /\ rerun[0] = Work(s, u)
    BY AdvanceSlots
  <2> HIDE DEF run, rerun
  <2> QED BY <2>1 DEF Work
<1>2. ASSUME NEW n \in Nat, n \in S PROVE n + 1 \in S
  <2> DEFINE y == run[n]
  <2>1. run[n + 1] = advanceSlot(y) /\ rerun[n + 1] = advanceSlot(rerun[n])
    BY AdvanceSlots
  <2>2. Reached(s, tab, y, n)
    BY Run
  <2>3. Within(y.tab, u) => rerun[n] = Work(y.st, u)
    BY <1>2
  <2> HIDE DEF run, rerun, y
  <2>4. IsState(y.st) /\ IsTable(y.tab)
    BY <2>2 DEF Reached
  <2>5. advanceSlot(y) = [st |-> NextState(y.st, y.tab), tab |-> Sealing(y.st, y.tab)]
    BY <2>2, ReachedNext
  <2>6. ASSUME Within(Sealing(y.st, y.tab), u)
        PROVE  rerun[n + 1] = Work(NextState(y.st, y.tab), u)
    <3>1. Within(y.tab, u)
      BY <2>4, <2>6, SealingFacts, WithinTransitive
    <3>2. advanceSlot(Work(y.st, u)) = [st |-> NextState(y.st, u), tab |-> Sealing(y.st, u)]
      BY <2>4, AdvanceForm DEF Work
    <3>3. NextState(y.st, u) = NextState(y.st, y.tab) /\ Sealing(y.st, u) = u
      BY <2>4, <2>6, NextStateRerun
    <3> QED BY <2>1, <2>3, <3>1, <3>2, <3>3 DEF Work
  <2> QED BY <2>1, <2>5, <2>6 DEF y
<1> HIDE DEF S
<1>3. \A n \in Nat : n \in S
  BY <1>1, <1>2, InductionOverNat
<1> QED BY <1>3 DEF S

-----------------------------------------------------------------------------
(* The rings after many rounds.                                            *)

\* The root of the sealed header.
SealedRoot(s, tab) == RootOf(Sealed(s, tab), Sealing(s, tab))

LEMMA SealedRootStays ==
    ASSUME NEW s, NEW tab, NEW u, IsState(s), IsTable(tab), IsTable(u), Within(Sealing(s, tab), u)
    PROVE  /\ RootOf(Sealed(s, tab), u) = SealedRoot(s, tab)
           /\ SealedRoot(s, tab) \in 1 .. Len(u) /\ u[SealedRoot(s, tab)] = Sealed(s, tab)
           /\ RootOf(s, tab) \in 1 .. Len(u) /\ u[RootOf(s, tab)] = s
           /\ RootOf(s, u) = RootOf(s, tab)
<1> DEFINE v == Sealing(s, tab)
           h == Sealed(s, tab)
           r == SealedRoot(s, tab)
           q == RootOf(s, tab)
<1>1. /\ IsTable(v) /\ r \in 1 .. Len(v) /\ v[r] = h
      /\ q \in 1 .. Len(v) /\ v[q] = s
  BY SealingFacts DEF SealedRoot
<1>2. Len(v) \in Nat /\ Len(u) \in Nat /\ Len(v) <= Len(u)
  <2> HIDE DEF v
  <2> QED BY <1>1, TableLen DEF Within, v
<1>3. r \in 1 .. Len(u) /\ q \in 1 .. Len(u)
  <2> HIDE DEF v, r, q
  <2> QED BY <1>1, <1>2
<1>4. u[r] = h /\ u[q] = s
  <2> HIDE DEF r, q, h
  <2> QED BY <1>1 DEF Within
<1>5. RootOf(u[r], u) = r /\ RootOf(u[q], u) = q
  <2> HIDE DEF r, q
  <2> QED BY <1>3, RootIn
<1> QED BY <1>3, <1>4, <1>5

\* The roots in the rings of a state are at most m.
RootsBelow(s, m) ==
    \A i \in 0 .. SlotsPerHistoricalRoot - 1 : s.blockRoots[i] <= m /\ s.stateRoots[i] <= m

\* What n rounds of the loop leave in the rings of roots: the slots before s that are
\* still in the window keep their entries, the slots from s on have the sealed header.
RingsReached(s, tab, y, n) ==
    LET N == SlotsPerHistoricalRoot
    IN /\ \A k \in Nat : k < s.slot /\ k + N >= s.slot + n =>
              /\ y.st.blockRoots[k % N] = s.blockRoots[k % N]
              /\ y.st.stateRoots[k % N] = s.stateRoots[k % N]
       /\ \A k \in Nat : s.slot <= k /\ k < s.slot + n /\ k + N >= s.slot + n =>
              y.st.blockRoots[k % N] = SealedRoot(s, tab)
       /\ 0 < n /\ n <= N => y.st.stateRoots[s.slot % N] = RootOf(s, tab)
       /\ RootsBelow(s, Len(tab)) => RootsBelow(y.st, Len(y.tab))

LEMMA RingsNext ==
    ASSUME NEW s, NEW tab, NEW y, NEW n \in Nat, IsState(s), IsTable(tab),
           Reached(s, tab, y, n), RingsReached(s, tab, y, n)
    PROVE  RingsReached(s, tab, advanceSlot(y), n + 1)
<1> DEFINE N == SlotsPerHistoricalRoot
           a == y.st
           t == y.tab
           z == advanceSlot(y)
           now == s.slot + n
           i == now % N
           R == SealedRoot(s, tab)
           q == RootOf(a, t)
<1>1. /\ z = [st |-> NextState(a, t), tab |-> Sealing(a, t)]
      /\ Sealed(a, t) = Sealed(s, tab) /\ Reached(s, tab, z, n + 1)
  BY ReachedNext
<1>2. /\ IsState(a) /\ IsTable(t) /\ a.slot = now
      /\ IsTable(z.tab) /\ Within(Sealing(s, tab), z.tab)
  <2> HIDE DEF z
  <2> QED BY <1>1 DEF Reached
<1>3. RootOf(Sealed(a, t), Sealing(a, t)) = R
  <2>1. RootOf(Sealed(s, tab), z.tab) = R
    <3> HIDE DEF z
    <3> QED BY <1>2, SealedRootStays
  <2> QED BY <1>1, <2>1
<1>4. z.st.blockRoots = [a.blockRoots EXCEPT ![i] = R] /\ z.st.stateRoots = [a.stateRoots EXCEPT ![i] = q]
  BY <1>1, <1>2, <1>3, NextStateType
<1>5. N \in Nat \ {0} /\ s.slot \in Nat /\ now \in Nat /\ i \in 0 .. N - 1
  <2>1. N \in Nat \ {0} /\ s.slot \in Nat /\ now \in Nat
    BY BoundsAssumption DEF IsState
  <2> HIDE DEF N, now
  <2> QED BY <2>1, ModRange
<1>6. /\ a.blockRoots \in [0 .. N - 1 -> Nat] /\ a.stateRoots \in [0 .. N - 1 -> Nat]
  BY <1>2 DEF IsState
<1>7. ASSUME NEW k \in Nat, k < now, k + N >= now + 1
      PROVE  /\ z.st.blockRoots[k % N] = a.blockRoots[k % N]
             /\ z.st.stateRoots[k % N] = a.stateRoots[k % N]
  <2>1. k % N # i /\ k % N \in 0 .. N - 1
    <3>1. now < k + N
      BY <1>5, <1>7
    <3> HIDE DEF N, now
    <3> QED BY <1>5, <1>7, <3>1, RemaindersDiffer, ModRange
  <2> HIDE DEF i, z, q, R
  <2> QED BY <1>4, <1>6, <2>1
<1>8. z.st.blockRoots[i] = R /\ z.st.stateRoots[i] = q
  <2> HIDE DEF i, z, q, R
  <2> QED BY <1>4, <1>5, <1>6
<1> HIDE DEF z
<1>9. ASSUME NEW k \in Nat, k < s.slot, k + N >= s.slot + (n + 1)
      PROVE  /\ z.st.blockRoots[k % N] = s.blockRoots[k % N]
             /\ z.st.stateRoots[k % N] = s.stateRoots[k % N]
  <2>1. k < now /\ k + N >= now + 1 /\ k + N >= s.slot + n
    BY <1>5, <1>9
  <2>2. a.blockRoots[k % N] = s.blockRoots[k % N] /\ a.stateRoots[k % N] = s.stateRoots[k % N]
    BY <1>9, <2>1 DEF RingsReached
  <2> QED BY <1>7, <2>1, <2>2
<1>10. ASSUME NEW k \in Nat, s.slot <= k, k < s.slot + (n + 1), k + N >= s.slot + (n + 1)
       PROVE  z.st.blockRoots[k % N] = R
  <2>1. CASE k = now
    BY <1>8, <2>1
  <2>2. CASE k # now
    <3>1. k < now /\ k + N >= now + 1 /\ k < s.slot + n /\ k + N >= s.slot + n
      BY <1>5, <1>10, <2>2
    <3>2. a.blockRoots[k % N] = R
      BY <1>10, <3>1 DEF RingsReached
    <3> QED BY <1>7, <3>1, <3>2
  <2> QED BY <2>1, <2>2
<1>11. ASSUME n + 1 <= N PROVE z.st.stateRoots[s.slot % N] = RootOf(s, tab)
  <2>1. CASE n = 0
    <3>1. a = s /\ t = tab /\ now = s.slot
      BY <1>5, <2>1 DEF Reached
    <3> QED BY <1>8, <3>1
  <2>2. CASE n > 0
    <3>1. s.slot < now /\ s.slot + N >= now + 1 /\ n <= N
      BY <1>5, <1>11, <2>2
    <3>2. a.stateRoots[s.slot % N] = RootOf(s, tab)
      BY <2>2, <3>1 DEF RingsReached
    <3> QED BY <1>5, <1>7, <3>1, <3>2
  <2> QED BY <2>1, <2>2
<1>12. ASSUME RootsBelow(s, Len(tab)) PROVE RootsBelow(z.st, Len(z.tab))
  <2>1. RootsBelow(a, Len(t))
    BY <1>12 DEF RingsReached
  <2>2. Len(t) \in Nat /\ Len(z.tab) \in Nat /\ Len(t) <= Len(z.tab)
    BY <1>1, <1>2, SealingFacts, TableLen DEF Within
  <2>3. R \in Nat /\ q \in Nat /\ R <= Len(z.tab) /\ q <= Len(z.tab)
    <3>1. R \in 1 .. Len(z.tab)
      BY <1>2, SealedRootStays
    <3>2. q \in 1 .. Len(z.tab)
      BY <1>1, <1>2, SealingFacts
    <3> HIDE DEF R, q
    <3> QED BY <2>2, <3>1, <3>2
  <2>4. ASSUME NEW j \in 0 .. N - 1
        PROVE  z.st.blockRoots[j] <= Len(z.tab) /\ z.st.stateRoots[j] <= Len(z.tab)
    <3>1. /\ a.blockRoots[j] \in Nat /\ a.blockRoots[j] <= Len(t)
          /\ a.stateRoots[j] \in Nat /\ a.stateRoots[j] <= Len(t)
      BY <1>6, <2>1 DEF RootsBelow
    <3>2. z.st.blockRoots[j] \in {R, a.blockRoots[j]} /\ z.st.stateRoots[j] \in {q, a.stateRoots[j]}
      <4> HIDE DEF i, q, R
      <4> QED BY <1>4, <1>6
    <3> DEFINE b == z.st.blockRoots[j]
               c == z.st.stateRoots[j]
               b0 == a.blockRoots[j]
               c0 == a.stateRoots[j]
               l == Len(t)
               m == Len(z.tab)
    <3>3. b \in {R, b0} /\ c \in {q, c0}
      BY <3>2
    <3>4. b0 \in Nat /\ b0 <= l /\ c0 \in Nat /\ c0 <= l
      BY <3>1
    <3>5. l \in Nat /\ m \in Nat /\ l <= m /\ R \in Nat /\ q \in Nat /\ R <= m /\ q <= m
      BY <2>2, <2>3
    <3> HIDE DEF R, q, b, c, b0, c0, l, m
    <3>6. b <= m /\ c <= m
      BY <3>3, <3>4, <3>5
    <3> QED BY <3>6 DEF b, c, m
  <2> QED BY <2>4 DEF RootsBelow
<1> QED BY <1>9, <1>10, <1>11, <1>12 DEF RingsReached, z

\* What the loop leaves in the ring of mixes: the epochs up to that of s keep
\* their mixes, the later ones begin with the mix of the epoch of s.
MixesReached(s, y) ==
    LET M   == EpochsPerHistoricalVector
        old == SlotToEpoch(s.slot)
        now == SlotToEpoch(y.st.slot)
    IN \A e \in Nat : e <= now /\ e + M > now =>
           y.st.mixes[e % M] = s.mixes[(IF e <= old THEN e ELSE old) % M]

LEMMA EpochMonotone ==
    ASSUME NEW x \in Nat, NEW y \in Nat, x <= y
    PROVE  SlotToEpoch(x) <= SlotToEpoch(y)
BY BoundsAssumption, QuotientMonotone DEF SlotToEpoch

LEMMA MixesNext ==
    ASSUME NEW s, NEW tab, NEW y, NEW n \in Nat, IsState(s), IsTable(tab),
           Reached(s, tab, y, n), MixesReached(s, y)
    PROVE  MixesReached(s, advanceSlot(y))
<1> DEFINE M == EpochsPerHistoricalVector
           a == y.st
           z == advanceSlot(y)
           old == SlotToEpoch(s.slot)
           now == SlotToEpoch(a.slot)
           next == SlotToEpoch(a.slot + 1)
           At(e) == s.mixes[(IF e <= old THEN e ELSE old) % M]
<1>1. /\ z = [st |-> NextState(a, y.tab), tab |-> Sealing(a, y.tab)]
      /\ IsState(a) /\ IsTable(y.tab) /\ a.slot = s.slot + n /\ s.slot \in Nat
  <2>1. z = [st |-> NextState(a, y.tab), tab |-> Sealing(a, y.tab)]
    BY ReachedNext
  <2>2. IsState(a) /\ IsTable(y.tab) /\ a.slot = s.slot + n
    BY DEF Reached
  <2>3. s.slot \in Nat
    BY DEF IsState
  <2> QED BY <2>1, <2>2, <2>3
<1>2. z.st.slot = a.slot + 1 /\ z.st.mixes = NextMixes(a)
  <2>1. z.st = NextState(a, y.tab)
    BY <1>1
  <2> HIDE DEF z, a
  <2> QED BY <1>1, <2>1, NextStateType
<1>3. M \in Nat \ {0} /\ old \in Nat /\ now \in Nat /\ next \in Nat /\ old <= now
  BY <1>1, BoundsAssumption, EpochType, EpochMonotone
<1>4. a.mixes \in [0 .. M - 1 -> SUBSET Reveals]
  BY <1>1 DEF IsState
<1>5. \A e \in Nat : e <= now /\ e + M > now => a.mixes[e % M] = At(e)
  BY DEF MixesReached
<1>6. next = IF (a.slot + 1) % SlotsPerEpoch = 0 THEN now + 1 ELSE now
  <2> DEFINE x == a.slot
  <2>1. x \in Nat /\ SlotsPerEpoch \in Nat \ {0}
    BY <1>1, BoundsAssumption
  <2> HIDE DEF x
  <2>2. (x + 1) \div SlotsPerEpoch = IF (x + 1) % SlotsPerEpoch = 0 THEN (x \div SlotsPerEpoch) + 1
                                     ELSE x \div SlotsPerEpoch
    BY <2>1, NextQuotient
  <2> QED BY <2>2 DEF SlotToEpoch, x
<1> HIDE DEF z
<1>7. CASE (a.slot + 1) % SlotsPerEpoch = 0
  <2>1. z.st.mixes = [a.mixes EXCEPT ![next % M] = a.mixes[now % M]]
    BY <1>2, <1>6, <1>7 DEF NextMixes
  <2> HIDE DEF a, now, next, old, M
  <2>2. ASSUME NEW e \in Nat, e <= next, e + M > next PROVE z.st.mixes[e % M] = At(e)
    <3>0. next = now + 1
      BY <1>6, <1>7
    <3>1. CASE e = next
      <4>1. a.mixes[now % M] = At(now)
        BY <1>3, <1>5
      <4>2. now % M \in 0 .. M - 1 /\ next % M \in 0 .. M - 1
        BY <1>3, ModRange
      <4>3. z.st.mixes[next % M] = a.mixes[now % M]
        BY <1>4, <2>1, <4>2
      <4>4. At(now) = At(next)
        BY <1>3, <3>0
      <4> QED BY <3>1, <4>1, <4>3, <4>4
    <3>2. CASE e # next
      <4>1. e < next /\ e <= now /\ e + M > now /\ next < e + M
        BY <1>3, <2>2, <3>0, <3>2
      <4>2. e % M # next % M /\ e % M \in 0 .. M - 1
        BY <1>3, <4>1, RemaindersDiffer, ModRange
      <4>3. z.st.mixes[e % M] = a.mixes[e % M]
        BY <1>4, <2>1, <4>2
      <4> QED BY <1>5, <4>1, <4>3
    <3> QED BY <3>1, <3>2
  <2> QED BY <1>2, <2>2 DEF MixesReached, z, next, old, M
<1>8. CASE (a.slot + 1) % SlotsPerEpoch # 0
  <2>1. z.st.mixes = a.mixes /\ next = now
    BY <1>2, <1>6, <1>8 DEF NextMixes
  <2> QED BY <1>2, <1>5, <2>1 DEF MixesReached, z
<1> QED BY <1>7, <1>8

\* Everything that ProcessSlots does to a state, and that it does the same over
\* a table that holds all it hashed.
LEMMA Slots ==
    ASSUME NEW s, NEW tab, IsState(s), IsTable(tab), NEW slot \in Nat, slot > s.slot
    PROVE  LET w == ProcessSlots(Work(s, tab), slot)
               n == slot - s.slot
           IN /\ Reached(s, tab, w, n) /\ RingsReached(s, tab, w, n) /\ MixesReached(s, w)
              /\ n \in Nat \ {0}
              /\ \A u : IsTable(u) /\ Within(w.tab, u) => ProcessSlots(Work(s, u), slot) = Work(w.st, u)
<1> DEFINE run == advanceSlots(Work(s, tab))
           S == {n \in Nat : RingsReached(s, tab, run[n], n) /\ MixesReached(s, run[n])}
           w == ProcessSlots(Work(s, tab), slot)
           m == slot - s.slot
<1>1. 0 \in S
  <2>1. run[0] = Work(s, tab)
    BY AdvanceSlots
  <2> HIDE DEF run
  <2>2. run[0].st = s /\ run[0].tab = tab /\ s.slot \in Nat /\ s.slot + 0 = s.slot
    BY <2>1 DEF Work, IsState
  <2>3. RingsReached(s, tab, run[0], 0)
    BY <2>2 DEF RingsReached
  <2>4. MixesReached(s, run[0])
    BY <2>2 DEF MixesReached
  <2> QED BY <2>3, <2>4
<1>2. ASSUME NEW n \in Nat, n \in S PROVE n + 1 \in S
  <2>1. run[n + 1] = advanceSlot(run[n])
    BY AdvanceSlots
  <2>2. Reached(s, tab, run[n], n)
    BY Run
  <2> HIDE DEF run
  <2>3. RingsReached(s, tab, run[n + 1], n + 1)
    BY <1>2, <2>1, <2>2, RingsNext
  <2>4. MixesReached(s, run[n + 1])
    BY <1>2, <2>1, <2>2, MixesNext
  <2> QED BY <2>3, <2>4
<1> HIDE DEF S
<1>3. \A n \in Nat : n \in S
  BY <1>1, <1>2, InductionOverNat
<1>4. m \in Nat \ {0} /\ ~(slot <= s.slot)
  BY DEF IsState
<1>5. \A u : ProcessSlots(Work(s, u), slot) = advanceSlots(Work(s, u))[m]
  BY <1>4 DEF ProcessSlots, Work
<1>6. w = run[m]
  BY <1>5
<1>7. Reached(s, tab, run[m], m) /\ RingsReached(s, tab, run[m], m) /\ MixesReached(s, run[m])
  BY <1>3, <1>4, Run DEF S
<1>8. ASSUME NEW u, IsTable(u), Within(w.tab, u) PROVE ProcessSlots(Work(s, u), slot) = Work(w.st, u)
  BY <1>4, <1>5, <1>6, <1>8, RunAgain
<1> QED BY <1>4, <1>6, <1>7, <1>8

-----------------------------------------------------------------------------
(* Blocks.                                                                 *)

\* The header that a block leaves in the state.
Tip(b) == [slot |-> b.slot, proposer |-> b.proposer, parent |-> b.parent,
           stateRoot |-> ZeroRoot, body |-> b.body]
PostMixes(s, b) ==
    [s.mixes EXCEPT ![SlotToEpoch(s.slot) % EpochsPerHistoricalVector] = Xor(@, {b.body.reveal})]
\* The state after a block, field by field.
PostState(s, b) ==
    StateOf(s.slot, Tip(b), s.blockRoots, s.stateRoots, PostMixes(s, b), s.slashings,
            b.body.payload.hash)

\* What a block must be like, as far as it does not depend on a table of hashes.
Fits(s, b) ==
    /\ b.slot > s.header.slot /\ b.body.fault \notin {"deposits", "hashes", "blobs", "withdrawals"}
    /\ b.body.payload.parent = s.payload
    /\ b.body.payload.prevRandao = s.mixes[SlotToEpoch(s.slot) % EpochsPerHistoricalVector]
    /\ b.body.reveal = Reveal(b.proposer, SlotToEpoch(s.slot))
EngineAgrees(ctx, engine) == engine # "invalid" /\ (ctx.optimistic \/ engine = "valid")

LEMMA HeaderForm ==
    ASSUME NEW b PROVE [Header(b) EXCEPT !.stateRoot = ZeroRoot] = Tip(b)
BY DEF Header, Tip

\* ProcessBlock, field by field, and the checks of verifier and finalizer in one place.
LEMMA ProcessBlockForm ==
    ASSUME NEW s, NEW tab, NEW b, NEW ctx, NEW engine, IsState(s), b.slot = s.slot
    PROVE  LET t == ProcessBlock(ctx, Work(s, tab), b, engine)
               p == PostState(s, b)
           IN /\ t.st = p
              /\ t.tab = IF ctx.skipResult THEN tab ELSE Remember(p, tab)
              /\ ctx \in {VerifierCtx, FinalizerCtx} =>
                   (t.ok <=> /\ Fits(s, b) /\ EngineAgrees(ctx, engine)
                             /\ RootOf(s.header, tab) = b.parent
                             /\ b.stateRoot = RootOf(p, tab))
<1> DEFINE t == ProcessBlock(ctx, Work(s, tab), b, engine)
           p == PostState(s, b)
           i == SlotToEpoch(s.slot) % EpochsPerHistoricalVector
           s1 == processBlockHeader(s, b)
           s2 == processExecutionPayload(s1, b)
           s3 == processRandaoReveal(s2, b)
<1>1. s = StateOf(s.slot, s.header, s.blockRoots, s.stateRoots, s.mixes, s.slashings, s.payload)
  BY DEF IsState, StateOf
<1>2. s1 = StateOf(s.slot, Tip(b), s.blockRoots, s.stateRoots, s.mixes, s.slashings, s.payload)
  BY <1>1, HeaderForm DEF StateOf, processBlockHeader
<1> HIDE DEF s1
<1>3. s2 = StateOf(s.slot, Tip(b), s.blockRoots, s.stateRoots, s.mixes, s.slashings, b.body.payload.hash)
  BY <1>2 DEF StateOf, processExecutionPayload
<1> HIDE DEF s2
<1>4. s1.slot = s.slot /\ s1.payload = s.payload /\ s1.mixes = s.mixes /\ s2.slot = s.slot /\ s2.mixes = s.mixes
  BY <1>2, <1>3, StateFields
<1>5. s3 = p
  <2>1. s3 = [s2 EXCEPT !.mixes[i] = Xor(s.mixes[i], {b.body.reveal})]
    BY <1>4 DEF processRandaoReveal
  <2> DEFINE x == Xor(s.mixes[i], {b.body.reveal})
  <2>2. p = StateOf(s.slot, Tip(b), s.blockRoots, s.stateRoots, [s.mixes EXCEPT ![i] = x], s.slashings,
                    b.body.payload.hash)
    BY DEF PostState, PostMixes
  <2> HIDE DEF x, i, s3
  <2>3. [s2 EXCEPT !.mixes[i] = x] = StateOf(s.slot, Tip(b), s.blockRoots, s.stateRoots,
                     [s.mixes EXCEPT ![i] = x], s.slashings, b.body.payload.hash)
    BY <1>3 DEF StateOf
  <2> QED BY <2>1, <2>2, <2>3 DEF x
<1> HIDE DEF s3, p
<1> DEFINE ok == /\ HeaderOK(s, tab, b)
                 /\ ctx.skipPayload \/ validateExecutionPayload(ctx, s1, b, engine)
                 /\ RandaoOK(ctx, s2, b)
                 /\ ctx.skipResult \/ b.stateRoot = RootOf(p, tab)
<1>6. t = [ok |-> ok, st |-> p, tab |-> IF ctx.skipResult THEN tab ELSE Remember(p, tab)]
  BY <1>5 DEF ProcessBlock, Work, s1, s2, s3
<1> HIDE DEF ok
<1> HIDE DEF t
<1>7. t.st = p /\ t.tab = IF ctx.skipResult THEN tab ELSE Remember(p, tab)
  BY <1>6
<1>8. t.ok = ok
  BY <1>6
<1>9. ASSUME ctx \in {VerifierCtx, FinalizerCtx}
      PROVE  t.ok <=> /\ Fits(s, b) /\ EngineAgrees(ctx, engine)
                             /\ RootOf(s.header, tab) = b.parent
                             /\ b.stateRoot = RootOf(p, tab)
  <2>1. ~ctx.skipPayload /\ ~ctx.skipResult /\ ~ctx.skipRandao
    BY <1>9 DEF VerifierCtx, FinalizerCtx
  <2>2. HeaderOK(s, tab, b) <=> /\ b.slot > s.header.slot /\ b.body.fault # "deposits"
                                /\ RootOf(s.header, tab) = b.parent
    BY DEF HeaderOK
  <2>3. validateExecutionPayload(ctx, s1, b, engine) <=>
          /\ b.body.payload.parent = s.payload /\ b.body.fault \notin {"hashes", "blobs", "withdrawals"}
          /\ EngineAgrees(ctx, engine)
          /\ b.body.payload.prevRandao = s.mixes[SlotToEpoch(s.slot) % EpochsPerHistoricalVector]
    BY <1>4 DEF validateExecutionPayload, PayloadLinked, EngineAgrees
  <2>4. RandaoOK(ctx, s2, b) <=> b.body.reveal = Reveal(b.proposer, SlotToEpoch(s.slot))
    BY <1>4, <2>1 DEF RandaoOK
  <2> QED BY <1>8, <2>1, <2>2, <2>3, <2>4 DEF Fits, ok
<1> QED BY <1>7, <1>9 DEF t, p

\* Transition for a slot to come: ProcessSlots and ProcessBlock together.
LEMMA TransitionForm ==
    ASSUME NEW s, NEW tab, NEW b, NEW engine, NEW ctx \in {VerifierCtx, FinalizerCtx},
           IsState(s), IsTable(tab), b.slot \in Nat, b.slot > s.slot
    PROVE  LET w == ProcessSlots(Work(s, tab), b.slot)
               p == PostState(w.st, b)
               t == Transition(ctx, s, tab, b, engine)
           IN /\ t.st = p /\ t.tab = Remember(p, w.tab)
              /\ t.ok <=> /\ Fits(w.st, b) /\ EngineAgrees(ctx, engine)
                          /\ RootOf(w.st.header, w.tab) = b.parent
                          /\ b.stateRoot = RootOf(p, w.tab)
              /\ IsTable(t.tab) /\ Within(tab, t.tab) /\ Within(w.tab, t.tab)
              /\ IsState(w.st) /\ IsTable(w.tab) /\ w.st.slot = b.slot
<1> DEFINE w == ProcessSlots(Work(s, tab), b.slot)
           p == PostState(w.st, b)
           t == Transition(ctx, s, tab, b, engine)
           n == b.slot - s.slot
<1>1. Reached(s, tab, w, n)
  BY Slots
<1> HIDE DEF w
<1>2. /\ w = Work(w.st, w.tab) /\ IsState(w.st) /\ IsTable(w.tab)
      /\ Within(tab, w.tab) /\ w.st.slot = s.slot + n
  BY <1>1 DEF Reached, Work
<1>3. w.st.slot = b.slot
  BY <1>2 DEF IsState
<1>4. t = ProcessBlock(ctx, Work(w.st, w.tab), b, engine)
  BY <1>2 DEF Transition, Work, w
<1>5. ~ctx.skipResult
  BY DEF VerifierCtx, FinalizerCtx
<1> HIDE DEF t
<1>6. /\ t.st = p /\ t.tab = Remember(p, w.tab)
      /\ t.ok <=> /\ Fits(w.st, b) /\ EngineAgrees(ctx, engine)
                  /\ RootOf(w.st.header, w.tab) = b.parent
                  /\ b.stateRoot = RootOf(p, w.tab)
  BY <1>2, <1>3, <1>4, <1>5, ProcessBlockForm
<1> HIDE DEF p
<1>7. IsTable(t.tab) /\ Within(w.tab, t.tab)
  BY <1>2, <1>6, Remembering
<1>8. Within(tab, t.tab)
  BY <1>2, <1>7, WithinTransitive
<1> QED BY <1>2, <1>3, <1>6, <1>7, <1>8 DEF w, p, t

\* The transition gives the same answer and the same state over every table that
\* holds what it hashed.
LEMMA TransitionAgain ==
    ASSUME NEW s, NEW tab, NEW b, NEW engine, NEW ctx \in {VerifierCtx, FinalizerCtx},
           IsState(s), IsTable(tab), b.slot \in Nat, b.slot > s.slot,
           NEW u, IsTable(u), Within(Transition(ctx, s, tab, b, engine).tab, u)
    PROVE  LET t == Transition(ctx, s, tab, b, engine)
               v == Transition(ctx, s, u, b, engine)
           IN v.st = t.st /\ v.tab = u /\ (v.ok <=> t.ok)
<1> DEFINE w == ProcessSlots(Work(s, tab), b.slot)
           x == ProcessSlots(Work(s, u), b.slot)
           p == PostState(w.st, b)
           t == Transition(ctx, s, tab, b, engine)
           v == Transition(ctx, s, u, b, engine)
           n == b.slot - s.slot
<1>1. /\ t.st = p /\ t.tab = Remember(p, w.tab)
      /\ t.ok <=> /\ Fits(w.st, b) /\ EngineAgrees(ctx, engine)
                  /\ RootOf(w.st.header, w.tab) = b.parent
                  /\ b.stateRoot = RootOf(p, w.tab)
      /\ IsTable(t.tab) /\ Within(w.tab, t.tab)
      /\ IsState(w.st) /\ IsTable(w.tab) /\ w.st.slot = b.slot
  BY TransitionForm
<1>2. Within(w.tab, u) /\ Remember(p, u) = u /\ RootOf(p, u) = RootOf(p, w.tab)
  <2> HIDE DEF w, p, t
  <2> QED BY <1>1, Remembered DEF t
<1>3. /\ Reached(s, tab, w, n) /\ n \in Nat \ {0}
      /\ \A y : IsTable(y) /\ Within(w.tab, y) => ProcessSlots(Work(s, y), b.slot) = Work(w.st, y)
  BY Slots
<1>4. x = Work(w.st, u)
  BY <1>2, <1>3
<1>5. RootOf(w.st.header, u) = RootOf(w.st.header, w.tab)
  <2> HIDE DEF w
  <2>1. w.st.header = Sealed(s, tab) /\ Within(Sealing(s, tab), w.tab)
    BY <1>3 DEF Reached
  <2>2. Within(Sealing(s, tab), u)
    BY <1>1, <1>2, <2>1, SealingFacts, WithinTransitive
  <2> QED BY <1>1, <2>1, <2>2, SealedRootStays
<1>6. v = ProcessBlock(ctx, Work(w.st, u), b, engine)
  BY <1>4 DEF Transition, Work
<1>7. ~ctx.skipResult
  BY DEF VerifierCtx, FinalizerCtx
<1> HIDE DEF v, t, w
<1>8. /\ v.st = p /\ v.tab = Remember(p, u)
      /\ v.ok <=> /\ Fits(w.st, b) /\ EngineAgrees(ctx, engine)
                  /\ RootOf(w.st.header, u) = b.parent
                  /\ b.stateRoot = RootOf(p, u)
  BY <1>1, <1>6, <1>7, ProcessBlockForm
<1> HIDE DEF p
<1>9. v.st = t.st /\ v.tab = u /\ (v.ok <=> t.ok)
  BY <1>1, <1>2, <1>5, <1>8
<1> QED BY <1>9 DEF v, t

LEMMA PostStateType ==
    ASSUME NEW s, NEW b, IsState(s), b.slot \in Nat, b.slot = s.slot, b.body.reveal \in Reveals
    PROVE  /\ IsState(PostState(s, b))
           /\ LET p == PostState(s, b)
              IN /\ p.slot = s.slot /\ p.header = Tip(b) /\ p.blockRoots = s.blockRoots
                 /\ p.stateRoots = s.stateRoots /\ p.mixes = PostMixes(s, b)
                 /\ p.payload = b.body.payload.hash
<1> DEFINE p == PostState(s, b)
<1>1. /\ p.slot = s.slot /\ p.header = Tip(b) /\ p.blockRoots = s.blockRoots
      /\ p.stateRoots = s.stateRoots /\ p.mixes = PostMixes(s, b)
      /\ p.slashings = s.slashings /\ p.payload = b.body.payload.hash
  BY StateFields DEF PostState
<1>2. p = StateOf(p.slot, p.header, p.blockRoots, p.stateRoots, p.mixes, p.slashings, p.payload)
  BY <1>1 DEF PostState
<1>3. IsHeader(Tip(b))
  BY DEF IsHeader, Tip, ZeroRoot
<1>4. PostMixes(s, b) \in [0 .. EpochsPerHistoricalVector - 1 -> SUBSET Reveals]
  <2> DEFINE i == SlotToEpoch(s.slot) % EpochsPerHistoricalVector
             x == Xor(s.mixes[i], {b.body.reveal})
  <2>1. i \in 0 .. EpochsPerHistoricalVector - 1
    <3>1. SlotToEpoch(s.slot) \in Nat
      BY EpochType
    <3> QED BY <3>1, BoundsAssumption, ModRange
  <2>2. s.mixes \in [0 .. EpochsPerHistoricalVector - 1 -> SUBSET Reveals]
    BY DEF IsState
  <2>3. PostMixes(s, b) = [s.mixes EXCEPT ![i] = x]
    BY DEF PostMixes
  <2>4. x \in SUBSET Reveals
    <3>1. s.mixes[i] \in SUBSET Reveals
      BY <2>1, <2>2
    <3> QED BY <3>1 DEF Xor
  <2> HIDE DEF i, x
  <2> QED BY <2>1, <2>2, <2>3, <2>4
<1> HIDE DEF p
<1>5. IsState(p)
  BY <1>1, <1>2, <1>3, <1>4 DEF IsState, StateOf
<1> QED BY <1>1, <1>5 DEF p

LEMMA ProposerForm ==
    ASSUME NEW s, NEW tab, NEW b, IsState(s), b.slot = s.slot
    PROVE  LET t == Transition(ProposerCtx, s, tab, b, "valid")
           IN t.st = PostState(s, b) /\ t.tab = tab
<1>1. ProcessSlots(Work(s, tab), b.slot) = Work(s, tab)
  BY DEF ProcessSlots, Work, IsState
<1>2. Transition(ProposerCtx, s, tab, b, "valid") = ProcessBlock(ProposerCtx, Work(s, tab), b, "valid")
  BY <1>1 DEF Transition, Work
<1>3. ProposerCtx.skipResult
  BY DEF ProposerCtx
<1> QED BY <1>2, <1>3, ProcessBlockForm

-----------------------------------------------------------------------------
(* Growth of the table of hashes.                                          *)

\* More has been hashed, nothing has been forgotten.
Grows == IsTable(hashes') /\ Within(hashes, hashes')

LEMMA RootsGrow ==
    ASSUME IsTable(hashes), Grows, NEW r, NEW x, IsRoot(r, x)
    PROVE  IsRoot(r, x)'
<1>1. Len(hashes) \in Nat /\ Len(hashes') \in Nat
  BY TableLen DEF Grows
<1> QED BY <1>1 DEF IsRoot, Grows, Within

\* A block that passes still passes when more has been hashed.
LEMMA PassesGrows ==
    ASSUME IsTable(hashes), Grows, IsState(st), st' = st,
           NEW b, b.slot \in Nat, b.slot > st.slot, NEW engine,
           NEW ctx \in {VerifierCtx, FinalizerCtx}, Passes(ctx, b, engine)
    PROVE  /\ Passes(ctx, b, engine)'
           /\ Transition(ctx, st', hashes', b, engine).st = Transition(ctx, st, hashes, b, engine).st
<1> DEFINE t == Transition(ctx, st, hashes, b, engine)
           v == Transition(ctx, st, hashes', b, engine)
<1>1. t.ok /\ t.tab = hashes
  BY DEF Passes
<1>2. v.st = t.st /\ v.tab = hashes' /\ (v.ok <=> t.ok)
  BY <1>1, TransitionAgain DEF Grows
<1> QED BY <1>1, <1>2 DEF Passes

\* So does a payload still fit its parent.
LEMMA BuiltOnParentGrows ==
    ASSUME NEW tab, NEW u, IsTable(tab), IsTable(u), Within(tab, u), NEW p, BuiltOnParent(p, tab)
    PROVE  BuiltOnParent(p, u)
<1> DEFINE header == tab[p.parentRoot]
           parent == tab[header.stateRoot]
           w == ProcessSlots(Work(parent, tab), p.slot)
<1>1. /\ p.parentRoot \in 1 .. Len(tab) /\ header.stateRoot \in 1 .. Len(tab)
      /\ IsState(parent) /\ parent.slot + 1 = p.slot
      /\ p.payload.parent = parent.payload
      /\ w.tab = tab
      /\ p.payload.prevRandao = w.st.mixes[SlotToEpoch(p.slot) % EpochsPerHistoricalVector]
  BY DEF BuiltOnParent, Work
<1>2. Len(tab) \in Nat /\ Len(u) \in Nat
  BY TableLen
<1>3. p.parentRoot \in 1 .. Len(u) /\ u[p.parentRoot] = header
  BY <1>1, <1>2 DEF Within
<1>4. header.stateRoot \in 1 .. Len(u) /\ u[header.stateRoot] = parent
  <2> HIDE DEF header
  <2> QED BY <1>1, <1>2 DEF Within
<1> HIDE DEF parent, header
<1>5. p.slot \in Nat /\ p.slot > parent.slot
  BY <1>1 DEF IsState
<1>6. ProcessSlots(Work(parent, u), p.slot) = Work(w.st, u)
  BY <1>1, <1>5, Slots
<1> HIDE DEF w
<1>7. Work(w.st, u).tab = u /\ Work(w.st, u).st = w.st
  BY DEF Work
<1> QED BY <1>1, <1>3, <1>4, <1>6, <1>7 DEF BuiltOnParent, Work

LEMMA PayloadsKept ==
    ASSUME IsTable(hashes), Grows, PayloadsMatch, height \in Nat, height' \in Nat, height' >= height,
           NEW p \in payloads
    PROVE  PayloadMatches(p, height', hashes')
<1>1. p.slot \in Nat /\ (p.slot >= height /\ ~p.payload.halfway => BuiltOnParent(p, hashes))
  BY DEF PayloadsMatch, PayloadMatches
<1>2. p.slot >= height' => p.slot >= height
  BY <1>1
<1>3. BuiltOnParent(p, hashes) => BuiltOnParent(p, hashes')
  BY BuiltOnParentGrows DEF Grows
<1> QED BY <1>1, <1>2, <1>3 DEF PayloadMatches

\* The past of the chain, as the state and the chain tell it.
Past == StateIsTip /\ ChainAscends /\ ChainLinked /\ BlockRoots /\ StateRoots /\ Mixes

LEMMA PastKept ==
    ASSUME IsTable(hashes), Grows, Past, st' = st, chain' = chain,
           height \in Nat, height' \in Nat, height' >= height
    PROVE  Past'
<1>1. \A r, x : IsRoot(r, x) => IsRoot(r, x)'
  BY RootsGrow
<1>2. StateIsTip'
  <2>1. st.slot \in Nat /\ st.slot < height
    BY DEF Past, StateIsTip, IsState
  <2>2. st'.slot < height'
    BY <2>1
  <2>3. IsState(st)'
    BY DEF Past, StateIsTip, IsState
  <2> QED BY <1>1, <2>2, <2>3 DEF Past, StateIsTip
<1>3. ChainAscends'
  BY DEF Past, ChainAscends
<1>4. ChainLinked'
  BY <1>1 DEF Past, ChainLinked
<1>5. BlockRoots'
  BY <1>1 DEF Past, BlockRoots, LastBlockAt
<1>6. StateRoots' /\ Mixes'
  BY DEF Past, StateRoots, Mixes, MixAfter
<1> QED BY <1>2, <1>3, <1>4, <1>5, <1>6 DEF Past

LEMMA TypeKept ==
    ASSUME IsTable(hashes), Grows, TypeOK, st' = st,
           height' \in 1 .. MaxSlot + 1, round' \in 0 .. MaxRounds,
           verdict' \in {"none", "accept", "halfway", "reject"},
           Cardinality(proposal') <= 1, Cardinality(post') <= 1
    PROVE  TypeOK'
<1>1. Roots \subseteq Roots'
  <2>1. Len(hashes) \in Nat /\ Len(hashes') \in Nat /\ Len(hashes) <= Len(hashes')
    BY TableLen DEF Grows, Within
  <2> QED BY <2>1 DEF Roots
<1>2. /\ st.blockRoots \in [0 .. SlotsPerHistoricalRoot - 1 -> Roots']
      /\ st.stateRoots \in [0 .. SlotsPerHistoricalRoot - 1 -> Roots']
  BY <1>1 DEF TypeOK
<1> QED BY <1>2 DEF TypeOK

LEMMA AtMostOne ==
    Cardinality({}) <= 1 /\ \A x : Cardinality({x}) <= 1
<1>1. Cardinality({}) = 0
  BY FS_EmptySet
<1>2. \A x : Cardinality({x}) = 1
  BY FS_Singleton
<1> QED BY <1>1, <1>2

-----------------------------------------------------------------------------
(* The actions, one by one.                                                *)

\* What the proofs of the actions use of the invariant most.
LEMMA InvFacts ==
    ASSUME TransitionInv
    PROVE  /\ TypeOK /\ IsTable(hashes) /\ Past /\ ProposalsPass /\ PayloadsMatch
           /\ IsState(st) /\ height \in Nat /\ st.slot \in Nat /\ st.slot < height
           /\ st.header.slot = st.slot /\ st.header.stateRoot = ZeroRoot
<1>1. /\ TypeOK /\ IsTable(hashes) /\ Past /\ ProposalsPass /\ PayloadsMatch
      /\ IsState(st) /\ st.slot < height
      /\ st.header.slot = st.slot /\ st.header.stateRoot = ZeroRoot
  BY DEF TransitionInv, Past, StateIsTip
<1>2. height \in Nat /\ st.slot \in Nat
  <2>1. height \in 1 .. MaxSlot + 1 /\ st.slot \in 0 .. MaxSlot
    BY <1>1 DEF TypeOK
  <2> QED BY <2>1, BoundsAssumption
<1> QED BY <1>1, <1>2

LEMMA ProposalsKept ==
    ASSUME TransitionInv, Grows, st' = st, height' = height, proposal' = proposal,
           verdict' = verdict, post' \subseteq post
    PROVE  ProposalsPass'
<1>1. \A s \in post' : verdict' = "reject" => s = st'
  BY InvFacts DEF ProposalsPass
<1>2. (proposal' = {} => verdict' = "none") /\ (verdict' = "none" => post' = {})
  BY InvFacts DEF ProposalsPass
<1>3. ASSUME NEW b \in proposal
      PROVE  /\ IsHeader(Header(b)) /\ b.slot = height' /\ height' <= MaxSlot
             /\ b.proposer \in Validators
             /\ Honest(b) => Passes(VerifierCtx, b, "valid")'
             /\ verdict' = "accept" => \A engine \in Consistent : Passes(FinalizerCtx, b, engine)'
             /\ \A s \in post' :
                    /\ verdict' = "accept" => s = Transition(FinalizerCtx, st', hashes', b, "valid").st
                    /\ verdict' = "halfway" => IsState(s)' /\ s.slot = b.slot
  <2>1. /\ IsHeader(Header(b)) /\ b.slot = height /\ height <= MaxSlot
        /\ b.proposer \in Validators
        /\ Honest(b) => Passes(VerifierCtx, b, "valid")
        /\ verdict = "accept" => \A engine \in Consistent : Passes(FinalizerCtx, b, engine)
        /\ \A s \in post :
               /\ verdict = "accept" => s = Transition(FinalizerCtx, st, hashes, b, "valid").st
               /\ verdict = "halfway" => IsState(s) /\ s.slot = b.slot
    BY InvFacts DEF ProposalsPass
  <2>2. b.slot \in Nat /\ b.slot > st.slot
    BY <2>1, InvFacts
  <2>3. Honest(b) => Passes(VerifierCtx, b, "valid")'
    BY <2>1, <2>2, InvFacts, PassesGrows
  <2>4. ASSUME verdict = "accept", NEW engine \in Consistent
        PROVE  /\ Passes(FinalizerCtx, b, engine)'
               /\ Transition(FinalizerCtx, st', hashes', b, engine).st
                    = Transition(FinalizerCtx, st, hashes, b, engine).st
    <3>1. Passes(FinalizerCtx, b, engine)
      BY <2>1, <2>4
    <3> QED BY <2>2, <3>1, InvFacts, PassesGrows
  <2>5. \A s \in post' :
           /\ verdict' = "accept" => s = Transition(FinalizerCtx, st', hashes', b, "valid").st
           /\ verdict' = "halfway" => IsState(s)' /\ s.slot = b.slot
    <3>1. "valid" \in Consistent
      BY DEF Consistent, Answers
    <3>2. \A s : IsState(s) => IsState(s)'
      BY DEF IsState, IsHeader, Reveals
    <3> QED BY <2>1, <2>4, <3>1, <3>2
  <2> QED BY <2>1, <2>3, <2>4, <2>5
<1>4. \A b, c \in proposal' : b = c
  BY InvFacts DEF ProposalsPass
<1> QED BY <1>1, <1>2, <1>3, <1>4 DEF ProposalsPass

LEMMA NextRoundKeeps ==
    ASSUME TransitionInv, NextRound PROVE TransitionInv'
<1>1. Grows
  BY InvFacts, WithinItself DEF Grows, NextRound
<1>2. st' = st /\ chain' = chain /\ height' = height /\ payloads' = payloads
  BY DEF NextRound
<1>3. TypeOK'
  <2>1. height \in 1 .. MaxSlot + 1 /\ round \in 0 .. MaxRounds
    BY InvFacts DEF TypeOK
  <2>2. round' = round + 1 /\ round < MaxRounds /\ verdict' = "none" /\ proposal' = {} /\ post' = {}
    BY DEF NextRound
  <2>3. round' \in 0 .. MaxRounds
    BY <2>1, <2>2, BoundsAssumption
  <2>4. height' \in 1 .. MaxSlot + 1
    BY <1>2, <2>1
  <2> QED BY <1>1, <1>2, <2>2, <2>3, <2>4, InvFacts, TypeKept, AtMostOne
<1>4. Past'
  BY <1>1, <1>2, InvFacts, PastKept
<1>5. ProposalsPass'
  BY DEF NextRound, ProposalsPass
<1>6. PayloadsMatch'
  BY <1>1, <1>2, InvFacts, PayloadsKept DEF PayloadsMatch
<1> QED BY <1>1, <1>3, <1>4, <1>5, <1>6 DEF TransitionInv, Past, Grows

LEMMA SkipHeightKeeps ==
    ASSUME TransitionInv, SkipHeight PROVE TransitionInv'
<1>1. Grows
  BY InvFacts, WithinItself DEF Grows, SkipHeight
<1>2. st' = st /\ chain' = chain /\ height' = height + 1 /\ payloads' = payloads
  BY DEF SkipHeight, NewHeight
<1>3. TypeOK'
  <2>1. height' \in 1 .. MaxSlot + 1
    BY <1>2, InvFacts, BoundsAssumption DEF SkipHeight
  <2>2. round' \in 0 .. MaxRounds /\ verdict' = "none" /\ proposal' = {} /\ post' = {}
    BY InvFacts DEF SkipHeight, NewHeight, TypeOK
  <2> QED BY <1>1, <1>2, <2>1, <2>2, InvFacts, TypeKept, AtMostOne
<1>4. Past'
  BY <1>1, <1>2, InvFacts, PastKept
<1>5. ProposalsPass'
  BY DEF SkipHeight, NewHeight, ProposalsPass
<1>6. PayloadsMatch'
  BY <1>1, <1>2, InvFacts, PayloadsKept DEF PayloadsMatch
<1> QED BY <1>1, <1>3, <1>4, <1>5, <1>6 DEF TransitionInv, Past, Grows

\* The payload for a rejected block is for a slot that is over: no proposal takes it.
LEMMA RebuildKeeps ==
    ASSUME TransitionInv, handleRebuildPayloadForRejectedBlock PROVE TransitionInv'
<1>1. PICK s \in post :
        LET tab    == Remember(s, hashes)
            header == [s.header EXCEPT !.stateRoot = RootOf(s, tab)]
            tab1   == Remember(header, tab)
            p      == getPayload(s, s.slot, <<s.slot, 2 * round + 1>>, s.payload, FALSE)
        IN /\ verdict = "reject"
           /\ payloads' = SetPayload(s.slot, RootOf(header, tab1), p)
           /\ post' = {}
           /\ hashes' = tab1
           /\ UNCHANGED <<height, round, st, proposal, verdict, chain>>
  BY DEF handleRebuildPayloadForRejectedBlock
<1> DEFINE tab == Remember(s, hashes)
           header == [s.header EXCEPT !.stateRoot = RootOf(s, tab)]
           tab1   == Remember(header, tab)
<1>2. s = st
  BY <1>1, InvFacts DEF ProposalsPass
<1>3. IsTable(tab) /\ Within(hashes, tab)
  BY InvFacts, Remembering
<1>4. IsTable(tab1) /\ Within(tab, tab1)
  <2> HIDE DEF tab, header
  <2> QED BY <1>3, Remembering
<1>5. Grows
  <2>1. Within(hashes, tab1)
    <3> HIDE DEF tab1, tab
    <3> QED BY <1>3, <1>4, InvFacts, WithinTransitive
  <2> QED BY <1>1, <1>4, <2>1 DEF Grows
<1>6. /\ UNCHANGED <<height, round, st, proposal, verdict, chain>> /\ post' = {}
      /\ \A p \in payloads' : p \in payloads \/ p.slot = st.slot
  <2> DEFINE x == getPayload(s, s.slot, <<s.slot, 2 * round + 1>>, s.payload, FALSE)
             r == RootOf(header, tab1)
  <2>1. payloads' = SetPayload(s.slot, r, x)
    BY <1>1
  <2> HIDE DEF r, x
  <2>2. \A p \in payloads' : p \in payloads \/ p.slot = s.slot
    BY <2>1 DEF SetPayload
  <2>3. UNCHANGED <<height, round, st, proposal, verdict, chain>> /\ post' = {}
    BY <1>1
  <2> QED BY <1>2, <2>2, <2>3
<1>7. TypeOK'
  BY <1>5, <1>6, InvFacts, TypeKept, AtMostOne DEF TypeOK
<1>8. Past'
  BY <1>5, <1>6, InvFacts, PastKept
<1>9. ProposalsPass'
  BY <1>5, <1>6, ProposalsKept
<1>10. PayloadsMatch'
  <2>1. ASSUME NEW p \in payloads' PROVE PayloadMatches(p, height', hashes')
    <3>1. CASE p \in payloads
      BY <1>5, <1>6, <3>1, InvFacts, PayloadsKept
    <3>2. CASE p.slot = st.slot
      BY <1>6, <3>2, InvFacts DEF PayloadMatches
    <3> QED BY <1>6, <3>1, <3>2
  <2> QED BY <2>1 DEF PayloadsMatch
<1> QED BY <1>5, <1>7, <1>8, <1>9, <1>10 DEF TransitionInv, Past, Grows

\* The state that ErrAcceptedPayloadStatus leaves behind: a state at the block's slot.
LEMMA HalfwayForm ==
    ASSUME NEW s, NEW tab, NEW b, IsState(s), IsTable(tab), b.slot \in Nat, b.slot > s.slot
    PROVE  LET h == AcceptedTransition(s, tab, b)
           IN /\ IsState(h.st) /\ h.st.slot = b.slot
              /\ IsTable(h.tab) /\ Within(tab, h.tab)
<1> DEFINE w == ProcessSlots(Work(s, tab), b.slot)
           h == AcceptedTransition(s, tab, b)
<1>1. Reached(s, tab, w, b.slot - s.slot)
  BY Slots
<1>2. h.st = processBlockHeader(w.st, b) /\ h.tab = w.tab
  BY DEF AcceptedTransition, Work
<1> HIDE DEF w, h
<1>3. /\ IsState(w.st) /\ IsTable(w.tab) /\ Within(tab, w.tab) /\ w.st.slot = s.slot + (b.slot - s.slot)
  BY <1>1 DEF Reached
<1>4. w.st.slot = b.slot
  BY <1>3 DEF IsState
<1>5. h.st = [w.st EXCEPT !.header = Tip(b)]
  BY <1>2, HeaderForm DEF processBlockHeader
<1>6. IsHeader(Tip(b))
  BY DEF IsHeader, Tip, ZeroRoot
<1>7. h.st = StateOf(w.st.slot, Tip(b), w.st.blockRoots, w.st.stateRoots, w.st.mixes,
                     w.st.slashings, w.st.payload)
  BY <1>3, <1>5 DEF IsState, StateOf
<1>8. /\ h.st.slot = w.st.slot /\ h.st.header = Tip(b) /\ h.st.blockRoots = w.st.blockRoots
      /\ h.st.stateRoots = w.st.stateRoots /\ h.st.mixes = w.st.mixes
      /\ h.st.slashings = w.st.slashings /\ h.st.payload = w.st.payload
  BY <1>7, StateFields
<1>9. IsState(h.st)
  BY <1>3, <1>6, <1>7, <1>8 DEF IsState, StateOf
<1> QED BY <1>2, <1>3, <1>4, <1>8, <1>9 DEF h

\* What the verifier accepts after all checks passes the finalizer's checks, whatever
\* the engine says then.
LEMMA VerifyKeeps ==
    ASSUME TransitionInv, NEW engine, VerifyIncomingBlock(engine) PROVE TransitionInv'
<1> DEFINE full(b) == Transition(VerifierCtx, st, hashes, b, engine)
           half(b) == AcceptedTransition(st, hashes, b)
           t(b) == IF engine = "accepted" /\ half(b).ok THEN half(b) ELSE full(b)
<1>1. PICK b \in proposal :
        /\ verdict = "none"
        /\ verdict' = IF ~t(b).ok THEN "reject" ELSE IF engine = "accepted" THEN "halfway" ELSE "accept"
        /\ post' = IF t(b).ok THEN {t(b).st} ELSE {st}
        /\ hashes' = t(b).tab
        /\ UNCHANGED <<height, round, st, proposal, payloads, chain>>
  BY DEF VerifyIncomingBlock
<1>2. /\ IsHeader(Header(b)) /\ b.slot = height /\ height <= MaxSlot /\ b.proposer \in Validators
      /\ Honest(b) => Passes(VerifierCtx, b, "valid")
      /\ \A c \in proposal : c = b
  BY InvFacts DEF ProposalsPass
<1>3. b.slot \in Nat /\ b.slot > st.slot
  BY <1>2, InvFacts
<1>4. /\ IsTable(t(b).tab) /\ Within(hashes, t(b).tab)
  <2>1. IsTable(full(b).tab) /\ Within(hashes, full(b).tab)
    BY <1>3, InvFacts, TransitionForm
  <2>2. IsTable(half(b).tab) /\ Within(hashes, half(b).tab)
    BY <1>3, InvFacts, HalfwayForm
  <2> HIDE DEF full, half
  <2> QED BY <2>1, <2>2
<1>5. Grows
  BY <1>1, <1>4 DEF Grows
<1>6. TypeOK'
  <2>1. verdict' \in {"none", "accept", "halfway", "reject"} /\ \E x : post' = {x}
    BY <1>1
  <2>2. Cardinality(post') <= 1
    BY <2>1, AtMostOne
  <2> QED BY <1>1, <1>5, <2>1, <2>2, InvFacts, TypeKept DEF TypeOK
<1>7. Past'
  BY <1>1, <1>5, InvFacts, PastKept
<1>8. PayloadsMatch'
  BY <1>1, <1>5, InvFacts, PayloadsKept DEF PayloadsMatch
<1>9. Honest(b) => Passes(VerifierCtx, b, "valid")'
  BY <1>1, <1>2, <1>3, <1>5, InvFacts, PassesGrows
<1>10. ASSUME verdict' = "accept", NEW e \in Consistent
       PROVE  /\ Passes(FinalizerCtx, b, e)'
              /\ Transition(FinalizerCtx, st', hashes', b, e).st = t(b).st
  <2> DEFINE f == Transition(FinalizerCtx, st, hashes, b, e)
             g == Transition(FinalizerCtx, st, hashes', b, e)
             w == ProcessSlots(Work(st, hashes), b.slot)
             p == PostState(w.st, b)
  <2>0. t(b) = full(b) /\ full(b).ok
    <3> HIDE DEF full, half
    <3> QED BY <1>1, <1>10
  <2>1. /\ full(b).st = p /\ full(b).tab = Remember(p, w.tab)
        /\ Fits(w.st, b) /\ RootOf(w.st.header, w.tab) = b.parent /\ b.stateRoot = RootOf(p, w.tab)
    BY <1>3, <2>0, InvFacts, TransitionForm
  <2>2. /\ f.st = p /\ f.tab = Remember(p, w.tab)
        /\ f.ok <=> /\ Fits(w.st, b) /\ EngineAgrees(FinalizerCtx, e)
                    /\ RootOf(w.st.header, w.tab) = b.parent
                    /\ b.stateRoot = RootOf(p, w.tab)
    BY <1>3, InvFacts, TransitionForm
  <2>3. EngineAgrees(FinalizerCtx, e)
    BY DEF EngineAgrees, FinalizerCtx, Consistent
  <2>4. f.ok /\ f.st = t(b).st /\ f.tab = hashes'
    <3>1. hashes' = t(b).tab
      BY <1>1
    <3> HIDE DEF w, p, f, full, half, t
    <3> QED BY <2>0, <2>1, <2>2, <2>3, <3>1
  <2>5. g.st = f.st /\ g.tab = hashes' /\ (g.ok <=> f.ok)
    <3>1. IsTable(hashes') /\ Within(f.tab, hashes')
      BY <1>5, <2>4, WithinItself DEF Grows
    <3> HIDE DEF t
    <3> QED BY <1>3, <3>1, InvFacts, TransitionAgain
  <2>6. st' = st
    BY <1>1
  <2> HIDE DEF t
  <2> QED BY <2>4, <2>5, <2>6 DEF Passes
<1>11. ASSUME verdict' = "halfway" PROVE IsState(t(b).st) /\ t(b).st.slot = b.slot
  <2>1. engine = "accepted" /\ t(b).ok
    <3> HIDE DEF full, half
    <3> QED BY <1>1, <1>11
  <2>2. ~full(b).ok
    <3>1. ~EngineAgrees(VerifierCtx, engine)
      BY <2>1 DEF EngineAgrees, VerifierCtx
    <3> QED BY <1>3, <3>1, InvFacts, TransitionForm
  <2>3. t(b) = half(b)
    <3> HIDE DEF full, half
    <3> QED BY <2>1, <2>2
  <2>4. IsState(half(b).st) /\ half(b).st.slot = b.slot
    BY <1>3, InvFacts, HalfwayForm
  <2> HIDE DEF t, half
  <2> QED BY <2>3, <2>4
<1> HIDE DEF t
<1>12. ProposalsPass'
  <2>1. /\ verdict' # "none" /\ (verdict' = "reject" <=> ~t(b).ok)
        /\ proposal' = proposal /\ height' = height /\ st' = st
    BY <1>1
  <2>2. verdict' = "accept" => \A e \in Consistent : Passes(FinalizerCtx, b, e)'
    BY <1>10
  <2>3. ASSUME NEW s \in post'
        PROVE  /\ verdict' = "accept" => s = Transition(FinalizerCtx, st', hashes', b, "valid").st
               /\ verdict' = "halfway" => IsState(s)' /\ s.slot = b.slot
               /\ verdict' = "reject" => s = st'
    <3>1. "valid" \in Consistent
      BY DEF Consistent, Answers
    <3>2. IF t(b).ok THEN s = t(b).st ELSE s = st
      BY <1>1
    <3>3. verdict' = "halfway" => IsState(s)' /\ s.slot = b.slot
      <4>1. SUFFICES ASSUME verdict' = "halfway" PROVE IsState(s)' /\ s.slot = b.slot
        OBVIOUS
      <4>2. s = t(b).st
        BY <2>1, <3>2, <4>1
      <4>3. IsState(s) /\ s.slot = b.slot
        BY <1>11, <4>1, <4>2
      <4> QED BY <4>3 DEF IsState, IsHeader, Reveals
    <3> QED BY <1>10, <2>1, <3>1, <3>2, <3>3
  <2> QED BY <1>2, <1>9, <2>1, <2>2, <2>3 DEF ProposalsPass
<1> QED BY <1>5, <1>6, <1>7, <1>8, <1>12 DEF TransitionInv, Past, Grows

\* r is the root of x in table u.
Rooted(r, x, u) == r \in 1 .. Len(u) /\ u[r] = x

\* A block that passes the checks of the finalizer: the state it is checked on, the
\* state it leads to, and the roots of what has been hashed then.
LEMMA Passing ==
    ASSUME TransitionInv, NEW b \in proposal, NEW engine,
           Transition(FinalizerCtx, st, hashes, b, engine).ok
    PROVE  LET w == ProcessSlots(Work(st, hashes), b.slot)
               p == PostState(w.st, b)
               t == Transition(FinalizerCtx, st, hashes, b, engine)
           IN /\ t.st = p /\ IsTable(t.tab) /\ Within(hashes, t.tab)
              /\ b.slot = height /\ b.slot \in Nat /\ b.slot > st.slot /\ height <= MaxSlot
              /\ IsHeader(Header(b)) /\ b.body.reveal \in Reveals
              /\ Fits(w.st, b) /\ IsState(w.st) /\ w.st.slot = b.slot /\ IsState(p)
              /\ w.st.header = Sealed(st, hashes) /\ w.st.payload = st.payload
              /\ Within(w.tab, t.tab)
              /\ b.parent = SealedRoot(st, hashes) /\ Rooted(b.parent, Sealed(st, hashes), t.tab)
              /\ Rooted(b.stateRoot, p, t.tab)
<1> DEFINE w == ProcessSlots(Work(st, hashes), b.slot)
           p == PostState(w.st, b)
           t == Transition(FinalizerCtx, st, hashes, b, engine)
           n == b.slot - st.slot
<1>1. /\ IsHeader(Header(b)) /\ b.slot = height /\ height <= MaxSlot /\ b.proposer \in Validators
  BY InvFacts DEF ProposalsPass
<1>2. b.slot \in Nat /\ b.slot > st.slot
  BY <1>1, InvFacts
<1>3. t.ok
  OBVIOUS
<1>4. /\ t.st = p /\ t.tab = Remember(p, w.tab)
      /\ Fits(w.st, b) /\ RootOf(w.st.header, w.tab) = b.parent /\ b.stateRoot = RootOf(p, w.tab)
      /\ IsTable(t.tab) /\ Within(hashes, t.tab)
      /\ Within(w.tab, t.tab) /\ IsState(w.st) /\ IsTable(w.tab) /\ w.st.slot = b.slot
  BY <1>2, <1>3, InvFacts, TransitionForm
<1>5. Reached(st, hashes, w, n) /\ n \in Nat \ {0}
  BY <1>2, InvFacts, Slots
<1> HIDE DEF w, t
<1>6. /\ w.st.header = Sealed(st, hashes) /\ w.st.payload = st.payload
      /\ Within(Sealing(st, hashes), w.tab)
  BY <1>5 DEF Reached
<1>7. Within(Sealing(st, hashes), t.tab)
  BY <1>4, <1>6, InvFacts, SealingFacts, WithinTransitive
<1>8. b.body.reveal \in Reveals
  <2>1. b.body.reveal = Reveal(b.proposer, SlotToEpoch(b.slot))
    BY <1>4 DEF Fits
  <2>2. /\ SlotToEpoch(b.slot) \in Nat /\ SlotToEpoch(MaxSlot) \in Nat
        /\ SlotToEpoch(b.slot) <= SlotToEpoch(MaxSlot)
    BY <1>1, <1>2, EpochType, EpochMonotone, BoundsAssumption
  <2>3. SlotToEpoch(b.slot) \in 0 .. SlotToEpoch(MaxSlot) + 1
    BY <2>2
  <2> QED BY <1>1, <2>1, <2>3 DEF Reveals
<1>9. IsState(p)
  BY <1>2, <1>4, <1>8, PostStateType
<1>10. Rooted(b.stateRoot, p, t.tab)
  <2> HIDE DEF p
  <2> QED BY <1>4, Remembering DEF Rooted
<1>11. b.parent = SealedRoot(st, hashes) /\ Rooted(b.parent, Sealed(st, hashes), t.tab)
  BY <1>4, <1>6, <1>7, InvFacts, SealedRootStays DEF Rooted
<1> QED BY <1>1, <1>2, <1>4, <1>6, <1>8, <1>9, <1>10, <1>11 DEF w, t

\* The payload for the next slot is begun on the state that the accepted block leads to,
\* or is marked as one begun on a half-way state.
LEMMA OptimisticBuildKeeps ==
    ASSUME TransitionInv, handleOptimisticPayloadBuild PROVE TransitionInv'
<1>1. PICK b \in proposal, s \in post :
        LET slot == b.slot + 1
            tab  == Remember(Header(b), hashes)
            w    == ProcessSlots(Work(s, tab), slot)
            p    == getPayload(w.st, slot, <<slot, 2 * round + 1>>, b.body.payload.hash,
                               verdict = "halfway")
        IN /\ verdict \in {"accept", "halfway"}
           /\ payloads' = SetPayload(slot, RootOf(Header(b), tab), p)
           /\ post' = {}
           /\ hashes' = w.tab
           /\ UNCHANGED <<height, round, st, proposal, verdict, chain>>
  BY DEF handleOptimisticPayloadBuild, Work
<1> DEFINE slot == b.slot + 1
           tab  == Remember(Header(b), hashes)
           r    == RootOf(Header(b), tab)
           w    == ProcessSlots(Work(s, tab), slot)
           p    == getPayload(w.st, slot, <<slot, 2 * round + 1>>, b.body.payload.hash,
                              verdict = "halfway")
           new  == [slot |-> slot, parentRoot |-> r, payload |-> p]
<1>2. /\ verdict = "accept" \/ verdict = "halfway"
      /\ verdict = "accept" => s = Transition(FinalizerCtx, st, hashes, b, "valid").st
      /\ verdict = "accept" => \A e \in Consistent : Passes(FinalizerCtx, b, e)
      /\ verdict = "halfway" => IsState(s) /\ s.slot = b.slot
  BY <1>1, InvFacts DEF ProposalsPass
<1>3. /\ b.slot \in Nat /\ IsState(s) /\ s.slot = b.slot
      /\ verdict = "accept" => IsRoot(b.stateRoot, s) /\ s.payload = b.body.payload.hash
  <2> DEFINE x == ProcessSlots(Work(st, hashes), b.slot)
             t == Transition(FinalizerCtx, st, hashes, b, "valid")
  <2>1. b.slot \in Nat
    BY InvFacts DEF ProposalsPass
  <2>2. ASSUME verdict = "accept"
        PROVE  IsState(s) /\ s.slot = b.slot /\ IsRoot(b.stateRoot, s) /\ s.payload = b.body.payload.hash
    <3>1. t.ok /\ t.tab = hashes /\ s = t.st
      <4>1. "valid" \in Consistent
        BY DEF Consistent, Answers
      <4> QED BY <1>2, <2>2, <4>1 DEF Passes
    <3>2. /\ t.st = PostState(x.st, b) /\ IsState(x.st) /\ x.st.slot = b.slot
          /\ b.body.reveal \in Reveals /\ Rooted(b.stateRoot, PostState(x.st, b), t.tab)
      BY <3>1, Passing
    <3> HIDE DEF x, t
    <3>3. IsRoot(b.stateRoot, s)
      BY <3>1, <3>2 DEF Rooted, IsRoot
    <3> QED BY <2>1, <3>1, <3>2, <3>3, PostStateType
  <2> QED BY <1>2, <2>1, <2>2
<1>4. IsTable(tab) /\ Within(hashes, tab) /\ r \in 1 .. Len(tab) /\ tab[r] = Header(b)
  <2> DEFINE q == RootOf(Header(b), hashes)
  <2>1. IsTable(tab) /\ Within(hashes, tab) /\ q \in 1 .. Len(tab) /\ tab[q] = Header(b) /\ r = q
    BY InvFacts, Remembering
  <2> QED BY <2>1
<1> HIDE DEF tab
<1>5. slot \in Nat /\ slot > s.slot
  BY <1>3
<1> HIDE DEF slot
<1>6. /\ Reached(s, tab, w, slot - s.slot)
      /\ \A u : IsTable(u) /\ Within(w.tab, u) => ProcessSlots(Work(s, u), slot) = Work(w.st, u)
  BY <1>3, <1>4, <1>5, Slots
<1> HIDE DEF w
<1>7. IsTable(w.tab) /\ Within(tab, w.tab)
  BY <1>6 DEF Reached
<1>8. hashes' = w.tab /\ post' = {} /\ UNCHANGED <<height, round, st, proposal, verdict, chain>>
  BY <1>1 DEF w, tab, slot
<1>9. Grows
  BY <1>4, <1>7, <1>8, InvFacts, WithinTransitive DEF Grows
<1>10. \A q \in payloads' : q \in payloads \/ q = new
  BY <1>1 DEF SetPayload, w, tab, slot
<1>11. ASSUME verdict = "accept" PROVE BuiltOnParent(new, hashes')
  <2> DEFINE u == w.tab
             x == ProcessSlots(Work(s, u), slot)
  <2>1. Len(hashes) \in Nat /\ Len(tab) \in Nat /\ Len(u) \in Nat
    BY <1>4, <1>7, InvFacts, TableLen
  <2>2. r \in 1 .. Len(u) /\ u[r] = Header(b)
    <3> HIDE DEF r
    <3> QED BY <1>4, <1>7, <2>1 DEF Within
  <2>3. b.stateRoot \in 1 .. Len(u) /\ u[b.stateRoot] = s
    BY <1>3, <1>8, <1>9, <1>11, RootsGrow, InvFacts DEF IsRoot
  <2>4. x = Work(w.st, u)
    BY <1>6, <1>7, WithinItself
  <2>5. Header(b).stateRoot = b.stateRoot
    BY DEF Header
  <2>6. p.parent = s.payload /\ p.prevRandao = w.st.mixes[SlotToEpoch(slot) % EpochsPerHistoricalVector]
    BY <1>3, <1>11 DEF getPayload
  <2>7. new.slot = slot /\ new.parentRoot = r /\ new.payload = p
    OBVIOUS
  <2>8. s.slot + 1 = slot
    BY <1>3 DEF slot
  <2>9. x.tab = u /\ x.st = w.st
    BY <2>4 DEF Work
  <2> HIDE DEF new, p, r, u, x
  <2>10. BuiltOnParent(new, u)
    BY <1>3, <2>2, <2>3, <2>5, <2>6, <2>7, <2>8, <2>9 DEF BuiltOnParent, x, Work
  <2> QED BY <1>8, <2>10 DEF u
<1>12. TypeOK'
  BY <1>8, <1>9, InvFacts, TypeKept, AtMostOne DEF TypeOK
<1>13. Past'
  BY <1>8, <1>9, InvFacts, PastKept
<1>14. ProposalsPass'
  BY <1>8, <1>9, ProposalsKept
<1>15. PayloadsMatch'
  <2>1. ASSUME NEW q \in payloads' PROVE PayloadMatches(q, height', hashes')
    <3>1. CASE q \in payloads
      BY <1>8, <1>9, <3>1, InvFacts, PayloadsKept
    <3>2. CASE q = new
      <4>1. new.slot = slot /\ new.payload.halfway = (verdict = "halfway")
        BY DEF getPayload
      <4> HIDE DEF new
      <4> QED BY <1>2, <1>5, <1>11, <3>2, <4>1 DEF PayloadMatches
    <3> QED BY <1>10, <3>1, <3>2
  <2> QED BY <2>1 DEF PayloadsMatch
<1> QED BY <1>9, <1>12, <1>13, <1>14, <1>15 DEF TransitionInv, Past, Grows

\* Both ways to a payload end in one that fits the state the block is built on, unless
\* it was begun on a half-way state.
LEMMA PayloadFits ==
    ASSUME TransitionInv, NEW b,
           b.slot = height,
           b.parent = SealedRoot(st, hashes)
    PROVE  LET w == ProcessSlots(Work(st, hashes), height)
               p == retrieveExecutionPayload(w.st, b)
           IN ~p.halfway =>
              /\ p.parent = w.st.payload
              /\ p.prevRandao = w.st.mixes[SlotToEpoch(height) % EpochsPerHistoricalVector]
<1> DEFINE w == ProcessSlots(Work(st, hashes), height)
           p == retrieveExecutionPayload(w.st, b)
           built == {q \in payloads : q.slot = b.slot /\ q.parentRoot = b.parent}
<1>1. CASE built = {}
  <2>1. p = getPayload(w.st, height, <<height, 2 * round>>, w.st.payload, FALSE)
    BY <1>1 DEF retrieveExecutionPayload
  <2> QED BY <2>1 DEF getPayload
<1>2. ASSUME built # {}, ~p.halfway
      PROVE  /\ p.parent = w.st.payload
             /\ p.prevRandao = w.st.mixes[SlotToEpoch(height) % EpochsPerHistoricalVector]
  <2>1. p = (CHOOSE q \in built : TRUE).payload
    BY <1>2 DEF retrieveExecutionPayload
  <2>2. PICK q \in built : p = q.payload
    BY <1>2, <2>1
  <2>3. q.slot = height /\ q.parentRoot = SealedRoot(st, hashes) /\ BuiltOnParent(q, hashes)
    BY <1>2, <2>2, InvFacts DEF PayloadsMatch, PayloadMatches
  <2> DEFINE header == hashes[q.parentRoot]
             parent == hashes[header.stateRoot]
  <2>4. /\ q.parentRoot \in 1 .. Len(hashes) /\ header.stateRoot \in 1 .. Len(hashes)
        /\ q.payload.parent = parent.payload
        /\ LET x == ProcessSlots(Work(parent, hashes), height)
           IN q.payload.prevRandao = x.st.mixes[SlotToEpoch(height) % EpochsPerHistoricalVector]
    BY <2>3 DEF BuiltOnParent, Work
  <2>5. header = Sealed(st, hashes) /\ parent = st
    <3> DEFINE v == Sealing(st, hashes)
               R == SealedRoot(st, hashes)
    <3>1. IsTable(v) /\ Within(hashes, v)
      BY InvFacts, SealingFacts
    <3>2. v[R] = Sealed(st, hashes) /\ v[RootOf(st, hashes)] = st
      BY InvFacts, SealingFacts DEF SealedRoot
    <3>3. header = Sealed(st, hashes)
      <4> HIDE DEF v, R
      <4> QED BY <2>3, <2>4, <3>1, <3>2 DEF Within, R
    <3>4. Sealed(st, hashes).stateRoot = RootOf(st, hashes)
      BY InvFacts DEF Sealed
    <3>5. parent = st
      <4>1. header.stateRoot = RootOf(st, hashes)
        BY <3>3, <3>4
      <4> HIDE DEF v, header
      <4> QED BY <2>4, <3>1, <3>2, <4>1 DEF Within
    <3> QED BY <3>3, <3>5
  <2>6. w.st.payload = st.payload
    <3>1. Reached(st, hashes, w, height - st.slot)
      BY InvFacts, Slots
    <3> HIDE DEF w
    <3> QED BY <3>1 DEF Reached
  <2>7. /\ p.parent = w.st.payload
        /\ p.prevRandao = w.st.mixes[SlotToEpoch(height) % EpochsPerHistoricalVector]
    <3> HIDE DEF p, parent, header
    <3> QED BY <2>2, <2>4, <2>5, <2>6 DEF w
  <2> QED BY <2>7
<1> QED BY <1>1, <1>2

\* A faulty block keeps slot, proposer and the mark of its fault.
LEMMA WrongKeeps ==
    ASSUME NEW b, NEW fault,
           b = [slot |-> b.slot, proposer |-> b.proposer, parent |-> b.parent,
                stateRoot |-> b.stateRoot, body |-> b.body],
           b.body = [reveal |-> b.body.reveal, payload |-> b.body.payload, fault |-> b.body.fault]
    PROVE  LET c == Wrong(b, fault)
           IN /\ c = [slot |-> b.slot, proposer |-> b.proposer, parent |-> c.parent,
                      stateRoot |-> b.stateRoot, body |-> c.body]
              /\ c.body.fault = b.body.fault
              /\ fault = "none" => c = b
<1> DEFINE c == Wrong(b, fault)
<1>1. CASE fault = "parent"
  BY <1>1 DEF Wrong
<1>2. CASE fault = "payload"
  BY <1>2 DEF Wrong
<1>3. CASE fault = "mix"
  BY <1>3 DEF Wrong
<1>4. CASE fault = "reveal"
  BY <1>4 DEF Wrong
<1>5. CASE fault \notin {"parent", "payload", "mix", "reveal"}
  BY <1>5 DEF Wrong
<1> QED BY <1>1, <1>2, <1>3, <1>4, <1>5

\* The proposer's block passes the verifier's checks: he runs the transition without
\* checks on the state that the verifier will reach.
LEMMA RequestKeeps ==
    ASSUME TransitionInv, NEW v \in Validators, NEW fault \in Faults,
           RequestBlockForProposal(v, fault)
    PROVE  TransitionInv'
<1> DEFINE w == ProcessSlots(Work(st, hashes), height)
           b == getEmptyBeaconBlockForSlot(w.st, height, v)
           body == [reveal  |-> Reveal(v, SlotToEpoch(height)),
                    payload |-> retrieveExecutionPayload(w.st, b),
                    fault   |-> fault]
           c == [b EXCEPT !.body = body]
           e == Wrong(c, fault)
           d == computeAndSetStateRoot(w, e)
           blk == IF fault = "stateRoot" THEN [d.blk EXCEPT !.stateRoot = ZeroRoot] ELSE d.blk
           q == PostState(w.st, e)
<1>1. /\ height <= MaxSlot /\ proposal' = {blk} /\ hashes' = d.tab /\ proposal = {}
      /\ UNCHANGED <<height, round, st, verdict, post, payloads, chain>>
  BY DEF RequestBlockForProposal, Work
<1>2. /\ Reached(st, hashes, w, height - st.slot) /\ RingsReached(st, hashes, w, height - st.slot)
      /\ height - st.slot \in Nat \ {0}
  BY InvFacts, Slots
<1> HIDE DEF w
<1>3. /\ IsState(w.st) /\ IsTable(w.tab) /\ Within(hashes, w.tab) /\ w.st.slot = height
      /\ w.st.header = Sealed(st, hashes) /\ Within(Sealing(st, hashes), w.tab)
      /\ w = Work(w.st, w.tab)
  BY <1>2, InvFacts DEF Reached, Work
<1>4. w.st.blockRoots[(height - 1) % SlotsPerHistoricalRoot] = SealedRoot(st, hashes)
  <2>1. /\ height - 1 \in Nat /\ st.slot <= height - 1 /\ height - 1 < st.slot + (height - st.slot)
        /\ height - 1 + SlotsPerHistoricalRoot >= st.slot + (height - st.slot)
    BY InvFacts, BoundsAssumption
  <2> QED BY <1>2, <2>1 DEF RingsReached
<1>5. c = [slot |-> height, proposer |-> v, parent |-> SealedRoot(st, hashes),
           stateRoot |-> ZeroRoot, body |-> body]
  <2>1. b = [slot |-> height, proposer |-> v, parent |-> SealedRoot(st, hashes),
             stateRoot |-> ZeroRoot, body |-> GenesisBody]
    BY <1>4 DEF getEmptyBeaconBlockForSlot
  <2> HIDE DEF body, b
  <2> QED BY <2>1
<1>6. b.slot = height /\ b.parent = SealedRoot(st, hashes)
  BY <1>4 DEF getEmptyBeaconBlockForSlot
<1>7. /\ ~body.payload.halfway =>
            /\ body.payload.parent = w.st.payload
            /\ body.payload.prevRandao = w.st.mixes[SlotToEpoch(height) % EpochsPerHistoricalVector]
      /\ body.reveal = Reveal(v, SlotToEpoch(height)) /\ body.fault = fault
      /\ body = [reveal |-> body.reveal, payload |-> body.payload, fault |-> body.fault]
  <2> HIDE DEF b
  <2>1. body.payload = retrieveExecutionPayload(w.st, b) /\ body.reveal = Reveal(v, SlotToEpoch(height))
        /\ body.fault = fault
    OBVIOUS
  <2>2. body = [reveal |-> body.reveal, payload |-> body.payload, fault |-> body.fault]
    BY <2>1
  <2> HIDE DEF body
  <2> QED BY <1>6, <2>1, <2>2, PayloadFits DEF w
<1> HIDE DEF body, b
<1>8. /\ e = [slot |-> height, proposer |-> v, parent |-> e.parent, stateRoot |-> ZeroRoot, body |-> e.body]
      /\ e.body.fault = fault
      /\ fault = "none" => e = c
  <2>1. /\ c.slot = height /\ c.proposer = v /\ c.parent = SealedRoot(st, hashes)
        /\ c.stateRoot = ZeroRoot /\ c.body = body
    BY <1>5
  <2>2. c = [slot |-> c.slot, proposer |-> c.proposer, parent |-> c.parent,
             stateRoot |-> c.stateRoot, body |-> c.body]
    BY <1>5, <2>1
  <2>3. c.body = [reveal |-> c.body.reveal, payload |-> c.body.payload, fault |-> c.body.fault]
    BY <1>7, <2>1
  <2> HIDE DEF c
  <2> QED BY <1>7, <2>1, <2>2, <2>3, WrongKeeps
<1> HIDE DEF c, e
<1>9. e.slot = w.st.slot
  BY <1>3, <1>8
<1>10. d = [blk |-> [e EXCEPT !.stateRoot = RootOf(q, w.tab)], tab |-> Remember(q, w.tab)]
  <2>1. LET t == Transition(ProposerCtx, w.st, w.tab, e, "valid") IN t.st = q /\ t.tab = w.tab
    BY <1>3, <1>9, ProposerForm
  <2> QED BY <2>1 DEF computeAndSetStateRoot
<1> DEFINE R == RootOf(q, w.tab)
<1>11. d.blk = [slot |-> height, proposer |-> v, parent |-> e.parent, stateRoot |-> R, body |-> e.body]
  <2> HIDE DEF R, q, d
  <2> QED BY <1>8, <1>10 DEF R
<1>12. /\ IsTable(hashes') /\ Within(w.tab, hashes') /\ R \in 1 .. Len(hashes') /\ hashes' = Remember(q, w.tab)
  <2>1. hashes' = Remember(q, w.tab)
    BY <1>1, <1>10
  <2> HIDE DEF q, d
  <2> QED BY <1>3, <2>1, Remembering
<1>13. Grows
  BY <1>3, <1>12, InvFacts, WithinTransitive DEF Grows
<1>14. R \in Nat
  <2> HIDE DEF R
  <2> QED BY <1>12, TableLen
<1>15. /\ blk.slot = height /\ blk.proposer = v /\ blk.stateRoot \in Nat /\ blk.body.fault = fault
       /\ fault = "none" => blk = [slot |-> height, proposer |-> v, parent |-> SealedRoot(st, hashes),
                                   stateRoot |-> R, body |-> body]
  <2>1. fault = "none" => e.parent = SealedRoot(st, hashes) /\ e.body = body
    BY <1>5, <1>8
  <2>2. [d.blk EXCEPT !.stateRoot = ZeroRoot] =
          [slot |-> height, proposer |-> v, parent |-> e.parent, stateRoot |-> ZeroRoot, body |-> e.body]
    <3> HIDE DEF R, d
    <3> QED BY <1>11
  <2> HIDE DEF R, d
  <2> QED BY <1>8, <1>11, <1>14, <2>1, <2>2 DEF ZeroRoot
<1>16. IsHeader(Header(blk))
  <2> HIDE DEF blk
  <2> QED BY <1>15, InvFacts DEF IsHeader, Header
<1>17. ASSUME fault = "none", ~body.payload.halfway
       PROVE  LET u == Transition(VerifierCtx, st, hashes', blk, "valid") IN u.ok /\ u.tab = hashes'
  <2> DEFINE t == Transition(VerifierCtx, st, hashes, blk, "valid")
             u == Transition(VerifierCtx, st, hashes', blk, "valid")
  <2>1. /\ blk.slot = height /\ blk.proposer = v /\ blk.parent = SealedRoot(st, hashes)
        /\ blk.stateRoot = R /\ blk.body = body
    <3> HIDE DEF blk
    <3> QED BY <1>15, <1>17
  <2>2. e.slot = height /\ e.proposer = v /\ e.parent = SealedRoot(st, hashes) /\ e.body = body
    BY <1>5, <1>8, <1>17
  <2> HIDE DEF blk
  <2>3. PostState(w.st, blk) = q
    BY <2>1, <2>2 DEF PostState, PostMixes, Tip
  <2>4. blk.slot \in Nat /\ blk.slot > st.slot
    BY <2>1, InvFacts
  <2>5. /\ t.tab = Remember(q, w.tab)
        /\ t.ok <=> /\ Fits(w.st, blk) /\ EngineAgrees(VerifierCtx, "valid")
                    /\ RootOf(w.st.header, w.tab) = blk.parent
                    /\ blk.stateRoot = RootOf(q, w.tab)
    BY <2>1, <2>3, <2>4, InvFacts, TransitionForm DEF w
  <2>6. Fits(w.st, blk)
    <3>1. w.st.header.slot = st.slot
      BY <1>3, InvFacts, SealingFacts
    <3> QED BY <1>3, <1>7, <1>17, <2>1, <3>1, InvFacts DEF Fits
  <2>7. EngineAgrees(VerifierCtx, "valid")
    BY DEF EngineAgrees
  <2>8. RootOf(w.st.header, w.tab) = blk.parent
    BY <1>3, <2>1, InvFacts, SealedRootStays
  <2>9. t.ok /\ t.tab = hashes'
    BY <1>12, <2>1, <2>5, <2>6, <2>7, <2>8
  <2>10. u.tab = hashes' /\ u.ok
    <3>1. Within(t.tab, hashes')
      BY <1>12, <2>9, WithinItself
    <3> QED BY <1>12, <2>4, <2>9, <3>1, InvFacts, TransitionAgain
  <2> QED BY <2>10 DEF blk
<1> HIDE DEF blk, d, q
<1>18. TypeOK'
  <2>1. Cardinality(proposal') <= 1
    BY <1>1, AtMostOne
  <2> QED BY <1>1, <1>13, <2>1, InvFacts, TypeKept DEF TypeOK
<1>19. Past'
  BY <1>1, <1>13, InvFacts, PastKept
<1>20. ProposalsPass'
  <2>1. verdict' = "none" /\ post' = {} /\ \A x \in proposal' : x = blk
    BY <1>1, InvFacts DEF ProposalsPass
  <2>2. ASSUME NEW x \in proposal'
        PROVE  /\ IsHeader(Header(x)) /\ x.slot = height' /\ height' <= MaxSlot
               /\ x.proposer \in Validators
               /\ Honest(x) => Passes(VerifierCtx, x, "valid")'
    <3>1. x = blk
      BY <2>1
    <3>2. IsHeader(Header(x)) /\ x.slot = height' /\ x.proposer \in Validators
      BY <1>1, <1>15, <1>16, <3>1
    <3>3. ASSUME Honest(x) PROVE Passes(VerifierCtx, x, "valid")'
      <4>1. fault = "none" /\ ~body.payload.halfway
        BY <1>15, <3>1, <3>3 DEF Honest
      <4>2. LET u == Transition(VerifierCtx, st, hashes', x, "valid") IN u.ok /\ u.tab = hashes'
        BY <1>17, <3>1, <4>1
      <4>3. LET u == Transition(VerifierCtx, st', hashes', x, "valid") IN u.ok /\ u.tab = hashes'
        BY <1>1, <4>2
      <4> QED BY <4>3 DEF Passes
    <3> QED BY <1>1, <3>2, <3>3
  <2> QED BY <2>1, <2>2 DEF ProposalsPass
<1>21. PayloadsMatch'
  BY <1>1, <1>13, InvFacts, PayloadsKept DEF PayloadsMatch
<1> QED BY <1>13, <1>18, <1>19, <1>20, <1>21 DEF TransitionInv, Past, Grows

-----------------------------------------------------------------------------
(* Randao mixes along the chain.                                           *)

\* The blocks of a chain up to an epoch that mix in a reveal, and the mix.
MixedIn(c, epoch, r) ==
    {i \in 1 .. Len(c) : SlotToEpoch(c[i].slot) <= epoch /\ c[i].body.reveal = r}
MixOf(c, epoch) == {r \in Reveals : Cardinality(MixedIn(c, epoch, r)) % 2 = 1}

LEMMA MixAfterForm ==
    ASSUME NEW e PROVE MixAfter(e) = MixOf(chain, e) /\ MixAfter(e)' = MixOf(chain', e)
<1>1. ASSUME NEW r
      PROVE  {i \in {i \in 1 .. Len(chain) : SlotToEpoch(chain[i].slot) <= e} : chain[i].body.reveal = r}
               = MixedIn(chain, e, r)
  BY DEF MixedIn
<1>2. ASSUME NEW r
      PROVE  {i \in {i \in 1 .. Len(chain') : SlotToEpoch(chain'[i].slot) <= e} : chain'[i].body.reveal = r}
               = MixedIn(chain', e, r)
  BY DEF MixedIn
<1>3. MixAfter(e) = MixOf(chain, e)
  BY <1>1 DEF MixAfter, MixOf
<1>4. MixAfter(e)' = MixOf(chain', e)
  BY <1>2 DEF MixAfter, MixOf
<1> QED BY <1>3, <1>4

LEMMA MixedInFinite ==
    ASSUME NEW c, IsSequence(c), NEW e, NEW r
    PROVE  IsFiniteSet(MixedIn(c, e, r)) /\ Cardinality(MixedIn(c, e, r)) \in Nat
           /\ Len(c) + 1 \notin MixedIn(c, e, r)
<1>1. Len(c) \in Nat
  BY DEF IsSequence
<1>2. IsFiniteSet(1 .. Len(c))
  BY <1>1, FS_Interval
<1>3. MixedIn(c, e, r) \subseteq 1 .. Len(c)
  BY DEF MixedIn
<1>4. IsFiniteSet(MixedIn(c, e, r))
  BY <1>2, <1>3, FS_Subset
<1> QED BY <1>1, <1>3, <1>4, FS_CardinalityType

LEMMA Appending ==
    ASSUME NEW c, IsSequence(c), NEW b
    PROVE  LET d == Append(c, b)
           IN /\ IsSequence(d) /\ Len(c) \in Nat /\ Len(d) = Len(c) + 1 /\ d[Len(c) + 1] = b
              /\ \A i \in 1 .. Len(c) : d[i] = c[i]
<1> DEFINE d == Append(c, b)
           V == {c[i] : i \in 1 .. Len(c)}
           W == V \cup {b}
<1>1. c \in Seq(V)
  BY DEF IsSequence
<1>2. V \subseteq W /\ b \in W
  OBVIOUS
<1> HIDE DEF V, W
<1>3. c \in Seq(W)
  BY <1>1, <1>2
<1>4. /\ Len(c) \in Nat /\ Len(d) = Len(c) + 1 /\ d[Len(c) + 1] = b /\ d \in Seq(W)
      /\ \A i \in 1 .. Len(c) : d[i] = c[i]
  BY <1>2, <1>3
<1> HIDE DEF d
<1>5. {d[i] : i \in 1 .. Len(d)} = W
  BY <1>4 DEF V, W
<1> QED BY <1>4, <1>5 DEF IsSequence, d

\* A block changes the mix of its own epoch and of the later ones, by its reveal.
LEMMA MixAppend ==
    ASSUME NEW c, IsSequence(c), NEW b, NEW e, b.body.reveal \in Reveals
    PROVE  MixOf(Append(c, b), e) = IF SlotToEpoch(b.slot) <= e
                                    THEN Xor(MixOf(c, e), {b.body.reveal}) ELSE MixOf(c, e)
<1> DEFINE d == Append(c, b)
<1>1. /\ IsSequence(d) /\ Len(c) \in Nat /\ Len(d) = Len(c) + 1 /\ d[Len(c) + 1] = b
      /\ \A i \in 1 .. Len(c) : d[i] = c[i]
  BY Appending
<1> HIDE DEF d
<1>2. ASSUME NEW r
      PROVE  MixedIn(d, e, r) = IF SlotToEpoch(b.slot) <= e /\ r = b.body.reveal
                                THEN MixedIn(c, e, r) \cup {Len(c) + 1} ELSE MixedIn(c, e, r)
  <2>1. ASSUME NEW i
        PROVE  i \in MixedIn(d, e, r) <=>
                 i \in MixedIn(c, e, r) \/ (i = Len(c) + 1 /\ SlotToEpoch(b.slot) <= e /\ r = b.body.reveal)
    <3>1. i \in 1 .. Len(d) <=> i \in 1 .. Len(c) \/ i = Len(c) + 1
      BY <1>1
    <3>2. Len(c) + 1 \notin 1 .. Len(c)
      BY <1>1
    <3> QED BY <1>1, <3>1, <3>2 DEF MixedIn
  <2> QED BY <2>1
<1>3. ASSUME NEW r
      PROVE  LET n == Cardinality(MixedIn(c, e, r))
             IN /\ n \in Nat
                /\ Cardinality(MixedIn(d, e, r)) =
                     IF SlotToEpoch(b.slot) <= e /\ r = b.body.reveal THEN n + 1 ELSE n
  <2>1. /\ IsFiniteSet(MixedIn(c, e, r)) /\ Cardinality(MixedIn(c, e, r)) \in Nat
        /\ Len(c) + 1 \notin MixedIn(c, e, r)
    BY MixedInFinite
  <2>2. Cardinality(MixedIn(c, e, r) \cup {Len(c) + 1}) = Cardinality(MixedIn(c, e, r)) + 1
    BY <2>1, FS_AddElement
  <2> QED BY <1>2, <2>1, <2>2
<1>4. \A n \in Nat : (n + 1) % 2 = 1 <=> n % 2 # 1
  OBVIOUS
<1>5. ASSUME NEW r \in Reveals
      PROVE  r \in MixOf(d, e) <=> IF SlotToEpoch(b.slot) <= e /\ r = b.body.reveal
                                   THEN r \notin MixOf(c, e) ELSE r \in MixOf(c, e)
  <2> DEFINE n == Cardinality(MixedIn(c, e, r))
             m == Cardinality(MixedIn(d, e, r))
  <2>1. n \in Nat /\ m = IF SlotToEpoch(b.slot) <= e /\ r = b.body.reveal THEN n + 1 ELSE n
    BY <1>3
  <2>2. (r \in MixOf(d, e) <=> m % 2 = 1) /\ (r \in MixOf(c, e) <=> n % 2 = 1)
    BY DEF MixOf
  <2> HIDE DEF n, m
  <2> QED BY <1>4, <2>1, <2>2
<1>6. MixOf(d, e) \subseteq Reveals /\ MixOf(c, e) \subseteq Reveals
  BY DEF MixOf
<1>7. CASE SlotToEpoch(b.slot) <= e
  <2>1. MixOf(d, e) = Xor(MixOf(c, e), {b.body.reveal})
    BY <1>5, <1>6, <1>7 DEF Xor
  <2> QED BY <1>7, <2>1 DEF d
<1>8. CASE ~(SlotToEpoch(b.slot) <= e)
  <2>1. MixOf(d, e) = MixOf(c, e)
    BY <1>5, <1>6, <1>8
  <2> QED BY <1>8, <2>1 DEF d
<1> QED BY <1>7, <1>8

\* After the epoch of the last block the mix does not change.
LEMMA MixSettles ==
    ASSUME NEW c, NEW old \in Nat, NEW e \in Nat, old <= e,
           \A i \in 1 .. Len(c) : SlotToEpoch(c[i].slot) \in Nat /\ SlotToEpoch(c[i].slot) <= old
    PROVE  MixOf(c, e) = MixOf(c, old)
<1>1. ASSUME NEW r PROVE MixedIn(c, e, r) = MixedIn(c, old, r)
  BY DEF MixedIn
<1> QED BY <1>1 DEF MixOf

-----------------------------------------------------------------------------
(* Finalization.                                                           *)

\* Once it has its state root, the header of the state is the last block's.
LEMMA SealedIsTip ==
    ASSUME TransitionInv, chain # <<>>
    PROVE  /\ Sealed(st, hashes) = Header(chain[Len(chain)])
           /\ RootOf(st, hashes) = chain[Len(chain)].stateRoot
           /\ chain[Len(chain)].slot = st.slot
<1> DEFINE b == chain[Len(chain)]
<1>1. /\ st.header = [Header(b) EXCEPT !.stateRoot = ZeroRoot] /\ IsRoot(b.stateRoot, st)
      /\ st.header.slot = st.slot /\ st.header.stateRoot = ZeroRoot
  BY DEF TransitionInv, StateIsTip
<1>2. RootOf(st, hashes) = b.stateRoot
  BY <1>1, InvFacts, RootIn DEF IsRoot
<1>3. st.header = Tip(b)
  BY <1>1, HeaderForm
<1> HIDE DEF b
<1>4. Sealed(st, hashes) = Header(b) /\ b.slot = st.slot
  BY <1>1, <1>2, <1>3 DEF Sealed, Tip, Header
<1> QED BY <1>2, <1>4 DEF b

\* The finalized block becomes the past that the rings tell of.
LEMMA FinalizeKeeps ==
    ASSUME TransitionInv, NEW engine, FinalizeBlock(engine)
    PROVE  TransitionInv'
<1> DEFINE t(b) == Transition(FinalizerCtx, st, hashes, b, engine)
<1>1. PICK b \in proposal :
        /\ t(b).ok /\ st' = t(b).st /\ hashes' = t(b).tab
        /\ chain' = Append(chain, b) /\ NewHeight /\ UNCHANGED <<round, payloads>>
  BY DEF FinalizeBlock
<1> DEFINE w == ProcessSlots(Work(st, hashes), b.slot)
           p == PostState(w.st, b)
           n == b.slot - st.slot
           N == SlotsPerHistoricalRoot
           M == EpochsPerHistoricalVector
           L == Len(chain)
<1>3. /\ st' = p /\ IsTable(hashes') /\ Within(hashes, hashes') /\ b.slot = height /\ b.slot \in Nat /\ b.slot > st.slot /\ height <= MaxSlot
      /\ IsHeader(Header(b)) /\ b.body.reveal \in Reveals
      /\ Fits(w.st, b) /\ IsState(w.st) /\ w.st.slot = b.slot /\ IsState(p)
      /\ w.st.header = Sealed(st, hashes) /\ w.st.payload = st.payload
      /\ Within(w.tab, hashes')
      /\ b.parent = SealedRoot(st, hashes) /\ Rooted(b.parent, Sealed(st, hashes), hashes')
      /\ Rooted(b.stateRoot, p, hashes')
  BY <1>1, Passing
<1>4. Grows /\ IsTable(hashes)
  BY <1>3, InvFacts DEF Grows
<1>5. /\ Reached(st, hashes, w, n) /\ RingsReached(st, hashes, w, n) /\ MixesReached(st, w)
      /\ n \in Nat \ {0} /\ st.slot + n = b.slot
  BY <1>3, InvFacts, Slots
<1>6. /\ p.slot = b.slot /\ p.header = Tip(b) /\ p.blockRoots = w.st.blockRoots
      /\ p.stateRoots = w.st.stateRoots /\ p.mixes = PostMixes(w.st, b)
      /\ p.payload = b.body.payload.hash
  BY <1>3, PostStateType
<1> HIDE DEF w, p
<1>7. \A r, x : /\ IsRoot(r, x)' <=> Rooted(r, x, hashes')
                /\ IsRoot(r, x) => Rooted(r, x, hashes')
  <2>1. \A r, x : IsRoot(r, x)' <=> Rooted(r, x, hashes')
    BY DEF IsRoot, Rooted
  <2>2. \A r, x : IsRoot(r, x) => IsRoot(r, x)'
    BY <1>4, RootsGrow
  <2> QED BY <2>1, <2>2
<1>8. /\ IsSequence(chain) /\ IsSequence(chain') /\ L \in Nat /\ Len(chain') = L + 1
      /\ chain'[L + 1] = b /\ \A i \in 1 .. L : chain'[i] = chain[i]
  BY <1>1, Appending DEF TransitionInv, ChainAscends
<1>9. /\ \A i, j \in 1 .. L : i < j => chain[i].slot < chain[j].slot
      /\ \A i \in 1 .. L : /\ IsHeader(Header(chain[i])) /\ chain[i].slot <= st.slot
                           /\ chain[i].body.reveal \in Reveals /\ chain[i].slot \in Nat
  <2>1. ASSUME NEW i \in 1 .. L, IsHeader(Header(chain[i])) PROVE chain[i].slot \in Nat
    BY <2>1 DEF IsHeader, Header
  <2> QED BY <2>1 DEF TransitionInv, ChainAscends
<1>10. height' = height + 1 /\ height \in Nat /\ st.slot \in Nat
       /\ proposal' = {} /\ verdict' = "none" /\ post' = {} /\ payloads' = payloads /\ round' = round
  BY <1>1, InvFacts DEF NewHeight
<1>11. \A i \in 1 .. L + 1 : i \in 1 .. L \/ i = L + 1
  BY <1>8
<1>12. chain # <<>> <=> L > 0
  BY <1>8 DEF IsSequence
<1>13. N \in Nat \ {0} /\ M \in Nat \ {0}
  BY BoundsAssumption
<1>14. StateIsTip'
  <2>1. chain'[Len(chain')] = b
    BY <1>8
  <2>2. IsRoot(b.stateRoot, st)'
    BY <1>3 DEF IsRoot, Rooted
  <2>3. IsState(st)'
    BY <1>3 DEF IsState
  <2>4. st'.slot < height' /\ st'.header.slot = st'.slot /\ st'.header.stateRoot = ZeroRoot
    BY <1>3, <1>6, <1>10 DEF Tip
  <2>5. st'.header = [Header(b) EXCEPT !.stateRoot = ZeroRoot] /\ st'.payload = b.body.payload.hash
    BY <1>3, <1>6, HeaderForm
  <2> QED BY <2>1, <2>2, <2>3, <2>4, <2>5 DEF StateIsTip
<1>15. ChainAscends'
  <2>1. \A i, j \in 1 .. L + 1 : i < j => chain'[i].slot < chain'[j].slot
    <3>1. ASSUME NEW i \in 1 .. L + 1, NEW j \in 1 .. L + 1, i < j
          PROVE  chain'[i].slot < chain'[j].slot
      <4>1. i \in 1 .. L
        BY <1>8, <3>1
      <4>2. CASE j \in 1 .. L
        BY <1>8, <1>9, <3>1, <4>1, <4>2
      <4>3. CASE j = L + 1
        <5>1. chain'[i].slot = chain[i].slot /\ chain'[j].slot = b.slot
          BY <1>8, <4>1, <4>3
        <5>2. chain[i].slot \in Nat /\ chain[i].slot <= st.slot
          BY <1>9, <4>1
        <5> QED BY <1>3, <1>10, <5>1, <5>2
      <4> QED BY <1>11, <4>2, <4>3
    <3> QED BY <3>1
  <2>2. ASSUME NEW i \in 1 .. L + 1
        PROVE  /\ IsHeader(Header(chain'[i])) /\ chain'[i].slot <= st'.slot
               /\ chain'[i].body.reveal \in Reveals
    <3>1. CASE i \in 1 .. L
      <4>1. chain'[i] = chain[i] /\ chain[i].slot \in Nat /\ chain[i].slot <= st.slot
        BY <1>8, <1>9, <3>1
      <4>2. chain[i].slot <= st'.slot
        BY <1>3, <1>6, <1>10, <4>1
      <4> QED BY <1>9, <3>1, <4>1, <4>2
    <3>2. CASE i = L + 1
      BY <1>3, <1>6, <1>8, <3>2
    <3> QED BY <1>11, <3>1, <3>2
  <2> QED BY <1>8, <2>1, <2>2 DEF ChainAscends
<1>16. ChainLinked'
  <2>1. ASSUME NEW i \in 2 .. L + 1
        PROVE  /\ Rooted(chain'[i].parent, Header(chain'[i - 1]), hashes')
               /\ chain'[i].body.payload.parent = chain'[i - 1].body.payload.hash
               /\ chain'[i].slot > chain'[i - 1].slot
    <3>1. CASE i \in 2 .. L
      <4>1. chain'[i] = chain[i] /\ chain'[i - 1] = chain[i - 1]
        BY <1>8, <3>1
      <4> QED BY <1>7, <3>1, <4>1 DEF TransitionInv, ChainLinked
    <3>2. CASE i = L + 1
      <4>1. L \in 1 .. L /\ chain # <<>> /\ i - 1 = L
        BY <1>8, <1>12, <3>2
      <4>2. chain'[i] = b /\ chain'[i - 1] = chain[L]
        BY <1>8, <3>2, <4>1
      <4>3. Sealed(st, hashes) = Header(chain[L]) /\ chain[L].slot = st.slot
        BY <4>1, SealedIsTip
      <4>4. st.payload = chain[L].body.payload.hash
        BY <4>1 DEF TransitionInv, StateIsTip
      <4>5. b.body.payload.parent = st.payload
        BY <1>3 DEF Fits
      <4> QED BY <1>3, <4>2, <4>3, <4>4, <4>5
    <3>3. i \in 2 .. L \/ i = L + 1
      BY <1>8
    <3> QED BY <3>1, <3>2, <3>3
  <2> QED BY <1>7, <1>8, <2>1 DEF ChainLinked
<1>17. BlockRoots'
  <2>1. ASSUME NEW k \in 0 .. st'.slot - 1, k + N >= st'.slot, NEW i \in LastBlockAt(k)'
        PROVE  Rooted(st'.blockRoots[k % N], Header(chain'[i]), hashes')
    <3>1. k \in Nat /\ k < b.slot /\ k + N >= b.slot
      BY <1>3, <1>6, <2>1
    <3>2. /\ i \in 1 .. L + 1 /\ chain'[i].slot <= k
          /\ \A j \in i + 1 .. L + 1 : chain'[j].slot > k
      BY <1>8, <2>1 DEF LastBlockAt
    <3>3. i \in 1 .. L /\ chain'[i] = chain[i]
      BY <1>3, <1>8, <1>11, <3>1, <3>2
    <3>4. chain[i].slot <= k /\ \A j \in i + 1 .. L : chain[j].slot > k
      BY <1>8, <3>2, <3>3
    <3>5. i \in LastBlockAt(k)
      BY <3>3, <3>4 DEF LastBlockAt
    <3>6. st'.blockRoots[k % N] = w.st.blockRoots[k % N]
      BY <1>3, <1>6
    <3>7. CASE k < st.slot
      <4>1. w.st.blockRoots[k % N] = st.blockRoots[k % N]
        BY <1>5, <3>1, <3>7 DEF RingsReached
      <4>2. k \in 0 .. st.slot - 1 /\ k + N >= st.slot
        BY <1>3, <1>10, <1>13, <3>1, <3>7
      <4>3. IsRoot(st.blockRoots[k % N], Header(chain[i]))
        BY <3>5, <4>2 DEF TransitionInv, BlockRoots
      <4> QED BY <1>7, <3>3, <3>6, <4>1, <4>3
    <3>8. CASE k >= st.slot
      <4>1. w.st.blockRoots[k % N] = b.parent
        BY <1>3, <1>5, <3>1, <3>8 DEF RingsReached
      <4>2. i = L
        <5>1. ASSUME i # L PROVE FALSE
          <6>1. L \in i + 1 .. L /\ L \in 1 .. L
            BY <1>8, <3>3, <5>1
          <6>2. chain[L].slot > k /\ chain[L].slot <= st.slot /\ chain[L].slot \in Nat
            BY <1>9, <3>4, <6>1
          <6> QED BY <1>10, <3>1, <3>8, <6>2
        <5> QED BY <5>1
      <4>3. Sealed(st, hashes) = Header(chain[L])
        BY <1>8, <1>12, <3>3, <4>2, SealedIsTip
      <4> QED BY <1>3, <3>3, <3>6, <4>1, <4>2, <4>3
    <3> QED BY <1>10, <3>1, <3>7, <3>8
  <2> QED BY <1>7, <2>1 DEF BlockRoots
<1>18. StateRoots'
  <2>1. ASSUME NEW i \in 1 .. L + 1, chain'[i].slot < st'.slot, chain'[i].slot + N >= st'.slot
        PROVE  st'.stateRoots[chain'[i].slot % N] = chain'[i].stateRoot
    <3>1. i \in 1 .. L /\ chain'[i] = chain[i]
      BY <1>3, <1>6, <1>8, <1>11, <2>1
    <3> DEFINE k == chain[i].slot
    <3>2. k \in Nat /\ k <= st.slot /\ k < b.slot /\ k + N >= b.slot
      BY <1>3, <1>6, <1>9, <2>1, <3>1
    <3>3. st'.stateRoots[k % N] = w.st.stateRoots[k % N]
      BY <1>3, <1>6
    <3>4. CASE k < st.slot
      <4>1. w.st.stateRoots[k % N] = st.stateRoots[k % N]
        BY <1>5, <3>2, <3>4 DEF RingsReached
      <4>2. k + N >= st.slot
        BY <1>3, <1>10, <1>13, <3>2
      <4>3. st.stateRoots[k % N] = chain[i].stateRoot
        BY <3>1, <3>4, <4>2 DEF TransitionInv, StateRoots
      <4> QED BY <3>1, <3>3, <4>1, <4>3
    <3>5. CASE k = st.slot
      <4>1. n <= N
        BY <1>3, <1>5, <1>10, <1>13, <3>2, <3>5
      <4>2. w.st.stateRoots[k % N] = RootOf(st, hashes)
        BY <1>5, <3>5, <4>1 DEF RingsReached
      <4>3. L \in 1 .. L /\ chain # <<>>
        BY <1>8, <1>12, <3>1
      <4>4. RootOf(st, hashes) = chain[L].stateRoot /\ chain[L].slot = st.slot
        BY <4>3, SealedIsTip
      <4>5. i = L
        <5>1. ASSUME i # L PROVE FALSE
          <6>1. i < L
            BY <1>8, <3>1, <5>1
          <6>2. chain[i].slot < chain[L].slot
            BY <1>9, <3>1, <4>3, <6>1
          <6> QED BY <1>10, <3>5, <4>4, <6>2
        <5> QED BY <5>1
      <4> QED BY <3>1, <3>3, <4>2, <4>4, <4>5
    <3> HIDE DEF k
    <3> QED BY <1>10, <3>2, <3>4, <3>5
  <2> QED BY <1>8, <2>1 DEF StateRoots
<1>19. Mixes'
  <2> DEFINE old == SlotToEpoch(st.slot)
             now == SlotToEpoch(b.slot)
             r == b.body.reveal
  <2>1. old \in Nat /\ now \in Nat /\ old <= now
    BY <1>3, <1>10, EpochType, EpochMonotone
  <2>2. \A i \in 1 .. L : SlotToEpoch(chain[i].slot) \in Nat /\ SlotToEpoch(chain[i].slot) <= old
    BY <1>9, <1>10, EpochType, EpochMonotone
  <2>3. ASSUME NEW e \in Nat, e <= now, e + M > now PROVE w.st.mixes[e % M] = MixOf(chain, e)
    <3> DEFINE m == IF e <= old THEN e ELSE old
    <3>1. w.st.mixes[e % M] = st.mixes[m % M]
      BY <1>3, <1>5, <2>3 DEF MixesReached
    <3>2. m \in 0 .. old /\ m + M > old /\ m <= e /\ m \in Nat
      BY <1>13, <2>1, <2>3
    <3> HIDE DEF m
    <3>3. st.mixes[m % M] = MixOf(chain, m)
      BY <3>2, MixAfterForm DEF TransitionInv, Mixes
    <3>4. MixOf(chain, m) = MixOf(chain, e)
      <4>1. CASE e <= old
        BY <4>1 DEF m
      <4>2. CASE ~(e <= old)
        <5>1. m = old /\ old <= e
          BY <2>1, <4>2 DEF m
        <5> QED BY <2>1, <2>2, <5>1, MixSettles
      <4> QED BY <4>1, <4>2
    <3> QED BY <3>1, <3>3, <3>4
  <2>4. w.st.mixes \in [0 .. M - 1 -> SUBSET Reveals]
    BY <1>3 DEF IsState
  <2>5. st'.mixes = [w.st.mixes EXCEPT ![now % M] = Xor(w.st.mixes[now % M], {r})]
    BY <1>3, <1>6 DEF PostMixes
  <2>6. now % M \in 0 .. M - 1
    BY <1>13, <2>1, ModRange
  <2>7. \A e : MixOf(chain', e) = IF now <= e THEN Xor(MixOf(chain, e), {r}) ELSE MixOf(chain, e)
    BY <1>1, <1>3, <1>8, MixAppend
  <2> HIDE DEF now, old, r
  <2>8. ASSUME NEW e \in Nat, e <= now, e + M > now PROVE st'.mixes[e % M] = MixOf(chain', e)
    <3>1. w.st.mixes[e % M] = MixOf(chain, e)
      BY <2>3, <2>8
    <3>2. CASE e = now
      <4>1. st'.mixes[e % M] = Xor(MixOf(chain, e), {r})
        BY <2>4, <2>5, <2>6, <3>1, <3>2
      <4> QED BY <2>1, <2>7, <3>2, <4>1
    <3>3. CASE e # now
      <4>1. e < now /\ now < e + M
        BY <2>1, <2>8, <3>3
      <4>2. e % M # now % M /\ e % M \in 0 .. M - 1
        BY <1>13, <2>1, <4>1, RemaindersDiffer, ModRange
      <4>3. st'.mixes[e % M] = w.st.mixes[e % M]
        BY <2>4, <2>5, <4>2
      <4> QED BY <2>1, <2>7, <3>1, <4>1, <4>3
    <3> QED BY <3>2, <3>3
  <2>9. SlotToEpoch(st'.slot) = now
    BY <1>3, <1>6 DEF now
  <2>10. ASSUME NEW e \in 0 .. SlotToEpoch(st'.slot), e + M > SlotToEpoch(st'.slot)
         PROVE  st'.mixes[e % M] = MixAfter(e)'
    BY <2>1, <2>8, <2>9, <2>10, MixAfterForm
  <2> QED BY <2>10 DEF Mixes
<1>20. TypeOK'
  <2>1. RootsBelow(st, Len(hashes))
    <3>1. /\ st.blockRoots \in [0 .. N - 1 -> 0 .. Len(hashes)]
          /\ st.stateRoots \in [0 .. N - 1 -> 0 .. Len(hashes)]
      BY InvFacts DEF TypeOK, Roots
    <3>2. ASSUME NEW i \in 0 .. N - 1
          PROVE  st.blockRoots[i] <= Len(hashes) /\ st.stateRoots[i] <= Len(hashes)
      <4>1. st.blockRoots[i] \in 0 .. Len(hashes) /\ st.stateRoots[i] \in 0 .. Len(hashes)
        BY <3>1
      <4> QED BY <4>1, <1>4, TableLen
    <3> QED BY <3>2 DEF RootsBelow
  <2>2. RootsBelow(w.st, Len(w.tab))
    BY <1>5, <2>1 DEF RingsReached
  <2>3. Len(w.tab) \in Nat /\ Len(hashes') \in Nat /\ Len(w.tab) <= Len(hashes')
    BY <1>3, <1>5, TableLen DEF Reached, Within
  <2>4. /\ st'.blockRoots \in [0 .. N - 1 -> Roots'] /\ st'.stateRoots \in [0 .. N - 1 -> Roots']
    <3>1. /\ w.st.blockRoots \in [0 .. N - 1 -> Nat] /\ w.st.stateRoots \in [0 .. N - 1 -> Nat]
      BY <1>3 DEF IsState
    <3>2. ASSUME NEW i \in 0 .. N - 1
          PROVE  w.st.blockRoots[i] \in 0 .. Len(hashes') /\ w.st.stateRoots[i] \in 0 .. Len(hashes')
      <4>1. /\ w.st.blockRoots[i] \in Nat /\ w.st.blockRoots[i] <= Len(w.tab)
            /\ w.st.stateRoots[i] \in Nat /\ w.st.stateRoots[i] <= Len(w.tab)
        BY <2>2, <3>1 DEF RootsBelow
      <4> QED BY <2>3, <4>1
    <3>3. /\ w.st.blockRoots \in [0 .. N - 1 -> 0 .. Len(hashes')]
          /\ w.st.stateRoots \in [0 .. N - 1 -> 0 .. Len(hashes')]
      BY <3>1, <3>2
    <3> QED BY <1>3, <1>4, <1>6, <3>3 DEF Roots
  <2>5. \A i \in DOMAIN st'.mixes : st'.mixes[i] \subseteq Reveals
    BY <1>3 DEF IsState
  <2>6. st'.slot \in 0 .. MaxSlot
    BY <1>3, <1>6, BoundsAssumption
  <2>7. height' \in 1 .. MaxSlot + 1
    BY <1>3, <1>10, BoundsAssumption
  <2>8. round' \in 0 .. MaxRounds
    BY <1>10, InvFacts DEF TypeOK
  <2> QED BY <1>10, <2>4, <2>5, <2>6, <2>7, <2>8, AtMostOne DEF TypeOK
<1>21. ProposalsPass'
  BY <1>10 DEF ProposalsPass
<1>22. PayloadsMatch'
  BY <1>4, <1>10, InvFacts, PayloadsKept DEF PayloadsMatch
<1> QED BY <1>3, <1>14, <1>15, <1>16, <1>17, <1>18, <1>19, <1>20, <1>21, <1>22 DEF TransitionInv

-----------------------------------------------------------------------------
(* The theorems.                                                           *)

\* Genesis satisfies the invariant.
LEMMA InitInv ==
    ASSUME Init PROVE TransitionInv
<1>1. /\ height = 1 /\ round = 0 /\ st = GenesisState /\ proposal = {} /\ verdict = "none"
      /\ post = {} /\ payloads = {} /\ chain = <<>> /\ hashes = <<>>
  BY DEF Init
<1>2. Len(chain) = 0 /\ Len(hashes) = 0 /\ 1 .. 0 = {}
  BY <1>1
<1>3. IsSequence(<<>>)
  BY DEF IsSequence
<1>4. IsTable(hashes)
  BY <1>1, <1>2, <1>3 DEF IsTable
<1>5. /\ st.slot = 0 /\ st.header.slot = 0 /\ st.header.stateRoot = ZeroRoot
      /\ st.blockRoots = [i \in 0 .. SlotsPerHistoricalRoot - 1 |-> 0]
      /\ st.stateRoots = [i \in 0 .. SlotsPerHistoricalRoot - 1 |-> 0]
      /\ st.mixes = [i \in 0 .. EpochsPerHistoricalVector - 1 |-> {}]
  BY <1>1 DEF GenesisState, ZeroRoot
<1>6. IsState(st)
  <2>1. IsHeader(st.header)
    BY <1>1 DEF GenesisState, IsHeader, ZeroRoot
  <2>2. st = [slot |-> st.slot, header |-> st.header, blockRoots |-> st.blockRoots,
              stateRoots |-> st.stateRoots, mixes |-> st.mixes, slashings |-> st.slashings,
              payload |-> st.payload]
    BY <1>1 DEF GenesisState
  <2>3. st.mixes \in [0 .. EpochsPerHistoricalVector - 1 -> SUBSET Reveals]
    BY <1>5
  <2>4. /\ st.blockRoots \in [0 .. SlotsPerHistoricalRoot - 1 -> Nat]
        /\ st.stateRoots \in [0 .. SlotsPerHistoricalRoot - 1 -> Nat]
    BY <1>5
  <2> QED BY <1>5, <2>1, <2>2, <2>3, <2>4 DEF IsState
<1>7. TypeOK
  <2>1. /\ st.blockRoots \in [0 .. SlotsPerHistoricalRoot - 1 -> Roots]
        /\ st.stateRoots \in [0 .. SlotsPerHistoricalRoot - 1 -> Roots]
    BY <1>2, <1>5 DEF Roots
  <2>2. \A i \in DOMAIN st.mixes : st.mixes[i] \subseteq Reveals
    BY <1>5
  <2> QED BY <1>1, <1>5, <2>1, <2>2, AtMostOne, BoundsAssumption DEF TypeOK
<1>8. StateIsTip
  BY <1>1, <1>5, <1>6 DEF StateIsTip
<1>9. ChainAscends /\ ChainLinked /\ StateRoots /\ BlockRoots
  BY <1>1, <1>2, <1>3, <1>5 DEF ChainAscends, ChainLinked, StateRoots, BlockRoots
<1>10. Mixes
  <2>1. SlotToEpoch(0) = 0
    BY BoundsAssumption DEF SlotToEpoch
  <2>2. MixAfter(0) = {}
    <3>1. ASSUME NEW r PROVE Cardinality(MixedIn(chain, 0, r)) = 0
      <4>1. MixedIn(chain, 0, r) = {}
        BY <1>2 DEF MixedIn
      <4> QED BY <4>1, FS_EmptySet
    <3>2. MixOf(chain, 0) = {}
      BY <3>1 DEF MixOf
    <3> QED BY <3>2, MixAfterForm
  <2>3. 0 % EpochsPerHistoricalVector \in 0 .. EpochsPerHistoricalVector - 1
    BY BoundsAssumption, ModRange
  <2>4. st.mixes[0 % EpochsPerHistoricalVector] = {}
    BY <1>5, <2>3
  <2>5. 0 .. SlotToEpoch(st.slot) = {0}
    BY <1>5, <2>1
  <2> QED BY <2>2, <2>4, <2>5 DEF Mixes
<1>11. ProposalsPass /\ PayloadsMatch
  BY <1>1 DEF ProposalsPass, PayloadsMatch
<1> QED BY <1>4, <1>7, <1>8, <1>9, <1>10, <1>11 DEF TransitionInv

\* The inductive invariant holds in every reachable state: the committed state is the
\* tip of the chain, its rings tell the past of the chain, what was proposed honestly
\* or accepted after all checks passes, and payloads fit the block they were begun on.
\* The execution client may answer ACCEPTED at any time (receive.go:170-176); a block
\* accepted on that, and a payload begun after it, are only as good as FinalizeBlock
\* finds them
\* (state_processor.go:160-275, blockchain/process.go:62-130, blockchain/payload.go:177-265).
THEOREM TransitionSafe == Spec => []TransitionInv
<1>1. Init => TransitionInv
  BY InitInv
<1>2. TransitionInv /\ [Next]_vars => TransitionInv'
  <2> SUFFICES ASSUME TransitionInv, [Next]_vars PROVE TransitionInv'
    OBVIOUS
  <2>1. ASSUME NEW v \in Validators, NEW fault \in Faults, RequestBlockForProposal(v, fault)
        PROVE  TransitionInv'
    BY <2>1, RequestKeeps
  <2>2. ASSUME NEW engine \in Answers, VerifyIncomingBlock(engine)
        PROVE  TransitionInv'
    BY <2>2, VerifyKeeps
  <2>3. ASSUME NEW engine \in Answers, FinalizeBlock(engine)
        PROVE  TransitionInv'
    BY <2>3, FinalizeKeeps
  <2>4. CASE handleOptimisticPayloadBuild
    BY <2>4, OptimisticBuildKeeps
  <2>5. CASE handleRebuildPayloadForRejectedBlock
    BY <2>5, RebuildKeeps
  <2>6. CASE NextRound
    BY <2>6, NextRoundKeeps
  <2>7. CASE SkipHeight
    BY <2>7, SkipHeightKeeps
  <2>8. CASE UNCHANGED vars
    <3>1. UNCHANGED <<height, round, st, proposal, verdict, post, payloads, chain, hashes>>
      BY <2>8 DEF vars
    <3>2. Grows
      BY <3>1, InvFacts, WithinItself DEF Grows
    <3>3. TypeOK' /\ Past'
      BY <3>1, <3>2, InvFacts, TypeKept, PastKept DEF TypeOK
    <3>4. ProposalsPass'
      BY <3>1, <3>2, ProposalsKept
    <3>5. PayloadsMatch'
      BY <3>1, <3>2, InvFacts, PayloadsKept DEF PayloadsMatch
    <3> QED BY <3>2, <3>3, <3>4, <3>5 DEF TransitionInv, Past, Grows
  <2> QED BY <2>1, <2>2, <2>3, <2>4, <2>5, <2>6, <2>7, <2>8 DEF Next
<1> QED BY <1>1, <1>2, PTL DEF Spec

\* Every verifier whose engine says VALID accepts a block that is built by the rules, on
\* a payload that was not begun after the status ACCEPTED of the block before
\* (validator/propose.go:38-174 against blockchain/receive.go:69-141), for all ring sizes, any number of
\* slots per epoch, heights without a block and failed rounds.
THEOREM HonestProposals == Spec => []HonestBlockAccepted
<1>1. TransitionInv => HonestBlockAccepted
  BY DEF TransitionInv, ProposalsPass, Passes, HonestBlockAccepted
<1> QED BY <1>1, TransitionSafe, PTL

\* A block that ProcessProposal accepted after all its checks, not on the status
\* ACCEPTED, does not fail in FinalizeBlock, whether the execution client answers or not.
THEOREM NoFailedFinalize == Spec => []AcceptedBlockFinalizes
<1>1. TransitionInv => AcceptedBlockFinalizes
  BY DEF TransitionInv, ProposalsPass, Passes, AcceptedBlockFinalizes
<1> QED BY <1>1, TransitionSafe, PTL

\* Block roots, state roots and randao mixes in the state are those of the finalized
\* chain, however often the rings have wrapped (processSlot, processRandaoMixesReset).
THEOREM RingsTellThePast == Spec => []RingsFollowChain
<1>1. TransitionInv => RingsFollowChain
  BY DEF TransitionInv, RingsFollowChain
<1> QED BY <1>1, TransitionSafe, PTL

\* Every finalized block names the block before it as parent and extends its payload
\* (processBlockHeader, validateExecutionPayload).
THEOREM BlocksLinked == Spec => []ChainLinked
<1>1. TransitionInv => ChainLinked
  BY DEF TransitionInv
<1> QED BY <1>1, TransitionSafe, PTL
=============================================================================
