---------------------- MODULE AvailabilityStoreProofs ----------------------
(***************************************************************************)
(* For every window, every set of commitments and every bound: the lower   *)
(* bound of the RangeDB is right, and the blobs of the window are on disk. *)
(***************************************************************************)
EXTENDS AvailabilityStore, TLAPS

\* The window is a number of slots.
LEMMA WindowIsNat == Window \in Nat
BY AvailabilityAssumption, SMT DEF Window

\* The sidecars of a block are within the period of the block itself.
LEMMA OwnPeriod == \A s \in Nat : WithinDAPeriod(s, s)
BY AvailabilityAssumption, SMT DEF WithinDAPeriod, SlotToEpoch

LEMMA InitAvailability == Init => AvailabilityInv
<1> SUFFICES ASSUME Init PROVE AvailabilityInv
  OBVIOUS
<1> USE DEF Init, RangeInit
<1>1. blobs \in Seq(SUBSET Keys) /\ Len(blobs) = 0
  OBVIOUS
<1>2. TypeOK
  <2>1. writer \in [Keys -> WriterStates]
    BY DEF NoWriters, WriterStates
  <2>2. /\ 0 \in 0..MaxRestarts
        /\ 0 \in 0..MaxPruneFailures
        /\ 0 \in 0..Len(blobs)
        /\ 0 \in 0..0
        /\ 0 \in Nat
    BY <1>1, AvailabilityAssumption
  <2> QED
    BY <1>1, <2>1, <2>2, Zenon DEF TypeOK
<1>3. NoIndexBelowFirst /\ PruneIsBehind /\ WritersAreRight /\ firstNonNilIndex <= height
  BY DEF NoIndexBelowFirst, PruneIsBehind, WritersAreRight, NoWriters
<1>4. CommittedWindowAvailable
  BY DEF CommittedWindowAvailable
<1> QED
  BY <1>2, <1>3, <1>4 DEF AvailabilityInv

LEMMA BeginBlockKeeps == AvailabilityInv /\ BeginBlock => AvailabilityInv'
<1> SUFFICES ASSUME AvailabilityInv, BeginBlock PROVE AvailabilityInv'
  OBVIOUS
<1> USE DEF AvailabilityInv, TypeOK
<1>1. /\ blobs' \in Seq(SUBSET Keys)
      /\ Len(blobs) <= Len(blobs')
      /\ height + 1 <= Len(blobs')
      /\ \A s \in 1..height : blobs'[s] = blobs[s]
  <2>1. CASE height < Len(blobs) /\ blobs' = blobs
    BY <2>1
  <2>2. CASE /\ height = Len(blobs)
             /\ \E body \in SUBSET Keys : blobs' = Append(blobs, body)
    <3>1. PICK body \in SUBSET Keys : blobs' = Append(blobs, body)
      BY <2>2
    <3> QED
      BY <2>2, <3>1
  <2> QED
    BY <2>1, <2>2 DEF BeginBlock
<1>2. UNCHANGED <<files, whole, firstNonNilIndex, prune, height, committed, feedq,
                  restarts, pruneFailures>>
  BY DEF BeginBlock, rangeVars
<1>3. /\ processing' = TRUE
      /\ writer' \in [Keys -> {"create", "none"}]
      /\ \A k \in blobs'[height + 1] : writer'[k] = "create"
  <2>1. height + 1 \in Nat /\ blobs'[height + 1] \subseteq Keys
    BY <1>1
  <2>2. WithinDAPeriod(height + 1, height + 1)
    BY <2>1, OwnPeriod
  <2> QED
    BY <2>1, <2>2 DEF BeginBlock
<1>4. TypeOK'
  BY <1>1, <1>2, <1>3 DEF WriterStates
<1>5. NoIndexBelowFirst' /\ PruneIsBehind' /\ firstNonNilIndex' <= height'
  BY <1>2, WindowIsNat DEF NoIndexBelowFirst, PruneIsBehind
<1>6. WritersAreRight'
  <2>1. committed = height /\ height \in Nat
    BY DEF BeginBlock
  <2> QED
    <3> HIDE DEF AvailabilityInv, TypeOK
    <3>1. \A k \in Keys : writer'[k] # "write" /\ writer'[k] # "stored"
      BY <1>3
    <3>2. \A k \in blobs'[height' + 1] : writer'[k] # "none"
      BY <1>2, <1>3
    <3> QED
      BY <2>1, <3>1, <3>2, <1>1, <1>2, <1>3 DEF WritersAreRight
<1>7. CommittedWindowAvailable'
  BY <1>1, <1>2 DEF CommittedWindowAvailable
<1> QED
  BY <1>4, <1>5, <1>6, <1>7

LEMMA CreateSidecarKeeps ==
    ASSUME NEW k \in Keys, AvailabilityInv, CreateSidecar(k)
    PROVE  AvailabilityInv'
<1> USE DEF AvailabilityInv, TypeOK, CreateSidecar, SetCreate
<1>1. processing /\ height + 1 \in Nat
  BY DEF WritersAreRight
<1>2. firstNonNilIndex' = firstNonNilIndex
  OBVIOUS
<1>3. TypeOK'
  BY <1>1, <1>2 DEF WriterStates
<1>4. NoIndexBelowFirst' /\ PruneIsBehind' /\ firstNonNilIndex' <= height'
  BY <1>1, <1>2, WindowIsNat DEF NoIndexBelowFirst, PruneIsBehind
<1>5. WritersAreRight'
  BY <1>1 DEF WritersAreRight
<1>6. CommittedWindowAvailable'
  BY <1>1 DEF CommittedWindowAvailable
<1> QED
  BY <1>2, <1>3, <1>4, <1>5, <1>6

LEMMA WriteSidecarKeeps ==
    ASSUME NEW k \in Keys, AvailabilityInv, WriteSidecar(k)
    PROVE  AvailabilityInv'
<1> USE DEF AvailabilityInv, TypeOK, WriteSidecar, SetWrite
<1>1. TypeOK'
  BY DEF WriterStates
<1>2. NoIndexBelowFirst' /\ PruneIsBehind' /\ firstNonNilIndex' <= height'
  BY WindowIsNat DEF NoIndexBelowFirst, PruneIsBehind
<1>3. WritersAreRight'
  BY DEF WritersAreRight
<1>4. CommittedWindowAvailable'
  BY DEF CommittedWindowAvailable
<1> QED
  BY <1>1, <1>2, <1>3, <1>4

LEMMA SidecarFailsKeeps ==
    ASSUME NEW k \in Keys, AvailabilityInv, SidecarFails(k)
    PROVE  AvailabilityInv'
<1> USE DEF AvailabilityInv, TypeOK, SidecarFails, rangeVars
<1>1. TypeOK'
  BY DEF WriterStates
<1>2. NoIndexBelowFirst' /\ PruneIsBehind' /\ firstNonNilIndex' <= height'
  BY WindowIsNat DEF NoIndexBelowFirst, PruneIsBehind
<1>3. WritersAreRight'
  BY DEF WritersAreRight
<1>4. CommittedWindowAvailable'
  BY DEF CommittedWindowAvailable
<1> QED
  BY <1>1, <1>2, <1>3, <1>4

\* The accepted block enters the window: each of its goroutines has stored its
\* sidecar, because none failed and none is still at work.
LEMMA AcceptBlockKeeps == AvailabilityInv /\ AcceptBlock => AvailabilityInv'
<1> SUFFICES ASSUME AvailabilityInv, AcceptBlock PROVE AvailabilityInv'
  OBVIOUS
<1> USE DEF AvailabilityInv, TypeOK
<1>1. /\ processing
      /\ height' = height + 1
      /\ height = committed
      /\ height < Len(blobs)
      /\ processing' = FALSE
      /\ writer' = NoWriters
      /\ feedq' = feedq \cup {height + 1}
      /\ UNCHANGED <<files, whole, firstNonNilIndex, prune, blobs, committed, restarts,
                     pruneFailures>>
  BY DEF AcceptBlock, WritersDone, WritersAreRight, rangeVars
<1>2. \A k \in blobs[height + 1] : <<height + 1, k>> \in whole
  <2> SUFFICES ASSUME NEW k \in blobs[height + 1] PROVE <<height + 1, k>> \in whole
    OBVIOUS
  <2>1. k \in Keys
    BY <1>1
  <2>2. writer[k] = "stored"
    BY <1>1, <2>1 DEF AcceptBlock, WritersDone, Persisted, WritersAreRight, WriterStates
  <2> QED
    BY <2>1, <2>2 DEF WritersAreRight
<1>3. TypeOK'
  <2>1. feedq' \subseteq 1..height' /\ height' \in 0..Len(blobs') /\ committed' \in 0..height'
    BY <1>1
  <2> QED
    BY <1>1, <2>1 DEF NoWriters, WriterStates
<1>4. NoIndexBelowFirst' /\ PruneIsBehind' /\ firstNonNilIndex' <= height'
  BY <1>1, WindowIsNat DEF NoIndexBelowFirst, PruneIsBehind
<1>5. WritersAreRight'
  BY <1>1 DEF WritersAreRight, NoWriters
<1>6. CommittedWindowAvailable'
  BY <1>1, <1>2 DEF CommittedWindowAvailable
<1> QED
  BY <1>3, <1>4, <1>5, <1>6

LEMMA CommitKeeps == AvailabilityInv /\ Commit => AvailabilityInv'
<1> SUFFICES ASSUME AvailabilityInv, Commit PROVE AvailabilityInv'
  OBVIOUS
<1> USE DEF AvailabilityInv, TypeOK, Commit, rangeVars
<1>1. TypeOK'
  BY DEF WriterStates
<1>2. NoIndexBelowFirst' /\ PruneIsBehind' /\ firstNonNilIndex' <= height'
  BY WindowIsNat DEF NoIndexBelowFirst, PruneIsBehind
<1>3. WritersAreRight'
  BY DEF WritersAreRight
<1>4. CommittedWindowAvailable'
  BY WindowIsNat DEF CommittedWindowAvailable
<1> QED
  BY <1>1, <1>2, <1>3, <1>4

LEMMA RestartKeeps == AvailabilityInv /\ Restart => AvailabilityInv'
<1> SUFFICES ASSUME AvailabilityInv, Restart PROVE AvailabilityInv'
  OBVIOUS
<1> USE DEF AvailabilityInv, TypeOK, Restart, RangeRestart
<1>1. TypeOK'
  <2>1. height' \in 0..Len(blobs') /\ committed' \in 0..height' /\ feedq' \subseteq 1..height'
    OBVIOUS
  <2>2. restarts' \in 0..MaxRestarts /\ writer' \in [Keys -> WriterStates]
    BY AvailabilityAssumption DEF NoWriters, WriterStates
  <2> QED
    BY <2>1, <2>2
<1>2. NoIndexBelowFirst' /\ PruneIsBehind' /\ firstNonNilIndex' <= height'
  BY DEF NoIndexBelowFirst, PruneIsBehind
<1>3. WritersAreRight'
  BY DEF WritersAreRight, NoWriters
<1>4. CommittedWindowAvailable'
  BY WindowIsNat DEF CommittedWindowAvailable
<1> QED
  BY <1>1, <1>2, <1>3, <1>4

LEMMA PrunerReceiveKeeps ==
    ASSUME NEW h \in feedq, AvailabilityInv, PrunerReceive(h)
    PROVE  AvailabilityInv'
<1> USE DEF AvailabilityInv, TypeOK, PrunerReceive, PruneBegin
<1>1. h \in 1..height
  OBVIOUS
<1>2. /\ PruneRangeFn(h).start = 0
      /\ PruneRangeFn(h).end \in Nat
      /\ PruneRangeFn(h).end = 0 \/ PruneRangeFn(h).end + Window <= height
  BY <1>1, WindowIsNat DEF PruneRangeFn
<1>3. prune' = [from |-> firstNonNilIndex, to |-> PruneRangeFn(h).end]
  BY <1>2
<1>4. TypeOK'
  BY <1>2, <1>3
<1>5. PruneIsBehind'
  BY <1>2, <1>3 DEF PruneIsBehind, NoIndexBelowFirst
<1>6. NoIndexBelowFirst' /\ WritersAreRight' /\ firstNonNilIndex' <= height'
  BY DEF NoIndexBelowFirst, WritersAreRight
<1>7. CommittedWindowAvailable'
  BY DEF CommittedWindowAvailable
<1> QED
  BY <1>4, <1>5, <1>6, <1>7

\* A running Prune is a record of two numbers.
LEMMA PruneType ==
    ASSUME AvailabilityInv, prune # NoPrune
    PROVE  prune.from \in Nat /\ prune.to \in Nat
BY DEF AvailabilityInv, TypeOK

\* Removing a directory touches no slot of the window and no slot being written.
LEMMA PrunerStepKeeps == AvailabilityInv /\ PrunerStep => AvailabilityInv'
<1> SUFFICES ASSUME AvailabilityInv, PrunerStep PROVE AvailabilityInv'
  OBVIOUS
<1> USE DEF AvailabilityInv, TypeOK, PrunerStep, PruneStep, nodeVars
<1>1. /\ prune.from \in Nat
      /\ prune.to \in Nat
      /\ prune.from < prune.to
      /\ prune.to + Window <= height
      /\ prune' = [from |-> prune.from + 1, to |-> prune.to]
  BY PruneType, WindowIsNat DEF PruneIsBehind
<1>2. TypeOK'
  <2>1. prune' \in [from : Nat, to : Nat]
    <3> HIDE DEF AvailabilityInv, TypeOK, PrunerStep, PruneStep, nodeVars
    <3> QED
      BY <1>1
  <2>2. files' \subseteq Nat \X Keys /\ whole' \subseteq files'
    OBVIOUS
  <2> QED
    BY <2>1, <2>2
<1>3. NoIndexBelowFirst' /\ firstNonNilIndex' <= height'
  BY DEF NoIndexBelowFirst
<1>4. PruneIsBehind'
  BY <1>1, WindowIsNat DEF PruneIsBehind
<1>5. WritersAreRight'
  BY <1>1, WindowIsNat DEF WritersAreRight
<1>6. CommittedWindowAvailable'
  BY <1>1, WindowIsNat DEF CommittedWindowAvailable, WritersAreRight
<1> QED
  BY <1>2, <1>3, <1>4, <1>5, <1>6

LEMMA PrunerFailsKeeps == AvailabilityInv /\ PrunerFails => AvailabilityInv'
<1> SUFFICES ASSUME AvailabilityInv, PrunerFails PROVE AvailabilityInv'
  OBVIOUS
<1> USE DEF AvailabilityInv, TypeOK
<1>1. /\ prune.from \in Nat
      /\ prune.to \in Nat
      /\ prune.from < prune.to
      /\ prune.to + Window <= height
  BY PruneType, WindowIsNat DEF PruneIsBehind, PrunerFails, PruneFail
<1>2. PICK gone \in SUBSET {f \in files : f[1] = prune.from} :
         files' = files \ gone /\ whole' = whole \ gone
  BY DEF PrunerFails, PruneFail
<1>3. /\ firstNonNilIndex' = 0
      /\ prune' = NoPrune
      /\ pruneFailures' = pruneFailures + 1
      /\ pruneFailures < MaxPruneFailures
      /\ UNCHANGED <<blobs, height, committed, processing, writer, feedq, restarts>>
  BY DEF PrunerFails, PruneFail
<1>4. TypeOK'
  BY <1>2, <1>3, AvailabilityAssumption
<1>5. NoIndexBelowFirst' /\ PruneIsBehind' /\ firstNonNilIndex' <= height'
  BY <1>2, <1>3 DEF NoIndexBelowFirst, PruneIsBehind
<1>6. WritersAreRight'
  BY <1>1, <1>2, <1>3, WindowIsNat DEF WritersAreRight
<1>7. CommittedWindowAvailable'
  BY <1>1, <1>2, <1>3, WindowIsNat DEF CommittedWindowAvailable, WritersAreRight
<1> QED
  BY <1>4, <1>5, <1>6, <1>7

LEMMA PrunerEndsKeeps == AvailabilityInv /\ PrunerEnds => AvailabilityInv'
<1> SUFFICES ASSUME AvailabilityInv, PrunerEnds PROVE AvailabilityInv'
  OBVIOUS
<1> USE DEF AvailabilityInv, TypeOK, PrunerEnds, PruneEnd, nodeVars
<1>1. prune.from \in Nat /\ prune.to \in Nat /\ prune.to <= height
  BY PruneType, WindowIsNat DEF PruneIsBehind
<1>2. TypeOK'
  BY <1>1
<1>3. NoIndexBelowFirst' /\ PruneIsBehind' /\ firstNonNilIndex' <= height'
  BY <1>1 DEF NoIndexBelowFirst, PruneIsBehind
<1>4. WritersAreRight'
  BY DEF WritersAreRight
<1>5. CommittedWindowAvailable'
  BY DEF CommittedWindowAvailable
<1> QED
  BY <1>2, <1>3, <1>4, <1>5

LEMMA StutterKeeps == AvailabilityInv /\ UNCHANGED vars => AvailabilityInv'
<1> SUFFICES ASSUME AvailabilityInv, UNCHANGED vars PROVE AvailabilityInv'
  OBVIOUS
<1> USE DEF AvailabilityInv, vars, rangeVars, nodeVars
<1>1. TypeOK' /\ NoIndexBelowFirst' /\ firstNonNilIndex' <= height'
  BY DEF TypeOK, NoIndexBelowFirst
<1>2. PruneIsBehind' /\ WritersAreRight'
  BY DEF PruneIsBehind, WritersAreRight
<1>3. CommittedWindowAvailable'
  BY DEF CommittedWindowAvailable
<1> QED
  BY <1>1, <1>2, <1>3

LEMMA NextAvailability == AvailabilityInv /\ [Next]_vars => AvailabilityInv'
<1> SUFFICES ASSUME AvailabilityInv, [Next]_vars PROVE AvailabilityInv'
  OBVIOUS
<1>1. CASE BeginBlock
  BY <1>1, BeginBlockKeeps
<1>2. CASE \E k \in Keys : CreateSidecar(k) \/ WriteSidecar(k) \/ SidecarFails(k)
  BY <1>2, CreateSidecarKeeps, WriteSidecarKeeps, SidecarFailsKeeps
<1>3. CASE AcceptBlock
  BY <1>3, AcceptBlockKeeps
<1>4. CASE RejectBlock \/ Crash
  BY <1>4, RestartKeeps DEF RejectBlock, Crash
<1>5. CASE Commit
  BY <1>5, CommitKeeps
<1>6. CASE \E h \in feedq : PrunerReceive(h)
  BY <1>6, PrunerReceiveKeeps
<1>7. CASE PrunerStep
  BY <1>7, PrunerStepKeeps
<1>8. CASE PrunerFails
  BY <1>8, PrunerFailsKeeps
<1>9. CASE PrunerEnds
  BY <1>9, PrunerEndsKeeps
<1>10. CASE UNCHANGED vars
  BY <1>10, StutterKeeps
<1> QED
  BY <1>1, <1>2, <1>3, <1>4, <1>5, <1>6, <1>7, <1>8, <1>9, <1>10 DEF Next

\* The inductive invariant holds of every behaviour of the availability store.
THEOREM AvailabilityInvariant == Spec => []AvailabilityInv
BY InitAvailability, NextAvailability, PTL DEF Spec

\* The variables of the availability store, the file database and the pruner keep
\* their types: Persist, the accepted heights and the bound that Prune moves.
THEOREM TypeCorrect == Spec => []TypeOK
<1>1. AvailabilityInv => TypeOK
  BY DEF AvailabilityInv
<1> QED
  BY <1>1, AvailabilityInvariant, PTL

\* The comment on RangeDB holds as the availability store and its pruner use it:
\* no index below firstNonNilIndex is populated, although neither Set nor Prune
\* takes a lock.
THEOREM RangeBoundRight == Spec => []NoIndexBelowFirst
<1>1. AvailabilityInv => NoIndexBelowFirst
  BY DEF AvailabilityInv
<1> QED
  BY <1>1, AvailabilityInvariant, PTL

\* The sidecars of the last Window accepted blocks are on disk and complete, for
\* every window and any number of crashes and failed prunes.
THEOREM BlobsAvailable == Spec => []WindowAvailable
<1>1. AvailabilityInv => WindowAvailable
  BY WindowIsNat DEF AvailabilityInv, TypeOK, CommittedWindowAvailable, WindowAvailable
<1> QED
  BY <1>1, AvailabilityInvariant, PTL
=============================================================================
