-------------------------- MODULE ParallelHashing --------------------------
(***************************************************************************)
(* BuildParentTreeRootsWithNRoutines of primitives/pkg/merkle.  A layer of *)
(* MinParallelizationSize nodes or more is hashed by the goroutines        *)
(* 0 .. n, n being one less than GOMAXPROCS.  Goroutine j hashes its       *)
(* segment of the input into its segment of the output; a parent that no   *)
(* segment has keeps the value the output was made with, zero.  Positions  *)
(* count from 0.                                                           *)
(***************************************************************************)
EXTENDS Integers

CONSTANTS LayerLengths,   \* lengths of the layers that are hashed
          Processors      \* GOMAXPROCS, on the hosts that hash them

ASSUME HashingAssumption == LayerLengths \subseteq Nat /\ Processors \subseteq Nat \ {0}

VARIABLE hashed   \* the last layer: its length, n, and the parents that were written

MinParallelizationSize == 5000

MinOf(a, b) == IF a < b THEN a ELSE b
GroupSize(inputLength, n) == inputLength \div (2 * (IF n > 1 THEN n ELSE 1))

\* Mutant: the segments of the output are as long as those of the input.
OutSegmentTwice(inputLength, n, j) ==
    LET g == GroupSize(inputLength, n)
    IN (j * g) .. (MinOf((j + 2) * g, inputLength \div 2) - 1)

\* The parents that goroutine j writes.
OutSegment(inputLength, n, j) ==
    LET g == GroupSize(inputLength, n)
    IN (j * g) .. (MinOf((j + 1) * g, inputLength \div 2) - 1)

\* The nodes it reads for them.
InSegment(inputLength, n, j) ==
    LET g == GroupSize(inputLength, n)
    IN (j * (2 * g)) .. (MinOf((j + 1) * (2 * g), inputLength) - 1)

\* A small layer is hashed at once.
ParentsWritten(inputLength, n) ==
    IF inputLength < MinParallelizationSize THEN 0 .. (inputLength \div 2 - 1)
    ELSE UNION {OutSegment(inputLength, n, j) : j \in 0 .. n}

\* A layer of odd length is refused; eg.Wait returns when the goroutines are done.
BuildParentTreeRootsWithNRoutines(inputLength, n) ==
    /\ inputLength % 2 = 0
    /\ hashed' = {[len |-> inputLength, n |-> n, parents |-> ParentsWritten(inputLength, n)]}

HashInit == hashed = {}
HashNext ==
    \E len \in LayerLengths, procs \in Processors :
        BuildParentTreeRootsWithNRoutines(len, procs - 1)
HashSpec == HashInit /\ [][HashNext]_hashed
-----------------------------------------------------------------------------
\* No parent is written by two goroutines.
DisjointSegments(inputLength, n) ==
    \A j, k \in 0 .. n :
        j # k => OutSegment(inputLength, n, j) \cap OutSegment(inputLength, n, k) = {}

\* A goroutine reads the two children of every parent that it writes, and no
\* more: gohashtree.Hash hashes them pair by pair.
SegmentsMatch(inputLength, n) ==
    \A j \in 0 .. n : \A p \in 0 .. (inputLength \div 2 - 1) :
        p \in OutSegment(inputLength, n, j)
            <=> 2 * p \in InSegment(inputLength, n, j) /\ 2 * p + 1 \in InSegment(inputLength, n, j)

\* Every parent is written.
AllHashed(inputLength, n) ==
    \A p \in 0 .. (inputLength \div 2 - 1) :
        \E j \in 0 .. n : p \in OutSegment(inputLength, n, j)

\* What the n groups leave over has room in one more group, which is not so for
\* every length once there are more goroutines than this.
LastGroupFits(inputLength, n) ==
    inputLength \div 2 <= (n + 1) * GroupSize(inputLength, n)
SafeGoroutines == 50

\* The start of a slice of the input or of the output is never behind its end,
\* where Go would panic.
SlicesInBounds(inputLength, n) ==
    LET g == GroupSize(inputLength, n)
    IN \A j \in 0 .. n :
          /\ j * g <= MinOf((j + 1) * g, inputLength \div 2)
          /\ j * (2 * g) <= MinOf((j + 1) * (2 * g), inputLength)

\* The goroutines that hash a layer in parallel never write the same parent, slice
\* input and output within their bounds, and each reads exactly the children of what it
\* writes; and on a host with at most SafeGoroutines of them every parent of every
\* layer is written (root.go:98-167).
ParentsHashed ==
    \A l \in hashed :
        /\ DisjointSegments(l.len, l.n)
        /\ SegmentsMatch(l.len, l.n)
        /\ SlicesInBounds(l.len, l.n)
        /\ l.n <= SafeGoroutines => l.parents = 0 .. (l.len \div 2 - 1)

\* Test_GoHashTreeHashConformance (root_test.go:98-152) asks for what gohashtree
\* computes, a hash for every parent, of layers of its sizes and with GOMAXPROCS - 1
\* goroutines on whatever host it runs.
GoHashTreeEquivalence ==
    \A l \in hashed : l.parents = 0 .. (l.len \div 2 - 1)
=============================================================================
