----------------------------- MODULE MerkleTree -----------------------------
(***************************************************************************)
(* The Merkle trees of primitives/pkg/merkle and the generalized indices   *)
(* of primitives/pkg/ssz/merkle.                                           *)
(*                                                                         *)
(* A chunk of 32 bytes is <<n>>, with n the number it holds; the hash of   *)
(* two nodes is the pair of them, so that different inputs have different  *)
(* hashes.  Positions count from 0 as in the code; a layer is a sequence,  *)
(* so that the node at position i is element i + 1.                        *)
(***************************************************************************)
EXTENDS ParallelHashing, Integers, Sequences, SequencesExt, FiniteSets

CONSTANT Goroutines   \* GOMAXPROCS - 1 on the host that hashes the trees

\* On a host with more of them a large layer may be left with parents of zeros.
ASSUME HostAssumption == Goroutines \in 0 .. SafeGoroutines

Chunk(n) == <<n>>
Hash(l, r) == <<l, r>>
NumZeroHashes == 64
zeroHashes[d \in 0 .. NumZeroHashes] ==
    IF d = 0 THEN Chunk(0) ELSE LET z == zeroHashes[d - 1] IN Hash(z, z)

Error == [ok |-> FALSE]

-----------------------------------------------------------------------------
(***************************************************************************)
(* math.U64.                                                               *)
(***************************************************************************)
ILog2Ceil(u)  == IF u = 0 THEN 0 ELSE CHOOSE d \in 0 .. u : 2^d >= u /\ \A e \in 0 .. d - 1 : 2^e < u
ILog2Floor(u) == IF u = 0 THEN 0 ELSE CHOOSE d \in 0 .. u : 2^d <= u /\ 2^(d + 1) > u
NextPowerOfTwo(u) == 2^ILog2Ceil(u)
PrevPowerOfTwo(u) == 2^ILog2Floor(u)

-----------------------------------------------------------------------------
\* A layer of even length: the parents that are written, and zeros for the others.
BuildParentTreeRoots(s) ==
    [i \in 1 .. Len(s) \div 2 |->
        IF i - 1 \in ParentsWritten(Len(s), Goroutines) THEN Hash(s[2 * i - 1], s[2 * i])
        ELSE Chunk(0)]

\* An odd layer is made even with the zero hash of its height.
Even(s, d) == IF Len(s) % 2 = 1 THEN Append(s, zeroHashes[d]) ELSE s

-----------------------------------------------------------------------------
(***************************************************************************)
(* Tree.                                                                   *)
(***************************************************************************)
MaxTreeDepth == 62

verifySufficientDepth(numLeaves, depth) ==
    numLeaves > 0 /\ depth > 0 /\ depth <= MaxTreeDepth /\ numLeaves <= 2^depth

\* The loop over the layers, of a tree and of a root alone.
Layers(leaves, depth) ==
    LET layers[d \in 0 .. depth] ==
            IF d = 0 THEN leaves ELSE BuildParentTreeRoots(Even(layers[d - 1], d - 1))
    IN layers

NewTreeFromLeavesWithDepth(leaves, depth) ==
    IF verifySufficientDepth(Len(leaves), depth)
    THEN [ok |-> TRUE, depth |-> depth, branches |-> Layers(leaves, depth), leaves |-> leaves]
    ELSE Error
NewTreeWithMaxLeaves(leaves, maxLeaves) ==
    NewTreeFromLeavesWithDepth(leaves, ILog2Ceil(NextPowerOfTwo(maxLeaves)))

Sibling(g) == IF g % 2 = 0 THEN g + 1 ELSE g - 1
NodeAt(layer, i, d) == IF i < Len(layer) THEN layer[i + 1] ELSE zeroHashes[d]
\* An existing position, or one more at the end.
PutAt(layer, i, x) == IF i >= Len(layer) THEN Append(layer, x) ELSE [layer EXCEPT ![i + 1] = x]

\* One round of the loop of Insert, from the layer below to layer d.
\* Mutant: an inserted item does not reach its parent's layer when the parent is
\* already there.
InsertLevelKeepsParent(m, c, d) ==
    LET n == NodeAt(c.layer, Sibling(c.at), d - 1)
        h == IF c.at % 2 = 0 THEN Hash(c.node, n) ELSE Hash(n, c.node)
        at == c.at \div 2
    IN [at |-> at, node |-> h,
        layer |-> IF at >= Len(m.branches[d]) THEN Append(m.branches[d], h) ELSE m.branches[d]]

InsertLevel(m, c, d) ==
    LET n == NodeAt(c.layer, Sibling(c.at), d - 1)
        h == IF c.at % 2 = 0 THEN Hash(c.node, n) ELSE Hash(n, c.node)
        at == c.at \div 2
    IN [at |-> at, node |-> h, layer |-> PutAt(m.branches[d], at, h)]

\* Insert.  Only the lowest layer is filled up with zeros to the index; the list of
\* leaves and the layers above are extended by one, wherever the index is.
FilledTo(layer, i) ==
    IF i <= Len(layer) THEN layer
    ELSE [j \in 1 .. i |-> IF j <= Len(layer) THEN layer[j] ELSE zeroHashes[0]]
Insert(m, item, index) ==
    LET up[d \in 0 .. m.depth] ==
            IF d = 0 THEN [at |-> index, node |-> item,
                           layer |-> PutAt(FilledTo(m.branches[0], index), index, item)]
            ELSE InsertLevel(m, up[d - 1], d)
    IN [m EXCEPT !.branches = [d \in 0 .. m.depth |-> up[d].layer],
                 !.leaves = PutAt(@, index, item)]

Root(m) == m.branches[m.depth][1]
MixinLength(root, n) == Hash(root, Chunk(n))
\* A single zero leaf stands for an empty tree.
HashTreeRoot(m) == MixinLength(Root(m), IF m.leaves = <<Chunk(0)>> THEN 0 ELSE Len(m.leaves))

MerkleProof(m, leafIndex) ==
    IF leafIndex >= Len(m.branches[0]) THEN Error
    ELSE [ok |-> TRUE,
          proof |-> [d \in 1 .. m.depth |->
                        NodeAt(m.branches[d - 1], Sibling(leafIndex \div 2^(d - 1)), d - 1)]]
MerkleProofWithMixin(m, leafIndex) ==
    LET p == MerkleProof(m, leafIndex)
    IN IF p.ok THEN [p EXCEPT !.proof = Append(@, Chunk(Len(m.leaves)))] ELSE Error

\* The loop of RootFromBranch, which CalculateMerkleRoot has too: a bit of the
\* index that is set puts the branch on the left.
IndexBit(g, position) == (g \div 2^position) % 2 = 1
RootFromBranch(leaf, branch, index) ==
    LET up[d \in 0 .. Len(branch)] ==
            IF d = 0 THEN leaf
            ELSE IF IndexBit(index, d - 1) THEN Hash(branch[d], up[d - 1])
                                           ELSE Hash(up[d - 1], branch[d])
    IN up[Len(branch)]
IsValidMerkleBranch(leaf, branch, depth, index, root) ==
    Len(branch) = depth /\ RootFromBranch(leaf, branch, index) = root
VerifyProof(root, leaf, merkleIndex, proof) ==
    Len(proof) <= 255 /\ IsValidMerkleBranch(leaf, proof, Len(proof), merkleIndex, root)

\* The root alone.  More leaves than the depth has room for are not an error: the
\* root is then that of no leaves at all.
NewRootWithDepth(leaves, depth) ==
    LET last == Layers(leaves, depth)[depth]
    IN IF Len(leaves) = 0 \/ Len(last) # 1 THEN zeroHashes[depth] ELSE last[1]
NewRootWithMaxLeaves(leaves, length) == NewRootWithDepth(leaves, ILog2Ceil(NextPowerOfTwo(length)))

-----------------------------------------------------------------------------
(***************************************************************************)
(* Generalized indices.                                                    *)
(***************************************************************************)
NewGeneralizedIndex(depth, index) == 2^depth + index

GetBranchIndices(g) == [i \in 1 .. ILog2Floor(g) |-> Sibling(g \div 2^(i - 1))]
GetPathIndices(g)   == [i \in 1 .. ILog2Floor(g) |-> g \div 2^(i - 1)]

CalculateMerkleRoot(g, leaf, proof) ==
    IF Len(proof) = ILog2Floor(g) THEN [ok |-> TRUE, root |-> RootFromBranch(leaf, proof, g)]
    ELSE Error

Concat(gs) ==
    LET upTo[i \in 0 .. Len(gs)] ==
            IF i = 0 THEN 1
            ELSE LET p == PrevPowerOfTwo(gs[i]) IN upTo[i - 1] * p + (gs[i] - p)
    IN upTo[Len(gs)]

Descending(S) == SetToSortSeq(S, LAMBDA a, b : a > b)

\* Mutant: the nodes on the paths are asked for too.
GetHelperIndicesWithPaths(gs) ==
    Descending(UNION {Range(GetBranchIndices(gs[i])) : i \in DOMAIN gs})

GetHelperIndices(gs) ==
    Descending(UNION {Range(GetBranchIndices(gs[i])) : i \in DOMAIN gs}
               \ UNION {Range(GetPathIndices(gs[i])) : i \in DOMAIN gs})

-----------------------------------------------------------------------------
(***************************************************************************)
(* The reference: the root of the binary tree of a depth whose leaves are  *)
(* the given ones and zero chunks.                                         *)
(***************************************************************************)
ReferenceNodes(leaves, depth) ==
    LET node[d \in 0 .. depth] ==
            IF d = 0 THEN [i \in Nat |-> IF i < Len(leaves) THEN leaves[i + 1] ELSE Chunk(0)]
            ELSE [i \in Nat |-> Hash(node[d - 1][2 * i], node[d - 1][2 * i + 1])]
    IN node
ReferenceRoot(leaves, depth) == ReferenceNodes(leaves, depth)[depth][0]
=============================================================================
