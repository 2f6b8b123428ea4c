---------------------------- MODULE GrowingTree ----------------------------
(***************************************************************************)
(* A Merkle tree that is built from some leaves, unless the depth does not *)
(* suffice for them, and into which leaves are then inserted, at existing  *)
(* positions, at the next one and beyond.                                  *)
(***************************************************************************)
EXTENDS MerkleTree

CONSTANTS
    LeafValues,    \* what a leaf may hold
    TreeDepths,    \* the depths that trees are asked for
    MaxNewLeaves,  \* bound: leaves of a new tree
    MaxLeaves      \* bound: leaves of a tree

ASSUME TreeAssumption == TreeDepths \subseteq Nat /\ MaxNewLeaves \in Nat /\ MaxLeaves \in Nat

VARIABLES
    tree,        \* what the constructor returned, changed by Insert
    treeLeaves,  \* the leaves that were passed to it, zeros where there was none
    gap          \* history: some leaf was inserted beyond the next position
treeVars == <<tree, treeLeaves, gap>>

Leaves == {Chunk(n) : n \in LeafValues}

TreeInit == tree = Error /\ treeLeaves = <<>> /\ gap = FALSE

NewTree(leaves, depth) ==
    /\ ~tree.ok
    /\ tree' = NewTreeFromLeavesWithDepth(leaves, depth)
    /\ treeLeaves' = leaves /\ gap' = FALSE

InsertLeaf(item, index) ==
    /\ tree.ok /\ index < MaxLeaves
    /\ tree' = Insert(tree, item, index)
    /\ treeLeaves' = PutAt(FilledTo(treeLeaves, index), index, item)
    /\ gap' = (gap \/ index > Len(treeLeaves))

TreeNext ==
    \/ \E leaves \in BoundedSeq(Leaves, MaxNewLeaves), depth \in TreeDepths : NewTree(leaves, depth)
    \/ \E item \in Leaves, index \in 0 .. MaxLeaves : InsertLeaf(item, index)
TreeSpec == TreeInit /\ [][TreeNext]_treeVars
-----------------------------------------------------------------------------
\* The leaf at a position, zero where there is none, and the leaves that the
\* depth has room for.
LeafAt(i) == IF i < Len(treeLeaves) THEN treeLeaves[i + 1] ELSE Chunk(0)
Room == IF Len(treeLeaves) < 2^tree.depth THEN Len(treeLeaves) ELSE 2^tree.depth

\* The root is that of the leaves, as far as the depth has room for them, and the
\* function that computes the root alone agrees.
TreeRoots ==
    /\ Root(tree) = ReferenceRoot(treeLeaves, tree.depth)
    /\ NewRootWithDepth(SubSeq(treeLeaves, 1, Room), tree.depth) = Root(tree)
    /\ tree.leaves = treeLeaves

\* A Merkle proof convinces the verifier of its leaf at its index, and of no
\* other leaf or index; so does the proof with the number of leaves, unless the
\* tree is a single zero leaf, and the walk by generalized index.
ProofOf(i) ==
    LET p == MerkleProof(tree, i)
        q == MerkleProofWithMixin(tree, i)
    IN /\ p.ok /\ VerifyProof(Root(tree), LeafAt(i), i, p.proof)
       /\ \A j \in 0 .. 2^tree.depth - 1, x \in Leaves :
             VerifyProof(Root(tree), x, j, p.proof) => x = LeafAt(j)
       /\ treeLeaves # <<Chunk(0)>> =>
             VerifyProof(HashTreeRoot(tree), LeafAt(i), i, q.proof)
       /\ CalculateMerkleRoot(NewGeneralizedIndex(tree.depth, i), LeafAt(i), p.proof)
             = [ok |-> TRUE, root |-> Root(tree)]

\* However a tree came about, by construction and by Inserts at existing positions
\* and at the next one, its root is that of its leaves and its proofs prove what
\* they were made for and nothing else (tree.go:78-230, root.go:52-86,
\* proof.go:27-92, index.go:195-218).  An Insert beyond the next position fills up
\* the lowest layer alone, so that nodes of the layers above come to stand where
\* they do not belong: a tree of four leaves has a wrong root after Insert at 6.
TreeFollowsLeaves == tree.ok /\ ~gap => TreeRoots /\ \A i \in 0 .. Room - 1 : ProofOf(i)
=============================================================================
