--------------------------- MODULE Merkleization ---------------------------
(***************************************************************************)
(* What is asked of the Merkle roots: the root of a list, by the packages  *)
(* that hash lists and vectors, and the sidecars of a block, with a proof  *)
(* for each commitment that the block's own root has to bear out.          *)
(***************************************************************************)
EXTENDS SSZMerkle

CONSTANTS
    ListLimits,        \* limits of lists
    ChunkSizes,        \* how many basic values a chunk has room for
    MaxListLength,     \* bound: elements of a list
    FieldValues,       \* what the roots of fields and deposits may hold, by field
    CommitmentValues,  \* what a commitment's root may hold, never zero
    DepositsLimit, TxsLimit, TxChunksLimit, CommitmentsLimit   \* of a block body

ASSUME LimitsAssumption ==
    /\ ListLimits \subseteq Nat /\ \A limit \in ListLimits : ILog2Ceil(limit) < NumZeroHashes
    /\ ChunkSizes \subseteq Nat \ {0}
    /\ MaxListLength \in Nat /\ ILog2Ceil(MaxListLength) < NumZeroHashes
    /\ CommitmentValues \subseteq Nat \ {0}
    /\ DepositsLimit \in Nat /\ ILog2Ceil(DepositsLimit) < NumZeroHashes
    /\ TxsLimit \in Nat /\ ILog2Ceil(TxsLimit) < NumZeroHashes
    /\ TxChunksLimit \in Nat
    /\ \E k \in 1 .. MaxTreeDepth : CommitmentsLimit = 2^k

VARIABLE request   \* what was asked for last

Limits == [deposits |-> DepositsLimit, txs |-> TxsLimit, txChunks |-> TxChunksLimit,
           commitments |-> CommitmentsLimit]
Roots(field) == {Chunk(n) : n \in FieldValues[field]}
Commitments == {Chunk(n) : n \in CommitmentValues}

\* Bodies of a block, with lists as long as their limits and shorter ones.
Bodies ==
    [randao : Roots("randao"), eth1 : Roots("eth1"), graffiti : Roots("graffiti"),
     deposits : BoundedSeq(Roots("deposits"), DepositsLimit),
     payload : [fields : Roots("payload"), txs : BoundedSeq({<<1>>, <<1, 0, 2>>}, 1)],
     commitments : BoundedSeq(Commitments, CommitmentsLimit)]

MerkleInit == request = [kind |-> "none"]

HashList(b, limit, perChunk) ==
    /\ request.kind = "none"
    /\ request' = [kind |-> "list", b |-> b, limit |-> limit, perChunk |-> perChunk]

BuildSidecars(body) ==
    /\ request.kind = "none"
    /\ request' = [kind |-> "sidecars", body |-> body,
                   proofs |-> [i \in 1 .. Len(body.commitments) |->
                                  BuildKZGInclusionProof(body, Limits, i - 1)]]

MerkleNext ==
    \/ \E b \in BoundedSeq(0 .. Radix - 1, MaxListLength), limit \in ListLimits, perChunk \in ChunkSizes :
           HashList(b, limit, perChunk)
    \/ \E body \in Bodies : BuildSidecars(body)
MerkleSpec == MerkleInit /\ [][MerkleNext]_request
-----------------------------------------------------------------------------
\* Merkleize pads to the limit of the list and not to its length: the root of a
\* list that fits is the reference root at the depth of the limit, with the
\* length; a list with more chunks than the limit is refused.  Of lists of basic
\* values the empty one is the exception, and lists of containers are never
\* refused.
ListRoots(b, limit, perChunk) ==
    LET chunks == Pack(b, perChunk)
        chunkLimit == CeilDiv(limit, perChunk)
        basic == MerkleizeListBasic(b, limit, perChunk)
        htrs == [i \in 1 .. Len(b) |-> Chunk(b[i])]
        composite == MerkleizeListComposite(htrs, limit)
    IN /\ (b # <<>> /\ Len(b) <= limit) =>
             basic = [ok |-> TRUE, root |-> MerkleizeWithMixin(chunks, Len(b), chunkLimit)]
       /\ (chunkLimit > 0 /\ Len(chunks) > chunkLimit) => ~basic.ok
       /\ Len(b) <= limit =>
             composite = [ok |-> TRUE, root |-> MerkleizeWithMixin(htrs, Len(b), limit)]
       /\ MerkleizeVecBasic(b, perChunk).root = ReferenceRoot(chunks, ILog2Ceil(Len(chunks)))
       /\ b # <<>> =>
             MerkleizeVecComposite(htrs).root = ReferenceRoot(htrs, ILog2Ceil(Len(htrs)))

\* The inclusion proof of a sidecar holds for its commitment at its index, and
\* for no commitment at an index where the body has another one.
InclusionProofs(body, proofs) ==
    LET root == BodyHashTreeRoot(body, Limits)
        of == body.commitments
    IN \A i \in 1 .. Len(of) :
          /\ proofs[i].ok
          /\ HasValidInclusionProof(of[i], proofs[i].proof, i - 1, Limits, root)
          /\ \A j \in 1 .. CommitmentsLimit, x \in Commitments :
                HasValidInclusionProof(x, proofs[i].proof, j - 1, Limits, root)
                    => j <= Len(of) /\ x = of[j]

\* A list or a vector that is hashed level by level has the root that its chunks
\* define, and a sidecar's proof is about its own commitment in the block, unless
\* the payload has transactions, whose roots the code computes in two ways
\* (merkleize.go:40-223, factory.go:105-200, sidecar.go:72-110).
ListsAndBodiesBind ==
    /\ request.kind = "list" => ListRoots(request.b, request.limit, request.perChunk)
    /\ request.kind = "sidecars" /\ request.body.payload.txs = <<>> =>
          InclusionProofs(request.body, request.proofs)
=============================================================================
