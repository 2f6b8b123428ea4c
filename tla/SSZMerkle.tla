----------------------------- MODULE SSZMerkle -----------------------------
(***************************************************************************)
(* The merkleization of primitives/pkg/ssz: the packing of basic values    *)
(* into chunks, the padding of a list to its limit, and the bit lists.     *)
(*                                                                         *)
(* A basic value is a number below Radix.  A chunk has room for perChunk   *)
(* of them and is written as the number they are the digits of: the zero   *)
(* bytes that fill the last chunk are zero digits.                         *)
(***************************************************************************)
EXTENDS MerkleTree

Radix == 3

CeilDiv(a, b) == (a + b - 1) \div b
AtLeastOne(n) == IF n = 0 THEN 1 ELSE n

\* Pack, and PartitionBytes of the result.
Pack(b, perChunk) ==
    LET digit(i) == IF i <= Len(b) THEN b[i] ELSE 0
        digits(c) == [k \in 1 .. perChunk |-> digit((c - 1) * perChunk + k)]
    IN [c \in 1 .. AtLeastOne(CeilDiv(Len(b), perChunk)) |->
           Chunk(FoldLeft(LAMBDA acc, x : acc * Radix + x, 0, digits(c)))]

PadTo(chunks, effectiveLimit) ==
    [i \in 1 .. effectiveLimit |-> IF i <= Len(chunks) THEN chunks[i] ELSE Chunk(0)]

Padded(chunks, effectiveLimit) ==
    LET effectiveChunks == PadTo(chunks, effectiveLimit)
    IN [ok |-> TRUE,
        root |-> IF Len(effectiveChunks) = 1 THEN effectiveChunks[1]
                 ELSE NewRootWithMaxLeaves(effectiveChunks, effectiveLimit)]
\* Merkleize without a limit, and with one.
MerkleizeVec(chunks) == Padded(chunks, NextPowerOfTwo(Len(chunks)))
Merkleize(chunks, limit) ==
    IF limit >= Len(chunks) THEN Padded(chunks, NextPowerOfTwo(limit)) ELSE Error

MixedIn(r, n) == IF r.ok THEN [r EXCEPT !.root = MixinLength(@, n)] ELSE Error

\* An empty list has one chunk whatever its capacity.
ChunkCountBasicList(b, maxCapacity, perChunk) ==
    IF Len(b) = 0 THEN 1
    ELSE IF CeilDiv(maxCapacity, perChunk) # 0 THEN CeilDiv(maxCapacity, perChunk)
    ELSE Len(b)
\* The limit gives way to the list.
ChunkCountCompositeList(c, limit) == IF Len(c) > limit THEN Len(c) ELSE limit

MerkleizeVecBasic(b, perChunk) == MerkleizeVec(Pack(b, perChunk))
MerkleizeListBasic(b, limit, perChunk) ==
    MixedIn(Merkleize(Pack(b, perChunk), ChunkCountBasicList(b, limit, perChunk)), Len(b))
MerkleizeVecComposite(htrs) == MerkleizeVec(htrs)
MerkleizeListComposite(htrs, limit) ==
    MixedIn(Merkleize(htrs, ChunkCountCompositeList(htrs, limit)), Len(htrs))
MerkleizeByteSlice(b, perChunk) ==
    LET chunks == Pack(b, perChunk) IN Merkleize(chunks, Len(chunks))

-----------------------------------------------------------------------------
(***************************************************************************)
(* The roots of a block body.  The body's own root is computed by the      *)
(* generated code, the roots that its inclusion proofs are built from by   *)
(* GetTopLevelRoots.  Of a payload the transactions are told apart from    *)
(* the other fields, of the body the deposits, the payload and the         *)
(* commitments; the limits of the lists are parameters.                    *)
(***************************************************************************)
\* fastssz: Merkleize and MerkleizeWithMixin pad virtually.
MerkleizeWithMixin(chunks, num, limit) ==
    MixinLength(ReferenceRoot(chunks, ILog2Ceil(limit)), num)

DepositsHashTreeRoot(deposits, limits) == MerkleizeListComposite(deposits, limits.deposits).root

\* Every transaction is hashed as a vector of bytes.
TransactionsHashTreeRoot(txs, limits) ==
    MerkleizeListComposite([i \in 1 .. Len(txs) |-> MerkleizeByteSlice(txs[i], 2).root],
                           limits.txs).root
\* The generated code hashes it as a list, with its length.
ExecutableDataTransactions(txs, limits) ==
    MerkleizeWithMixin([i \in 1 .. Len(txs) |->
                           MerkleizeWithMixin(Pack(txs[i], 2), Len(txs[i]), limits.txChunks)],
                       Len(txs), limits.txs)

PayloadFields(p, txsRoot) == ReferenceRoot(<<p.fields, txsRoot>>, 1)
\* ExecutionPayload.HashTreeRoot, by way of ToHeader.
PayloadHashTreeRoot(p, limits) == PayloadFields(p, TransactionsHashTreeRoot(p.txs, limits))
ExecutableDataHashTreeRoot(p, limits) == PayloadFields(p, ExecutableDataTransactions(p.txs, limits))

\* BeaconBlockBodyDeneb.HashTreeRootWith.
BodyHashTreeRoot(b, limits) ==
    ReferenceRoot(<<b.randao, b.eth1, b.graffiti,
                    MerkleizeWithMixin(b.deposits, Len(b.deposits), limits.deposits),
                    ExecutableDataHashTreeRoot(b.payload, limits),
                    MerkleizeWithMixin(b.commitments, Len(b.commitments), limits.commitments)>>, 3)

\* GetTopLevelRoots leaves the last root, that of the commitments, zero.
GetTopLevelRoots(b, limits) ==
    <<b.randao, b.eth1, b.graffiti, DepositsHashTreeRoot(b.deposits, limits),
      PayloadHashTreeRoot(b.payload, limits), Chunk(0)>>

BodyLengthDeneb     == 6
KZGPositionDeneb    == BodyLengthDeneb - 1
KZGMerkleIndexDeneb == 26

\* Mutant: the index of the list's leaf in the body instead of its root without
\* the length.
BlockBodyKZGOffsetOfLeaf(limits) == 13 * limits.commitments

BlockBodyKZGOffset(limits) == KZGMerkleIndexDeneb * limits.commitments

BuildBlockBodyProof(b, limits) ==
    MerkleProof(NewTreeWithMaxLeaves(GetTopLevelRoots(b, limits), BodyLengthDeneb - 1),
                KZGPositionDeneb)
BuildCommitmentProof(b, limits, index) ==
    LET tree == NewTreeWithMaxLeaves(b.commitments, limits.commitments)
    IN IF tree.ok THEN MerkleProofWithMixin(tree, index) ELSE Error
BuildKZGInclusionProof(b, limits, index) ==
    LET commitmentsProof == BuildCommitmentProof(b, limits, index)
        bodyProof == BuildBlockBodyProof(b, limits)
    IN IF commitmentsProof.ok /\ bodyProof.ok
       THEN [ok |-> TRUE, proof |-> commitmentsProof.proof \o bodyProof.proof] ELSE Error
HasValidInclusionProof(commitment, proof, index, limits, bodyRoot) ==
    IsValidMerkleBranch(commitment, proof, Len(proof), BlockBodyKZGOffset(limits) + index, bodyRoot)

-----------------------------------------------------------------------------
(***************************************************************************)
(* Bit lists and bit vectors.  A byte is the set of its bits that are set. *)
(***************************************************************************)
BitsPerByte == 8

MarshalBitVector(bv) ==
    [j \in 1 .. CeilDiv(Len(bv), BitsPerByte) |->
        {i \in 0 .. BitsPerByte - 1 :
            LET at == BitsPerByte * (j - 1) + i IN at < Len(bv) /\ bv[at + 1]}]
MarshalBitList(bv) ==
    [j \in 1 .. Len(bv) \div BitsPerByte + 1 |->
        {i \in 0 .. BitsPerByte - 1 :
            LET at == BitsPerByte * (j - 1) + i
            IN at = Len(bv) \/ (at < Len(bv) /\ bv[at + 1])}]

\* -1 in the byte without bits.
MostSignificantBitIndex(x) ==
    IF x = {} THEN -1 ELSE CHOOSE i \in x : \A j \in x : j <= i

UnmarshalBitList(bytes) ==
    IF Len(bytes) = 0 \/ MostSignificantBitIndex(bytes[Len(bytes)]) = -1 THEN <<>>
    ELSE LET n == BitsPerByte * (Len(bytes) - 1) + MostSignificantBitIndex(bytes[Len(bytes)])
         IN [k \in 1 .. n |-> (k - 1) % BitsPerByte \in bytes[(k - 1) \div BitsPerByte + 1]]
=============================================================================
