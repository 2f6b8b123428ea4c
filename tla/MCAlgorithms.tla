---------------------------- MODULE MCAlgorithms ----------------------------
(***************************************************************************)
(* The algorithms without state of their own, run as jobs: a job is        *)
(* chosen, and where there is more than one step, taken further.           *)
(***************************************************************************)
EXTENDS SSZContainers, ParallelHashing, BeaconDB, GenesisCeremony, GrowingTree, Merkleization,
        PayloadJourney, FiniteSets
Bellatrix == INSTANCE SSZBellatrix

VARIABLE job
components == <<hashed, dbVars, genesisVars, treeVars, request, journey>>

\* A behaviour is a job, or a layer that is hashed, or operations on the state
\* database, or a ceremony, or the growth of a tree, or a Merkle root, or the way of a payload.
NoJob == job.kind = "idle" /\ hashed = {} /\ MerkleInit /\ JourneyInit
Idle == NoJob /\ ops = 0 /\ GenesisInit /\ TreeInit
-----------------------------------------------------------------------------
Containers ==
    [Fork |-> Fork, ForkData |-> ForkData, SigningData |-> SigningData, Eth1Data |-> Eth1Data,
     BeaconBlockHeader |-> BeaconBlockHeader, DepositMessage |-> DepositMessage,
     Deposit |-> Deposit, Validator |-> Validator, Withdrawal |-> Withdrawal,
     BlobSidecar |-> BlobSidecar, BlobSidecars |-> BlobSidecars,
     ValidatorsMarshaling |-> ValidatorsMarshaling,
     ExecutionPayloadHeaderDeneb |-> ExecutionPayloadHeaderDeneb,
     ExecutableDataDeneb |-> ExecutableDataDeneb,
     BeaconBlockBodyDeneb |-> BeaconBlockBodyDeneb, BeaconBlockDeneb |-> BeaconBlockDeneb,
     BeaconState |-> BeaconState,
     BellatrixHeader |-> Bellatrix!BeaconBlockHeader, BellatrixFork |-> Bellatrix!Fork,
     BellatrixCheckpoint |-> Bellatrix!Checkpoint, BellatrixValidator |-> Bellatrix!Validator,
     BellatrixSyncCommittee |-> Bellatrix!SyncCommittee, BellatrixEth1Data |-> Bellatrix!Eth1Data,
     BellatrixPayloadHeader |-> Bellatrix!ExecutionPayloadHeader,
     BeaconStateBellatrix |-> Bellatrix!BeaconStateBellatrix]

\* The fields of variable length, by the statement that writes them.
VarWrites(c) == {i \in 1 .. Len(c.marshal.writes) :
                    c.marshal.writes[i].k \in {"slice", "vec", "list", "dyn", "obj"}}
WriteOf(c, f) == c.marshal.writes[CHOOSE i \in VarWrites(c) : c.marshal.writes[i].f = f]
VarFields(c) == {c.marshal.writes[i].f : i \in VarWrites(c)}

RECURSIVE Base(_)
BaseOf(e) == CASE e.k \in {"slice", "vec"} -> e.n
               [] e.k = "list" -> 1
               [] e.k = "dyn" -> <<3>>
               [] e.k = "obj" -> Base(e.c)
Base(c) == [f \in VarFields(c) |-> BaseOf(WriteOf(c, f))]

\* Values with at most n fields away from the base value, at every length at
\* which a codec branches.
RECURSIVE Values(_, _)
Lengths(e) ==
    CASE e.k = "slice" -> {0, e.n, e.n + 1}
      [] e.k = "vec"   -> {e.n - 1, e.n, e.n + 1}
      [] e.k = "list"  -> {0, 1, 2} \cup (IF e.lim = NoLimit THEN {} ELSE {e.lim, e.lim + 1})
      [] e.k = "dyn"   -> {<<>>, <<0>>, <<3>>, <<2, 0, 1>>, <<e.elim>>, <<e.elim + 1>>}
      [] e.k = "obj"   -> Values(e.c, 1)
Values(c, n) ==
    IF n = 0 THEN {Base(c)}
    ELSE LET less == Values(c, n - 1)
         IN less \cup UNION {{[v EXCEPT ![f] = x] : x \in Lengths(WriteOf(c, f)), v \in less} :
                                f \in VarFields(c)}

\* What can happen to an encoding on its way to a decoder: g bytes between the
\* fixed part and the first list with the offsets pointing past them, one
\* offset moved, the end missing.
Flat(c) == \A i \in 1 .. Len(Tails(c)) : Tails(c)[i].k = "list"
IsVariable(c) == Tails(c) # <<>>
FixedParts(c) == Len(SelectSeq(c.marshal.writes, LAMBDA e : TRUE)) - Len(Tails(c))
Gap(c, b, g) ==
    LET moved == [i \in 1 .. FixedParts(c) |->
                     IF b[i].offset THEN [b[i] EXCEPT !.v = @ + g] ELSE b[i]]
    IN moved \o <<[f |-> "gap", offset |-> FALSE, n |-> g, v |-> <<>>]>>
             \o SubSeq(b, FixedParts(c) + 1, Len(b))
Moved(b, i, d) == [b EXCEPT ![i].v = @ + d]
Cut(b, k) == [b EXCEPT ![Len(b)].n = @ - k]
Disturbances(c, b) ==
    {Gap(c, b, g) : g \in {1, 8}}
    \cup (IF Flat(c) THEN {Moved(b, i, d) : i \in {j \in 1 .. Len(b) : b[j].offset},
                                            d \in {-1, 1, 8, 32}} ELSE {})
    \cup (IF Flat(c) THEN {Cut(b, k) : k \in {j \in {1, 8, 32} : b[Len(b)].n >= j}} ELSE {})

Encode(name, v) ==
    LET m == MarshalSSZTo(Containers[name], v)
    IN /\ job' = [kind |-> IF m.ok THEN "encoded" ELSE "refused", of |-> name, v |-> v,
                  b |-> m.out, disturbed |-> FALSE]
       /\ UNCHANGED components

Disturb ==
    /\ job.kind = "encoded" /\ ~job.disturbed
    /\ IsVariable(Containers[job.of])
    /\ \E b \in Disturbances(Containers[job.of], job.b) :
           job' = [job EXCEPT !.b = b, !.disturbed = TRUE]
    /\ UNCHANGED components

Decode ==
    /\ job.kind = "encoded"
    /\ job' = [kind |-> "decoded", of |-> job.of, v |-> job.v, b |-> job.b,
               disturbed |-> job.disturbed, d |-> UnmarshalSSZ(Containers[job.of], job.b)]
    /\ UNCHANGED components

Choose(kind, args) == job' = [kind |-> kind, args |-> args] /\ UNCHANGED components

\* Generalized indices in a tree of depth three, none inside the subtree of another.
Antichain(gs) ==
    \A i, j \in 1 .. Len(gs) :
        i # j => gs[i] # gs[j] /\ gs[j] \notin ToSet(GetPathIndices(gs[i]))

\* Fields of a body that are told apart.
MCFieldValues == [randao |-> {7}, eth1 |-> {8}, graffiti |-> {0}, deposits |-> {1}, payload |-> {9}]

\* Bit lists around the byte boundaries.
BitLists == BoundedSeq(BOOLEAN, 9) \cup {[i \in 1 .. n |-> b] : n \in 15 .. 17, b \in BOOLEAN}

\* Documents with up to two fields missing, and payloads that differ in one thing or in several.
FieldNames == UNION {Engine!Fields(t) : t \in JSONTypes}
MCContents == {[f \in FieldNames |-> value] : value \in {"x", "y"}}
MCMissingFields == {{}} \cup {{f, g} : f, g \in FieldNames}
MCWithdrawalLists == {<<>>, <<"w">>}
MCProposals ==
    LET Tx(decodes, blobs) == [decodes |-> decodes, blobs |-> blobs]
        one == Tx(TRUE, <<"h1">>)
        two == Tx(TRUE, <<"h1", "h2">>)
        Proposal(value, txs, withdrawals, root) ==
            [content |-> [f \in FieldNames |-> value], txs |-> txs, withdrawals |-> withdrawals, root |-> root]
    IN {Proposal("x", txs, {<<>>}, "r") :
            txs \in {<<>>, <<Tx(TRUE, <<>>)>>, <<Tx(FALSE, <<>>)>>, <<one>>, <<two>>, <<one, two>>, <<two, one>>}}
       \cup {Proposal("x", <<one>>, withdrawals, "r") : withdrawals \in {{}, {<<"w">>}}}
       \cup {Proposal("y", <<one>>, {<<>>}, "r"), Proposal("x", <<one>>, {<<>>}, "s")}
MCMixedFields == {{}} \cup {{f} : f \in FieldNames}

-----------------------------------------------------------------------------
Init == job = [kind |-> "idle"] /\ HashInit /\ DbInit /\ GenesisInit /\ TreeInit /\ MerkleInit
        /\ JourneyInit
Next ==
    \/ Idle /\ JourneyNext /\ UNCHANGED <<job, hashed, dbVars, genesisVars, treeVars, request>>
    \/ Idle /\ \E name \in DOMAIN Containers : \E v \in Values(Containers[name], 2) : Encode(name, v)
    \/ Disturb
    \/ Decode
    \/ Idle /\ \E gs \in BoundedSeq(2 .. 15, 2) : Antichain(gs) /\ Choose("indices", gs)
    \/ Idle /\ \E bits \in BitLists : Choose("bits", bits)
    \/ Idle /\ HashNext /\ UNCHANGED <<job, dbVars, genesisVars, treeVars, request, journey>>
    \/ NoJob /\ GenesisInit /\ TreeInit /\ DbNext /\ UNCHANGED <<job, hashed, genesisVars, treeVars, request, journey>>
    \/ NoJob /\ ops = 0 /\ TreeInit /\ GenesisNext /\ UNCHANGED <<job, hashed, dbVars, treeVars, request, journey>>
    \/ NoJob /\ ops = 0 /\ GenesisInit /\ TreeNext /\ UNCHANGED <<job, hashed, dbVars, genesisVars, request, journey>>
    \/ Idle /\ MerkleNext /\ UNCHANGED <<job, hashed, dbVars, genesisVars, treeVars, journey>>
Spec == Init /\ [][Next]_<<job, components>>
-----------------------------------------------------------------------------
\* What was marshalled is read back: UnmarshalSSZ finds every field in the bytes
\* that MarshalSSZTo wrote for it, and SizeSSZ, which sizes the buffer and the
\* offsets behind a nested container, is the number of those bytes.  A bit list
\* is read back too, also when its bits fill their bytes (serialization.go:78-119,
\* 206-225), and a bit vector has the same bits without the end bit.
SizeIsEncodedLength ==
    job.kind = "encoded" /\ ~job.disturbed =>
        BufLen(job.b) = SizeSSZ(Containers[job.of], job.v)
FieldsReadBack ==
    job.kind = "decoded" /\ ~job.disturbed =>
        job.d.ok /\ job.d.clean /\ job.d.v = job.v
BitListReadBack ==
    job.kind = "bits" =>
        /\ UnmarshalBitList(MarshalBitList(job.args)) = job.args
        /\ \A j \in 1 .. Len(MarshalBitVector(job.args)) :
              MarshalBitVector(job.args)[j]
                  = MarshalBitList(job.args)[j]
                       \ (IF Len(job.args) \div 8 = j - 1 THEN {Len(job.args) % 8} ELSE {})
RoundTrip == SizeIsEncodedLength /\ FieldsReadBack /\ BitListReadBack

\* What can be marshalled can be hashed, and the other way round, and no list
\* has more chunks than the limit its tree is built with: otherwise a block
\* that was stored or sent has no root.
MarshalledHasRoot ==
    job.kind \in {"encoded", "refused"} /\ ~job.disturbed =>
        LET c == Containers[job.of]
        IN /\ HashTreeRootWith(c, job.v) <=> job.kind = "encoded"
           /\ job.kind = "encoded" => MixinFits(c, job.v)

\* Whatever bytes UnmarshalSSZ accepts, the value can be marshalled and hashed
\* again, and its encoding is not longer than the bytes that were read.
DecodedIsEncodable ==
    job.kind = "decoded" /\ job.d.ok =>
        LET c == Containers[job.of]
        IN /\ MarshalSSZTo(c, job.d.v).ok
           /\ HashTreeRootWith(c, job.d.v)
           /\ SizeSSZ(c, job.d.v) <= BufLen(job.b)

\* The limits and sizes that the source repeats for marshalling, unmarshalling and
\* hashing agree, for values and for the bytes of others (block.ssz.go,
\* body.ssz.go, payload.ssz.go, sidecars.ssz.go).
LimitsAgree == MarshalledHasRoot /\ DecodedIsEncodable

\* The nodes that GetHelperIndices asks for are enough to compute the root from
\* the given ones, none of them can be left out, and for a single node they are
\* its branch in order (index.go:152-184).  The path of a node inside the subtree of another, by
\* Concat, leads through the subtree and then along the path of the other.
HelperIndices ==
    job.kind = "indices" =>
        LET gs == job.args
            helpers == GetHelperIndices(gs)
            Closure(S) ==
                LET up[d \in 0 .. 3] ==
                        IF d = 0 THEN S
                        ELSE up[d - 1] \cup {g \in 1 .. 7 : {2 * g, 2 * g + 1} \subseteq up[d - 1]}
                IN up[3]
        IN gs # <<>> =>
              /\ 1 \in Closure(ToSet(gs) \cup ToSet(helpers))
              /\ \A h \in ToSet(helpers) :
                    1 \notin Closure(ToSet(gs) \cup (ToSet(helpers) \ {h}))
              /\ Len(gs) = 1 => helpers = GetBranchIndices(gs[1])
              /\ GetPathIndices(Concat(<<gs[1], Last(gs)>>))
                    = LET inner == GetPathIndices(Last(gs))
                      IN [i \in 1 .. Len(inner) |-> Concat(<<gs[1], inner[i]>>)]
                         \o GetPathIndices(gs[1])

\* sidecar.go:72-73 says of HasValidInclusionProof that it "verifies the inclusion
\* proof of the blob in the beacon body": it accepts the sidecars that the proposer
\* built for its own body, with transactions too.
OwnSidecarsIncluded ==
    request.kind = "sidecars" =>
        LET body == request.body
        IN \A i \in 1 .. Len(body.commitments) :
               /\ request.proofs[i].ok
               /\ HasValidInclusionProof(body.commitments[i], request.proofs[i].proof, i - 1, Limits,
                                         BodyHashTreeRoot(body, Limits))
=============================================================================
