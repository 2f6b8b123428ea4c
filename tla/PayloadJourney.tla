--------------------------- MODULE PayloadJourney ---------------------------
(***************************************************************************)
(* The way of a payload between two execution clients, and of documents    *)
(* that lack fields.  What arrives at a validator may be a mixture of two  *)
(* payloads, in their fields, their blob hashes and their parents.         *)
(***************************************************************************)
EXTENDS Naturals, Sequences
Engine == INSTANCE EnginePayload

CONSTANTS
    Contents,         \* what the plain fields may hold, by name
    MissingFields,    \* sets of fields that a document may lack
    VersionedHashes, WithdrawalLists,
    Proposals,        \* what payloads are built of: [content, txs, withdrawals, root]
    MixedFields       \* sets of fields that may come from another payload

ASSUME ProposalsAssumption ==
    \A a \in Proposals :
        /\ a.txs \in Seq([decodes : BOOLEAN, blobs : Seq(VersionedHashes)])
        /\ a.withdrawals \in {{}} \cup {{w} : w \in WithdrawalLists}

VARIABLE journey

Payload == Engine!ExecutableDataDeneb
JSONTypes == {Payload, Engine!ExecutionPayloadHeaderDeneb}

\* A document of the engine API or of the genesis file.
Document(t, content, missing) ==
    [f \in Engine!Fields(t) |-> IF f \in missing THEN {} ELSE {content[f]}]

\* External: the document of a payload that an execution client has built.
BuiltPayload(a) ==
    LET doc == [f \in Engine!Fields(Payload) |->
                   IF f = "transactions" THEN {a.txs}
                   ELSE IF f = "withdrawals" THEN a.withdrawals ELSE {a.content[f]}]
    IN [doc EXCEPT !["blockHash"] = {Engine!BlockHash(doc, a.withdrawals, a.root)}]

\* The struct that another validator takes out of the proposer's block.
InBlock(a) ==
    Engine!SSZRoundTrip(Payload, Engine!UnmarshalJSON(Payload, BuiltPayload(a), Engine!New(Payload)).v)
Mixture(v, w, mixed) == [f \in Engine!Fields(Payload) |-> IF f \in mixed THEN w[f] ELSE v[f]]

JourneyInit == journey = [kind |-> "none"]

ReadDocument(t, doc) ==
    /\ journey.kind = "none"
    /\ journey' = [kind |-> "document", type |-> t, doc |-> doc]

\* A block with a's payload, some of it b's, and hashes and parent of a or b.
ReceivePayload(a, b, mixed, h, p) ==
    /\ journey.kind = "none"
    /\ journey' = [kind |-> "payload", of |-> a,
                   request |-> Engine!BuildNewPayloadRequest(Mixture(InBlock(a), InBlock(b), mixed),
                                                             Engine!BlobHashes(h.txs), p.root)]

JourneyNext ==
    \/ \E t \in JSONTypes, content \in Contents, missing \in MissingFields :
           ReadDocument(t, Document(t, content, missing))
    \/ \E a, b \in Proposals, mixed \in MixedFields : \E h, p \in {a, b} :
           ReceivePayload(a, b, mixed, h, p)
JourneySpec == JourneyInit /\ [][JourneyNext]_journey
-----------------------------------------------------------------------------
\* A document is refused exactly if a required field is missing, and then no
\* field behind the missing one was assigned; a document that is accepted holds
\* what it said, zero or nil where it said nothing, and is written back so that
\* it reads the same.
DocumentRead(t, doc) ==
    LET new == Engine!New(t)
        required == t.required
        d == Engine!UnmarshalJSON(t, doc, new)
        missing == {i \in 1 .. Len(required) : doc[required[i]] = {}}
    IN /\ d.ok <=> missing = {}
       /\ d.ok => /\ d.v = [f \in Engine!Fields(t) |-> IF doc[f] = {} THEN new[f] ELSE doc[f]]
                  /\ Engine!UnmarshalJSON(t, Engine!MarshalJSON(t, d.v), new) = d
       /\ \A m \in missing, i \in 1 .. Len(required) : m < i => d.v[required[i]] = new[required[i]]

\* A payload that arrives with the block hash of a is valid exactly if all of it
\* is a's, its transactions can be decoded, and a has withdrawals: a payload
\* without them, as before Shanghai, does not survive, since SSZ makes them an
\* empty list.  The other execution client gets the document that the first one
\* wrote.  No other hash is accepted for the payload of a.
PayloadReceived(a, n) ==
    LET valid == Engine!HasValidVersionedAndBlockHashes(n)
        arrived == n.ExecutionPayload
        built == BuiltPayload(a)
        unmixed == n.ParentBeaconBlockRoot = a.root
                   /\ \A f \in Engine!Fields(Payload) \ {"blockHash"} : arrived[f] = built[f]
    IN /\ arrived["blockHash"] = built["blockHash"] =>
             /\ valid <=> /\ a.withdrawals # {} /\ arrived = InBlock(a)
                          /\ n.ParentBeaconBlockRoot = a.root
                          /\ n.VersionedHashes = Engine!BlobHashes(a.txs)
                          /\ \A i \in 1 .. Len(a.txs) : a.txs[i].decodes
             /\ valid => Engine!MarshalJSON(Payload, arrived) = built
       /\ arrived["blockHash"] # built["blockHash"] /\ unmixed => ~valid

\* From one execution client to another a payload stays what it is, and documents
\* are read as they were written (payload.json.go, payload.ssz.go, requests.go:110-230).
PayloadKeepsIdentity ==
    /\ journey.kind = "document" => DocumentRead(journey.type, journey.doc)
    /\ journey.kind = "payload" => PayloadReceived(journey.of, journey.request)
=============================================================================
