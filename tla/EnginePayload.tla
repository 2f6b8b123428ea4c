---------------------------- MODULE EnginePayload ----------------------------
(***************************************************************************)
(* An execution payload on its way from the execution client of the        *)
(* proposer to that of another validator: JSON, the struct, SSZ in the     *)
(* block, the struct, the check of its hashes, and JSON again.             *)
(*                                                                         *)
(* A field of a document or of a struct is a set: {x} holds x, {} is null  *)
(* or absent in a document and a nil slice in a struct.                    *)
(***************************************************************************)
EXTENDS Naturals, Sequences, SequencesExt

Zero == "0"
Empty == ""

\* The fields that both types have, in the order of the decoder.
Common == <<"parentHash", "feeRecipient", "stateRoot", "receiptsRoot", "logsBloom", "prevRandao",
            "blockNumber", "gasLimit", "gasUsed", "timestamp", "extraData", "baseFeePerGas",
            "blockHash">>

ExecutableDataDeneb ==
    [required |-> Append(Common, "transactions"),
     optional |-> {"withdrawals", "blobGasUsed", "excessBlobGas"},
     bytes |-> {"logsBloom", "extraData"}, lists |-> {"transactions", "withdrawals"}]

ExecutionPayloadHeaderDeneb ==
    [required |-> Append(Common, "transactionsRoot"),
     optional |-> {"withdrawalsRoot", "blobGasUsed", "excessBlobGas"},
     bytes |-> {"logsBloom", "extraData"}, lists |-> {}]

Fields(t) == ToSet(t.required) \cup t.optional

\* A struct as new makes it: its slices are nil.
New(t) == [f \in Fields(t) |-> IF f \in t.bytes \cup t.lists THEN {} ELSE {Zero}]

\* A nil byte slice is written as an empty string, a nil list as null.
MarshalJSON(t, v) ==
    [f \in Fields(t) |-> IF f \in t.bytes /\ v[f] = {} THEN {Empty} ELSE v[f]]

\* The fields are assigned in order up to the first required one that is
\* missing; an optional one that is missing keeps what the receiver had.
Decoded(required, t, doc, into) ==
    LET missing == {i \in 1 .. Len(required) : doc[required[i]] = {}}
        set == {required[i] : i \in {j \in 1 .. Len(required) : \A m \in missing : j < m}}
               \cup (IF missing = {} THEN Fields(t) \ ToSet(required) ELSE {})
    IN [ok |-> missing = {},
        v |-> [f \in Fields(t) |-> IF f \in set /\ doc[f] # {} THEN doc[f] ELSE into[f]]]
UnmarshalJSON(t, doc, into) == Decoded(t.required, t, doc, into)

\* Through the block: the lists of what UnmarshalSSZ returns are never nil.
SSZRoundTrip(t, v) ==
    [f \in Fields(t) |-> IF f \in t.lists /\ v[f] = {} THEN {<<>>} ELSE v[f]]

-----------------------------------------------------------------------------
\* The transactions and withdrawals of a struct, none for a nil slice.
Elements(field) == IF field = {} THEN <<>> ELSE CHOOSE s \in field : TRUE

BuildNewPayloadRequest(payload, versionedHashes, parentBeaconBlockRoot) ==
    [ExecutionPayload |-> payload, VersionedHashes |-> versionedHashes,
     ParentBeaconBlockRoot |-> parentBeaconBlockRoot]

\* External: the hash of a block commits to every field but itself, and tells
\* no withdrawals from an empty list of them.
BlockHash(payload, withdrawals, root) ==
    [fields |-> [f \in Fields(ExecutableDataDeneb) \ {"blockHash", "withdrawals"} |-> payload[f]],
     withdrawals |-> withdrawals, root |-> root]

\* The versioned hashes of the blobs of all transactions; a transaction is
\* [decodes, blobs].
BlobHashes(txs) == FlattenSeq([i \in 1 .. Len(txs) |-> txs[i].blobs])

\* nilWithdrawals says whether the header has no withdrawals hash.
ValidHashes(n, nilWithdrawals) ==
    LET payload == n.ExecutionPayload
        txs == Elements(payload["transactions"])
        blobHashes == BlobHashes(txs)
        withdrawals == IF nilWithdrawals THEN {} ELSE {Elements(payload["withdrawals"])}
    IN /\ \A i \in 1 .. Len(txs) : txs[i].decodes
       /\ Len(blobHashes) = Len(n.VersionedHashes)
       /\ \A i \in 1 .. Len(blobHashes) : blobHashes[i] = n.VersionedHashes[i]
       /\ payload["blockHash"] = {BlockHash(payload, withdrawals, n.ParentBeaconBlockRoot)}
\* Mutant: an empty list of withdrawals has no hash.
HasValidVersionedAndBlockHashesByLength(n) ==
    ValidHashes(n, Elements(n.ExecutionPayload["withdrawals"]) = <<>>)
HasValidVersionedAndBlockHashes(n) == ValidHashes(n, n.ExecutionPayload["withdrawals"] = {})
=============================================================================
