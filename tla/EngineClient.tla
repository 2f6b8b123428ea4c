---------------------------- MODULE EngineClient ----------------------------
(***************************************************************************)
(* The client of the execution engine: its connection, and how it and the  *)
(* engine on top of it classify what the execution client answers.  A      *)
(* status is an answer of the execution client; the other answers are the  *)
(* ways in which a call fails.  An error is a string, NoError if there is  *)
(* none.                                                                   *)
(***************************************************************************)
EXTENDS Naturals, Sequences

CONSTANT MaxElFaults   \* bound: how often the execution client goes away

ASSUME ElFaultsAssumption == MaxElFaults \in Nat

VARIABLES
    transport,  \* "http" or "ipc": the configured RPCDialURL, never changed
    el,         \* the execution client: "down", "up", or up on the "wrong" chain
    elFaults,   \* how often it went down
    client      \* Eth1Client.Client: "nil", "open" or "closed"

NoError == "none"

-----------------------------------------------------------------------------
\* What NewPayload and ForkchoiceUpdated can be answered while el is reachable,
\* and what becomes of any call while it is not.
Statuses == {"VALID", "INVALID", "SYNCING", "ACCEPTED", "INVALID_BLOCK_HASH"}
Failures == {"timeout", "refused", "401", "null", "-32700", "-32601", "-32603",
             "-38001", "-38002", "-32000", "-1"}
Unreachable == {"timeout", "refused"}

\* Mutant: an unknown status is as good as VALID.
processPayloadStatusAny(status) ==
    CASE status = "ACCEPTED" -> "ErrAcceptedPayloadStatus"
      [] status = "SYNCING"  -> "ErrSyncingPayloadStatus"
      [] status = "INVALID"  -> "ErrInvalidPayloadStatus"
      [] OTHER               -> NoError

\* A connection that is refused for want of a token is not recognised: the
\* check is made on the value that could not be converted.
handleRPCError(answer) ==
    CASE answer = "timeout" -> "ErrTimeout"
      [] answer \in {"refused", "401"} -> "unexpected server error"
      [] answer = "-32700"  -> "ErrParse"
      [] answer = "-32601"  -> "ErrMethodNotFound"
      [] answer = "-32603"  -> "ErrInternal"
      [] answer = "-38001"  -> "ErrUnknownPayload"
      [] answer = "-38002"  -> "ErrInvalidForkchoiceState"
      [] answer = "-32000"  -> "ErrServer"
      [] OTHER              -> "other"
IsPreDefinedError(err) ==
    err \in {"ErrParse", "ErrInvalidRequest", "ErrMethodNotFound", "ErrInvalidParams",
             "ErrInternal", "ErrServer", "ErrServerParse"}

processPayloadStatusResult(status) ==
    CASE status = "ACCEPTED" -> "ErrAcceptedPayloadStatus"
      [] status = "SYNCING"  -> "ErrSyncingPayloadStatus"
      [] status = "INVALID"  -> "ErrInvalidPayloadStatus"
      [] status = "VALID"    -> NoError
      [] OTHER               -> "ErrUnknownPayloadStatus"

NewPayload(answer) ==
    CASE answer = "null"      -> "ErrUnknownPayloadStatus"  \* an empty result, not a nil one
      [] answer \in Statuses  -> processPayloadStatusResult(answer)
      [] OTHER                -> handleRPCError(answer)

\* id: whether the answer carries a payload ID.
ForkchoiceUpdated(answer, id) ==
    LET err == CASE answer = "null"     -> "unexpected server error"
                 [] answer \in Statuses -> processPayloadStatusResult(answer)
                 [] OTHER               -> handleRPCError(answer)
    IN [id |-> id /\ err = NoError, err |-> err]

\* A nil bundle is not seen to be nil in its interface, so that the caller
\* panics on it; the base application recovers.
GetPayload(answer) ==
    CASE answer = "null"  -> "panic"
      [] answer = "VALID" -> NoError
      [] OTHER            -> handleRPCError(answer)

-----------------------------------------------------------------------------
(***************************************************************************)
(* The engine.                                                             *)
(***************************************************************************)
NotifyForkchoiceUpdate(answer, id, hasPayloadAttributes) ==
    LET r == ForkchoiceUpdated(answer, id)
    IN CASE r.err \in {"ErrAcceptedPayloadStatus", "ErrSyncingPayloadStatus"} ->
                [id |-> r.id, err |-> NoError]
         [] r.err = "ErrInvalidPayloadStatus" -> [id |-> r.id, err |-> "ErrBadBlockProduced"]
         [] IsPreDefinedError(r.err) -> [id |-> FALSE, err |-> "ErrPreDefinedJSONRPC"]
         [] r.err = NoError -> [id  |-> r.id,
                                err |-> IF ~r.id /\ hasPayloadAttributes
                                        THEN "ErrNilPayloadOnValidResponse" ELSE NoError]
         [] OTHER -> [id |-> FALSE, err |-> r.err]

\* Mutant: an error is passed on in FinalizeBlock too.
VerifyAndNotifyNewPayloadStrict(answer, hashesMatch, optimistic) ==
    IF hashesMatch THEN NewPayload(answer) ELSE "ErrPayloadBlockHashMismatch"

VerifyAndNotifyNewPayload(answer, hashesMatch, optimistic) ==
    LET err == NewPayload(answer)
    IN IF ~hashesMatch THEN "ErrPayloadBlockHashMismatch"
       ELSE IF err = "ErrInvalidPayloadStatus" THEN "ErrBadBlockProduced"
       ELSE IF optimistic THEN NoError
       ELSE IF IsPreDefinedError(err) THEN "ErrPreDefinedJSONRPC"
       ELSE err

\* What a call can be answered, by the state of the execution client.
AnyAnswer == Statuses \cup Failures
Answers == [e \in {"up", "down", "wrong"} |-> IF e = "up" THEN AnyAnswer ELSE Unreachable]

\* RetrievePayload or RequestPayloadSync: a payload ID, then its payload.
RequestPayload(fcu, id, get) ==
    LET r == NotifyForkchoiceUpdate(fcu, id, TRUE)
    IN IF r.err # NoError THEN r.err
       ELSE IF ~r.id THEN "ErrNilPayloadID" ELSE GetPayload(get)
PayloadOutcomes ==
    [e \in {"up", "down", "wrong"} |->
        {RequestPayload(fcu, id, get) = NoError :
            fcu \in Answers[e], id \in BOOLEAN, get \in Answers[e]}]

-----------------------------------------------------------------------------
(***************************************************************************)
(* The connection.  An HTTP client is made without connecting and is not   *)
(* affected by Close; an IPC client connects when it is dialled.           *)
(***************************************************************************)
dialFails == transport = "ipc" /\ el = "down"

\* The outcome of one attempt: "ok", "retry", or "panic" for the Close of a
\* client that was never made.
initializeConnection ==
    IF dialFails THEN (IF client = "nil" THEN "panic" ELSE "retry")
    ELSE IF el # "up" THEN "retry" ELSE "ok"
clientAfter ==
    IF dialFails THEN client
    ELSE IF initializeConnection = "ok" \/ transport = "http" THEN "open" ELSE "closed"

ElDown == /\ el \in {"up", "wrong"} /\ elFaults < MaxElFaults
          /\ el' = "down" /\ elFaults' = elFaults + 1
ElUp == /\ el = "down"
        /\ \E chain \in {"up", "wrong"} :
               /\ chain = "up" \/ elFaults < MaxElFaults
               /\ el' = chain
        /\ UNCHANGED elFaults
=============================================================================
