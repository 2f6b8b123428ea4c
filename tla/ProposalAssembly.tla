-------------------------- MODULE ProposalAssembly --------------------------
(***************************************************************************)
(* An honest proposer assembles a block with blobs and another validator   *)
(* verifies the proposal.  RequestBlockForProposal (beacon/validator)      *)
(* computes and sets the block's state root in one goroutine while         *)
(* BuildSidecars (da/pkg/blob), in another, starts a goroutine per blob    *)
(* that copies the header of the same block into its sidecar.  The         *)
(* verifier checks the block and the sidecars side by side.                *)
(***************************************************************************)
EXTENDS Integers

CONSTANTS
    NumBlobs,  \* blobs in the payload's bundle
    None       \* nothing yet

\* What a read of the block's state root may give while it is being written.
StateRoots == {"zero", "torn", "computed"}

VARIABLES
    stateRoot,  \* the field of the block under construction
    header,     \* header[i]: the state root in the header of sidecar i
    published,  \* the proposal has been handed to CometBFT
    blockErr,   \* result of VerifyIncomingBlock
    blobsErr    \* result of VerifyIncomingBlobs

vars == <<stateRoot, header, published, blockErr, blobsErr>>

Blobs == 1..NumBlobs

Init ==
    /\ stateRoot = "zero"
    /\ header = [i \in Blobs |-> None]
    /\ published = FALSE
    /\ blockErr = None
    /\ blobsErr = None

\* The goroutine of blob i has its inclusion proof and copies the header.
BuildSidecar(i) ==
    /\ header[i] = None
    /\ header' = [header EXCEPT ![i] = stateRoot]
    /\ UNCHANGED <<stateRoot, published, blockErr, blobsErr>>

\* computeAndSetStateRoot ends: 32 bytes are written without a lock.
BeginSetStateRoot ==
    /\ stateRoot = "zero"
    /\ stateRoot' = "torn"
    /\ UNCHANGED <<header, published, blockErr, blobsErr>>

EndSetStateRoot ==
    /\ stateRoot = "torn"
    /\ stateRoot' = "computed"
    /\ UNCHANGED <<header, published, blockErr, blobsErr>>

\* g.Wait() in RequestBlockForProposal, then PrepareProposalHandler.
Publish ==
    /\ ~published
    /\ stateRoot = "computed"
    /\ \A i \in Blobs : header[i] # None
    /\ published' = TRUE
    /\ UNCHANGED <<stateRoot, header, blockErr, blobsErr>>

\* The verifier's transition finds the state root that the proposer computed.
VerifyIncomingBlock ==
    /\ published
    /\ blockErr = None
    /\ blockErr' = (stateRoot # "computed")
    /\ UNCHANGED <<stateRoot, header, published, blobsErr>>

\* ValidateBlockRoots compares the roots of the sidecars' headers.  The inclusion
\* proofs are checked against the body root, which no goroutine changes.
ValidateBlockRoots == \A i \in Blobs : header[i] = header[1]

VerifyIncomingBlobs ==
    /\ published
    /\ blobsErr = None
    /\ blobsErr' = (NumBlobs > 0 /\ ~ValidateBlockRoots)
    /\ UNCHANGED <<stateRoot, header, published, blockErr>>

Next ==
    \/ \E i \in Blobs : BuildSidecar(i)
    \/ BeginSetStateRoot
    \/ EndSetStateRoot
    \/ Publish
    \/ VerifyIncomingBlock
    \/ VerifyIncomingBlobs

Spec == Init /\ [][Next]_vars

\* sidecars.go:41-42: "ValidateBlockRoots checks to make sure that all blobs in the
\* sidecar are from the same block."  All the sidecars of an honest proposal are
\* from the same block, so the check does not reject them.
HonestSidecarsAccepted == blobsErr # TRUE
=============================================================================
