--------------------------- MODULE GenesisCeremony ---------------------------
(***************************************************************************)
(* How the first validators come into the state: the commands that add a   *)
(* premined deposit, collect the deposits and add the execution payload    *)
(* to the genesis file, and InitGenesis, which makes the state out of the  *)
(* file.  A deposit is valid only under the fork data that it was signed   *)
(* for, and at genesis the root of the validators is not known yet.        *)
(***************************************************************************)
EXTENDS Iteration, Sequences, SequencesExt

CONSTANTS
    DepositKeys,                \* public keys, numbered in the order of their files' names
    DepositAmounts,             \* of a deposit
    ExtraLengths,               \* of the extra data in the execution client's genesis
    EffectiveBalanceIncrement,
    MaxEffectiveBalance,
    MaxGenesisDeposits,         \* bound: deposits in the genesis file
    MaxInterrupts               \* bound: commands that end half-way

ASSUME GenesisAssumption ==
    /\ DepositKeys \subseteq Nat /\ IsFiniteSet(DepositKeys)
    /\ DepositAmounts \subseteq Nat /\ ExtraLengths \subseteq Nat
    /\ EffectiveBalanceIncrement \in Nat \ {0} /\ MaxEffectiveBalance \in Nat

VARIABLES
    files,       \* by public key: no file, or one with no or one deposit in it
    writing,     \* the deposits whose commands have created their files
    genesis,     \* the beacon part of the genesis file
    chain,       \* the state after InitGenesis, if it has run
    interrupts   \* commands that ended half-way
genesisVars == <<files, writing, genesis, chain, interrupts>>
-----------------------------------------------------------------------------
(***************************************************************************)
(* Deposit messages.  A root, a domain and a signature are what they are   *)
(* made of.                                                                *)
(***************************************************************************)
ZeroRoot == <<>>
ValidatorsRoot(validators) == <<validators>>
NewForkData(version, root) == [version |-> version, root |-> root]
ComputeDomain(forkData) == [type |-> "deposit", of |-> forkData]
ComputeSigningRoot(msg, domain) == [msg |-> msg, domain |-> domain]
Sign(pubkey, root) == [by |-> pubkey, root |-> root]

depositMessage(pubkey, amount) == [pubkey |-> pubkey, amount |-> amount]
CreateAndSignDepositMessage(forkData, pubkey, amount) ==
    Sign(pubkey, ComputeSigningRoot(depositMessage(pubkey, amount), ComputeDomain(forkData)))
VerifyCreateValidator(msg, forkData, signature) ==
    signature = Sign(msg.pubkey, ComputeSigningRoot(msg, ComputeDomain(forkData)))
VerifySignature(dep, forkData) ==
    VerifyCreateValidator(depositMessage(dep.pubkey, dep.amount), forkData, dep.signature)

SignedDeposit(forkData, pubkey, amount) ==
    [pubkey |-> pubkey, amount |-> amount, index |-> 0,
     signature |-> CreateAndSignDepositMessage(forkData, pubkey, amount)]

\* Mutant: the premined deposits are signed for a chain without validators.
PreminedForkDataOfNone == NewForkData("deneb", ValidatorsRoot(<<>>))

PreminedForkData == NewForkData("deneb", ZeroRoot)

\* The call data that create-validator prints for the deposit contract.
createValidatorCmd(pubkey, amount, version, root) ==
    SignedDeposit(NewForkData(version, root), pubkey, amount)
-----------------------------------------------------------------------------
\* add-premined-deposit signs, creates the file unless there is one, and then
\* writes the deposit into it.
AddGenesisDeposit(pubkey, amount) ==
    /\ chain = {} /\ files[pubkey] = {}
    /\ files' = [files EXCEPT ![pubkey] = {<<>>}]
    /\ writing' = writing \cup {SignedDeposit(PreminedForkData, pubkey, amount)}
    /\ UNCHANGED <<genesis, chain, interrupts>>
writeDepositToFile(dep) ==
    /\ files' = [files EXCEPT ![dep.pubkey] = {<<dep>>}]
    /\ writing' = writing \ {dep}
    /\ UNCHANGED <<genesis, chain, interrupts>>
Interrupt(dep) ==
    /\ interrupts < MaxInterrupts
    /\ interrupts' = interrupts + 1
    /\ writing' = writing \ {dep}
    /\ UNCHANGED <<files, genesis, chain>>

\* The files by name; one that cannot be parsed is an error.
CollectValidatorJSONFiles == NumberOrder({p \in DepositKeys : files[p] # {}})
Parsed(p) == files[p] # {<<>>}
Content(p) == Head(CHOOSE c \in files[p] : TRUE)
CollectGenesisDeposits ==
    LET names == CollectValidatorJSONFiles
        collected == [i \in DOMAIN names |-> [Content(names[i]) EXCEPT !.index = i - 1]]
    IN /\ chain = {}
       /\ \E p \in DepositKeys : files[p] # {}
       /\ \A p \in DepositKeys : Parsed(p)
       /\ Len(genesis.deposits) + Len(names) <= MaxGenesisDeposits
       /\ genesis' = [genesis EXCEPT !.deposits = @ \o collected]
       /\ UNCHANGED <<files, writing, chain, interrupts>>

\* The genesis block of the execution client as a header, of which only the
\* length of the extra data matters to the codecs.
ExtraDataLength == 32
executableDataToExecutionPayloadHeader(extra) ==
    [extra |-> IF extra > ExtraDataLength THEN ExtraDataLength ELSE extra]
AddExecutionPayload(extra) ==
    /\ chain = {}
    /\ genesis' = [genesis EXCEPT !.header = executableDataToExecutionPayloadHeader(extra)]
    /\ UNCHANGED <<files, writing, chain, interrupts>>

DefaultGenesisDeneb ==
    [version |-> "deneb", deposits |-> <<>>, header |-> [extra |-> ExtraDataLength]]
-----------------------------------------------------------------------------
AtMost(x, bound) == IF x > bound THEN bound ELSE x
NewValidator(dep) ==
    [pubkey |-> dep.pubkey,
     effective |-> AtMost(dep.amount - (dep.amount % EffectiveBalanceIncrement),
                          MaxEffectiveBalance)]
IndexByPubkey(st, pubkey) == {i \in DOMAIN st.validators : st.validators[i].pubkey = pubkey}
\* The signature is checked for a validator that is new, under the root the
\* state has at that time; the index of the deposit is not looked at.
processDeposit(st, dep) ==
    LET counted == [st EXCEPT !.eth1DepositIndex = @ + 1]
        known == IndexByPubkey(st, dep.pubkey)
    IN IF ~st.ok THEN st
       ELSE IF known # {}
            THEN LET i == CHOOSE j \in known : TRUE
                 IN [counted EXCEPT !.validators[i].effective =
                         AtMost(@ + dep.amount, MaxEffectiveBalance)]
            ELSE IF VerifySignature(dep, NewForkData("deneb", st.genesisValidatorsRoot))
                 THEN [counted EXCEPT !.validators = Append(@, NewValidator(dep))]
                 ELSE [counted EXCEPT !.ok = FALSE]

\* The root is zero for the deposits and that of the validators from then on.
\* The header is stored by its SSZ codec, which has room for 32 bytes of extra data.
InitializePreminedBeaconStateFromEth1(deposits, header) ==
    LET primed == [ok |-> TRUE, eth1DepositIndex |-> 0, validators |-> <<>>,
                   genesisValidatorsRoot |-> ZeroRoot]
        after[n \in 0 .. Len(deposits)] ==
            IF n = 0 THEN primed ELSE processDeposit(after[n - 1], deposits[n])
        st == after[Len(deposits)]
    IN [st EXCEPT !.genesisValidatorsRoot = ValidatorsRoot(st.validators),
                  !.ok = @ /\ header.extra <= ExtraDataLength]
ProcessGenesisData(data) == InitializePreminedBeaconStateFromEth1(data.deposits, data.header)

InitGenesis ==
    /\ chain = {}
    /\ chain' = {ProcessGenesisData(genesis)}
    /\ UNCHANGED <<files, writing, genesis, interrupts>>
-----------------------------------------------------------------------------
GenesisInit ==
    /\ files = [p \in DepositKeys |-> {}] /\ writing = {}
    /\ genesis = DefaultGenesisDeneb /\ chain = {} /\ interrupts = 0
GenesisNext ==
    \/ \E p \in DepositKeys, a \in DepositAmounts : AddGenesisDeposit(p, a)
    \/ \E dep \in writing : writeDepositToFile(dep)
    \/ \E dep \in writing : Interrupt(dep)
    \/ CollectGenesisDeposits
    \/ \E extra \in ExtraLengths : AddExecutionPayload(extra)
    \/ InitGenesis
GenesisSpec == GenesisInit /\ [][GenesisNext]_genesisVars
-----------------------------------------------------------------------------
\* What deposit n adds to the stake of a key: whole increments if it is the first for
\* this key, and all of it if it is a top-up.
Share(deposits, pubkey, n) ==
    LET dep == deposits[n]
        first == \A m \in 1 .. n - 1 : deposits[m].pubkey # pubkey
    IN IF dep.pubkey # pubkey THEN 0
       ELSE IF first THEN dep.amount - (dep.amount % EffectiveBalanceIncrement) ELSE dep.amount
Deposited(deposits, pubkey) ==
    LET sum[n \in 0 .. Len(deposits)] ==
            IF n = 0 THEN 0 ELSE sum[n - 1] + Share(deposits, pubkey, n)
    IN AtMost(sum[Len(deposits)], MaxEffectiveBalance)

\* A genesis file that the commands have written always makes a state, whichever
\* of them were interrupted, came first or ran twice: every collected key is one
\* validator with what was deposited for it, the counter of deposits is their
\* number, and from then on the signatures of the ceremony create no validator
\* while those of create-validator for this chain do (state_processor_genesis.go:
\* 100-130, deposit_message.go:49-119).
GenesisFollowsFiles ==
    \A st \in chain :
        /\ st.ok
        /\ st.eth1DepositIndex = Len(genesis.deposits)
        /\ Cardinality({d.pubkey : d \in ToSet(genesis.deposits)}) = Len(st.validators)
        /\ \A i \in DOMAIN st.validators : 
              st.validators[i].effective = Deposited(genesis.deposits, st.validators[i].pubkey)
        /\ LET forkData == NewForkData("deneb", st.genesisValidatorsRoot)
           IN /\ \A d \in ToSet(genesis.deposits) : ~VerifySignature(d, forkData)
              /\ \A p \in DepositKeys, a \in DepositAmounts, root \in {ZeroRoot, st.genesisValidatorsRoot} :
                    VerifySignature(createValidatorCmd(p, a, "deneb", root), forkData)
                        <=> root = st.genesisValidatorsRoot
=============================================================================
