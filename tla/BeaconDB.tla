------------------------------ MODULE BeaconDB ------------------------------
(***************************************************************************)
(* The beacon state database: collections with a prefix each in one        *)
(* key-value store, the registry of validators with its indexes, the       *)
(* slashings with their total, the payload header with the codec that all  *)
(* copies share, and the copies of the store.                              *)
(*                                                                         *)
(* layers[1] is the committed store; every other layer is a cache over the *)
(* one below: the state of the block being finalized, and what Copy makes. *)
(***************************************************************************)
EXTENDS Iteration, Sequences, SequencesExt, FiniteSetsExt

CONSTANTS Pubkeys,    \* public keys of validators
          Balances,   \* effective balances, in increments
          Slots,      \* indices of the slashings
          Amounts,    \* amounts of slashings
          MaxLayers,  \* bound: caches on top of each other
          MaxOps      \* bound: operations in a behaviour

ASSUME AmountsAssumption == Amounts \subseteq Nat /\ Balances \subseteq Nat

VARIABLES layers,     \* sequence of [kv, failed]
          codec,      \* the version that the shared codec decodes headers with
          read,       \* what the last read of the payload header came to
          ops         \* operations so far

dbVars == <<layers, codec, read, ops>>

Deneb == 4
NoVersion == 0
-----------------------------------------------------------------------------
\* A key of the store is a prefix and a key of the collection.  The prefixes of
\* the indexes are strings and begin with the byte "v", 118.
Prefix ==
    [validatorIndex |-> <<4>>, validators |-> <<7>>, balances |-> <<13>>, slashings |-> <<2>>,
     totalSlashing |-> <<3>>, payloadHeader |-> <<17>>, payloadVersion |-> <<18>>,
     pubkeyIndex |-> <<118, "pk_to_idx">>, addressIndex |-> <<118, "cons_addr_to_idx">>,
     balanceIndex |-> <<118, "eff_bal_to_idx">>]
Item == "item"

Has(kv, c, k) == <<Prefix[c], k>> \in DOMAIN kv
GetValue(kv, c, k) == kv[<<Prefix[c], k>>]
GetOr(kv, c, k, default) == IF Has(kv, c, k) THEN GetValue(kv, c, k) ELSE default
Set(kv, c, k, v) ==
    [x \in DOMAIN kv \cup {<<Prefix[c], k>>} |-> IF x = <<Prefix[c], k>> THEN v ELSE kv[x]]
Unset(kv, c, k) == [x \in DOMAIN kv \ {<<Prefix[c], k>>} |-> kv[x]]
KeysOf(kv, c) == {x[2] : x \in {y \in DOMAIN kv : y[1] = Prefix[c]}}

\* The values of a collection with numbers as keys, as Iterate returns them.
Iterate(kv, c) ==
    LET keys == NumberOrder(KeysOf(kv, c))
    IN [i \in 1 .. Cardinality(KeysOf(kv, c)) |-> GetValue(kv, c, keys[i])]

-----------------------------------------------------------------------------
\* The indexes of the validators: two with unique entries and one by balance.
AddressHash(pubkey) == <<"address", pubkey>>
UniqueIndexes == {"pubkeyIndex", "addressIndex"}
\* Mutant: one index twice in the list, and another not at all.
IndexesListWithoutAddress == <<"pubkeyIndex", "balanceIndex", "balanceIndex">>
IndexesList == <<"pubkeyIndex", "balanceIndex", "addressIndex">>
\* The entry of validator i in an index.
Reference(c, i, val) ==
    CASE c = "pubkeyIndex"  -> val.pubkey
      [] c = "addressIndex" -> AddressHash(val.pubkey)
      [] c = "balanceIndex" -> <<val.effectiveBalance, i>>

\* External: Set of an indexed map.  In one index after the other the entry of the
\* old value is removed and that of the new one set, where a unique entry of
\* somebody else is a conflict; the value is set last.
Reindex(r, c, i, val) ==
    LET s == IF Has(r.kv, "validators", i)
             THEN Unset(r.kv, c, Reference(c, i, GetValue(r.kv, "validators", i))) ELSE r.kv
        k == Reference(c, i, val)
    IN IF ~r.ok THEN r
       ELSE IF c \in UniqueIndexes /\ Has(s, c, k) THEN [ok |-> FALSE, kv |-> s]
       ELSE [ok |-> TRUE, kv |-> Set(s, c, k, i)]
SetValidator(kv, i, val) ==
    LET r1 == Reindex([ok |-> TRUE, kv |-> kv], IndexesList[1], i, val)
        r2 == Reindex(r1, IndexesList[2], i, val)
        r3 == Reindex(r2, IndexesList[3], i, val)
    IN IF r3.ok THEN [ok |-> TRUE, kv |-> Set(r3.kv, "validators", i, val)] ELSE r3

\* The sequence advances before anything can be refused.
AddValidator(kv, val) ==
    LET idx == GetOr(kv, "validatorIndex", Item, 0)
        r == SetValidator(Set(kv, "validatorIndex", Item, idx + 1), idx, val)
    IN IF r.ok THEN [ok |-> TRUE, kv |-> Set(r.kv, "balances", idx, val.effectiveBalance)] ELSE r

UpdateValidatorAtIndex(kv, i, val) == SetValidator(kv, i, val)

ValidatorIndexByPubkey(kv, pubkey) ==
    IF Has(kv, "pubkeyIndex", pubkey) THEN {GetValue(kv, "pubkeyIndex", pubkey)} ELSE {}
ValidatorIndexByCometBFTAddress(kv, address) ==
    IF Has(kv, "addressIndex", address) THEN {GetValue(kv, "addressIndex", address)} ELSE {}
ValidatorByIndex(kv, i) == GetValue(kv, "validators", i)
SetEffectiveBalance(val, balance) ==
    [pubkey |-> val.pubkey, effectiveBalance |-> balance, active |-> val.active]
GetValidators(kv) == Iterate(kv, "validators")
GetTotalValidators(kv) == Len(GetValidators(kv))
GetBalances(kv) == Iterate(kv, "balances")

\* The index iterates by balance and then by number of the validator.
GetValidatorsByEffectiveBalance(kv) ==
    LET keys == PairOrder(KeysOf(kv, "balanceIndex"))
    IN [i \in 1 .. Cardinality(KeysOf(kv, "balanceIndex")) |-> ValidatorByIndex(kv, keys[i][2])]
GetTotalActiveBalances(kv) ==
    LET vals == GetValidatorsByEffectiveBalance(kv)
        sum[i \in 0 .. Len(vals)] ==
            IF i = 0 THEN 0
            ELSE sum[i - 1] + IF vals[i].active THEN vals[i].effectiveBalance ELSE 0
    IN sum[Len(vals)]

-----------------------------------------------------------------------------
IncreaseBalance(kv, i, delta) ==
    IF Has(kv, "balances", i)
    THEN [ok |-> TRUE, kv |-> Set(kv, "balances", i, GetValue(kv, "balances", i) + delta)]
    ELSE [ok |-> FALSE, kv |-> kv]
DecreaseBalance(kv, i, delta) ==
    LET balance == GetValue(kv, "balances", i)
    IN IF Has(kv, "balances", i)
       THEN [ok |-> TRUE,
             kv |-> Set(kv, "balances", i, balance - (IF delta < balance THEN delta ELSE balance))]
       ELSE [ok |-> FALSE, kv |-> kv]

GetSlashingAtIndex(kv, i) == GetOr(kv, "slashings", i, 0)
GetTotalSlashing(kv) == GetOr(kv, "totalSlashing", Item, 0)
\* Mutant: the old amount stays in the total.
UpdateSlashingAtIndexAdds(kv, i, amount) ==
    [ok |-> TRUE, kv |-> Set(Set(kv, "totalSlashing", Item, GetTotalSlashing(kv) + amount),
                             "slashings", i, amount)]
UpdateSlashingAtIndex(kv, i, amount) ==
    LET total == GetTotalSlashing(kv)
        oldValue == GetSlashingAtIndex(kv, i)
    IN IF oldValue > total THEN [ok |-> FALSE, kv |-> kv]
       ELSE [ok |-> TRUE, kv |-> Set(Set(kv, "totalSlashing", Item, total - oldValue + amount),
                                     "slashings", i, amount)]

-----------------------------------------------------------------------------
Top == layers[Len(layers)]
Usable == ops < MaxOps /\ ~Top.failed

\* An operation on the top layer; its error fails the block, and with it the layer.
Apply(r) ==
    /\ Usable
    /\ Len(layers) > 1
    /\ layers' = [layers EXCEPT ![Len(layers)] = [kv |-> r.kv, failed |-> ~r.ok]]
    /\ ops' = ops + 1
    /\ UNCHANGED <<codec, read>>

\* A deposit for a new key, and a top-up, as the state processor asks for them.
Add(pubkey, balance) ==
    Apply(AddValidator(Top.kv, [pubkey |-> pubkey, effectiveBalance |-> balance,
                                active |-> balance # Min(Balances)]))
Update(pubkey, balance) ==
    \E i \in ValidatorIndexByPubkey(Top.kv, pubkey) :
        Apply(UpdateValidatorAtIndex(Top.kv, i,
                  SetEffectiveBalance(ValidatorByIndex(Top.kv, i), balance)))
Reward(pubkey, delta) ==
    \E i \in ValidatorIndexByPubkey(Top.kv, pubkey) : Apply(IncreaseBalance(Top.kv, i, delta))
Penalize(pubkey, delta) ==
    \E i \in ValidatorIndexByPubkey(Top.kv, pubkey) : Apply(DecreaseBalance(Top.kv, i, delta))
Slash(i, amount) == Apply(UpdateSlashingAtIndex(Top.kv, i, amount))

SetLatestExecutionPayloadHeader ==
    /\ Usable /\ Len(layers) > 1
    /\ layers' = [layers EXCEPT ![Len(layers)].kv =
                     Set(Set(@, "payloadVersion", Item, Deneb), "payloadHeader", Item, Deneb)]
    /\ codec' = Deneb
    /\ ops' = ops + 1
    /\ UNCHANGED read

\* Decode makes an empty header of the version the codec was last given, and
\* there is none for a version it does not know (payload_header.go:48-61).
DecodeHeader(version) == IF version = Deneb THEN "header" ELSE "panic"
\* Mutant: the codec is left as it was.
GetWithStaleCodec ==
    /\ Usable
    /\ read' = IF Has(Top.kv, "payloadVersion", Item) THEN DecodeHeader(codec) ELSE "error"
    /\ ops' = ops + 1
    /\ UNCHANGED <<layers, codec>>
GetLatestExecutionPayloadHeader ==
    /\ Usable
    /\ codec' = GetOr(Top.kv, "payloadVersion", Item, codec)
    /\ read' = IF Has(Top.kv, "payloadVersion", Item) THEN DecodeHeader(codec') ELSE "error"
    /\ ops' = ops + 1
    /\ UNCHANGED layers

Copy ==
    /\ Usable /\ Len(layers) < MaxLayers
    /\ layers' = Append(layers, Top)
    /\ ops' = ops + 1
    /\ UNCHANGED <<codec, read>>

\* Save writes a cache into the layer below; for the state of a block that is
\* the commit.
Save ==
    /\ Usable /\ Len(layers) > 1
    /\ layers' = [layers EXCEPT ![Len(layers) - 1] = Top]
    /\ ops' = ops + 1
    /\ UNCHANGED <<codec, read>>

Discard ==
    /\ Len(layers) > 1 /\ ops < MaxOps
    /\ layers' = Front(layers)
    /\ ops' = ops + 1
    /\ UNCHANGED <<codec, read>>

Restart ==
    /\ ops < MaxOps
    /\ layers' = <<layers[1]>>
    /\ codec' = NoVersion
    /\ ops' = ops + 1
    /\ UNCHANGED read

\* New; the first layer is empty, and so is the codec.
DbInit ==
    /\ layers = <<[kv |-> <<>>, failed |-> FALSE]>>
    /\ codec = NoVersion
    /\ read = "none"
    /\ ops = 0

DbNext ==
    \/ \E p \in Pubkeys, b \in Balances : Add(p, b) \/ Update(p, b)
    \/ \E p \in Pubkeys : Reward(p, 1) \/ Penalize(p, 2)
    \/ \E i \in Slots, a \in Amounts : Slash(i, a)
    \/ SetLatestExecutionPayloadHeader
    \/ GetLatestExecutionPayloadHeader
    \/ Copy
    \/ Save
    \/ Discard
    \/ Restart

DbSpec == DbInit /\ [][DbNext]_dbVars
-----------------------------------------------------------------------------
\* The stores that no error has spoiled: all but the copies of failed transitions.
Sound == {layers[l].kv : l \in {k \in DOMAIN layers : ~layers[k].failed}}

\* Validators and balances have the indices that the sequence has given out, from
\* zero without a gap; the two unique indexes and the index by balance hold an
\* entry for every validator, its current one, and no other.
Aligned(kv) ==
    LET n == GetOr(kv, "validatorIndex", Item, 0)
        indices == 0 .. n - 1
    IN /\ n \in Nat
       /\ KeysOf(kv, "validators") = indices
       /\ KeysOf(kv, "balances") = indices
       /\ \A i \in indices :
             LET val == ValidatorByIndex(kv, i)
             IN /\ ValidatorIndexByPubkey(kv, val.pubkey) = {i}
                /\ ValidatorIndexByCometBFTAddress(kv, AddressHash(val.pubkey)) = {i}
       /\ KeysOf(kv, "pubkeyIndex") = {ValidatorByIndex(kv, i).pubkey : i \in indices}
       /\ KeysOf(kv, "addressIndex") = {AddressHash(ValidatorByIndex(kv, i).pubkey) : i \in indices}
       /\ KeysOf(kv, "balanceIndex") = {<<ValidatorByIndex(kv, i).effectiveBalance, i>> : i \in indices}
IndexesAligned == \A kv \in Sound : Aligned(kv)

\* The stake of the active validators, unit by unit.
ActiveUnits(kv) ==
    UNION {{i} \X (1 .. ValidatorByIndex(kv, i).effectiveBalance) :
               i \in {j \in KeysOf(kv, "validators") : ValidatorByIndex(kv, j).active}}

\* The committee is drawn from every validator once, poorest first, and the
\* total that penalties are shares of counts every active validator once
\* (state_processor_committee.go:37, state_processor_slashing.go:96).
CommitteeDrawn ==
    \A kv \in Sound :
        LET vals == GetValidatorsByEffectiveBalance(kv)
            all == GetValidators(kv)
        IN /\ Len(vals) = Len(all) /\ ToSet(vals) = ToSet(all)
           /\ GetTotalValidators(kv) = GetOr(kv, "validatorIndex", Item, 0)
           /\ \A i \in 2 .. Len(vals) : vals[i - 1].effectiveBalance <= vals[i].effectiveBalance
           /\ GetTotalActiveBalances(kv) = Cardinality(ActiveUnits(kv))

\* The registry is the same through every way that the code reads it
\* (registry.go, index/validator.go).
RegistryAligned == IndexesAligned /\ CommitteeDrawn

\* What has been slashed, unit by unit.
SlashedUnits(kv) ==
    UNION {{i} \X (1 .. GetSlashingAtIndex(kv, i)) : i \in KeysOf(kv, "slashings")}

\* The total of the slashings is their sum, so that the check that the old value
\* is not above the total never fails a block (statedb.go:172-176).
TotalSlashingIsSum == \A kv \in Sound : GetTotalSlashing(kv) = Cardinality(SlashedUnits(kv))

\* A payload header is decoded with the version that it was stored with, on any
\* copy and after a restart, when the codec has no version yet (eth1.go:23-53).
HeaderReadable == read # "panic"

-----------------------------------------------------------------------------
(***************************************************************************)
(* The inductive strengthening.                                            *)
(***************************************************************************)
\* Every key of a store is a prefix with a key of its collection.
IsStore(kv) == \A x \in DOMAIN kv : x = <<x[1], x[2]>>

SlashingsAdded(kv) ==
    /\ \A i \in KeysOf(kv, "slashings") : GetValue(kv, "slashings", i) \in Nat
    /\ IsFiniteSet(SlashedUnits(kv))
    /\ GetTotalSlashing(kv) = Cardinality(SlashedUnits(kv))

EffectiveBalancesCount(kv) ==
    \A i \in KeysOf(kv, "validators") : ValidatorByIndex(kv, i).effectiveBalance \in Nat

VersionKnown(kv) == Has(kv, "payloadVersion", Item) => GetValue(kv, "payloadVersion", Item) = Deneb

LayerRight(layer) ==
    /\ layer = [kv |-> layer.kv, failed |-> layer.failed]
    /\ ~layer.failed => /\ IsStore(layer.kv)
                        /\ Aligned(layer.kv)
                        /\ SlashingsAdded(layer.kv)
                        /\ EffectiveBalancesCount(layer.kv)
                        /\ VersionKnown(layer.kv)

\* There is always the committed layer, and every layer is right.
DbInv ==
    /\ layers \in Seq({layers[l] : l \in 1 .. Len(layers)}) /\ layers # <<>>
    /\ \A l \in 1 .. Len(layers) : LayerRight(layers[l])
    /\ HeaderReadable
=============================================================================
