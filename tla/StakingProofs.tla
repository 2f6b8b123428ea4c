--------------------------- MODULE StakingProofs ---------------------------
(***************************************************************************)
(* Theorems about Staking for every set of deposits and every value of the *)
(* chain-spec constants.                                                   *)
(***************************************************************************)
EXTENDS Staking, NumberLemmas, TLAPS

-----------------------------------------------------------------------------
(* The sweep.                                                              *)

LEMMA SmallerIs ==
    ASSUME NEW a \in Nat, NEW b \in Nat
    PROVE  Smaller(a, b) \in Nat /\ Smaller(a, b) <= a /\ Smaller(a, b) <= b
BY DEF Smaller

-----------------------------------------------------------------------------
(* What deposits do to a state.                                            *)

LEMMA NewValidatorOK ==
    ASSUME NEW dep \in AllDeposits
    PROVE  /\ NewValidator(dep) \in Validators
           /\ NewValidator(dep).pubkey = dep.pubkey
           /\ NewValidator(dep).effective <= MaxEffectiveBalance
           /\ InitialBalance(dep) \in Nat
<1> DEFINE a == dep.amount
           m == a % EffectiveBalanceIncrement
<1>1. a \in Nat /\ dep.pubkey \in Pubkeys /\ dep.eth1 \in BOOLEAN
  BY DEF AllDeposits
<1>2. EffectiveBalanceIncrement \in Nat \ {0} /\ MaxEffectiveBalance \in Nat
  BY StakingAssumption
<1>3. m \in Nat /\ m <= a
  <2>1. m \in Nat
    BY <1>1, <1>2, ModRange
  <2>2. /\ a \div EffectiveBalanceIncrement \in Nat
        /\ a = EffectiveBalanceIncrement * (a \div EffectiveBalanceIncrement) + m
    BY <1>1, <1>2, DivMod
  <2>3. EffectiveBalanceIncrement * (a \div EffectiveBalanceIncrement) \in Nat
    BY <1>2, <2>2
  <2> HIDE DEF m, a
  <2> QED BY <1>1, <2>1, <2>2, <2>3
<1>4. a - m \in Nat
  <2> HIDE DEF m, a
  <2> QED BY <1>1, <1>3
<1>5. Smaller(a - m, MaxEffectiveBalance) \in Nat /\ Smaller(a - m, MaxEffectiveBalance) <= MaxEffectiveBalance
  <2> HIDE DEF m, a
  <2> QED BY <1>2, <1>4, SmallerIs
<1>6. NewValidator(dep).effective = Smaller(a - m, MaxEffectiveBalance)
  BY DEF NewValidator
<1>7. NewValidator(dep) \in Validators
  BY <1>1, <1>5 DEF NewValidator, Validators
<1>8. NewValidator(dep).pubkey = dep.pubkey
  BY DEF NewValidator
<1>9. InitialBalance(dep) \in Nat
  BY <1>1, <1>5, <1>6 DEF InitialBalance
<1> QED BY <1>5, <1>6, <1>7, <1>8, <1>9

LEMMA StateParts ==
    ASSUME NEW s, StateOK(s)
    PROVE  /\ s \in States
           /\ Len(s.validators) \in Nat \ {0}
           /\ DOMAIN s.validators = 1..Len(s.validators)
           /\ DOMAIN s.balances = 1..Len(s.validators)
           /\ Len(s.balances) = Len(s.validators)
           /\ s.validators \in Seq(Validators)
           /\ s.balances \in Seq(Nat)
           /\ \A i \in 1..Len(s.validators) :
                 /\ s.validators[i] \in Validators
                 /\ s.validators[i].effective \in Nat
                 /\ s.validators[i].effective <= MaxEffectiveBalance
                 /\ s.balances[i] \in Nat
           /\ s.slot \in Nat /\ s.eth1DepositIndex \in Nat
           /\ s.nextWithdrawalIndex \in Nat /\ s.nextWithdrawalValidatorIndex \in Nat
<1>1. /\ s \in States
      /\ s.validators # <<>>
      /\ Len(s.balances) = Len(s.validators)
      /\ \A i \in DOMAIN s.validators : s.validators[i].effective <= MaxEffectiveBalance
  BY DEF StateOK
<1>2. /\ s.validators \in Seq(Validators) /\ s.balances \in Seq(Nat)
      /\ s.slot \in Nat /\ s.eth1DepositIndex \in Nat
      /\ s.nextWithdrawalIndex \in Nat /\ s.nextWithdrawalValidatorIndex \in Nat
  BY <1>1 DEF States
<1>3. /\ Len(s.validators) \in Nat \ {0}
      /\ DOMAIN s.validators = 1..Len(s.validators)
      /\ \A i \in 1..Len(s.validators) : s.validators[i] \in Validators
  BY <1>1, <1>2
<1>4. /\ DOMAIN s.balances = 1..Len(s.validators)
      /\ \A i \in 1..Len(s.validators) : s.balances[i] \in Nat
  BY <1>1, <1>2
<1>5. \A i \in 1..Len(s.validators) : s.validators[i].effective \in Nat
  BY <1>3 DEF Validators
<1> QED BY <1>1, <1>2, <1>3, <1>4, <1>5

LEMMA WithBalances ==
    ASSUME NEW s \in States, NEW B \in Seq(Nat),
           NEW t, t = [s EXCEPT !.balances = B]
    PROVE  /\ t \in States
           /\ t.validators = s.validators
           /\ t.balances = B
           /\ t.nextWithdrawalIndex = s.nextWithdrawalIndex
<1> DEFINE S == Seq(Validators)
           N == Seq(Nat)
<1>1. s \in [slot : Nat, validators : S, balances : N, eth1DepositIndex : Nat,
              nextWithdrawalIndex : Nat, nextWithdrawalValidatorIndex : Nat]
  BY DEF States
<1>2. B \in N
  OBVIOUS
<1>3. States = [slot : Nat, validators : S, balances : N, eth1DepositIndex : Nat,
                nextWithdrawalIndex : Nat, nextWithdrawalValidatorIndex : Nat]
  BY DEF States
<1> HIDE DEF S, N
<1> QED BY <1>1, <1>2, <1>3

LEMMA WithValidators ==
    ASSUME NEW s \in States, NEW V \in Seq(Validators),
           NEW t, t = [s EXCEPT !.validators = V]
    PROVE  /\ t \in States
           /\ t.validators = V
           /\ t.balances = s.balances
           /\ t.nextWithdrawalIndex = s.nextWithdrawalIndex
<1> DEFINE S == Seq(Validators)
           N == Seq(Nat)
<1>1. s \in [slot : Nat, validators : S, balances : N, eth1DepositIndex : Nat,
              nextWithdrawalIndex : Nat, nextWithdrawalValidatorIndex : Nat]
  BY DEF States
<1>2. V \in S
  OBVIOUS
<1>3. States = [slot : Nat, validators : S, balances : N, eth1DepositIndex : Nat,
                nextWithdrawalIndex : Nat, nextWithdrawalValidatorIndex : Nat]
  BY DEF States
<1> HIDE DEF S, N
<1> QED BY <1>1, <1>2, <1>3

\* A deposit for a new public key gives the registry one more place.
LEMMA AddValidatorKeeps ==
    ASSUME NEW s, StateOK(s), RegisteredOnce(s), NEW dep \in AllDeposits,
           IndicesByPubkey(s, dep.pubkey) = {}
    PROVE  LET t == AddValidatorToRegistry(s, dep)
           IN  /\ StateOK(t) /\ RegisteredOnce(t)
               /\ t.nextWithdrawalIndex = s.nextWithdrawalIndex
<1> DEFINE t == AddValidatorToRegistry(s, dep)
           v == NewValidator(dep)
           b == InitialBalance(dep)
           n == Len(s.validators)
           V == Append(s.validators, v)
           B == Append(s.balances, b)
<1>1. /\ v \in Validators /\ b \in Nat /\ v.pubkey = dep.pubkey
      /\ v.effective <= MaxEffectiveBalance
  BY NewValidatorOK
<1>2. t = [s EXCEPT !.validators = V, !.balances = B]
  BY DEF AddValidatorToRegistry
<1> HIDE DEF t, v, b
<1>3. /\ t \in States
      /\ t.validators = V
      /\ t.balances = B
      /\ t.nextWithdrawalIndex = s.nextWithdrawalIndex
  <2>1. s \in States /\ s.validators \in Seq(Validators) /\ s.balances \in Seq(Nat)
    BY StateParts
  <2>2. V \in Seq(Validators) /\ B \in Seq(Nat)
    BY <1>1, <2>1
  <2> DEFINE u == [s EXCEPT !.validators = V]
  <2> HIDE DEF V, B
  <2>3. t = [u EXCEPT !.balances = B]
    BY <1>2
  <2>4. /\ u \in States
        /\ u.validators = V
        /\ u.nextWithdrawalIndex = s.nextWithdrawalIndex
    BY <2>1, <2>2, WithValidators
  <2> HIDE DEF u
  <2> QED BY <2>2, <2>3, <2>4, WithBalances
<1>4. /\ DOMAIN t.validators = 1..(n + 1)
      /\ Len(t.validators) = n + 1
      /\ Len(t.balances) = n + 1
      /\ t.validators[n + 1] = v
      /\ \A i \in 1..n : t.validators[i] = s.validators[i]
  BY <1>1, <1>3, StateParts
<1>5. StateOK(t)
  <2>1. t.validators # <<>>
    BY <1>4, StateParts
  <2>2. n \in Nat /\ \A i \in 1..n : t.validators[i].effective <= MaxEffectiveBalance
    BY <1>4, StateParts
  <2>3. t.validators[n + 1].effective <= MaxEffectiveBalance
    BY <1>1, <1>4
  <2>4. \A i \in 1..(n + 1) : i \in 1..n \/ i = n + 1
    BY <2>2
  <2>5. \A i \in 1..(n + 1) : t.validators[i].effective <= MaxEffectiveBalance
    BY <2>2, <2>3, <2>4, Zenon
  <2> QED BY <1>3, <1>4, <2>1, <2>5 DEF StateOK
<1>6. RegisteredOnce(t)
  <2>1. \A i \in 1..n : s.validators[i].pubkey # dep.pubkey
    BY StateParts DEF IndicesByPubkey
  <2>2. \A i, j \in 1..n : s.validators[i].pubkey = s.validators[j].pubkey => i = j
    BY StateParts DEF RegisteredOnce
  <2>3. \A i \in 1..(n + 1) : i \in 1..n \/ i = n + 1
    BY StateParts
  <2>4. \A i \in 1..n : t.validators[i].pubkey = s.validators[i].pubkey
    BY <1>4
  <2>5. t.validators[n + 1].pubkey = dep.pubkey
    BY <1>1, <1>4
  <2>6. \A i, j \in 1..(n + 1) : t.validators[i].pubkey = t.validators[j].pubkey => i = j
    BY <2>1, <2>2, <2>3, <2>4, <2>5, Zenon
  <2> QED BY <1>4, <2>6 DEF RegisteredOnce
<1> QED BY <1>3, <1>5, <1>6 DEF t

\* A deposit for a known public key changes one effective balance.
LEMMA TopUpKeeps ==
    ASSUME NEW s, StateOK(s), RegisteredOnce(s), NEW dep \in AllDeposits,
           NEW i \in DOMAIN s.validators
    PROVE  LET t == TopUp(s, i, dep)
           IN  /\ StateOK(t) /\ RegisteredOnce(t)
               /\ t.nextWithdrawalIndex = s.nextWithdrawalIndex
<1> DEFINE t == TopUp(s, i, dep)
           e == Smaller(s.validators[i].effective + dep.amount, MaxEffectiveBalance)
           v == [s.validators[i] EXCEPT !.effective = e]
           n == Len(s.validators)
           V == [s.validators EXCEPT ![i] = v]
<1>1. e \in Nat /\ e <= MaxEffectiveBalance
  <2>1. s.validators[i].effective \in Nat
    BY StateParts
  <2>2. dep.amount \in Nat
    BY DEF AllDeposits
  <2>3. MaxEffectiveBalance \in Nat
    BY StakingAssumption
  <2>4. s.validators[i].effective + dep.amount \in Nat
    BY <2>1, <2>2
  <2> QED BY <2>3, <2>4, SmallerIs
<1>2. t = [s EXCEPT !.validators = V]
  BY DEF TopUp
<1> HIDE DEF t, e
<1>3. v \in Validators /\ v.effective = e /\ v.pubkey = s.validators[i].pubkey
  <2>1. s.validators[i] \in Validators
    BY StateParts
  <2> QED BY <1>1, <2>1 DEF Validators
<1> HIDE DEF v
<1>4. V \in Seq(Validators)
  BY <1>3, StateParts
<1>5. /\ t \in States
      /\ t.validators = V
      /\ t.balances = s.balances
      /\ t.nextWithdrawalIndex = s.nextWithdrawalIndex
  <2>1. s \in States
    BY StateParts
  <2> HIDE DEF V
  <2> QED BY <1>2, <1>4, <2>1, WithValidators
<1>6. /\ DOMAIN t.validators = 1..n
      /\ Len(t.validators) = n
      /\ t.validators[i] = v
      /\ \A j \in 1..n \ {i} : t.validators[j] = s.validators[j]
  BY <1>3, <1>5, StateParts
<1>7. StateOK(t)
  <2>1. t.validators # <<>> /\ Len(t.balances) = Len(t.validators)
    BY <1>5, <1>6, StateParts
  <2>2. \A j \in 1..n : t.validators[j].effective <= MaxEffectiveBalance
    BY <1>1, <1>3, <1>6, StateParts
  <2> QED BY <1>5, <1>6, <2>1, <2>2 DEF StateOK
<1>8. RegisteredOnce(t)
  <2>1. \A j \in 1..n : t.validators[j].pubkey = s.validators[j].pubkey
    BY <1>3, <1>6
  <2> QED BY <1>6, <2>1, StateParts DEF RegisteredOnce
<1> QED BY <1>5, <1>7, <1>8 DEF t

LEMMA SameRegistry ==
    ASSUME NEW s, StateOK(s), RegisteredOnce(s),
           NEW t \in States, t.validators = s.validators, t.balances = s.balances
    PROVE  StateOK(t) /\ RegisteredOnce(t)
BY DEF StateOK, RegisteredOnce

LEMMA WithSlot ==
    ASSUME NEW s \in States, NEW x \in Nat, NEW t, t = [s EXCEPT !.slot = x]
    PROVE  /\ t \in States /\ t.validators = s.validators /\ t.balances = s.balances
           /\ t.nextWithdrawalIndex = s.nextWithdrawalIndex
BY DEF States

LEMMA WithDepositIndex ==
    ASSUME NEW s \in States, NEW t, t = [s EXCEPT !.eth1DepositIndex = @ + 1]
    PROVE  /\ t \in States /\ t.validators = s.validators /\ t.balances = s.balances
           /\ t.nextWithdrawalIndex = s.nextWithdrawalIndex
BY DEF States

\* What applyDeposit does to the registry, if it returns no error.
LEMMA ApplyDepositKeeps ==
    ASSUME NEW s, StateOK(s), RegisteredOnce(s), NEW dep \in AllDeposits,
           NEW t \in ApplyDeposit(s, dep)
    PROVE  /\ StateOK(t) /\ RegisteredOnce(t)
           /\ t.nextWithdrawalIndex = s.nextWithdrawalIndex
<1>1. CASE IndicesByPubkey(s, dep.pubkey) = {}
  <2>1. t = AddValidatorToRegistry(s, dep)
    BY <1>1 DEF ApplyDeposit
  <2> QED BY <1>1, <2>1, AddValidatorKeeps
<1>2. CASE IndicesByPubkey(s, dep.pubkey) # {}
  <2>1. PICK i \in DOMAIN s.validators : t = TopUp(s, i, dep)
    BY <1>2 DEF ApplyDeposit, IndicesByPubkey
  <2> QED BY <2>1, TopUpKeeps
<1> QED BY <1>1, <1>2

-----------------------------------------------------------------------------
(* What the sweep expects of a state.                                      *)

LEMMA SweepLengthOK ==
    ASSUME NEW s, StateOK(s)
    PROVE  SweepLength(s) \in 1..Len(s.validators)
<1>1. Len(s.validators) \in Nat \ {0}
  BY StateParts
<1>2. MaxValidatorsPerWithdrawalsSweep \in Nat \ {0} /\ MaxWithdrawalsPerPayload \in Nat \ {0}
  BY StakingAssumption
<1> QED BY <1>1, <1>2 DEF SweepLength, Smaller, TotalValidators

\* The sweep goes round the registry at most once: it meets no validator twice.
LEMMA SweptOK ==
    ASSUME NEW s, StateOK(s)
    PROVE  /\ \A k \in 1..SweepLength(s) : Swept(s, k) \in 0..(Len(s.validators) - 1)
           /\ \A k, l \in 1..SweepLength(s) : Swept(s, k) = Swept(s, l) => k = l
<1> DEFINE n == Len(s.validators)
           a == s.nextWithdrawalValidatorIndex
<1>1. n \in Nat \ {0} /\ a \in Nat
  BY StateParts
<1>2. SweepLength(s) \in 1..n
  BY SweepLengthOK
<1>3. \A k : Swept(s, k) = (a + k - 1) % n
  BY DEF Swept, TotalValidators
<1> HIDE DEF n, a
<1>4. ASSUME NEW k \in 1..SweepLength(s) PROVE Swept(s, k) \in 0..(n - 1)
  <2>1. a + k - 1 \in Nat
    BY <1>1, <1>2
  <2> QED BY <1>1, <1>3, <2>1, ModRange
<1>5. ASSUME NEW k \in 1..SweepLength(s), NEW l \in 1..SweepLength(s), k < l
      PROVE  Swept(s, k) # Swept(s, l)
  <2>1. /\ a + k - 1 \in Nat /\ a + l - 1 \in Nat
        /\ a + k - 1 < a + l - 1
        /\ a + l - 1 < (a + k - 1) + n
    BY <1>1, <1>2, <1>5
  <2>2. (a + k - 1) % n # (a + l - 1) % n
    BY <1>1, <2>1, RemaindersDiffer
  <2> QED BY <1>3, <2>2
<1>6. \A k, l \in 1..SweepLength(s) : k < l \/ l < k \/ k = l
  BY <1>2
<1>7. \A k, l \in 1..SweepLength(s) : Swept(s, k) = Swept(s, l) => k = l
  BY <1>5, <1>6, Zenon
<1> QED BY <1>4, <1>7 DEF n

LEMMA AmountOK ==
    ASSUME NEW s, StateOK(s), NEW i \in 1..Len(s.validators)
    PROVE  Amount(s, i) \in Nat /\ Amount(s, i) <= s.balances[i]
<1>1. s.balances[i] \in Nat /\ MaxEffectiveBalance \in Nat
  BY StateParts, StakingAssumption
<1> QED BY <1>1 DEF Amount, IsPartiallyWithdrawable

LEMMA ExpectedOK ==
    ASSUME NEW s, StateOK(s), NEW e, e = ExpectedWithdrawals(s)
    PROVE  /\ e \in Seq(Withdrawals)
           /\ Len(e) \in Nat \ {0}
           /\ DOMAIN e = 1..Len(e)
           /\ \A k \in 1..Len(e) :
                 /\ e[k].index = (s.nextWithdrawalIndex + k - 1) % U64Mod
                 /\ e[k].validator + 1 \in 1..Len(s.validators)
                 /\ e[k].amount <= s.balances[e[k].validator + 1]
           /\ \A k, l \in 1..Len(e) : e[k].validator = e[l].validator => k = l
<1> DEFINE n == SweepLength(s)
<1>1. n \in Nat \ {0}
  BY StateParts, SweepLengthOK
<1>2. ASSUME NEW k \in 1..n
      PROVE  /\ Swept(s, k) \in Nat
             /\ Swept(s, k) + 1 \in 1..Len(s.validators)
             /\ Amount(s, Swept(s, k) + 1) \in Nat
             /\ Amount(s, Swept(s, k) + 1) <= s.balances[Swept(s, k) + 1]
             /\ (s.nextWithdrawalIndex + k - 1) % U64Mod \in Nat
  <2>1. Swept(s, k) \in Nat /\ Swept(s, k) + 1 \in 1..Len(s.validators)
    BY SweptOK, StateParts
  <2>2. U64Mod \in Nat \ {0}
    BY StakingAssumption
  <2>3. s.nextWithdrawalIndex + k - 1 \in Nat
    BY StateParts, <1>1
  <2>4. (s.nextWithdrawalIndex + k - 1) % U64Mod \in Nat
    BY <2>2, <2>3, ModRange
  <2> QED BY <2>1, <2>4, AmountOK
<1> DEFINE W(k) == [index |-> (s.nextWithdrawalIndex + k - 1) % U64Mod,
                    validator |-> Swept(s, k),
                    amount |-> Amount(s, Swept(s, k) + 1)]
<1>3. e = [k \in 1..n |-> W(k)]
  BY DEF ExpectedWithdrawals
<1>4. \A k \in 1..n : /\ W(k) \in Withdrawals
                       /\ W(k).index = (s.nextWithdrawalIndex + k - 1) % U64Mod
                       /\ W(k).validator = Swept(s, k)
                       /\ W(k).amount = Amount(s, Swept(s, k) + 1)
  BY <1>2 DEF Withdrawals
<1> HIDE DEF W, n
<1>5. e \in Seq(Withdrawals) /\ Len(e) = n /\ DOMAIN e = 1..n /\ \A k \in 1..n : e[k] = W(k)
  BY <1>1, <1>3, <1>4
<1>6. \A k \in 1..n :
         /\ e[k].index = (s.nextWithdrawalIndex + k - 1) % U64Mod
         /\ e[k].validator = Swept(s, k)
         /\ e[k].amount = Amount(s, Swept(s, k) + 1)
  BY <1>4, <1>5
<1>7. \A k, l \in 1..n : e[k].validator = e[l].validator => k = l
  <2>1. \A k, l \in 1..n : Swept(s, k) = Swept(s, l) => k = l
    BY SweptOK DEF n
  <2> QED BY <1>6, <2>1
<1>8. \A k \in 1..n : /\ e[k].validator + 1 \in 1..Len(s.validators)
                       /\ e[k].amount <= s.balances[e[k].validator + 1]
  BY <1>2, <1>6
<1> QED BY <1>1, <1>5, <1>6, <1>7, <1>8

-----------------------------------------------------------------------------
(* The invariant.                                                          *)

LEMMA GenesisOK == StateOK(Genesis) /\ RegisteredOnce(Genesis)
<1> DEFINE G == GenesisDeposits
           n == Len(G)
           V == [i \in 1..n |-> NewValidator(G[i])]
           B == [i \in 1..n |-> InitialBalance(G[i])]
<1>1. /\ n \in Nat \ {0}
      /\ DOMAIN G = 1..n
      /\ \A i \in 1..n : G[i] \in AllDeposits
      /\ \A i, j \in 1..n : G[i].pubkey = G[j].pubkey => i = j
  BY StakingAssumption
<1>2. \A i \in 1..n : /\ NewValidator(G[i]) \in Validators
                       /\ NewValidator(G[i]).pubkey = G[i].pubkey
                       /\ NewValidator(G[i]).effective <= MaxEffectiveBalance
                       /\ InitialBalance(G[i]) \in Nat
  BY <1>1, NewValidatorOK
<1>3. /\ V \in Seq(Validators) /\ Len(V) = n /\ DOMAIN V = 1..n
      /\ B \in Seq(Nat) /\ Len(B) = n
  BY <1>1, <1>2
<1>4. \A i \in 1..n : /\ V[i].pubkey = G[i].pubkey
                       /\ V[i].effective <= MaxEffectiveBalance
  BY <1>2
<1>5. Genesis = [slot |-> 0, validators |-> V, balances |-> B, eth1DepositIndex |-> n,
                 nextWithdrawalIndex |-> 0, nextWithdrawalValidatorIndex |-> 0]
  BY <1>1 DEF Genesis
<1> HIDE DEF V, B, n
<1>6. Genesis \in States /\ Genesis.validators = V /\ Genesis.balances = B
  BY <1>1, <1>3, <1>5 DEF States
<1>7. V # <<>>
  BY <1>1, <1>3
<1> QED BY <1>1, <1>3, <1>4, <1>6, <1>7 DEF StateOK, RegisteredOnce

LEMMA InvInit == Init => StakingInv
<1> SUFFICES ASSUME Init PROVE StakingInv
  OBVIOUS
<1>1. /\ saved = Genesis /\ st = Genesis /\ pc = "idle" /\ final = FALSE
      /\ updates = <<>> /\ expected = <<>> /\ done = 0
  BY DEF Init
<1>2. power \in [Pubkeys -> Nat]
  <2>1. \A i \in DOMAIN GenesisDeposits : NewValidator(GenesisDeposits[i]).effective \in Nat
    <3>1. \A i \in DOMAIN GenesisDeposits : GenesisDeposits[i] \in AllDeposits
      BY StakingAssumption
    <3>2. \A i \in DOMAIN GenesisDeposits : NewValidator(GenesisDeposits[i]) \in Validators
      BY <3>1, NewValidatorOK
    <3> QED BY <3>2 DEF Validators
  <2>2. ASSUME NEW p \in Pubkeys
        PROVE  LET named == {i \in DOMAIN GenesisDeposits : GenesisDeposits[i].pubkey = p}
               IN  named # {} => (CHOOSE i \in named : TRUE) \in DOMAIN GenesisDeposits
    OBVIOUS
  <2> QED BY <2>1, <2>2 DEF Init
<1>3. TypeOK
  <2>1. <<>> \in Seq(Validators) /\ <<>> \in Seq(Withdrawals)
    OBVIOUS
  <2>2. done \in 0..Len(expected)
    BY <1>1
  <2> QED BY <1>1, <1>2, <2>1, <2>2, GenesisOK DEF TypeOK
<1> QED BY <1>1, <1>3, GenesisOK DEF StakingInv, PubkeysUnique, TransitionRight, WithdrawalsDebited

LEMMA ProcessSlotsKeeps ==
    ASSUME StakingInv, NEW gap \in 1..(MaxMissedSlots + 1), NEW finalizing \in BOOLEAN,
           ProcessSlots(gap, finalizing)
    PROVE  StakingInv'
<1>1. /\ StateOK(saved) /\ RegisteredOnce(saved) /\ st = saved
      /\ power \in [Pubkeys -> Nat]
  BY DEF StakingInv, TypeOK, PubkeysUnique, TransitionRight, ProcessSlots
<1>2. /\ saved' = saved /\ power' = power /\ pc' = "withdrawals" /\ done' = 0
      /\ final' = finalizing
      /\ st' = [saved EXCEPT !.slot = (saved.slot + gap) % U64Mod]
      /\ expected' = ExpectedWithdrawals(saved)
      /\ updates' = IF CrossesEpoch(st.slot, gap) THEN saved.validators ELSE <<>>
  BY <1>1 DEF ProcessSlots
<1>3. (saved.slot + gap) % U64Mod \in Nat
  <2>1. saved.slot + gap \in Nat
    BY <1>1, StateParts, StakingAssumption
  <2>2. U64Mod \in Nat \ {0}
    BY StakingAssumption
  <2> QED BY <2>1, <2>2, ModRange
<1>4. /\ st' \in States
      /\ st'.validators = saved.validators /\ st'.balances = saved.balances
  BY <1>1, <1>2, <1>3, StateParts, WithSlot
<1>5. StateOK(st') /\ RegisteredOnce(st')
  BY <1>1, <1>4, SameRegistry
<1>6. /\ expected' \in Seq(Withdrawals)
      /\ Len(expected') \in Nat \ {0}
      /\ DOMAIN expected' = 1..Len(expected')
      /\ \A k \in 1..Len(expected') :
            /\ expected'[k].index = (saved.nextWithdrawalIndex + k - 1) % U64Mod
            /\ expected'[k].validator + 1 \in 1..Len(saved.validators)
            /\ expected'[k].amount <= saved.balances[expected'[k].validator + 1]
      /\ \A k, l \in 1..Len(expected') : expected'[k].validator = expected'[l].validator => k = l
  BY <1>1, <1>2, ExpectedOK
<1>7. TypeOK'
  <2>1. updates' \in Seq(Validators)
    BY <1>1, <1>2, StateParts
  <2> QED BY <1>1, <1>2, <1>5, <1>6, <2>1 DEF TypeOK
<1>8. PubkeysUnique'
  BY <1>1, <1>2, <1>5 DEF PubkeysUnique
<1>9. TransitionRight'
  <2>1. expected' # <<>>
    BY <1>6
  <2> QED BY <1>2, <1>4, <1>6, <2>1 DEF TransitionRight
<1>10. WithdrawalsDebited'
  <2>1. DOMAIN st'.balances = 1..Len(saved.validators)
    BY <1>1, <1>4, StateParts
  <2> QED BY <1>2, <1>4, <1>6, <2>1 DEF WithdrawalsDebited
<1> QED BY <1>7, <1>8, <1>9, <1>10 DEF StakingInv

LEMMA ProcessWithdrawalKeeps == StakingInv /\ ProcessWithdrawal => StakingInv'
<1> SUFFICES ASSUME StakingInv, ProcessWithdrawal PROVE StakingInv'
  OBVIOUS
<1> DEFINE w == expected[done + 1]
           i == w.validator + 1
           B == [st.balances EXCEPT ![i] = @ - Smaller(@, w.amount)]
<1>1. /\ pc = "withdrawals" /\ pc' = pc /\ done < Len(expected) /\ done' = done + 1
      /\ saved' = saved /\ final' = final /\ updates' = updates /\ expected' = expected
      /\ power' = power
      /\ st' = [st EXCEPT !.balances = B]
  BY DEF ProcessWithdrawal, DecreaseBalance
<1>2. /\ TypeOK /\ StateOK(st) /\ RegisteredOnce(st) /\ StateOK(saved) /\ RegisteredOnce(saved)
      /\ expected \in Seq(Withdrawals) /\ done \in 0..Len(expected)
  BY DEF StakingInv, TypeOK, PubkeysUnique
<1>3. done + 1 \in DOMAIN expected /\ w \in Withdrawals /\ done \in Nat
  BY <1>1, <1>2
<1>4. /\ i \in DOMAIN st.balances
      /\ st.balances[i] = saved.balances[i]
      /\ w.amount <= saved.balances[i]
      /\ w.amount \in Nat
      /\ \A k \in DOMAIN expected : expected[k].validator = w.validator => k = done + 1
  <2>1. w.amount \in Nat
    BY <1>3 DEF Withdrawals
  <2>2. w.amount <= saved.balances[i]
    BY <1>1, <1>3 DEF StakingInv, TransitionRight
  <2>3. /\ i \in DOMAIN st.balances
        /\ st.balances[i] = saved.balances[i]
        /\ \A k \in DOMAIN expected : expected[k].validator = w.validator => k = done + 1
    BY <1>1, <1>3 DEF StakingInv, WithdrawalsDebited
  <2> QED BY <2>1, <2>2, <2>3
<1>5. st.balances[i] \in Nat
  BY <1>2, <1>4, StateParts
<1>6. st.balances[i] - Smaller(st.balances[i], w.amount) = saved.balances[i] - w.amount
  BY <1>4, <1>5 DEF Smaller
<1>7. B \in Seq(Nat) /\ Len(B) = Len(st.balances)
  <2>1. saved.balances[i] - w.amount \in Nat
    BY <1>4, <1>5
  <2> HIDE DEF i, w
  <2> QED BY <1>2, <1>4, <1>6, <2>1, StateParts
<1>8. /\ DOMAIN B = DOMAIN st.balances
      /\ B[i] = saved.balances[i] - w.amount
      /\ \A j \in DOMAIN st.balances \ {i} : B[j] = st.balances[j]
  BY <1>4, <1>6
<1> HIDE DEF B
<1>9. st' \in States /\ st'.validators = st.validators /\ st'.balances = B
  BY <1>1, <1>2, <1>7, StateParts, WithBalances
<1>10. StateOK(st') /\ RegisteredOnce(st')
  BY <1>2, <1>7, <1>9 DEF StateOK, RegisteredOnce
<1>11. TypeOK'
  <2>1. done' \in 0..Len(expected')
    BY <1>1, <1>2
  <2> QED BY <1>1, <1>2, <1>10, <2>1 DEF TypeOK
<1>12. PubkeysUnique'
  BY <1>1, <1>2, <1>10 DEF PubkeysUnique
<1>13. TransitionRight'
  BY <1>1, <1>7, <1>9 DEF StakingInv, TransitionRight
<1>14. WithdrawalsDebited'
  <2> SUFFICES ASSUME NEW k \in DOMAIN expected
               PROVE  LET j == expected[k].validator + 1
                      IN  /\ j \in DOMAIN B
                          /\ B[j] = IF k <= done + 1
                                    THEN saved.balances[j] - expected[k].amount
                                    ELSE saved.balances[j]
                          /\ \A l \in DOMAIN expected :
                                expected[l].validator = expected[k].validator => l = k
    BY <1>1, <1>9 DEF WithdrawalsDebited
  <2> DEFINE j == expected[k].validator + 1
  <2>1. /\ j \in DOMAIN st.balances
        /\ st.balances[j] = IF k <= done
                            THEN saved.balances[j] - expected[k].amount
                            ELSE saved.balances[j]
        /\ \A l \in DOMAIN expected : expected[l].validator = expected[k].validator => l = k
    BY <1>1 DEF StakingInv, WithdrawalsDebited
  <2>2. CASE k = done + 1
    BY <1>3, <1>8, <2>1, <2>2
  <2>3. CASE k # done + 1
    <3>1. expected[k].validator # w.validator
      BY <1>4, <2>3
    <3>2. expected[k].validator \in Nat /\ w.validator \in Nat /\ k \in Nat
      <4>1. expected[k] \in Withdrawals /\ k \in Nat
        BY <1>2
      <4> QED BY <1>3, <4>1 DEF Withdrawals
    <3>3. j # i
      BY <3>1, <3>2
    <3>4. B[j] = st.balances[j] /\ j \in DOMAIN B
      BY <1>8, <2>1, <3>3
    <3>5. k <= done + 1 <=> k <= done
      BY <1>3, <2>3, <3>2
    <3> QED BY <2>1, <3>4, <3>5
  <2> QED BY <2>2, <2>3
<1> QED BY <1>11, <1>12, <1>13, <1>14 DEF StakingInv

LEMMA WithdrawalsDoneKeeps == StakingInv /\ WithdrawalsDone => StakingInv'
<1> SUFFICES ASSUME StakingInv, WithdrawalsDone PROVE StakingInv'
  OBVIOUS
<1> DEFINE n == Len(expected)
           last == expected[n]
           x == (last.index + 1) % U64Mod
           y == NextWithdrawalValidatorIndex(st, n, last)
<1>1. /\ pc = "withdrawals" /\ pc' = "deposits" /\ done = n /\ done' = done
      /\ saved' = saved /\ final' = final /\ updates' = updates /\ expected' = expected
      /\ power' = power
      /\ st' = [st EXCEPT !.nextWithdrawalIndex = x, !.nextWithdrawalValidatorIndex = y]
  BY DEF WithdrawalsDone
<1>2. /\ TypeOK /\ StateOK(st) /\ RegisteredOnce(st) /\ StateOK(saved) /\ RegisteredOnce(saved)
      /\ expected \in Seq(Withdrawals)
      /\ expected # <<>>
      /\ \A k \in DOMAIN expected :
            expected[k].index = (saved.nextWithdrawalIndex + k - 1) % U64Mod
  BY <1>1 DEF StakingInv, TypeOK, PubkeysUnique, TransitionRight
<1>3. n \in Nat \ {0} /\ n \in DOMAIN expected
  BY <1>2
<1>4. /\ U64Mod \in Nat \ {0} /\ MaxValidatorsPerWithdrawalsSweep \in Nat
      /\ saved.nextWithdrawalIndex \in Nat /\ st.nextWithdrawalValidatorIndex \in Nat
      /\ Len(st.validators) \in Nat \ {0}
  BY <1>2, StateParts, StakingAssumption
<1>5. x = (saved.nextWithdrawalIndex + n) % U64Mod
  <2> DEFINE z == saved.nextWithdrawalIndex + n - 1
  <2>1. last.index = z % U64Mod
    BY <1>2, <1>3
  <2>2. z \in Nat /\ z + 1 = saved.nextWithdrawalIndex + n
    BY <1>3, <1>4
  <2> HIDE DEF z
  <2>3. ((z % U64Mod) + 1) % U64Mod = (z + 1) % U64Mod
    BY <1>4, <2>2, NextRemainder
  <2> QED BY <2>1, <2>2, <2>3
<1>6. x \in Nat
  <2> DEFINE z == saved.nextWithdrawalIndex + n
  <2>1. z \in Nat
    BY <1>3, <1>4
  <2>2. x = z % U64Mod
    BY <1>5
  <2> HIDE DEF z, x
  <2> QED BY <1>4, <2>1, <2>2, ModRange
<1>7. y \in Nat
  <2> DEFINE m == Len(st.validators)
             z == st.nextWithdrawalValidatorIndex + MaxValidatorsPerWithdrawalsSweep
             u == z % U64Mod
  <2>1. y = x % m \/ y = u % m
    BY DEF NextWithdrawalValidatorIndex, TotalValidators
  <2>2. z \in Nat
    BY <1>4
  <2> HIDE DEF z, x, y
  <2>3. u \in Nat
    BY <1>4, <2>2, ModRange
  <2>4. m \in Nat \ {0}
    BY <1>4
  <2> HIDE DEF u, m
  <2> QED BY <1>6, <2>1, <2>3, <2>4, ModRange
<1> HIDE DEF x, y
<1>8. /\ st' \in States /\ st'.validators = st.validators /\ st'.balances = st.balances
      /\ st'.nextWithdrawalIndex = x
  <2>1. st \in States
    BY <1>2, StateParts
  <2> QED BY <1>1, <1>6, <1>7, <2>1 DEF States
<1>9. StateOK(st') /\ RegisteredOnce(st')
  BY <1>2, <1>8, SameRegistry
<1>10. TypeOK'
  BY <1>1, <1>2, <1>9 DEF TypeOK
<1>11. PubkeysUnique'
  BY <1>1, <1>2, <1>9 DEF PubkeysUnique
<1>12. TransitionRight'
  BY <1>1, <1>2, <1>5, <1>8 DEF TransitionRight
<1>13. WithdrawalsDebited'
  BY <1>1 DEF WithdrawalsDebited
<1> QED BY <1>10, <1>11, <1>12, <1>13 DEF StakingInv

LEMMA ProcessDepositKeeps ==
    ASSUME StakingInv, NEW dep \in Deposits, ProcessDeposit(dep)
    PROVE  StakingInv'
<1> DEFINE s == [st EXCEPT !.eth1DepositIndex = @ + 1]
<1>1. /\ pc = "deposits" /\ pc' = pc /\ done' = done
      /\ saved' = saved /\ final' = final /\ updates' = updates /\ expected' = expected
      /\ power' = power
      /\ st' \in ApplyDeposit(s, dep)
  BY DEF ProcessDeposit
<1>2. TypeOK /\ StateOK(st) /\ RegisteredOnce(st) /\ StateOK(saved) /\ RegisteredOnce(saved)
  BY DEF StakingInv, TypeOK, PubkeysUnique
<1>3. /\ s \in States /\ s.validators = st.validators /\ s.balances = st.balances
      /\ s.nextWithdrawalIndex = st.nextWithdrawalIndex
  BY <1>2, StateParts, WithDepositIndex
<1> HIDE DEF s
<1>4. StateOK(s) /\ RegisteredOnce(s)
  BY <1>2, <1>3, SameRegistry
<1>5. dep \in AllDeposits
  BY StakingAssumption
<1>6. /\ StateOK(st') /\ RegisteredOnce(st')
      /\ st'.nextWithdrawalIndex = st.nextWithdrawalIndex
  BY <1>1, <1>3, <1>4, <1>5, ApplyDepositKeeps
<1>7. TypeOK'
  BY <1>1, <1>2, <1>6 DEF TypeOK
<1>8. PubkeysUnique'
  BY <1>1, <1>2, <1>6 DEF PubkeysUnique
<1>9. TransitionRight'
  BY <1>1, <1>6 DEF StakingInv, TransitionRight
<1>10. WithdrawalsDebited'
  BY <1>1 DEF WithdrawalsDebited
<1> QED BY <1>7, <1>8, <1>9, <1>10 DEF StakingInv

LEMMA SaveKeeps == StakingInv /\ Save => StakingInv'
<1> SUFFICES ASSUME StakingInv, Save PROVE StakingInv'
  OBVIOUS
<1>1. /\ pc' = "idle" /\ done' = done /\ saved' = st /\ st' = st /\ final' = final
      /\ updates' = updates /\ expected' = expected /\ power' = PowerAfter(updates)
  BY DEF Save
<1>2. power' \in [Pubkeys -> Nat]
  <2>1. power \in [Pubkeys -> Nat] /\ updates \in Seq(Validators)
    BY DEF StakingInv, TypeOK
  <2>2. \A i \in DOMAIN updates : updates[i] \in Validators
    BY <2>1
  <2>3. \A i \in DOMAIN updates : updates[i].effective \in Nat
    BY <2>2 DEF Validators
  <2>4. ASSUME NEW p \in Pubkeys
        PROVE  LET named == {i \in DOMAIN updates : updates[i].pubkey = p}
               IN  named # {} => (CHOOSE i \in named : TRUE) \in DOMAIN updates
    OBVIOUS
  <2> QED BY <1>1, <2>1, <2>3, <2>4 DEF PowerAfter
<1>3. TypeOK'
  BY <1>1, <1>2 DEF StakingInv, TypeOK
<1> QED BY <1>1, <1>3 DEF StakingInv, PubkeysUnique, TransitionRight, WithdrawalsDebited

LEMMA AbandonKeeps == StakingInv /\ Abandon => StakingInv'
<1> SUFFICES ASSUME StakingInv, Abandon PROVE StakingInv'
  OBVIOUS
<1>1. /\ pc' = "idle" /\ done' = done /\ saved' = saved /\ st' = saved /\ final' = final
      /\ updates' = updates /\ expected' = expected /\ power' = power
  BY DEF Abandon
<1>2. TypeOK'
  BY <1>1 DEF StakingInv, TypeOK
<1> QED BY <1>1, <1>2 DEF StakingInv, PubkeysUnique, TransitionRight, WithdrawalsDebited

LEMMA InvStep == StakingInv /\ [Next]_vars => StakingInv'
<1> SUFFICES ASSUME StakingInv, [Next]_vars PROVE StakingInv'
  OBVIOUS
<1>1. ASSUME NEW gap \in 1..(MaxMissedSlots + 1), NEW finalizing \in BOOLEAN,
             ProcessSlots(gap, finalizing)
      PROVE  StakingInv'
  BY <1>1, ProcessSlotsKeeps
<1>2. CASE ProcessWithdrawal
  BY <1>2, ProcessWithdrawalKeeps
<1>3. CASE WithdrawalsDone
  BY <1>3, WithdrawalsDoneKeeps
<1>4. ASSUME NEW dep \in Deposits, ProcessDeposit(dep) PROVE StakingInv'
  BY <1>4, ProcessDepositKeeps
<1>5. CASE Save
  BY <1>5, SaveKeeps
<1>6. CASE Abandon
  BY <1>6, AbandonKeeps
<1>7. CASE UNCHANGED vars
  BY <1>7 DEF vars, StakingInv, TypeOK, PubkeysUnique, TransitionRight, WithdrawalsDebited
<1> QED BY <1>1, <1>2, <1>3, <1>4, <1>5, <1>6, <1>7 DEF Next

-----------------------------------------------------------------------------
(* The theorems.                                                           *)

\* The inductive invariant holds at every step of every transition, saved or
\* abandoned.
THEOREM StakingInvariant == Spec => []StakingInv
BY InvInit, InvStep, PTL DEF Spec

\* The state and the copy that a transition works on keep their types: registry and
\* balances as long as one another, amounts and counters within their width.
THEOREM TypeCorrect == Spec => []TypeOK
<1>1. StakingInv => TypeOK
  BY DEF StakingInv
<1> QED BY <1>1, StakingInvariant, PTL

\* No public key is registered twice, by whatever deposits in whatever order
\* (applyDeposit looks the key up in the copy that it changes).
THEOREM ValidatorsRegisteredOnce == Spec => []PubkeysUnique
<1>1. StakingInv => PubkeysUnique
  BY DEF StakingInv
<1> QED BY <1>1, StakingInvariant, PTL

\* What ExpectedWithdrawals computes before the loop of processWithdrawals is what
\* the loop takes from the balances, for every size of registry and sweep.
THEOREM WithdrawalsAreDebited == Spec => []WithdrawalsDebited
<1>1. StakingInv => WithdrawalsDebited
  BY DEF StakingInv
<1> QED BY <1>1, StakingInvariant, PTL

\* The withdrawals of finalized blocks are numbered consecutively, also where the
\* counter wraps, and whatever transitions were abandoned in between.
THEOREM WithdrawalsNumbered == Spec => WithdrawalIndicesConsecutive
<1>1. StakingInv /\ [Next]_vars =>
        [saved' # saved =>
            /\ \A k \in DOMAIN expected :
                  expected[k].index = (saved.nextWithdrawalIndex + k - 1) % U64Mod
            /\ saved'.nextWithdrawalIndex =
                  (saved.nextWithdrawalIndex + Len(expected)) % U64Mod]_vars
  <2> SUFFICES ASSUME StakingInv, Next, saved' # saved
               PROVE  /\ \A k \in DOMAIN expected :
                            expected[k].index = (saved.nextWithdrawalIndex + k - 1) % U64Mod
                      /\ saved'.nextWithdrawalIndex =
                            (saved.nextWithdrawalIndex + Len(expected)) % U64Mod
    OBVIOUS
  <2>1. Save
    BY DEF Next, ProcessSlots, ProcessWithdrawal, WithdrawalsDone, ProcessDeposit, Abandon
  <2>2. pc = "deposits" /\ saved' = st
    BY <2>1 DEF Save
  <2> QED BY <2>2 DEF StakingInv, TransitionRight
<1> QED BY <1>1, StakingInvariant, PTL DEF Spec, WithdrawalIndicesConsecutive
============================================================================
