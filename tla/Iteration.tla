------------------------------ MODULE Iteration ------------------------------
(***************************************************************************)
(* The order in which the code visits the keys of a collection or the      *)
(* files of a directory: every one once, the smallest first.               *)
(***************************************************************************)
EXTENDS Integers, FiniteSets

\* Numbers; file names are numbers by their order.
NumberOrder(keys) ==
    CHOOSE s \in [1 .. Cardinality(keys) -> keys] :
        \A i, j \in 1 .. Cardinality(keys) : i < j => s[i] < s[j]

\* Pairs by their first part and then by their second.
Before(a, b) == a[1] < b[1] \/ (a[1] = b[1] /\ a[2] < b[2])
PairOrder(keys) ==
    CHOOSE s \in [1 .. Cardinality(keys) -> keys] :
        \A i, j \in 1 .. Cardinality(keys) : i < j => Before(s[i], s[j])
=============================================================================
