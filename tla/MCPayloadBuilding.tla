------------------------- MODULE MCPayloadBuilding -------------------------
(* TLC instances of PayloadBuilding. *)
EXTENDS PayloadBuilding, TLC

\* The proposals of a slot are interchangeable.
VariantSymmetry == Permutations(Variants)

\* Optimistic builds leave many goroutines behind: two slots without failures.
\* Without them three slots, with a crash and a restart of the execution client.
SlotBound == [c \in Configurations |-> IF c THEN 2 ELSE 3]
FaultBound == [c \in Configurations |-> IF c THEN 0 ELSE 1]
=============================================================================
