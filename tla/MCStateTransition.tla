------------------------- MODULE MCStateTransition -------------------------
EXTENDS StateTransition, TLC

\* The proposers are interchangeable.
Symmetry == Permutations(Validators)
=============================================================================
