----------------------------- MODULE MCStaking -----------------------------
(* Instances of Staking for TLC.                                           *)
EXTENDS Staking, TLC

CONSTANTS p1, p2, p3

Dep(p, amount, signed, eth1) ==
    [pubkey |-> p, amount |-> amount, signed |-> signed, eth1 |-> eth1]

MCGenesisDeposits == <<Dep(p1, 5, TRUE, TRUE)>>
MCDeposits == {Dep(p, a, b, c) : p \in Pubkeys, a \in {2, 5}, b, c \in BOOLEAN}
============================================================================
