---------------------------- MODULE DepositQueue ----------------------------
(***************************************************************************)
(* What the deposit pipeline promises: the beacon chain consumes the       *)
(* contract's deposits as a first-in first-out queue.  Every block adds    *)
(* the deposits of its execution payload at the tail, and takes at most    *)
(* MaxDepositsPerBlock from the head, only deposits that are at least      *)
(* Eth1FollowDistance blocks old in the parent state.                      *)
(***************************************************************************)
EXTENDS Integers, Sequences

CONSTANTS GenesisDeposits, MaxDepositsPerBlock, Eth1FollowDistance,
          DepositsPerEth1Block

VARIABLES
    counts,  \* counts[h]: deposits in the contract after block h
    next     \* the deposit the next block starts with

Count(h) == IF h \in DOMAIN counts THEN counts[h] ELSE 0

Init ==
    /\ counts = <<>>
    /\ next = GenesisDeposits

Block ==
    \E new \in DepositsPerEth1Block, num \in 0..MaxDepositsPerBlock :
        /\ num > 0 => next + num <= Count(Len(counts) - Eth1FollowDistance)
        /\ counts' = Append(counts, Count(Len(counts)) + new)
        /\ next' = next + num

Spec == Init /\ [][Block]_<<counts, next>>
=============================================================================
