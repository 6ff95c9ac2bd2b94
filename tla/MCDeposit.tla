----------------------------- MODULE MCDeposit -----------------------------
(***************************************************************************)
(* Instances of Deposit for TLC.                                           *)
(***************************************************************************)
EXTENDS Deposit, TLC

CONSTANTS c1, c2, s1, s2

Symmetry == Permutations(Caller) \cup Permutations(Sweep)
=============================================================================
