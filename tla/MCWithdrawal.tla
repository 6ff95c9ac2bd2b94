---------------------------- MODULE MCWithdrawal ----------------------------
(***************************************************************************)
(* Instances of Withdrawal for TLC.                                        *)
(***************************************************************************)
EXTENDS Withdrawal, TLC

CONSTANTS w1, w2, c1, c2

Symmetry == Permutations(Checker) \cup Permutations(Request)
=============================================================================
