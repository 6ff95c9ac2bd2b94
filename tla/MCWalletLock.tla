---------------------------- MODULE MCWalletLock ----------------------------
(***************************************************************************)
(* Instances of WalletLock for TLC: two wallets, and either only    *)
(* single-wallet movements or these and transfers in both directions.      *)
(***************************************************************************)
EXTENDS WalletLock, TLC

CONSTANTS p1, p2, p3

MCWallet == {1, 2}
MCInitBalance == (1 :> 2) @@ (2 :> 1)
MCSingleOps == {[debit |-> 1, credit |-> NoWallet, amount |-> 2],
                [debit |-> NoWallet, credit |-> 1, amount |-> 1]}
MCMixedOps == {[debit |-> 1, credit |-> 2, amount |-> 2],
               [debit |-> 2, credit |-> 1, amount |-> 1],
               [debit |-> 1, credit |-> NoWallet, amount |-> 1],
               [debit |-> NoWallet, credit |-> 2, amount |-> 1]}

Symmetry == Permutations(Proc)
=============================================================================
