----------------------------- MODULE WalletOps ------------------------------
(***************************************************************************)
(* The money movements between wallets, as the wallet services compute     *)
(* them: a credit (no debited wallet), a debit (no credited wallet) or a   *)
(* transfer between two different wallets.                                 *)
(***************************************************************************)
EXTENDS Integers

CONSTANTS
    Wallet,         \* user ids that own a wallet; numbers, in the order the lock keys sort
    Ops,            \* the movements that may be asked for
    InitBalance     \* balance each wallet starts with

NoWallet == 0
NoOp == [debit |-> NoWallet, credit |-> NoWallet, amount |-> 0]

Operation == [debit: Wallet \cup {NoWallet}, credit: Wallet \cup {NoWallet}, amount: Nat \ {0}]

ASSUME WalletAssumption ==
    /\ Wallet \subseteq Nat \ {0}
    /\ Ops \subseteq {o \in Operation : o.debit # o.credit}
    /\ InitBalance \in [Wallet -> Nat]

\* Signed change movement o makes to wallet w
Delta(o, w) == CASE w = o.debit  -> -o.amount
                 [] w = o.credit -> o.amount
                 [] OTHER        -> 0

Applied(o, b) == [w \in Wallet |-> b[w] + Delta(o, w)]
=============================================================================
