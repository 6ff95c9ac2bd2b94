---------------------------- MODULE AtomicWallet ----------------------------
(***************************************************************************)
(* What the wallet services promise about the Wallet table: the stored     *)
(* balances change only by whole movements, each applied to the balances   *)
(* of that moment, and money is taken from a wallet only if it is there.   *)
(***************************************************************************)
EXTENDS WalletOps

VARIABLE balance

Init == balance = InitBalance

Apply(o) ==
    /\ o.debit \in Wallet => balance[o.debit] >= o.amount
    /\ balance' = Applied(o, balance)

Next == \E o \in Ops : Apply(o)

Spec == Init /\ [][Next]_balance
=============================================================================
