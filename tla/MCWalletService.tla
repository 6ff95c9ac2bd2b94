-------------------------- MODULE MCWalletService --------------------------
(***************************************************************************)
(* Instances of WalletService for TLC: two users, three requests.          *)
(***************************************************************************)
EXTENDS WalletService, TLC

MCInitBalance == (1 :> 3) @@ (2 :> 0)

Simple(k, u, v, a, key) == [kind |-> k, user |-> u, to |-> v, amount |-> a, key |-> key, target |-> NoId]
Reverse(u, id) == [kind |-> "reverse", user |-> u, to |-> 0, amount |-> 0, key |-> NoKey, target |-> id]

\* Direct funding and transfers, with a key a client may reuse
MCMoveCalls == {Simple("transfer", 1, 2, 2, "k"), Simple("transfer", 2, 1, 1, "k"),
                Simple("debit", 1, 0, 2, NoKey), Simple("credit", 2, 0, 1, NoKey)}

\* The sender's and the single-wallet reversals
MCReversals == {Reverse(u, <<r, 1>>) : u \in Wallet, r \in Req}

MCReverseCalls == {Simple("transfer", 1, 2, 2, "k"), Simple("debit", 2, 0, 1, NoKey),
                   Simple("credit", 1, 0, 1, NoKey)} \cup MCReversals

\* All of them together
MCAllCalls == MCMoveCalls \cup MCReversals

\* The receiver reverses the transfer it got
MCReceiverCalls == {Simple("transfer", 1, 2, 2, NoKey)} \cup {Reverse(2, <<r, 2>>) : r \in Req}
=============================================================================
