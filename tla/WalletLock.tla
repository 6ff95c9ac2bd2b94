----------------------------- MODULE WalletLock -----------------------------
(***************************************************************************)
(* Wallet updates under the Redis lock of utils/lock.utils.ts.             *)
(*                                                                         *)
(* Every service that moves money takes the lock of each wallet it touches *)
(* (withLock for one wallet, withMultiLock for the two of a transfer),     *)
(* then reads the balances, and writes back absolute new balances and the  *)
(* ledger lines in one database transaction.  The lock is a lease:         *)
(* SET NX PX, never renewed.  Time is counted in Ticks of one retry        *)
(* period; the clock is the pair of countdowns "lease" (Redis) and         *)
(* "timer" (the request's own deadline).                                   *)
(***************************************************************************)
EXTENDS WalletOps

CONSTANTS
    Proc,           \* requests being served, in any API instance
    Free,           \* the lock key does not exist
    LockTTL,        \* LOCK_TTL_MS: life of a lease
    RetryWindow,    \* LOCK_RETRY_COUNT * LOCK_RETRY_DELAY_MS: longest wait for one key
    TxLimit         \* longest time from the last key to commit or rollback (Prisma maxWait + timeout)

ASSUME LockAssumption ==
    /\ Free \notin Proc
    /\ LockTTL \in Nat \ {0}
    /\ RetryWindow \in Nat
    /\ TxLimit \in Nat

VARIABLES
    lock,           \* value of wallet:lock:<id>: the request whose token it holds, or Free
    lease,          \* ticks before Redis drops that key
    balance,        \* Wallet.balance
    ledger,         \* minus the sum of the wallet account's LedgerLines
    pc, op,         \* where each request is, and the operation it carries out
    held,           \* wallets whose token the request keeps (whether or not the lease is still its own)
    timer,          \* ticks spent on the current key, or in the transaction
    seen            \* balances the open transaction has read, by wallet

AW == INSTANCE AtomicWallet WITH balance <- balance

lockVars == <<lock, lease>>
money    == <<balance, ledger>>
vars     == <<lock, lease, balance, ledger, pc, op, held, timer, seen>>

NoBalance == -1     \* in seen: not read yet

Keys(o) == {w \in Wallet : w = o.debit \/ w = o.credit}

\* Mutant: the keys in the order the service names them
DebitedFirst(p) == IF op[p].debit \in Keys(op[p]) \ held[p] THEN op[p].debit ELSE op[p].credit

\* withMultiLock takes the keys in sorted order; withLock has only one
NextKey(p) == CHOOSE w \in Keys(op[p]) \ held[p] : \A v \in Keys(op[p]) \ held[p] : w <= v

NothingSeen == [w \in Wallet |-> NoBalance]

Init ==
    /\ lock = [w \in Wallet |-> Free]
    /\ lease = [w \in Wallet |-> 0]
    /\ balance = InitBalance
    /\ ledger = InitBalance
    /\ pc = [p \in Proc |-> "start"]
    /\ op = [p \in Proc |-> NoOp]
    /\ held = [p \in Proc |-> {}]
    /\ timer = [p \in Proc |-> 0]
    /\ seen = [p \in Proc |-> NothingSeen]

\* A service calls withLock or withMultiLock for operation o
Arrive(p, o) ==
    /\ pc[p] = "start"
    /\ pc' = [pc EXCEPT ![p] = "acquire"]
    /\ op' = [op EXCEPT ![p] = o]
    /\ UNCHANGED <<lockVars, money, held, timer, seen>>

\* Mutant: SET without NX
AcquireAnyway(p) ==
    /\ pc[p] = "acquire"
    /\ LET w == NextKey(p) IN
        /\ lock' = [lock EXCEPT ![w] = p]
        /\ lease' = [lease EXCEPT ![w] = LockTTL]
        /\ held' = [held EXCEPT ![p] = @ \cup {w}]
        /\ pc' = IF Keys(op[p]) = held[p] \cup {w} THEN [pc EXCEPT ![p] = "tx"] ELSE pc
    /\ timer' = [timer EXCEPT ![p] = 0]
    /\ UNCHANGED <<money, op, seen>>

\* SET key token PX ttl NX answered OK; after the last key the transaction starts
Acquire(p) ==
    /\ pc[p] = "acquire"
    /\ LET w == NextKey(p) IN
        /\ lock[w] = Free
        /\ lock' = [lock EXCEPT ![w] = p]
        /\ lease' = [lease EXCEPT ![w] = LockTTL]
        /\ held' = [held EXCEPT ![p] = @ \cup {w}]
        /\ pc' = IF Keys(op[p]) = held[p] \cup {w} THEN [pc EXCEPT ![p] = "tx"] ELSE pc
    /\ timer' = [timer EXCEPT ![p] = 0]
    /\ UNCHANGED <<money, op, seen>>

\* Leaves the locked section, whatever it did: the finally block releases the keys
ToRelease(p) ==
    /\ pc' = [pc EXCEPT ![p] = "release"]
    /\ timer' = [timer EXCEPT ![p] = 0]
    /\ seen' = [seen EXCEPT ![p] = NothingSeen]
    /\ UNCHANGED <<lockVars, op, held>>

\* The last attempt failed too: "Could not acquire lock — resource is busy"
GiveUp(p) ==
    /\ pc[p] = "acquire"
    /\ timer[p] = RetryWindow
    /\ lock[NextKey(p)] # Free
    /\ ToRelease(p)
    /\ UNCHANGED money

\* Mutant: no check of the funds
ReadUnchecked(p, w) ==
    /\ pc[p] = "tx"
    /\ w \in Keys(op[p]) /\ seen[p][w] = NoBalance
    /\ seen' = [seen EXCEPT ![p][w] = balance[w]]
    /\ UNCHANGED <<lockVars, money, pc, op, held, timer>>

\* The transaction reads a wallet row; a debited wallet must hold the amount
ReadWallet(p, w) ==
    /\ pc[p] = "tx"
    /\ w \in Keys(op[p]) /\ seen[p][w] = NoBalance
    /\ w = op[p].debit => balance[w] >= op[p].amount
    /\ seen' = [seen EXCEPT ![p][w] = balance[w]]
    /\ UNCHANGED <<lockVars, money, pc, op, held, timer>>

\* The transaction commits absolute balances computed from what it read, and the ledger lines
Commit(p) ==
    /\ pc[p] = "tx"
    /\ \A w \in Keys(op[p]) : seen[p][w] # NoBalance
    /\ balance' = [w \in Wallet |-> IF w \in Keys(op[p]) THEN seen[p][w] + Delta(op[p], w)
                                                         ELSE balance[w]]
    /\ ledger' = Applied(op[p], ledger)
    /\ ToRelease(p)

\* Insufficient funds, a limit, a database error or the transaction timeout
Rollback(p) ==
    /\ pc[p] = "tx"
    /\ ToRelease(p)
    /\ UNCHANGED money

\* Mutant: a plain DEL, whoever the key belongs to
ReleaseAny(p, w) ==
    /\ pc[p] = "release"
    /\ w \in held[p]
    /\ held' = [held EXCEPT ![p] = @ \ {w}]
    /\ lock' = [lock EXCEPT ![w] = Free]
    /\ lease' = [lease EXCEPT ![w] = 0]
    /\ UNCHANGED <<money, pc, op, timer, seen>>

\* Mutant: tried until it deletes the key
ReleaseOwn(p, w) ==
    /\ pc[p] = "release"
    /\ w \in held[p] /\ lock[w] = p
    /\ held' = [held EXCEPT ![p] = @ \ {w}]
    /\ lock' = [lock EXCEPT ![w] = Free]
    /\ lease' = [lease EXCEPT ![w] = 0]
    /\ UNCHANGED <<money, pc, op, timer, seen>>

\* The compare-and-delete script, or its failure, which leaves the key to its lease
Release(p, w) ==
    /\ pc[p] = "release"
    /\ w \in held[p]
    /\ held' = [held EXCEPT ![p] = @ \ {w}]
    /\ \/ /\ lock[w] = p
          /\ lock' = [lock EXCEPT ![w] = Free]
          /\ lease' = [lease EXCEPT ![w] = 0]
       \/ UNCHANGED lockVars
    /\ UNCHANGED <<money, pc, op, timer, seen>>

Finish(p) ==
    /\ pc[p] = "release"
    /\ held[p] = {}
    /\ pc' = [pc EXCEPT ![p] = "done"]
    /\ UNCHANGED <<lockVars, money, op, held, timer, seen>>

\* The API process dies: its connection's transaction rolls back, its keys stay until they expire
Crash(p) ==
    /\ pc[p] \in {"acquire", "tx", "release"}
    /\ pc' = [pc EXCEPT ![p] = "done"]
    /\ held' = [held EXCEPT ![p] = {}]
    /\ timer' = [timer EXCEPT ![p] = 0]
    /\ seen' = [seen EXCEPT ![p] = NothingSeen]
    /\ UNCHANGED <<lockVars, money, op>>

Deadline(p) == IF pc[p] = "acquire" THEN RetryWindow ELSE TxLimit

Timed == {p \in Proc : pc[p] \in {"acquire", "tx"}}

\* Time passes; Redis drops the keys whose lease ends.  A deadline that is due is acted on first.
Tick ==
    /\ \A p \in Timed : timer[p] < Deadline(p)
    /\ timer' = [p \in Proc |-> IF p \in Timed THEN timer[p] + 1 ELSE timer[p]]
    /\ lease' = [w \in Wallet |-> IF lease[w] > 0 THEN lease[w] - 1 ELSE 0]
    /\ lock' = [w \in Wallet |-> IF lease[w] <= 1 THEN Free ELSE lock[w]]
    /\ UNCHANGED <<money, pc, op, held, seen>>

Step(p) ==
    \/ Acquire(p) \/ GiveUp(p) \/ Commit(p) \/ Rollback(p) \/ Finish(p)
    \/ \E w \in Wallet : ReadWallet(p, w) \/ Release(p, w)

Next ==
    \/ \E p \in Proc : Step(p) \/ Crash(p) \/ \E o \in Ops : Arrive(p, o)
    \/ Tick

Fairness == WF_vars(Tick) /\ \A p \in Proc : WF_vars(Step(p))

Spec == Init /\ [][Next]_vars

FairSpec == Spec /\ Fairness

-----------------------------------------------------------------------------
TypeOK ==
    /\ lock \in [Wallet -> Proc \cup {Free}]
    /\ lease \in [Wallet -> 0..LockTTL]
    /\ balance \in [Wallet -> Nat]
    /\ ledger \in [Wallet -> Int]
    /\ pc \in [Proc -> {"start", "acquire", "tx", "release", "done"}]
    /\ op \in [Proc -> Ops \cup {NoOp}]
    /\ held \in [Proc -> SUBSET Wallet]
    /\ timer \in [Proc -> Nat]
    /\ seen \in [Proc -> [Wallet -> Nat \cup {NoBalance}]]

\* The stored balance always equals the wallet's ledger account, the comparison walletsOffLedger
\* makes: no two requests ever update a wallet from the same reading.
StoredMatchesLedger == balance = ledger

\* Money is never spent twice: counting every committed movement, no wallet goes below zero, even
\* when several debits saw enough money at once (the "Insufficient funds" checks).
NoDoubleSpend == \A w \in Wallet : ledger[w] >= 0

\* A request never frees or takes over the lock another one holds: a key changes only when it is
\* free, when its lease runs out, or when its own holder gives it back (the token comparison in
\* RELEASE_SCRIPT and the NX of acquireLock).
ForeignLockKept ==
    [][\A w \in Wallet : lock[w] # Free /\ lock'[w] # lock[w] =>
            /\ lock'[w] = Free
            /\ \/ lease[w] = 1 /\ UNCHANGED <<pc, held>>
               \/ w \in held[lock[w]] \ held'[lock[w]]]_vars

WaitsFor(p, q) ==
    /\ p # q
    /\ pc[p] = "acquire" /\ pc[q] = "acquire"
    /\ \E w \in held[q] : lock[w] = q /\ w = NextKey(p)

\* Transfers in opposite directions never hold one key each while waiting for the other
\* ("Acquires locks in sorted key order to prevent deadlocks", lock.utils.ts).
NoCircularWait == \A p, q \in Proc : ~(WaitsFor(p, q) /\ WaitsFor(q, p))

\* Every request that asks for locks ends, whoever holds them and whoever has crashed.
RequestEnds == \A p \in Proc : pc[p] = "acquire" ~> pc[p] = "done"

\* Every change of the stored balances is one whole operation applied to the current ones.
RefinesAtomicWallet == AW!Spec

-----------------------------------------------------------------------------
\* The longest a request may hold its first key before its transaction is over
LongestHold(o) == IF o.debit \in Wallet /\ o.credit \in Wallet THEN RetryWindow + TxLimit ELSE TxLimit

\* The lease outlives every locked section.  lock.utils.ts and Prisma's defaults give it to
\* single-wallet operations (2 s + 5 s < 10 s) and not to transfers (5 s + 2 s + 5 s > 10 s).
LeaseCoversTx == \A o \in Ops : LongestHold(o) < LockTTL
=============================================================================
