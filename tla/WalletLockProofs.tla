-------------------------- MODULE WalletLockProofs --------------------------
(***************************************************************************)
(* What holds of WalletLock for every set of wallets, movements and        *)
(* requests, and every timing.  The first theorems ask nothing of the      *)
(* timing; the last ones hold when the lease covers the locked section     *)
(* (LeaseCoversTx).                                                        *)
(***************************************************************************)
EXTENDS WalletLock, TLAPS

USE DEF NoWallet, NoBalance

\* A movement touches one or two wallets, and has a positive amount.
LEMMA OpFacts ==
    ASSUME NEW o \in Ops
    PROVE  /\ o \in Operation
           /\ o.amount \in Nat \ {0}
           /\ o.debit # o.credit
           /\ Keys(o) \subseteq Wallet
           /\ Keys(o) # {}
           /\ \A w \in Keys(o) : w = o.debit \/ w = o.credit
<1>1. o \in Operation /\ o.debit # o.credit
    BY WalletAssumption
<1>2. QED
    BY <1>1, WalletAssumption DEF Operation, Keys

\* The next key of a request that lacks one is the smallest it lacks.
LEMMA NextKeyFacts ==
    ASSUME NEW p \in Proc, op[p] \in Ops, held[p] \subseteq Keys(op[p]), held[p] # Keys(op[p])
    PROVE  /\ NextKey(p) \in Keys(op[p]) \ held[p]
           /\ NextKey(p) \in Wallet
           /\ \A v \in Keys(op[p]) \ held[p] : NextKey(p) <= v
<1> DEFINE S == Keys(op[p]) \ held[p]
<1>1. S \subseteq Nat /\ S # {} /\ \A w \in S : w = op[p].debit \/ w = op[p].credit
    BY OpFacts, WalletAssumption
<1>2. \E w \in S : \A v \in S : w <= v
    <2>1. PICK a \in S : TRUE
        BY <1>1
    <2>2. CASE \E b \in S : b < a
        BY <1>1, <2>1, <2>2
    <2>3. CASE \A b \in S : ~(b < a)
        BY <1>1, <2>1, <2>3
    <2> QED BY <2>2, <2>3
<1>3. NextKey(p) \in S /\ \A v \in S : NextKey(p) <= v
    BY <1>2 DEF NextKey
<1> QED
    BY <1>3, OpFacts

-----------------------------------------------------------------------------
(***************************************************************************)
(* Type correctness.  That a stored balance stays a natural number needs   *)
(* the funds check: an open transaction has seen the amount it takes.      *)
(***************************************************************************)
Busy(p) == pc[p] \in {"acquire", "tx"}

FundsChecked ==
    \A p \in Proc :
        /\ Busy(p) => op[p] \in Ops
        /\ \A w \in Wallet : pc[p] = "tx" /\ w = op[p].debit /\ seen[p][w] # NoBalance
                                => seen[p][w] >= op[p].amount
        /\ pc[p] \in {"start", "acquire"} => seen[p] = NothingSeen

\* A request holds the keys it has asked for so far, smallest first, and a transaction all of them.
InOrder(h, ks) == \A v \in h, w \in ks \ h : v < w

Holding ==
    \A p \in Proc :
        /\ pc[p] = "start" => held[p] = {} /\ timer[p] = 0
        /\ pc[p] = "acquire" =>
               /\ held[p] \subseteq Keys(op[p])
               /\ held[p] # Keys(op[p])
               /\ InOrder(held[p], Keys(op[p]))
        /\ pc[p] = "tx" => held[p] = Keys(op[p])

TypeInv == TypeOK /\ FundsChecked /\ Holding

LEMMA TypeInit == Init => TypeInv
<1> SUFFICES ASSUME Init PROVE TypeInv
    OBVIOUS
<1>1. TypeOK
    BY WalletAssumption, LockAssumption DEF Init, TypeOK, NothingSeen
<1>2. FundsChecked /\ Holding
    BY DEF Init, FundsChecked, Busy, Holding
<1> QED BY <1>1, <1>2 DEF TypeInv

LEMMA TypeStep == TypeInv /\ [Next]_vars => TypeInv'
<1> SUFFICES ASSUME TypeInv, [Next]_vars PROVE TypeInv'
    OBVIOUS
<1> USE DEF TypeInv, TypeOK, lockVars, money
<1>1. ASSUME NEW p \in Proc, NEW o \in Ops, Arrive(p, o) PROVE TypeInv'
    BY <1>1, OpFacts DEF Arrive, FundsChecked, Busy, Holding, InOrder
<1>2. ASSUME NEW p \in Proc, Acquire(p) PROVE TypeInv'
    <2> DEFINE w == NextKey(p)
    <2>1. op[p] \in Ops
        BY <1>2 DEF Acquire, FundsChecked, Busy
    <2>2. /\ w \in Keys(op[p]) \ held[p]
          /\ w \in Wallet
          /\ \A v \in Keys(op[p]) \ held[p] : w <= v
        BY <1>2, <2>1, NextKeyFacts DEF Acquire, Holding
    <2> HIDE DEF w
    <2>3. /\ lock[w] = Free
          /\ lock' = [lock EXCEPT ![w] = p]
          /\ lease' = [lease EXCEPT ![w] = LockTTL]
          /\ held' = [held EXCEPT ![p] = held[p] \cup {w}]
          /\ pc' = IF Keys(op[p]) = held[p] \cup {w} THEN [pc EXCEPT ![p] = "tx"] ELSE pc
          /\ timer' = [timer EXCEPT ![p] = 0]
          /\ UNCHANGED <<balance, ledger, op, seen>>
        BY <1>2 DEF Acquire, w
    <2>4. TypeOK'
        BY <2>2, <2>3, LockAssumption
    <2>5. pc'[p] = IF Keys(op[p]) = held[p] \cup {w} THEN "tx" ELSE "acquire"
        BY <1>2, <2>3 DEF Acquire
    <2>6. ASSUME NEW q \in Proc, q # p
          PROVE  /\ pc'[q] = pc[q] /\ held'[q] = held[q] /\ op'[q] = op[q]
                 /\ seen'[q] = seen[q] /\ timer'[q] = timer[q]
        BY <2>3, <2>6
    <2>7. held'[p] = held[p] \cup {w} /\ op'[p] = op[p] /\ seen'[p] = seen[p]
        BY <2>3
    <2>8. FundsChecked'
        <3>1. \A v \in Wallet : seen[p][v] = NoBalance
            BY <1>2 DEF Acquire, FundsChecked, NothingSeen
        <3>2. ASSUME NEW q \in Proc
              PROVE  /\ pc'[q] \in {"acquire", "tx"} => op'[q] \in Ops
                     /\ \A v \in Wallet : pc'[q] = "tx" /\ v = op'[q].debit /\ seen'[q][v] # NoBalance
                                            => seen'[q][v] >= op'[q].amount
                     /\ pc'[q] \in {"start", "acquire"} => seen'[q] = NothingSeen
            <4>1. CASE q = p
                BY <1>2, <2>1, <2>5, <2>7, <3>1, <4>1 DEF FundsChecked, Acquire
            <4>2. CASE q # p
                BY <2>6, <4>2 DEF FundsChecked, Busy
            <4> QED BY <4>1, <4>2
        <3> QED BY <3>2 DEF FundsChecked, Busy, NothingSeen
    <2>9. Holding'
        <3>1. /\ held[p] \subseteq Keys(op[p])
              /\ InOrder(held[p], Keys(op[p]))
              /\ Keys(op[p]) \subseteq Nat
            BY <1>2, <2>1, OpFacts, WalletAssumption DEF Acquire, Holding
        <3>2. InOrder(held'[p], Keys(op[p]))
            <4> SUFFICES ASSUME NEW v \in held[p] \cup {w}, NEW x \in Keys(op[p]) \ (held[p] \cup {w})
                         PROVE  v < x
                BY <2>7 DEF InOrder
            <4>1. CASE v \in held[p]
                BY <3>1, <4>1 DEF InOrder
            <4>2. CASE v = w
                <5>1. x \in Keys(op[p]) \ held[p] /\ x # w
                    OBVIOUS
                <5>2. w <= x /\ w \in Nat /\ x \in Nat
                    BY <2>2, <3>1, <5>1
                <5> QED BY <4>2, <5>1, <5>2
            <4> QED BY <4>1, <4>2
        <3>3. ASSUME NEW q \in Proc
              PROVE  /\ pc'[q] = "start" => held'[q] = {} /\ timer'[q] = 0
                     /\ pc'[q] = "acquire" =>
                            /\ held'[q] \subseteq Keys(op'[q])
                            /\ held'[q] # Keys(op'[q])
                            /\ InOrder(held'[q], Keys(op'[q]))
                     /\ pc'[q] = "tx" => held'[q] = Keys(op'[q])
            <4>1. CASE q = p
                BY <2>2, <2>5, <2>7, <3>1, <3>2, <4>1
            <4>2. CASE q # p
                BY <2>6, <4>2 DEF Holding
            <4> QED BY <4>1, <4>2
        <3> QED BY <3>3 DEF Holding
    <2> QED BY <2>4, <2>8, <2>9
<1>3. ASSUME NEW p \in Proc, GiveUp(p) PROVE TypeInv'
    BY <1>3 DEF GiveUp, ToRelease, FundsChecked, Busy, NothingSeen, Holding
<1>4. ASSUME NEW p \in Proc, NEW w \in Wallet, ReadWallet(p, w) PROVE TypeInv'
    BY <1>4 DEF ReadWallet, FundsChecked, Busy, Holding
<1>5. ASSUME NEW p \in Proc, Commit(p) PROVE TypeInv'
    <2>1. op[p] \in Ops
        BY <1>5 DEF Commit, FundsChecked, Busy
    <2>2. ASSUME NEW w \in Wallet PROVE Delta(op[p], w) \in Int
        BY <2>1, OpFacts DEF Delta
    <2>3. balance' \in [Wallet -> Nat]
        <3>1. ASSUME NEW w \in Wallet, w \in Keys(op[p])
              PROVE  seen[p][w] + Delta(op[p], w) \in Nat
            BY <1>5, <2>1, <3>1, OpFacts DEF Commit, FundsChecked, Delta, Keys
        <3> QED BY <1>5, <3>1 DEF Commit
    <2>4. ledger' \in [Wallet -> Int]
        BY <1>5, <2>2 DEF Commit, Applied
    <2> QED BY <1>5, <2>3, <2>4 DEF Commit, ToRelease, FundsChecked, Busy, NothingSeen, Holding
<1>6. ASSUME NEW p \in Proc, Rollback(p) PROVE TypeInv'
    BY <1>6 DEF Rollback, ToRelease, FundsChecked, Busy, NothingSeen, Holding
<1>7. ASSUME NEW p \in Proc, NEW w \in Wallet, Release(p, w) PROVE TypeInv'
    <2>1. TypeOK'
        <3>1. held' \in [Proc -> SUBSET Wallet]
            BY <1>7 DEF Release
        <3>2. lock' \in [Wallet -> Proc \cup {Free}] /\ lease' \in [Wallet -> 0..LockTTL]
            <4>1. CASE lock' = [lock EXCEPT ![w] = Free] /\ lease' = [lease EXCEPT ![w] = 0]
                BY <4>1, LockAssumption
            <4>2. CASE UNCHANGED <<lock, lease>>
                BY <4>2
            <4> QED BY <1>7, <4>1, <4>2 DEF Release
        <3> QED BY <1>7, <3>1, <3>2 DEF Release
    <2>2. pc[p] = "release" /\ \A q \in Proc \ {p} : held'[q] = held[q]
        BY <1>7 DEF Release
    <2>3. FundsChecked'
        BY <1>7 DEF Release, FundsChecked, Busy
    <2>4. Holding'
        BY <1>7, <2>2 DEF Release, Holding
    <2> QED BY <2>1, <2>3, <2>4
<1>8. ASSUME NEW p \in Proc, Finish(p) PROVE TypeInv'
    BY <1>8 DEF Finish, FundsChecked, Busy, Holding
<1>9. ASSUME NEW p \in Proc, Crash(p) PROVE TypeInv'
    BY <1>9 DEF Crash, FundsChecked, Busy, NothingSeen, Holding
<1>10. ASSUME Tick PROVE TypeInv'
    <2>1. lock' \in [Wallet -> Proc \cup {Free}] /\ lease' \in [Wallet -> 0..LockTTL]
        BY <1>10, LockAssumption DEF Tick
    <2>2. timer' \in [Proc -> Nat]
        BY <1>10 DEF Tick
    <2>3. \A p \in Proc : pc[p] = "start" => timer'[p] = timer[p]
        BY <1>10 DEF Tick, Timed
    <2>4. FundsChecked' /\ Holding'
        BY <1>10, <2>3 DEF Tick, FundsChecked, Busy, Holding
    <2> QED BY <1>10, <2>1, <2>2, <2>4 DEF Tick
<1>11. CASE UNCHANGED vars
    BY <1>11 DEF vars, FundsChecked, Busy, Holding
<1> QED
    BY <1>1, <1>2, <1>3, <1>4, <1>5, <1>6, <1>7, <1>8, <1>9, <1>10, <1>11 DEF Next, Step

\* Every variable keeps its type; above all, no stored balance is ever negative, whatever the timing
\* of the lock (the funds check of debitWallet and transferFunds).
THEOREM TypeCorrect == Spec => []TypeOK
<1>1. Spec => []TypeInv
    BY TypeInit, TypeStep, PTL DEF Spec
<1>2. TypeInv => TypeOK
    BY DEF TypeInv
<1> QED BY <1>1, <1>2, PTL

-----------------------------------------------------------------------------
(***************************************************************************)
(* The lock protocol, whatever the timing.                                 *)
(***************************************************************************)

\* Two requests that each hold a key never wait for each other, for any wallets and any movements:
\* along the sorted order of withMultiLock each would have to wait for a smaller key than it holds.
THEOREM NoCircularWaitHolds == Spec => []NoCircularWait
<1>1. TypeInv => NoCircularWait
    <2> SUFFICES ASSUME TypeInv, NEW p \in Proc, NEW q \in Proc, WaitsFor(p, q), WaitsFor(q, p)
                 PROVE  FALSE
        BY DEF NoCircularWait
    <2>1. ASSUME NEW r \in Proc, pc[r] = "acquire"
          PROVE  /\ NextKey(r) \in Wallet
                 /\ \A v \in held[r] : v \in Wallet /\ v < NextKey(r)
        <3>1. /\ op[r] \in Ops
              /\ held[r] \subseteq Keys(op[r])
              /\ held[r] # Keys(op[r])
              /\ InOrder(held[r], Keys(op[r]))
            BY <2>1 DEF TypeInv, FundsChecked, Busy, Holding
        <3> QED BY <3>1, NextKeyFacts, OpFacts DEF InOrder
    <2>2. pc[p] = "acquire" /\ pc[q] = "acquire" /\ NextKey(p) \in held[q] /\ NextKey(q) \in held[p]
        BY DEF WaitsFor
    <2>3. NextKey(p) < NextKey(q) /\ NextKey(q) < NextKey(p)
        BY <2>1, <2>2
    <2>4. NextKey(p) \in Nat /\ NextKey(q) \in Nat
        BY <2>1, <2>2, WalletAssumption
    <2> QED BY <2>3, <2>4
<1>2. Spec => []TypeInv
    BY TypeInit, TypeStep, PTL DEF Spec
<1> QED BY <1>1, <1>2, PTL

\* A key that exists has time left.
LeaseAlive == \A w \in Wallet : lock[w] # Free => lease[w] > 0

LEMMA LeaseAliveStep == TypeInv /\ LeaseAlive /\ [Next]_vars => LeaseAlive'
<1> SUFFICES ASSUME TypeInv, LeaseAlive, [Next]_vars PROVE LeaseAlive'
    OBVIOUS
<1> USE DEF TypeInv, TypeOK, lockVars, money
<1>1. ASSUME NEW p \in Proc, Acquire(p) PROVE LeaseAlive'
    <2> DEFINE w == NextKey(p)
    <2>1. lock' = [lock EXCEPT ![w] = p] /\ lease' = [lease EXCEPT ![w] = LockTTL]
        BY <1>1 DEF Acquire
    <2> HIDE DEF w
    <2> QED BY <2>1, LockAssumption DEF LeaseAlive
<1>2. ASSUME NEW p \in Proc, NEW w \in Wallet, Release(p, w) PROVE LeaseAlive'
    <2>1. CASE lock' = [lock EXCEPT ![w] = Free] /\ lease' = [lease EXCEPT ![w] = 0]
        BY <2>1 DEF LeaseAlive
    <2>2. CASE UNCHANGED <<lock, lease>>
        BY <2>2 DEF LeaseAlive
    <2> QED BY <1>2, <2>1, <2>2 DEF Release
<1>3. ASSUME Tick PROVE LeaseAlive'
    BY <1>3 DEF Tick, LeaseAlive
<1>4. ASSUME UNCHANGED <<lock, lease>> PROVE LeaseAlive'
    BY <1>4 DEF LeaseAlive
<1> QED
    BY <1>1, <1>2, <1>3, <1>4
    DEF Next, Step, Arrive, GiveUp, ReadWallet, Commit, Rollback, Finish, Crash, ToRelease, vars

\* Only its holder's release or the end of its lease ever frees a lock, and nobody takes it over.
THEOREM ForeignLockKeptHolds == Spec => ForeignLockKept
<1> DEFINE Kept == \A w \in Wallet : lock[w] # Free /\ lock'[w] # lock[w] =>
                       /\ lock'[w] = Free
                       /\ \/ lease[w] = 1 /\ UNCHANGED <<pc, held>>
                          \/ w \in held[lock[w]] \ held'[lock[w]]
<1>1. TypeInv /\ LeaseAlive /\ [Next]_vars => [Kept]_vars
    <2> SUFFICES ASSUME TypeInv, LeaseAlive, Next PROVE Kept
        OBVIOUS
    <2> USE DEF TypeInv, TypeOK, lockVars, money
    <2>1. ASSUME NEW p \in Proc, Acquire(p) PROVE Kept
        <3> DEFINE k == NextKey(p)
        <3>1. lock[k] = Free /\ lock' = [lock EXCEPT ![k] = p]
            BY <2>1 DEF Acquire
        <3> HIDE DEF k
        <3> QED BY <3>1
    <2>2. ASSUME NEW p \in Proc, NEW v \in Wallet, Release(p, v) PROVE Kept
        <3>1. v \in held[p] \ held'[p]
            BY <2>2 DEF Release
        <3>2. CASE lock[v] = p /\ lock' = [lock EXCEPT ![v] = Free]
            BY <3>1, <3>2
        <3>3. CASE lock' = lock
            BY <3>3
        <3> QED BY <2>2, <3>2, <3>3 DEF Release
    <2>3. ASSUME Tick PROVE Kept
        BY <2>3 DEF Tick, LeaseAlive
    <2>4. ASSUME lock' = lock PROVE Kept
        BY <2>4
    <2> HIDE DEF Kept
    <2> QED
        BY <2>1, <2>2, <2>3, <2>4
        DEF Next, Step, Arrive, GiveUp, ReadWallet, Commit, Rollback, Finish, Crash, ToRelease
<1>2. Init => LeaseAlive
    BY DEF Init, LeaseAlive
<1> QED
    BY <1>1, <1>2, TypeInit, TypeStep, LeaseAliveStep, PTL DEF Spec, ForeignLockKept

-----------------------------------------------------------------------------
(***************************************************************************)
(* With a lease that covers the locked section.  LeaseInv keeps account of *)
(* the time: a request that waits or whose transaction is open still owns  *)
(* every key it holds, with at least the time left that its own deadline   *)
(* may still take.  So no other request can be in a transaction on its     *)
(* wallets (Fresh), and what it has read is still what is stored.          *)
(***************************************************************************)
Slack(o) == LongestHold(o) - TxLimit

LeaseInv ==
    \A p \in Proc :
        /\ pc[p] = "acquire" =>
               /\ timer[p] <= RetryWindow
               /\ \A w \in held[p] : lock[w] = p /\ lease[w] + timer[p] >= LockTTL
        /\ pc[p] = "tx" =>
               /\ timer[p] <= TxLimit
               /\ \A w \in held[p] : lock[w] = p /\ lease[w] + timer[p] + Slack(op[p]) >= LockTTL

Fresh ==
    \A p \in Proc, w \in Wallet :
        pc[p] = "tx" /\ seen[p][w] # NoBalance => w \in Keys(op[p]) /\ seen[p][w] = balance[w]

IInv == TypeInv /\ LeaseInv /\ Fresh

\* A request that holds a key and lacks another carries a transfer, whose slack is the retry window.
LEMMA SlackFacts ==
    ASSUME NEW o \in Ops
    PROVE  /\ Slack(o) \in {0, RetryWindow}
           /\ \A h \in SUBSET Keys(o) : h # {} /\ h # Keys(o) => Slack(o) = RetryWindow
           /\ LeaseCoversTx => Slack(o) + TxLimit < LockTTL
<1>1. o.debit \in Wallet /\ o.credit \in Wallet => Slack(o) = RetryWindow
    BY LockAssumption DEF Slack, LongestHold
<1>2. ~(o.debit \in Wallet /\ o.credit \in Wallet) => Slack(o) = 0
    BY LockAssumption DEF Slack, LongestHold
<1>3. ASSUME NEW h \in SUBSET Keys(o), h # {}, h # Keys(o)
      PROVE  o.debit \in Wallet /\ o.credit \in Wallet
    BY <1>3 DEF Keys
<1>4. LeaseCoversTx => Slack(o) + TxLimit < LockTTL
    BY LockAssumption DEF Slack, LongestHold, LeaseCoversTx
<1> QED BY <1>1, <1>2, <1>3, <1>4

LEMMA LeaseInit == Init => LeaseInv /\ Fresh
BY DEF Init, LeaseInv, Fresh

\* What a transaction may commit is the movement applied to the balances of that moment.
LEMMA CommitApplies ==
    ASSUME TypeInv, Fresh, NEW p \in Proc, Commit(p)
    PROVE  /\ op[p] \in Ops
           /\ balance' = Applied(op[p], balance)
           /\ op[p].debit \in Wallet => balance[op[p].debit] >= op[p].amount
<1> USE DEF TypeInv, TypeOK
<1>1. op[p] \in Ops
    BY DEF Commit, FundsChecked, Busy
<1>2. ASSUME NEW w \in Wallet
      PROVE  balance'[w] = balance[w] + Delta(op[p], w)
    <2>1. CASE w \in Keys(op[p])
        BY <2>1 DEF Commit, Fresh
    <2>2. CASE w \notin Keys(op[p])
        <3>1. Delta(op[p], w) = 0
            BY <2>2 DEF Delta, Keys
        <3> QED BY <2>2, <3>1 DEF Commit
    <2> QED BY <2>1, <2>2
<1>3. balance' = Applied(op[p], balance)
    <2>1. balance' = [w \in Wallet |-> balance'[w]]
        BY DEF Commit
    <2> QED BY <1>2, <2>1 DEF Applied
<1>4. ASSUME op[p].debit \in Wallet PROVE balance[op[p].debit] >= op[p].amount
    BY <1>4 DEF Commit, Fresh, FundsChecked, Keys
<1> QED BY <1>1, <1>3, <1>4

\* The account of one request's time, for the proof that every step keeps it
LeaseOf(p) ==
    /\ pc[p] = "acquire" =>
           /\ timer[p] <= RetryWindow
           /\ \A w \in held[p] : lock[w] = p /\ lease[w] + timer[p] >= LockTTL
    /\ pc[p] = "tx" =>
           /\ timer[p] <= TxLimit
           /\ \A w \in held[p] : lock[w] = p /\ lease[w] + timer[p] + Slack(op[p]) >= LockTTL

LEMMA LeaseStep == LeaseCoversTx /\ TypeInv /\ LeaseInv /\ [Next]_vars => LeaseInv'
<1> SUFFICES ASSUME LeaseCoversTx, TypeInv, LeaseInv, [Next]_vars, NEW q \in Proc
             PROVE  LeaseOf(q)'
    BY DEF LeaseInv, LeaseOf
<1> USE DEF TypeInv, TypeOK, lockVars, money
<1>0. LeaseOf(q) /\ held[q] \subseteq Wallet
    BY DEF LeaseInv, LeaseOf
<1>1. ASSUME NEW p \in Proc, NEW o \in Ops, Arrive(p, o) PROVE LeaseOf(q)'
    <2>1. CASE q = p
        <3>1. pc'[q] = "acquire" /\ held'[q] = {} /\ timer'[q] = timer[q]
            BY <1>1, <2>1 DEF Arrive, Holding
        <3>2. timer[q] = 0
            BY <1>1, <2>1 DEF Arrive, Holding
        <3> QED BY <3>1, <3>2, LockAssumption DEF LeaseOf
    <2>2. CASE q # p
        BY <1>0, <1>1, <2>2 DEF Arrive, LeaseOf
    <2> QED BY <2>1, <2>2
<1>2. ASSUME NEW p \in Proc, Acquire(p) PROVE LeaseOf(q)'
    <2> DEFINE k == NextKey(p)
    <2>1. op[p] \in Ops
        BY <1>2 DEF Acquire, FundsChecked, Busy
    <2>2. /\ held[p] \subseteq Keys(op[p])
          /\ held[p] # Keys(op[p])
        BY <1>2 DEF Acquire, Holding
    <2>3. k \in Keys(op[p]) \ held[p] /\ k \in Wallet
        BY <2>1, <2>2, NextKeyFacts
    <2>4. /\ pc[p] = "acquire"
          /\ lock[k] = Free
          /\ lock' = [lock EXCEPT ![k] = p]
          /\ lease' = [lease EXCEPT ![k] = LockTTL]
          /\ held' = [held EXCEPT ![p] = held[p] \cup {k}]
          /\ pc' = IF Keys(op[p]) = held[p] \cup {k} THEN [pc EXCEPT ![p] = "tx"] ELSE pc
          /\ timer' = [timer EXCEPT ![p] = 0]
          /\ op' = op
        BY <1>2 DEF Acquire
    <2> HIDE DEF k
    <2>5. CASE q # p
        <3>1. pc'[q] = pc[q] /\ held'[q] = held[q] /\ timer'[q] = timer[q] /\ op'[q] = op[q]
            BY <2>4, <2>5
        <3>2. ASSUME NEW w \in held[q], pc[q] \in {"acquire", "tx"}
              PROVE  lock'[w] = lock[w] /\ lease'[w] = lease[w]
            <4>1. lock[w] = q /\ w \in Wallet
                BY <1>0, <3>2 DEF LeaseOf
            <4>2. w # k
                BY <4>1, <2>4, LockAssumption
            <4> QED BY <2>4, <4>1, <4>2
        <3> QED BY <1>0, <3>1, <3>2 DEF LeaseOf
    <2>6. CASE q = p
        <3>1. held'[q] = held[q] \cup {k} /\ timer'[q] = 0 /\ op'[q] = op[q] /\ pc'[q] \in {"acquire", "tx"}
            BY <2>4, <2>6
        <3>2. lock'[k] = q /\ lease'[k] = LockTTL
            BY <2>3, <2>4, <2>6
        <3>3. Slack(op[q]) \in {0, RetryWindow}
            BY <2>1, <2>6, SlackFacts
        <3>4. ASSUME NEW w \in held[q]
              PROVE  lock'[w] = q /\ lease'[w] + RetryWindow >= LockTTL /\ Slack(op[q]) = RetryWindow
            <4>1. w # k /\ w \in Wallet
                BY <2>3, <2>6, <1>0
            <4>2. lock[w] = q /\ lease[w] + timer[q] >= LockTTL /\ timer[q] <= RetryWindow
                BY <1>0, <2>4, <2>6 DEF LeaseOf
            <4>3. lock'[w] = lock[w] /\ lease'[w] = lease[w]
                BY <2>4, <4>1
            <4>4. Slack(op[q]) = RetryWindow
                BY <2>1, <2>2, <2>6, SlackFacts
            <4>5. lease[w] \in Nat /\ timer[q] \in Nat
                BY <4>1, LockAssumption
            <4> QED BY <4>2, <4>3, <4>4, <4>5, LockAssumption
        <3>5. CASE held[q] = {}
            BY <3>1, <3>2, <3>3, <3>5, LockAssumption DEF LeaseOf
        <3>6. CASE held[q] # {} /\ pc'[q] = "tx"
            <4>1. ASSUME NEW w \in held'[q]
                  PROVE  lock'[w] = q /\ lease'[w] + 0 + Slack(op[q]) >= LockTTL
                <5>1. CASE w = k
                    BY <3>2, <3>3, <5>1, LockAssumption
                <5>2. CASE w \in held[q]
                    <6>1. lease'[w] \in Int
                        BY <1>0, <2>4, <5>2, LockAssumption
                    <6> QED BY <3>4, <5>2, <6>1, LockAssumption
                <5> QED BY <3>1, <5>1, <5>2
            <4> QED BY <3>1, <3>6, <4>1, LockAssumption DEF LeaseOf
        <3>7. CASE held[q] # {} /\ pc'[q] = "acquire"
            <4>1. held[q] \cup {k} # Keys(op[q])
                BY <2>4, <2>6, <3>7
            <4> QED BY <2>1, <2>2, <2>3, <2>6, <3>7, <4>1, OpFacts
        <3> QED BY <3>1, <3>5, <3>6, <3>7
    <2> QED BY <2>5, <2>6
<1>3. ASSUME NEW p \in Proc, GiveUp(p) \/ Commit(p) \/ Rollback(p) PROVE LeaseOf(q)'
    <2>1. CASE q = p
        <3>1. pc'[q] = "release"
            BY <1>3, <2>1 DEF GiveUp, Commit, Rollback, ToRelease
        <3> QED BY <3>1 DEF LeaseOf
    <2>2. CASE q # p
        BY <1>0, <1>3, <2>2 DEF GiveUp, Commit, Rollback, ToRelease, LeaseOf
    <2> QED BY <2>1, <2>2
<1>4. ASSUME NEW p \in Proc, NEW w \in Wallet, ReadWallet(p, w) PROVE LeaseOf(q)'
    BY <1>0, <1>4 DEF ReadWallet, LeaseOf
<1>5. ASSUME NEW p \in Proc, NEW w \in Wallet, Release(p, w) PROVE LeaseOf(q)'
    <2>1. pc[p] = "release" /\ pc' = pc /\ timer' = timer /\ op' = op
        BY <1>5 DEF Release
    <2>2. CASE q = p
        BY <2>1, <2>2 DEF LeaseOf
    <2>3. CASE q # p
        <3>1. held'[q] = held[q]
            BY <1>5, <2>3 DEF Release
        <3>2. ASSUME NEW v \in held[q], pc[q] \in {"acquire", "tx"}
              PROVE  lock'[v] = lock[v] /\ lease'[v] = lease[v]
            <4>1. lock[v] = q /\ v \in Wallet
                BY <1>0, <3>2 DEF LeaseOf
            <4> QED BY <1>5, <2>3, <4>1 DEF Release
        <3> QED BY <1>0, <2>1, <3>1, <3>2 DEF LeaseOf
    <2> QED BY <2>2, <2>3
<1>6. ASSUME NEW p \in Proc, Finish(p) \/ Crash(p) PROVE LeaseOf(q)'
    <2>1. CASE q = p
        <3>1. pc'[q] = "done"
            BY <1>6, <2>1 DEF Finish, Crash
        <3> QED BY <3>1 DEF LeaseOf
    <2>2. CASE q # p
        BY <1>0, <1>6, <2>2 DEF Finish, Crash, LeaseOf
    <2> QED BY <2>1, <2>2
<1>7. ASSUME Tick PROVE LeaseOf(q)'
    <2>1. CASE pc[q] = "acquire"
        <3>1. timer[q] < RetryWindow /\ timer'[q] = timer[q] + 1 /\ pc'[q] = "acquire" /\ held'[q] = held[q]
            BY <1>7, <2>1 DEF Tick, Timed, Deadline
        <3>2. ASSUME NEW w \in held[q]
              PROVE  lock'[w] = q /\ lease'[w] + timer'[q] >= LockTTL
            <4>1. lock[w] = q /\ lease[w] + timer[q] >= LockTTL /\ w \in Wallet
                BY <1>0, <2>1 DEF LeaseOf
            <4>2. RetryWindow < LockTTL
                <5>1. /\ op[q] \in Ops
                      /\ held[q] \subseteq Keys(op[q])
                      /\ held[q] # Keys(op[q])
                    BY <2>1 DEF FundsChecked, Busy, Holding
                <5>2. Slack(op[q]) = RetryWindow /\ Slack(op[q]) + TxLimit < LockTTL
                    BY <5>1, SlackFacts
                <5> QED BY <5>2, LockAssumption
            <4>3. lease[w] \in Nat /\ timer[q] \in Nat
                BY <4>1, LockAssumption
            <4>4. lease[w] > 1
                BY <3>1, <4>1, <4>2, <4>3, LockAssumption
            <4>5. lock'[w] = lock[w] /\ lease'[w] = lease[w] - 1
                BY <1>7, <4>1, <4>3, <4>4 DEF Tick
            <4> QED BY <3>1, <4>1, <4>3, <4>5, LockAssumption
        <3>3. timer'[q] <= RetryWindow
            BY <3>1, LockAssumption
        <3> QED BY <3>1, <3>2, <3>3 DEF LeaseOf
    <2>2. CASE pc[q] = "tx"
        <3>1. /\ timer[q] < TxLimit /\ timer'[q] = timer[q] + 1
              /\ pc'[q] = "tx" /\ held'[q] = held[q] /\ op'[q] = op[q]
            BY <1>7, <2>2 DEF Tick, Timed, Deadline
        <3>2. Slack(op[q]) \in Nat /\ Slack(op[q]) + TxLimit < LockTTL
            BY <2>2, SlackFacts, LockAssumption DEF FundsChecked, Busy
        <3>3. ASSUME NEW w \in held[q]
              PROVE  lock'[w] = q /\ lease'[w] + timer'[q] + Slack(op[q]) >= LockTTL
            <4>1. lock[w] = q /\ lease[w] + timer[q] + Slack(op[q]) >= LockTTL /\ w \in Wallet
                BY <1>0, <2>2 DEF LeaseOf
            <4>2. lease[w] \in Nat /\ timer[q] \in Nat
                BY <4>1, LockAssumption
            <4>3. lease[w] > 1
                BY <3>1, <3>2, <4>1, <4>2, LockAssumption
            <4>4. lock'[w] = lock[w] /\ lease'[w] = lease[w] - 1
                BY <1>7, <4>1, <4>2, <4>3 DEF Tick
            <4> QED BY <3>1, <3>2, <4>1, <4>2, <4>4, LockAssumption
        <3>4. timer'[q] <= TxLimit
            BY <3>1, LockAssumption
        <3> QED BY <3>1, <3>3, <3>4 DEF LeaseOf
    <2>3. CASE pc[q] \notin {"acquire", "tx"}
        BY <1>7, <2>3 DEF Tick, LeaseOf
    <2> QED BY <2>1, <2>2, <2>3
<1>8. CASE UNCHANGED vars
    BY <1>0, <1>8 DEF vars, LeaseOf
<1> QED
    BY <1>1, <1>2, <1>3, <1>4, <1>5, <1>6, <1>7, <1>8 DEF Next, Step

LEMMA FreshStep == TypeInv /\ LeaseInv /\ Fresh /\ [Next]_vars => Fresh'
<1> SUFFICES ASSUME TypeInv, LeaseInv, Fresh, [Next]_vars, NEW q \in Proc, NEW w \in Wallet,
                    pc'[q] = "tx", seen'[q][w] # NoBalance
             PROVE  w \in Keys(op'[q]) /\ seen'[q][w] = balance'[w]
    BY DEF Fresh
<1> USE DEF TypeInv, TypeOK, lockVars, money
<1>1. ASSUME NEW p \in Proc, NEW o \in Ops, Arrive(p, o)
      PROVE  w \in Keys(op'[q]) /\ seen'[q][w] = balance'[w]
    BY <1>1 DEF Arrive, Fresh
<1>2. ASSUME NEW p \in Proc, Acquire(p)
      PROVE  w \in Keys(op'[q]) /\ seen'[q][w] = balance'[w]
    <2>1. seen' = seen /\ op' = op /\ balance' = balance /\ pc[p] = "acquire"
        BY <1>2 DEF Acquire
    <2>2. q # p
        BY <2>1 DEF FundsChecked, NothingSeen
    <2>3. pc[q] = "tx"
        BY <1>2, <2>2 DEF Acquire
    <2> QED BY <2>1, <2>3 DEF Fresh
<1>3. ASSUME NEW p \in Proc, GiveUp(p) \/ Rollback(p) \/ Finish(p) \/ Crash(p)
      PROVE  w \in Keys(op'[q]) /\ seen'[q][w] = balance'[w]
    BY <1>3 DEF GiveUp, Rollback, Finish, Crash, ToRelease, Fresh
<1>4. ASSUME NEW p \in Proc, NEW v \in Wallet, ReadWallet(p, v)
      PROVE  w \in Keys(op'[q]) /\ seen'[q][w] = balance'[w]
    BY <1>4 DEF ReadWallet, Fresh
<1>5. ASSUME NEW p \in Proc, Commit(p)
      PROVE  w \in Keys(op'[q]) /\ seen'[q][w] = balance'[w]
    <2>1. /\ q # p /\ pc[q] = "tx"
          /\ seen'[q] = seen[q] /\ op'[q] = op[q]
        BY <1>5 DEF Commit, ToRelease
    <2>2. w \in Keys(op[q]) /\ seen[q][w] = balance[w]
        BY <2>1 DEF Fresh
    <2>3. lock[w] = q
        BY <2>1, <2>2 DEF LeaseInv, Holding
    <2>4. \A v \in Keys(op[p]) : lock[v] = p
        BY <1>5 DEF Commit, LeaseInv, Holding
    <2>5. w \notin Keys(op[p])
        BY <2>1, <2>3, <2>4
    <2> QED BY <1>5, <2>1, <2>2, <2>5 DEF Commit
<1>6. ASSUME NEW p \in Proc, NEW v \in Wallet, Release(p, v)
      PROVE  w \in Keys(op'[q]) /\ seen'[q][w] = balance'[w]
    BY <1>6 DEF Release, Fresh
<1>7. ASSUME Tick PROVE w \in Keys(op'[q]) /\ seen'[q][w] = balance'[w]
    BY <1>7 DEF Tick, Fresh
<1>8. CASE UNCHANGED vars
    BY <1>8 DEF vars, Fresh
<1> QED
    BY <1>1, <1>2, <1>3, <1>4, <1>5, <1>6, <1>7, <1>8 DEF Next, Step

\* The inductive invariant holds when the lease covers the transaction.
LEMMA LeaseSafe == LeaseCoversTx => (Spec => []IInv)
<1>1. Init => IInv
    BY TypeInit, LeaseInit DEF IInv
<1>2. LeaseCoversTx /\ IInv /\ [Next]_vars => IInv'
    BY TypeStep, LeaseStep, FreshStep DEF IInv
<1>3. ASSUME LeaseCoversTx PROVE IInv /\ [][Next]_vars => []IInv
    <2>1. IInv /\ [Next]_vars => IInv'
        BY <1>2, <1>3
    <2> QED BY <2>1, PTL
<1> QED BY <1>1, <1>3 DEF Spec

\* The steps other than a commit leave the money alone.
LEMMA OnlyCommitMovesMoney ==
    ASSUME [Next]_vars, \A p \in Proc : ~Commit(p)
    PROVE  UNCHANGED money
BY DEF Next, Step, Arrive, Acquire, GiveUp, ReadWallet, Rollback, Release, Finish, Crash, Tick,
       lockVars, money, vars

\* The stored balances always agree with the ledger, and no money is spent twice, when the lease
\* covers the transaction: true of withLock with the code's times, and not of withMultiLock.
THEOREM StoredMatchesLedgerHolds ==
    LeaseCoversTx => (Spec => [](StoredMatchesLedger /\ NoDoubleSpend))
<1> DEFINE Safe == StoredMatchesLedger /\ NoDoubleSpend
<1>1. Init => Safe
    BY WalletAssumption DEF Init, StoredMatchesLedger, NoDoubleSpend
<1>2. IInv /\ Safe /\ IInv' /\ [Next]_vars => Safe'
    <2> SUFFICES ASSUME IInv, Safe, IInv', [Next]_vars PROVE Safe'
        OBVIOUS
    <2>1. StoredMatchesLedger'
        <3>1. ASSUME NEW p \in Proc, Commit(p) PROVE StoredMatchesLedger'
            BY <3>1, CommitApplies DEF IInv, Commit, StoredMatchesLedger
        <3>2. ASSUME \A p \in Proc : ~Commit(p) PROVE StoredMatchesLedger'
            BY <3>2, OnlyCommitMovesMoney DEF StoredMatchesLedger, money
        <3> QED BY <3>1, <3>2
    <2>2. NoDoubleSpend'
        BY <2>1 DEF IInv, TypeInv, TypeOK, StoredMatchesLedger, NoDoubleSpend
    <2> QED BY <2>1, <2>2
<1> HIDE DEF Safe
<1>3. (Spec => []IInv) => (Spec => []Safe)
    BY <1>1, <1>2, PTL DEF Spec
<1> QED BY <1>3, LeaseSafe DEF Safe

\* No wallet ever pays out more than it was given, under the same condition: of all the requests that
\* find the money there, as many go through as it covers.
THEOREM NoDoubleSpendHolds == LeaseCoversTx => (Spec => []NoDoubleSpend)
<1>1. []((StoredMatchesLedger /\ NoDoubleSpend) => NoDoubleSpend)
    BY PTL
<1> QED BY <1>1, StoredMatchesLedgerHolds, PTL

\* Every change of the stored balances is one whole movement, applied to the balances of that moment
\* and covered by them: the services implement AtomicWallet when the lease covers the transaction.
THEOREM ImplementsAtomicWallet == LeaseCoversTx => (Spec => RefinesAtomicWallet)
<1>1. Init => AW!Init
    BY DEF Init, AW!Init
<1>2. IInv /\ [Next]_vars => [AW!Next]_balance
    <2> SUFFICES ASSUME IInv, [Next]_vars PROVE AW!Next \/ UNCHANGED balance
        OBVIOUS
    <2>1. ASSUME NEW p \in Proc, Commit(p) PROVE AW!Next
        <3>1. AW!Apply(op[p])
            BY <2>1, CommitApplies DEF IInv, AW!Apply, AW!Applied, AW!Delta, Applied, Delta
        <3> QED BY <2>1, <3>1, CommitApplies DEF IInv, AW!Next
    <2>2. ASSUME \A p \in Proc : ~Commit(p) PROVE UNCHANGED balance
        BY <2>2, OnlyCommitMovesMoney DEF money
    <2> QED BY <2>1, <2>2
<1>3. (Spec => []IInv) => (Spec => AW!Spec)
    BY <1>1, <1>2, PTL DEF Spec, AW!Spec
<1> QED BY <1>3, LeaseSafe DEF RefinesAtomicWallet
=============================================================================
