------------------------------- MODULE Limits -------------------------------
(***************************************************************************)
(* The allowance of one user (limits.service.ts): what transfers and       *)
(* withdrawals may take out of the wallet in a day.  assertCanSend runs in *)
(* the transaction of the payment, under the wallet's lock, which is taken *)
(* here for the mutual exclusion WalletLock is about.                      *)
(***************************************************************************)
EXTENDS Integers, FiniteSetsExt

CONSTANTS
    Payment,            \* the payments the user may ask for
    NoPayment,          \* none of them
    Amount,             \* what one may be about
    Tier,               \* account tiers
    PerTransaction,     \* TIER_LIMITS: the most one payment can be ...
    DailyOut,           \* ... and the most that can leave in a day
    Days,               \* bound on the days
    Faults              \* TRUE: what follows the commit of a transfer may throw

ASSUME LimitsAssumption ==
    /\ NoPayment \notin Payment /\ Amount \subseteq Nat /\ Days \in Nat /\ Faults \in BOOLEAN
    /\ PerTransaction \in [Tier -> Nat] /\ DailyOut \in [Tier -> Nat]

VARIABLES
    today,
    tierOf,     \* User.tier
    holder,     \* who has the wallet's lock
    pay,        \* each payment: its request's next step, its row, and whether its money is out
    returned    \* received and taken back again, by day: DEBIT rows with a transferId, too

limitVars == <<today, tierOf, holder, pay, returned>>

NoRow == -1
NoPay == [step |-> "idle", kind |-> "transfer", amount |-> 0, day |-> NoRow, status |-> "none",
          seen |-> 0, limit |-> 0, gone |-> FALSE]

LimitsInit ==
    /\ today = 0 /\ tierOf \in Tier /\ holder = NoPayment
    /\ pay = [p \in Payment |-> NoPay]
    /\ returned = [d \in 0..Days |-> 0]

\* The rows spentToday adds up
Counted(p, d) ==
    /\ pay[p].day >= d
    /\ pay[p].status \in IF pay[p].kind = "transfer" THEN {"SUCCESSFUL"} ELSE {"PROCESSING", "SUCCESSFUL"}

Amounts == [p \in Payment |-> pay[p].amount]

\* spentToday
Spent(d) == SumFunctionOnSet(Amounts, {p \in Payment : Counted(p, d)}) + returned[d]

\* What has really left the wallet by payments asked for and checked on one day
Left(d) == SumFunctionOnSet(Amounts, {p \in Payment : pay[p].gone /\ pay[p].day = d /\ pay[p].seen = d})

-----------------------------------------------------------------------------
\* transferFunds writes its PENDING row first, createWithdrawal none
Ask(p, kind, a) ==
    /\ pay[p].step = "idle"
    /\ pay' = [pay EXCEPT ![p] = [NoPay EXCEPT !.step = "lock", !.kind = kind, !.amount = a,
                                  !.day = IF kind = "transfer" THEN today ELSE NoRow,
                                  !.status = IF kind = "transfer" THEN "PENDING" ELSE "none"]]
    /\ UNCHANGED <<today, tierOf, holder, returned>>

\* Mutant: the check is made before the lock
LockLate(p) ==
    /\ pay[p].step = "lock"
    /\ pay' = [pay EXCEPT ![p].step = "check"]
    /\ UNCHANGED <<today, tierOf, holder, returned>>

LockWallet(p) ==
    /\ pay[p].step = "lock" /\ holder = NoPayment
    /\ holder' = p
    /\ pay' = [pay EXCEPT ![p].step = "check"]
    /\ UNCHANGED <<today, tierOf, returned>>

Unlock(p) == holder' = IF holder = p THEN NoPayment ELSE holder

\* assertCanSend
CanSend(p) == pay[p].amount <= PerTransaction[tierOf] /\ Spent(today) + pay[p].amount <= DailyOut[tierOf]

AssertCanSend(p) ==
    /\ pay[p].step = "check" /\ CanSend(p)
    /\ pay' = [pay EXCEPT ![p].step = "commit", ![p].seen = today, ![p].limit = DailyOut[tierOf]]
    /\ UNCHANGED <<today, tierOf, holder, returned>>

\* The transaction commits; a withdrawal's row has the time the transaction began at
Commit(p) ==
    /\ pay[p].step = "commit"
    /\ pay' = [pay EXCEPT ![p].step = "after", ![p].gone = TRUE,
                          ![p].day = IF pay[p].kind = "transfer" THEN @ ELSE pay[p].seen,
                          ![p].status = IF pay[p].kind = "transfer" THEN "SUCCESSFUL" ELSE "PROCESSING"]
    /\ Unlock(p)
    /\ UNCHANGED <<today, tierOf, returned>>

\* A LimitError, too little money, a busy lock; the catch block of a transfer marks its row
Refuse(p) ==
    /\ pay[p].step \in {"lock", "check", "commit"}
    /\ pay' = [pay EXCEPT ![p].step = "done", ![p].status = IF pay[p].kind = "transfer" THEN "FAILED" ELSE @]
    /\ Unlock(p)
    /\ UNCHANGED <<today, tierOf, returned>>

\* The cache, the idempotency record or the notification: a failure reaches the catch block of a transfer
AfterCommit(p) ==
    /\ pay[p].step = "after"
    /\ \/ pay' = [pay EXCEPT ![p].step = "done"]
       \/ Faults /\ pay[p].kind = "transfer" /\ pay' = [pay EXCEPT ![p].step = "done", ![p].status = "FAILED"]
    /\ UNCHANGED <<today, tierOf, holder, returned>>

-----------------------------------------------------------------------------
\* The transfer is reversed, or the withdrawal refunded: its money is back, and its allowance
GiveBack(p) ==
    /\ pay[p].status \in {"PROCESSING", "SUCCESSFUL"} /\ holder = NoPayment
    /\ pay' = [pay EXCEPT ![p].status = "REVERSED", ![p].gone = FALSE]
    /\ UNCHANGED <<today, tierOf, holder, returned>>

PaidOut(p) ==
    /\ pay[p].status = "PROCESSING"
    /\ pay' = [pay EXCEPT ![p].status = "SUCCESSFUL"]
    /\ UNCHANGED <<today, tierOf, holder, returned>>

\* Somebody reverses a transfer to this user: the user's leg uses up allowance, unchecked
TakeBack(a) ==
    /\ holder = NoPayment /\ returned[today] = 0
    /\ returned' = [returned EXCEPT ![today] = a]
    /\ UNCHANGED <<today, tierOf, holder, pay>>

SetTier(t) ==
    /\ tierOf' = t
    /\ UNCHANGED <<today, holder, pay, returned>>

Midnight ==
    /\ today < Days
    /\ today' = today + 1
    /\ UNCHANGED <<tierOf, holder, pay, returned>>

LimitsNext ==
    \/ \E p \in Payment : \/ LockWallet(p) \/ AssertCanSend(p) \/ Commit(p) \/ Refuse(p) \/ AfterCommit(p)
                          \/ GiveBack(p) \/ PaidOut(p)
                          \/ \E a \in Amount, kind \in {"transfer", "withdrawal"} : Ask(p, kind, a)
    \/ \E a \in Amount : TakeBack(a)
    \/ \E t \in Tier : SetTier(t)
    \/ Midnight

LimitsTypeOK ==
    /\ today \in 0..Days /\ tierOf \in Tier /\ holder \in Payment \cup {NoPayment}
    /\ pay \in [Payment -> [step : {"idle", "lock", "check", "commit", "after", "done"}, kind : {"transfer", "withdrawal"},
                            amount : Amount \cup {0}, day : {NoRow} \cup 0..Days,
                            status : {"none", "PENDING", "PROCESSING", "SUCCESSFUL", "FAILED", "REVERSED"},
                            seen : 0..Days, limit : Nat, gone : BOOLEAN]]
    /\ returned \in [0..Days -> Nat]

\* "Checked inside the same database transaction and wallet lock as the payment, so simultaneous payments
\* can't slip past" (README.md:33): no commit takes what has really left the wallet by payments asked for
\* and checked on that day over the limit its check has seen, whatever is reversed, refunded or settled,
\* and whatever happens to the tier, meanwhile.  A transfer asked for before midnight and checked after it
\* counts for neither day; and a failure after the commit must not mark the row FAILED (Faults).
AllowanceKept == [][\A p \in Payment : Commit(p) => Left(pay[p].seen)' <= pay[p].limit]_pay
=============================================================================
