------------------------------ MODULE Deposit ------------------------------
(***************************************************************************)
(* Deposits by card or bank (payments/deposit.service.ts) and the part of  *)
(* reconcilePayments that follows them up.                                 *)
(*                                                                         *)
(* createDeposit makes a PENDING row and a Paystack checkout.  Callers of  *)
(* confirmDeposit (the callback page, the webhook worker) and the sweeps   *)
(* of the reconciliation then race to find out what became of it.  Each    *)
(* awaited database statement or call is a step.  Deposits are numbered in *)
(* the order they are created.                                             *)
(***************************************************************************)
EXTENDS Integers, FiniteSets

CONSTANTS
    Deposits,       \* how many deposits are made
    Caller,         \* the callback page and the webhook worker
    Sweep,          \* runs of the reconciliation, which may overlap
    BATCH,          \* deposits one sweep takes
    Crashes         \* TRUE: the API may die while it asks Paystack for a checkout

Id   == 1..Deposits
Proc == Caller \cup Sweep
None == 0

ASSUME DepositAssumption ==
    /\ Deposits \in Nat /\ BATCH \in Nat \ {0}
    /\ Caller \cap Sweep = {}
    /\ Crashes \in BOOLEAN

VARIABLES
    status,     \* Deposit.status; "CREATING" while createDeposit asks for the checkout, "NONE" before
    credited,   \* how often the deposit's amount was added to the wallet and posted to the ledger
    payment,    \* at Paystack: "none" (it does not know the reference), "open" (abandoned, ongoing, ...), "paid", "mismatch" or "failed"
    aged,       \* deposits older than ABANDON_DEPOSITS_AFTER_MS
    todo,       \* deposits a sweep has still to look at
    pc, on,     \* where each process is, and the deposit it asks about
    late        \* history: deposits paid after the answer by which they are, or may yet be, written off

money == <<status, credited>>
state == <<status, credited, payment, aged, todo, pc, on>>
vars  == <<state, late>>

Init ==
    /\ status = [d \in Id |-> "NONE"]
    /\ credited = [d \in Id |-> 0]
    /\ payment = [d \in Id |-> "none"]
    /\ aged = {}
    /\ todo = [s \in Sweep |-> {}]
    /\ pc = [p \in Proc |-> "idle"]
    /\ on = [p \in Proc |-> None]
    /\ late = {}

\* The row of deposit d as the database has it: createDeposit inserts it as PENDING
Row(d) == IF status[d] = "CREATING" THEN "PENDING" ELSE status[d]

Goto(p, label) == pc' = [pc EXCEPT ![p] = label]

\* confirmDeposit returns or throws; a sweep goes on with its next deposit
Return(p) ==
    /\ Goto(p, IF p \in Sweep THEN "sweep" ELSE "idle")
    /\ on' = [on EXCEPT ![p] = None]

-----------------------------------------------------------------------------
Create(d) ==
    /\ status[d] = "NONE" /\ \A e \in 1..(d - 1) : status[e] # "NONE"
    /\ status' = [status EXCEPT ![d] = "CREATING"]
    /\ UNCHANGED <<credited, payment, aged, todo, pc, on>>

\* The checkout link is returned; or Paystack, the update or the idempotency record fails, and the
\* deposit is set to FAILED whatever its status; or that update fails too, or the process dies.
\* Without the link nobody can pay.
Checkout(d) ==
    /\ status[d] = "CREATING"
    /\ \/ /\ status' = [status EXCEPT ![d] = "PENDING"]
          /\ payment' = [payment EXCEPT ![d] = "open"]
       \/ /\ status' = [status EXCEPT ![d] = "FAILED"]
          /\ UNCHANGED payment
       \/ /\ Crashes
          /\ status' = [status EXCEPT ![d] = "PENDING"]
          /\ UNCHANGED payment
    /\ UNCHANGED <<credited, aged, todo, pc, on>>

\* The customer pays, the attempt fails, or what was paid is not what was asked for
Pay(d, result) ==
    /\ payment[d] = "open"
    /\ payment' = [payment EXCEPT ![d] = result]
    /\ UNCHANGED <<money, aged, todo, pc, on>>

\* A day has passed since d was created
Age(d) ==
    /\ status[d] # "NONE" /\ d \notin aged
    /\ aged' = aged \cup {d}
    /\ UNCHANGED <<money, payment, todo, pc, on>>

-----------------------------------------------------------------------------
\* Somebody calls confirmDeposit, at any time
Call(c, d) ==
    /\ pc[c] = "idle" /\ status[d] # "NONE"
    /\ on' = [on EXCEPT ![c] = d]
    /\ Goto(c, "read")
    /\ UNCHANGED <<money, payment, aged, todo>>

PendingRows == {d \in Id : Row(d) = "PENDING"}

\* The BATCH oldest PENDING rows
Batch == {d \in PendingRows : Cardinality({e \in PendingRows : e < d}) < BATCH}

StartSweep(s) ==
    /\ pc[s] = "idle"
    /\ todo' = [todo EXCEPT ![s] = Batch]
    /\ Goto(s, "sweep")
    /\ UNCHANGED <<money, payment, aged, on>>

NextInSweep(s) ==
    /\ pc[s] = "sweep"
    /\ \/ /\ todo[s] = {}
          /\ Goto(s, "idle")
          /\ UNCHANGED <<on, todo>>
       \/ \E d \in todo[s] :
          /\ \A e \in todo[s] : d <= e
          /\ todo' = [todo EXCEPT ![s] = @ \ {d}]
          /\ on' = [on EXCEPT ![s] = d]
          /\ Goto(s, "read")
    /\ UNCHANGED <<money, payment, aged>>

\* confirmDeposit looks the row up; one that is not PENDING is returned as it is
ReadRow(p) ==
    /\ pc[p] = "read"
    /\ IF Row(on[p]) = "PENDING" THEN Goto(p, "verify") /\ UNCHANGED on ELSE Return(p)
    /\ UNCHANGED <<money, payment, aged, todo>>

\* verifyTransaction answers; reference, amount and currency are compared.  It throws when Paystack
\* does not know the reference: unlike verifyTransfer, it has no case for a 404.
Verify(p) ==
    /\ pc[p] = "verify"
    /\ \/ payment[on[p]] = "none" /\ Return(p)
       \/ payment[on[p]] = "paid" /\ Goto(p, "settle") /\ UNCHANGED on
       \/ payment[on[p]] \in {"mismatch", "failed"} /\ Goto(p, "fail") /\ UNCHANGED on
       \/ payment[on[p]] = "open" /\ Goto(p, "result") /\ UNCHANGED on
    /\ UNCHANGED <<money, payment, aged, todo>>

\* Mutant: the update does not ask for PENDING
SettleAnyway(p) ==
    /\ pc[p] = "settle"
    /\ status' = [status EXCEPT ![on[p]] = "SUCCESSFUL"]
    /\ credited' = [credited EXCEPT ![on[p]] = @ + 1]
    /\ Goto(p, "result")
    /\ UNCHANGED <<payment, aged, todo, on>>

\* settleDeposit: claim, balance, CREDIT row and ledger entry, in one transaction under the wallet's lock
Settle(p) ==
    /\ pc[p] = "settle"
    /\ IF Row(on[p]) = "PENDING"
       THEN /\ status' = [status EXCEPT ![on[p]] = "SUCCESSFUL"]
            /\ credited' = [credited EXCEPT ![on[p]] = @ + 1]
       ELSE UNCHANGED money
    /\ Goto(p, "result")
    /\ UNCHANGED <<payment, aged, todo, on>>

\* markFailed
MarkFailed(p) ==
    /\ pc[p] = "fail"
    /\ status' = IF Row(on[p]) = "PENDING" THEN [status EXCEPT ![on[p]] = "FAILED"] ELSE status
    /\ Goto(p, "result")
    /\ UNCHANGED <<credited, payment, aged, todo, on>>

\* Mutant: never abandoned
ResultPatient(p) ==
    /\ pc[p] = "result"
    /\ Return(p)
    /\ UNCHANGED <<money, payment, aged, todo>>

\* The row is read again and returned; the sweep compares its age
Result(p) ==
    /\ pc[p] = "result"
    /\ IF p \in Sweep /\ Row(on[p]) = "PENDING" /\ on[p] \in aged
       THEN Goto(p, "abandon") /\ UNCHANGED on
       ELSE Return(p)
    /\ UNCHANGED <<money, payment, aged, todo>>

\* Mutant: the update does not ask for PENDING
AbandonAnyway(s) ==
    /\ pc[s] = "abandon"
    /\ status' = [status EXCEPT ![on[s]] = "ABANDONED"]
    /\ Return(s)
    /\ UNCHANGED <<credited, payment, aged, todo>>

\* A day without payment, and the deposit is still PENDING
Abandon(s) ==
    /\ pc[s] = "abandon"
    /\ status' = IF Row(on[s]) = "PENDING" THEN [status EXCEPT ![on[s]] = "ABANDONED"] ELSE status
    /\ Return(s)
    /\ UNCHANGED <<credited, payment, aged, todo>>

\* Mutant: the sweep catches the error of confirmDeposit alone, and goes on to look at the deposit's age
FailThenAge(p) ==
    /\ pc[p] \in {"read", "verify", "settle", "fail", "result", "abandon"}
    /\ IF p \in Sweep /\ pc[p] \in {"verify", "settle"} THEN Goto(p, "result") /\ UNCHANGED on ELSE Return(p)
    /\ UNCHANGED <<money, payment, aged, todo>>

\* Paystack, the lock or the database fails: the error is caught by the sweep, or ends the call
Fail(p) ==
    /\ pc[p] \in {"read", "verify", "settle", "fail", "result", "abandon"}
    /\ Return(p)
    /\ UNCHANGED <<money, payment, aged, todo>>

-----------------------------------------------------------------------------
CallStep(p) == ReadRow(p) \/ Verify(p) \/ Settle(p) \/ MarkFailed(p) \/ Result(p) \/ Abandon(p)

Step ==
    \/ \E d \in Id : \/ Create(d) \/ Checkout(d) \/ Age(d)
                     \/ \E result \in {"paid", "mismatch", "failed"} : Pay(d, result)
                     \/ \E c \in Caller : Call(c, d)
    \/ \E s \in Sweep : StartSweep(s) \/ NextInSweep(s)
    \/ \E p \in Proc : CallStep(p) \/ Fail(p)

\* A sweep has been told that d is not paid and has not acted on it yet
Judging(d) == \E s \in Sweep : on[s] = d /\ pc[s] \in {"result", "abandon"}

\* The history: a payment is late from the moment it is made, if the deposit is no longer PENDING or a
\* sweep is judging it, and for as long as that is so
Remember == late' = {d \in Id : /\ d \in late \/ (payment[d] # "paid" /\ payment'[d] = "paid")
                                /\ Row(d)' # "PENDING" \/ Judging(d)'}

Next == Step /\ Remember

Spec == Init /\ [][Next]_vars

\* Sweeps keep running, days pass, and no step of a sweep fails every time it is tried
FairSpec ==
    /\ Spec
    /\ \A d \in Id : WF_state(Checkout(d)) /\ SF_state(Age(d))
    /\ \A s \in Sweep : WF_state(StartSweep(s)) /\ WF_state(NextInSweep(s))
    /\ \A s \in Sweep, d \in Id :
           /\ SF_state(on[s] = d /\ ReadRow(s)) /\ SF_state(on[s] = d /\ Verify(s)) /\ SF_state(on[s] = d /\ Result(s))
           /\ SF_state(on[s] = d /\ (Settle(s) \/ MarkFailed(s) \/ Abandon(s)))

-----------------------------------------------------------------------------
Statuses == {"NONE", "CREATING", "PENDING", "SUCCESSFUL", "FAILED", "ABANDONED"}

TypeOK ==
    /\ status \in [Id -> Statuses]
    /\ credited \in [Id -> Nat]
    /\ payment \in [Id -> {"none", "open", "paid", "mismatch", "failed"}]
    /\ aged \subseteq Id
    /\ todo \in [Sweep -> SUBSET Id]
    /\ pc \in [Proc -> {"idle", "sweep", "read", "verify", "settle", "fail", "result", "abandon"}]
    /\ on \in [Proc -> Id \cup {None}]
    /\ \A p \in Proc : on[p] = None <=> pc[p] \in {"idle", "sweep"}
    /\ late \subseteq Id

\* "Credits the wallet for a confirmed payment - exactly once": however many callers learn of the
\* payment, its amount is credited once if the deposit is SUCCESSFUL and never otherwise, and only
\* what was really and exactly paid is.
CreditedExactlyOnce ==
    \A d \in Id :
        /\ credited[d] = IF status[d] = "SUCCESSFUL" THEN 1 ELSE 0
        /\ status[d] = "SUCCESSFUL" => payment[d] = "paid"

\* Money that Paystack reports as paid is never written off: a paid deposit is credited or can still be,
\* however old it is, unless the customer paid after a sweep had been told otherwise and before it
\* abandoned the deposit, or after that.
PaidNeverWrittenOff ==
    \A d \in Id : payment[d] = "paid" => status[d] \in {"PENDING", "SUCCESSFUL"} \/ d \in late

\* "Only a PENDING deposit can change, and only once": no late callback or sweep changes an outcome.
OutcomeFinal ==
    [][\A d \in Id : status'[d] # status[d] => status[d] \in {"NONE", "CREATING", "PENDING"}]_vars

\* The API died before Paystack knew of the deposit: nothing will end it
Lost(d) == status[d] = "PENDING" /\ payment[d] = "none"

\* Lost deposits fill every batch before it reaches d
Blocked(d) == Cardinality({e \in 1..(d - 1) : Lost(e)}) >= BATCH

\* What the webhook misses, the sweeps credit, even when unpaid deposits fill their batches, unless it
\* was paid too late: only lost deposits, which never leave PENDING, can keep the sweeps from it.
PaidIsCredited ==
    \A d \in Id :
        payment[d] = "paid" ~> \/ status[d] = "SUCCESSFUL"
                               \/ d \in late /\ status[d] # "PENDING"
                               \/ Blocked(d)

\* Nobody's deposit stays PENDING for ever, unless it is lost or blocked by lost ones.
DepositEnds == \A d \in Id : status[d] = "PENDING" ~> status[d] # "PENDING" \/ Lost(d) \/ Blocked(d)
=============================================================================
