--------------------------- MODULE PaystackEvents ---------------------------
(***************************************************************************)
(* Paystack's webhooks: the receiver (paystackWebhook, recordEvent), the   *)
(* BullMQ queue of stored events (paystack.queue.ts), its worker           *)
(* (processEvent), and reconcilePayments, which queues events again.       *)
(*                                                                         *)
(* The events are about one payment, numbered in the order Paystack emits  *)
(* them; "outcome" is what its verify endpoint says.  What a worker learns *)
(* there is applied by confirmDeposit or confirmWithdrawal, which only     *)
(* move forward (OutcomeFinal in Deposit, StatusForward in Withdrawal).    *)
(***************************************************************************)
EXTENDS Integers, FiniteSetsExt

CONSTANTS
    Events,         \* how many events Paystack emits
    Attempts        \* tries of a job before BullMQ calls it failed

Id == 1..Events

ASSUME EventsAssumption == Events \in Nat /\ Attempts \in Nat \ {0}

VARIABLES
    outcome,    \* the last event Paystack has emitted, 0 if none
    applied,    \* the outcome the wallet has taken into account
    delivery,   \* "none", "due", "acked" (a 200) or "dropped" (Paystack has stopped retrying)
    accepting,  \* events whose webhook is being answered
    row,        \* PaystackEvent: "none", "stored" or "processed" (processedAt is set)
    job,        \* the BullMQ job with the event's id, if any
    tries,      \* failed attempts of that job
    seen        \* what the job's worker was told by the verify endpoint

vars == <<outcome, applied, delivery, accepting, row, job, tries, seen>>

Active == {"verify", "apply", "mark"}

Init ==
    /\ outcome = 0
    /\ applied = 0
    /\ delivery = [e \in Id |-> "none"]
    /\ accepting = {}
    /\ row = [e \in Id |-> "none"]
    /\ job = [e \in Id |-> "none"]
    /\ tries = [e \in Id |-> 0]
    /\ seen = [e \in Id |-> 0]

\* Paystack changes its mind about the payment and owes us an event
Emit(e) ==
    /\ e = outcome + 1
    /\ outcome' = e
    /\ delivery' = [delivery EXCEPT ![e] = "due"]
    /\ UNCHANGED <<applied, accepting, row, job, tries, seen>>

-----------------------------------------------------------------------------
\* Mutant: the 200 is sent before the event is queued
ReceiveAcks(e) ==
    /\ delivery[e] = "due" /\ e \notin accepting
    /\ row' = IF row[e] = "none" THEN [row EXCEPT ![e] = "stored"] ELSE row
    /\ accepting' = accepting \cup {e}
    /\ delivery' = [delivery EXCEPT ![e] = "acked"]
    /\ UNCHANGED <<outcome, applied, job, tries, seen>>

\* recordEvent: a new row, or the one an earlier delivery made
Receive(e) ==
    /\ delivery[e] = "due" /\ e \notin accepting
    /\ row' = IF row[e] = "none" THEN [row EXCEPT ![e] = "stored"] ELSE row
    /\ IF row[e] = "processed"
       THEN delivery' = [delivery EXCEPT ![e] = "acked"] /\ UNCHANGED accepting
       ELSE accepting' = accepting \cup {e} /\ UNCHANGED delivery
    /\ UNCHANGED <<outcome, applied, job, tries, seen>>

\* paystackQueue.add: a job id that is still known, in whatever state, adds nothing
Add(e) ==
    /\ job' = IF job[e] = "none" THEN [job EXCEPT ![e] = "waiting"] ELSE job
    /\ tries' = IF job[e] = "none" THEN [tries EXCEPT ![e] = 0] ELSE tries

\* enqueuePaystackEvent, then the 200
Enqueue(e) ==
    /\ e \in accepting
    /\ Add(e)
    /\ accepting' = accepting \ {e}
    /\ delivery' = [delivery EXCEPT ![e] = "acked"]
    /\ UNCHANGED <<outcome, applied, row, seen>>

\* Redis is down, or the process dies before it answers: Paystack delivers again
AcceptFails(e) ==
    /\ e \in accepting
    /\ accepting' = accepting \ {e}
    /\ UNCHANGED <<outcome, applied, delivery, row, job, tries, seen>>

\* A 200 that is lost: the same event comes once more
Redeliver(e) ==
    /\ delivery[e] = "acked"
    /\ delivery' = [delivery EXCEPT ![e] = "due"]
    /\ UNCHANGED <<outcome, applied, accepting, row, job, tries, seen>>

Drop(e) ==
    /\ delivery[e] = "due" /\ e \notin accepting
    /\ delivery' = [delivery EXCEPT ![e] = "dropped"]
    /\ UNCHANGED <<outcome, applied, accepting, row, job, tries, seen>>

-----------------------------------------------------------------------------
\* A worker takes the job; processEvent returns at once if the event was processed before
Take(e) ==
    /\ job[e] = "waiting"
    /\ job' = [job EXCEPT ![e] = IF row[e] = "processed" THEN "completed" ELSE "verify"]
    /\ UNCHANGED <<outcome, applied, delivery, accepting, row, tries, seen>>

\* confirmDeposit or confirmWithdrawal asks Paystack rather than trusting the event ...
Verify(e) ==
    /\ job[e] = "verify"
    /\ seen' = [seen EXCEPT ![e] = outcome]
    /\ job' = [job EXCEPT ![e] = "apply"]
    /\ UNCHANGED <<outcome, applied, delivery, accepting, row, tries>>

\* Mutant: whoever comes last decides
ApplyLast(e) ==
    /\ job[e] = "apply"
    /\ applied' = seen[e]
    /\ job' = [job EXCEPT ![e] = "mark"]
    /\ UNCHANGED <<outcome, delivery, accepting, row, tries, seen>>

\* ... and acts on the answer
Apply(e) ==
    /\ job[e] = "apply"
    /\ applied' = Max({applied, seen[e]})
    /\ job' = [job EXCEPT ![e] = "mark"]
    /\ UNCHANGED <<outcome, delivery, accepting, row, tries, seen>>

\* processedAt is set, and the job completes
Mark(e) ==
    /\ job[e] = "mark"
    /\ row' = [row EXCEPT ![e] = "processed"]
    /\ job' = [job EXCEPT ![e] = "completed"]
    /\ UNCHANGED <<outcome, applied, delivery, accepting, tries, seen>>

\* Mutant: one try too many
WorkFailsLate(e) ==
    /\ job[e] \in Active
    /\ tries' = [tries EXCEPT ![e] = @ + 1]
    /\ job' = [job EXCEPT ![e] = IF tries[e] = Attempts THEN "failed" ELSE "waiting"]
    /\ UNCHANGED <<outcome, applied, delivery, accepting, row, seen>>

\* The attempt throws; BullMQ tries again, or gives the job up
WorkFails(e) ==
    /\ job[e] \in Active
    /\ tries' = [tries EXCEPT ![e] = @ + 1]
    /\ job' = [job EXCEPT ![e] = IF tries[e] + 1 = Attempts THEN "failed" ELSE "waiting"]
    /\ UNCHANGED <<outcome, applied, delivery, accepting, row, seen>>

\* Mutant: the reconciliation looks at the events and does nothing
RequeueNever(e) == row[e] = "stored" /\ UNCHANGED vars

\* reconcilePayments queues a stored event that is still not processed.  Its reading and its add are one
\* step: a job added after the event was processed completes at once in Take
Requeue(e) ==
    /\ row[e] = "stored"
    /\ Add(e)
    /\ UNCHANGED <<outcome, applied, delivery, accepting, row, seen>>

\* A finished job is pushed out by later ones: by 500 that complete (removeOnComplete), or by 1000 that
\* fail (removeOnFail).  Nothing says that so many ever do
Evict(e) ==
    /\ job[e] \in {"completed", "failed"}
    /\ job' = [job EXCEPT ![e] = "none"]
    /\ UNCHANGED <<outcome, applied, delivery, accepting, row, tries, seen>>

Next ==
    \E e \in Id :
        \/ Emit(e) \/ Receive(e) \/ Enqueue(e) \/ AcceptFails(e) \/ Redeliver(e) \/ Drop(e)
        \/ Take(e) \/ Verify(e) \/ Apply(e) \/ Mark(e) \/ WorkFails(e) \/ Requeue(e) \/ Evict(e)

Spec == Init /\ [][Next]_vars

\* A step of a worker: it goes on, or the attempt fails (a worker that dies leaves a job that stalls)
Work(e) == Verify(e) \/ Apply(e) \/ Mark(e) \/ WorkFails(e)

\* Workers and the reconciliation keep running.  Every attempt may fail, and no job need ever be evicted
FairSpec ==
    /\ Spec
    /\ \A e \in Id : WF_vars(Take(e)) /\ WF_vars(Work(e)) /\ WF_vars(Requeue(e))

-----------------------------------------------------------------------------
TypeOK ==
    /\ outcome \in 0..Events /\ applied \in 0..Events
    /\ delivery \in [Id -> {"none", "due", "acked", "dropped"}]
    /\ accepting \subseteq Id
    /\ row \in [Id -> {"none", "stored", "processed"}]
    /\ job \in [Id -> {"none", "waiting", "completed", "failed"} \cup Active]
    /\ tries \in [Id -> 0..Attempts]
    /\ seen \in [Id -> 0..Events]

\* An event marked processed has had its effect, whatever order the events arrived in, however often
\* they were delivered or tried: the wallet has taken into account at least what the event announced.
ProcessedIsApplied == \A e \in Id : row[e] = "processed" => applied >= e

\* Paystack is told 200 only for an event that is stored; until it is processed its job exists, unless
\* the queue gave it up ("Stores the event before anything else").
AckedIsQueued ==
    \A e \in Id : delivery[e] = "acked" /\ row[e] # "processed" =>
        row[e] = "stored" /\ (job[e] \in {"waiting", "failed"} \cup Active \/ tries[e] = Attempts)

\* Every stored event, whether its delivery was ever answered or not, is processed in the end or has a
\* job that used up its attempts; and one whose failed job is evicted is tried again.  A failed job that
\* is kept ends the matter ("stored webhook events that never got processed" are not all caught): it
\* swallows what the reconciliation adds under its id.
EventSettles == \A e \in Id : row[e] = "stored" ~> row[e] = "processed" \/ job[e] = "failed"
=============================================================================
