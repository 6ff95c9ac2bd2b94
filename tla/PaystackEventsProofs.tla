------------------------ MODULE PaystackEventsProofs ------------------------
(***************************************************************************)
(* What holds of any number of events, delivered, queued, tried and        *)
(* evicted in any order.                                                   *)
(***************************************************************************)
EXTENDS PaystackEvents, TLAPS

\* What is known of an event, from its delivery to its job, comes from Paystack having emitted it
Emitted == \A e \in Id : delivery[e] # "none" \/ e \in accepting \/ row[e] # "none" \/ job[e] # "none" => e <= outcome

\* The row is there before the answer; a job is complete when its event is processed, and failed after
\* its last attempt
Recorded ==
    \A e \in Id :
        /\ e \in accepting \/ delivery[e] = "acked" => row[e] # "none"
        /\ job[e] = "completed" => row[e] = "processed"
        /\ job[e] = "failed" => tries[e] = Attempts
        /\ job[e] \in {"waiting"} \cup Active => tries[e] < Attempts

\* A worker has asked Paystack after the event, and has then applied the answer
Asked == \A e \in Id : (job[e] = "apply" => seen[e] >= e) /\ (job[e] = "mark" => applied >= e)

IInv == TypeOK /\ Emitted /\ Recorded /\ Asked /\ ProcessedIsApplied /\ AckedIsQueued

\* The larger of two outcomes
LEMMA MaxOfTwo == \A a, b \in 0..Events : Max({a, b}) \in 0..Events /\ Max({a, b}) >= a /\ Max({a, b}) >= b
<1> SUFFICES ASSUME NEW a \in 0..Events, NEW b \in 0..Events
             PROVE  Max({a, b}) \in 0..Events /\ Max({a, b}) >= a /\ Max({a, b}) >= b
    OBVIOUS
<1>1. PICK m \in {a, b} : \A x \in {a, b} : m >= x
    <2>1. CASE a <= b
        BY <2>1, EventsAssumption
    <2>2. CASE ~(a <= b)
        BY <2>2, EventsAssumption
    <2> QED BY <2>1, <2>2
<1>2. Max({a, b}) \in {a, b} /\ \A x \in {a, b} : Max({a, b}) >= x
    BY <1>1 DEF Max
<1> QED BY <1>2

LEMMA InitOK == Init => IInv
BY EventsAssumption DEF Init, IInv, TypeOK, Emitted, Recorded, Asked, ProcessedIsApplied, AckedIsQueued, Active, Id

LEMMA NextOK == ASSUME IInv, [Next]_vars PROVE IInv'
<1> USE EventsAssumption DEF Id, Active
<1>0. /\ TypeOK /\ Emitted /\ Recorded /\ Asked /\ ProcessedIsApplied /\ AckedIsQueued
    BY DEF IInv
<1> USE <1>0 DEF TypeOK, Emitted, Recorded, Asked, ProcessedIsApplied, AckedIsQueued
<1>1. ASSUME NEW e \in Id, Emit(e) PROVE IInv'
    BY <1>1 DEF Emit, IInv
<1>2. ASSUME NEW e \in Id, Receive(e) PROVE IInv'
    <2>1. row' \in [Id -> {"none", "stored", "processed"}] /\ row'[e] # "none"
          /\ \A f \in Id : row'[f] = row[f] \/ (f = e /\ row[e] = "none" /\ row'[e] = "stored")
        BY <1>2 DEF Receive
    <2>2. e <= outcome /\ UNCHANGED <<outcome, applied, job, tries, seen>>
        BY <1>2 DEF Receive
    <2>3. CASE row[e] = "processed"
        <3>1. accepting' = accepting /\ delivery' = [delivery EXCEPT ![e] = "acked"] /\ row' = row
            BY <1>2, <2>3 DEF Receive
        <3> QED BY <2>2, <2>3, <3>1 DEF IInv
    <2>4. CASE row[e] # "processed"
        <3>1. accepting' = accepting \cup {e} /\ delivery' = delivery /\ delivery[e] = "due"
            BY <1>2, <2>4 DEF Receive
        <3>2. TypeOK' /\ Emitted'
            BY <2>1, <2>2, <3>1
        <3>3. Recorded' /\ Asked' /\ ProcessedIsApplied' /\ AckedIsQueued'
            BY <2>1, <2>2, <2>4, <3>1
        <3> QED BY <3>2, <3>3 DEF IInv
    <2> QED BY <2>3, <2>4
<1>3. ASSUME NEW e \in Id, Enqueue(e) PROVE IInv'
    BY <1>3, SMTT(30) DEF Enqueue, Add, IInv
<1>4. ASSUME NEW e \in Id, AcceptFails(e) \/ Redeliver(e) \/ Drop(e) PROVE IInv'
    <2>1. CASE AcceptFails(e)
        BY <2>1 DEF AcceptFails, IInv
    <2>2. CASE Redeliver(e)
        BY <2>2 DEF Redeliver, IInv
    <2>3. CASE Drop(e)
        BY <2>3 DEF Drop, IInv
    <2> QED BY <1>4, <2>1, <2>2, <2>3
<1>5. ASSUME NEW e \in Id, Take(e) PROVE IInv'
    BY <1>5 DEF Take, IInv
<1>6. ASSUME NEW e \in Id, Verify(e) PROVE IInv'
    BY <1>6 DEF Verify, IInv
<1>7. ASSUME NEW e \in Id, Apply(e) PROVE IInv'
    <2>1. applied' \in 0..Events /\ applied' >= applied /\ applied' >= seen[e]
        BY <1>7, MaxOfTwo DEF Apply
    <2>2. job[e] = "apply" /\ job' = [job EXCEPT ![e] = "mark"] /\ UNCHANGED <<outcome, delivery, accepting, row, tries, seen>>
        BY <1>7 DEF Apply
    <2>3. TypeOK' /\ Emitted' /\ Recorded' /\ AckedIsQueued'
        BY <2>1, <2>2
    <2>4. Asked' /\ ProcessedIsApplied'
        BY <2>1, <2>2
    <2> QED BY <2>3, <2>4 DEF IInv
<1>8. ASSUME NEW e \in Id, Mark(e) PROVE IInv'
    BY <1>8 DEF Mark, IInv
<1>9. ASSUME NEW e \in Id, WorkFails(e) PROVE IInv'
    BY <1>9, SMTT(30) DEF WorkFails, IInv
<1>10. ASSUME NEW e \in Id, Requeue(e) PROVE IInv'
    BY <1>10, SMTT(30) DEF Requeue, Add, IInv
<1>11. ASSUME NEW e \in Id, Evict(e) PROVE IInv'
    BY <1>11 DEF Evict, IInv
<1>12. CASE UNCHANGED vars
    BY <1>12 DEF vars, IInv
<1> QED BY <1>1, <1>2, <1>3, <1>4, <1>5, <1>6, <1>7, <1>8, <1>9, <1>10, <1>11, <1>12 DEF Next

LEMMA Invariance == Spec => []IInv
BY InitOK, NextOK, PTL DEF Spec

\* The types of rows, jobs, tries and outcomes (recordEvent, paystackQueue, processEvent).
THEOREM TypeCorrect == Spec => []TypeOK
BY Invariance, PTL DEF IInv

\* A processed event has had its effect, for any number of events in any order (processEvent).
THEOREM ProcessedIsAppliedHolds == Spec => []ProcessedIsApplied
BY Invariance, PTL DEF IInv

\* What was answered with a 200 is stored, and queued until it is processed or given up (paystackWebhook).
THEOREM AckedIsQueuedHolds == Spec => []AckedIsQueued
BY Invariance, PTL DEF IInv
=============================================================================
