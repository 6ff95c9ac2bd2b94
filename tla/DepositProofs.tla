---------------------------- MODULE DepositProofs ----------------------------
(***************************************************************************)
(* What holds of Deposit for every number of deposits, callers and sweeps  *)
(* and every size of batch, whenever customers pay.                        *)
(***************************************************************************)
EXTENDS Deposit, TLAPS

\* Paystack knows no deposit before its checkout is asked for.
Linked == \A d \in Id : status[d] \in {"NONE", "CREATING"} => payment[d] = "none"

\* A process acts on what Paystack has really said of its deposit; a verdict never changes.
Told ==
    \A p \in Proc :
        /\ pc[p] = "settle" => payment[on[p]] = "paid"
        /\ pc[p] = "fail" => payment[on[p]] \in {"mismatch", "failed"}
        /\ pc[p] \in {"result", "abandon"} => payment[on[p]] # "none"

Base == TypeOK /\ Linked /\ Told

\* Where a process may be after it returned or went on
LEMMA ProcFacts ==
    /\ Caller \subseteq Proc /\ Sweep \subseteq Proc /\ Caller \cap Sweep = {}
    /\ Id \subseteq Nat /\ None \notin Id
BY DepositAssumption DEF Proc, Id, None

LEMMA BaseInit == Init => Base
BY ProcFacts DEF Init, Base, TypeOK, Linked, Told, Statuses

Procs ==
    /\ pc \in [Proc -> {"idle", "sweep", "read", "verify", "settle", "fail", "result", "abandon"}]
    /\ on \in [Proc -> Id \cup {None}]
    /\ \A p \in Proc : on[p] = None <=> pc[p] \in {"idle", "sweep"}

\* A process stays well typed when it returns, or goes on with the deposit it has.
LEMMA ReturnType == ASSUME Procs, NEW p \in Proc, Return(p) PROVE Procs'
BY ProcFacts DEF Procs, Return, Goto

LEMMA GotoType ==
    ASSUME Procs, NEW p \in Proc, pc[p] \notin {"idle", "sweep"},
           NEW l \in {"read", "verify", "settle", "fail", "result", "abandon"}, Goto(p, l), on' = on
    PROVE  Procs'
BY DEF Procs, Goto

LEMMA TypeStep == TypeOK /\ [Next]_vars => TypeOK'
<1> SUFFICES ASSUME TypeOK, [Next]_vars PROVE TypeOK'
    OBVIOUS
<1>l. late' \subseteq Id
    BY DEF Next, Remember, vars, TypeOK
<1> USE ProcFacts, <1>l
<1>0. Procs /\ \A p \in Proc : pc[p] \notin {"idle", "sweep"} => on[p] \in Id
    BY DEF TypeOK, Procs
<1>q. Procs' => /\ pc' \in [Proc -> {"idle", "sweep", "read", "verify", "settle", "fail", "result", "abandon"}]
                /\ on' \in [Proc -> Id \cup {None}]
                /\ \A p \in Proc : on'[p] = None <=> pc'[p] \in {"idle", "sweep"}
    BY DEF Procs
<1>1. ASSUME NEW d \in Id, Create(d) \/ Checkout(d) \/ Age(d) PROVE TypeOK'
    <2>1. CASE Create(d)
        BY <2>1 DEF Create, TypeOK, Statuses
    <2>2. CASE Checkout(d)
        BY <2>2 DEF Checkout, TypeOK, Statuses
    <2>3. CASE Age(d)
        BY <2>3 DEF Age, money, TypeOK
    <2> QED
        BY <1>1, <2>1, <2>2, <2>3
<1>2. ASSUME NEW d \in Id, NEW result \in {"paid", "mismatch", "failed"}, Pay(d, result) PROVE TypeOK'
    BY <1>2 DEF Pay, money, TypeOK
<1>3. ASSUME NEW d \in Id, NEW c \in Caller, Call(c, d) PROVE TypeOK'
    BY <1>3 DEF Call, Goto, money, TypeOK
<1>4. ASSUME NEW s \in Sweep, StartSweep(s) PROVE TypeOK'
    <2>1. Batch \subseteq Id
        BY DEF Batch, PendingRows
    <2> QED
        BY <1>4, <2>1 DEF StartSweep, Goto, money, TypeOK
<1>5. ASSUME NEW s \in Sweep, NextInSweep(s) PROVE TypeOK'
    <2>1. CASE todo[s] = {} /\ Goto(s, "idle") /\ UNCHANGED <<on, todo>>
        BY <1>5, <2>1 DEF NextInSweep, Goto, money, TypeOK
    <2>2. ASSUME NEW d \in todo[s], todo' = [todo EXCEPT ![s] = @ \ {d}],
                 on' = [on EXCEPT ![s] = d], Goto(s, "read")
          PROVE  TypeOK'
        BY <1>5, <2>2 DEF NextInSweep, Goto, money, TypeOK
    <2> QED
        BY <1>5, <2>1, <2>2 DEF NextInSweep
<1>6. ASSUME NEW p \in Proc, ReadRow(p) \/ Verify(p) PROVE TypeOK'
    <2>1. Procs'
        BY <1>0, <1>6, ReturnType, GotoType DEF ReadRow, Verify
    <2> QED
        BY <1>6, <1>q, <2>1 DEF ReadRow, Verify, money, TypeOK
<1>7. ASSUME NEW p \in Proc, Settle(p) \/ MarkFailed(p) PROVE TypeOK'
    <2>1. Procs'
        BY <1>0, <1>7, GotoType DEF Settle, MarkFailed
    <2>2. on[p] \in Id
        BY <1>0, <1>7 DEF Settle, MarkFailed
    <2>3. status' \in [Id -> Statuses] /\ credited' \in [Id -> Nat]
        <3>1. CASE Settle(p)
            BY <3>1, <2>2 DEF Settle, money, TypeOK, Statuses
        <3>2. CASE MarkFailed(p)
            BY <3>2, <2>2 DEF MarkFailed, TypeOK, Statuses
        <3> QED
            BY <1>7, <3>1, <3>2
    <2> QED
        BY <1>7, <1>q, <2>1, <2>3 DEF Settle, MarkFailed, TypeOK
<1>8. ASSUME NEW p \in Proc, Result(p) \/ Fail(p) PROVE TypeOK'
    <2>1. Procs'
        BY <1>0, <1>8, ReturnType, GotoType DEF Result, Fail
    <2> QED
        BY <1>8, <1>q, <2>1 DEF Result, Fail, money, TypeOK
<1>9. ASSUME NEW p \in Proc, Abandon(p) PROVE TypeOK'
    <2>1. Procs'
        BY <1>0, <1>9, ReturnType DEF Abandon
    <2>2. on[p] \in Id
        BY <1>0, <1>9 DEF Abandon
    <2> QED
        BY <1>9, <1>q, <2>1, <2>2 DEF Abandon, TypeOK, Statuses
<1>10. CASE UNCHANGED vars
    BY <1>10 DEF vars, state, TypeOK
<1> QED
    BY <1>1, <1>2, <1>3, <1>4, <1>5, <1>6, <1>7, <1>8, <1>9, <1>10 DEF Next, Step, CallStep

\* Every reachable state is well typed: no handler of deposit.service.ts or reconcile.service.ts leaves the
\* set of statuses, and a process has a deposit exactly while it asks about one.
THEOREM TypeCorrect == Spec => []TypeOK
<1>1. Init => TypeOK
    BY BaseInit DEF Base
<1> QED
    BY <1>1, TypeStep, PTL DEF Spec

-----------------------------------------------------------------------------
(***************************************************************************)
(* The next steps concern one deposit and one process at a time: a process *)
(* changes the status only of its own deposit, which is one Paystack       *)
(* knows, so that it is no longer being created.                           *)
(***************************************************************************)

\* Beside the history, a step is one of Step's.
LEMMA StepInside == [Next]_vars => [Step]_state
BY DEF Next, vars

\* A process that acts has a deposit, and one whose checkout has been made.
LEMMA Acting ==
    ASSUME Base, NEW p \in Proc, pc[p] \in {"settle", "fail", "result", "abandon"}
    PROVE  on[p] \in Id /\ status[on[p]] \notin {"NONE", "CREATING"} /\ Row(on[p]) = status[on[p]]
BY DEF Base, TypeOK, Linked, Told, Row

\* Paystack's verdicts are final, and what it knows it does not forget.
LEMMA PaymentForward ==
    ASSUME Base, [Step]_state, NEW d \in Id
    PROVE  /\ payment[d] # "none" => payment'[d] # "none"
           /\ payment[d] \in {"paid", "mismatch", "failed"} => payment'[d] = payment[d]
<1>1. CASE \E e \in Id, r \in {"paid", "mismatch", "failed"} : Pay(e, r)
    BY <1>1 DEF Pay, Base, TypeOK
<1>2. CASE \E e \in Id : Checkout(e)
    BY <1>2 DEF Checkout, Base, TypeOK, Linked
<1>3. CASE UNCHANGED payment
    BY <1>3
<1> QED
    BY <1>1, <1>2, <1>3 DEF Step, state, CallStep, Create, Age, Call, StartSweep, NextInSweep, ReadRow, Verify,
       Settle, MarkFailed, Result, Abandon, Fail

\* Who changes a status: the request that creates the deposit, or a process acting on it.
LEMMA StatusSteps ==
    ASSUME Base, [Step]_state, NEW d \in Id, status'[d] # status[d]
    PROVE  \/ Create(d) /\ status[d] = "NONE" /\ status'[d] = "CREATING"
           \/ Checkout(d) /\ status[d] = "CREATING"
           \/ \E p \in Proc :
                /\ on[p] = d /\ status[d] = "PENDING"
                /\ \/ Settle(p) /\ status'[d] = "SUCCESSFUL"
                   \/ MarkFailed(p) /\ status'[d] = "FAILED"
                   \/ Abandon(p) /\ status'[d] = "ABANDONED"
<1> USE DEF Base, TypeOK
<1>1. CASE \E e \in Id : Create(e)
    BY <1>1 DEF Create
<1>2. CASE \E e \in Id : Checkout(e)
    BY <1>2 DEF Checkout
<1>3. ASSUME NEW p \in Proc, Settle(p) PROVE on[p] = d /\ status[d] = "PENDING" /\ status'[d] = "SUCCESSFUL"
    BY <1>3, Acting DEF Settle, money
<1>4. ASSUME NEW p \in Proc, MarkFailed(p) PROVE on[p] = d /\ status[d] = "PENDING" /\ status'[d] = "FAILED"
    BY <1>4, Acting DEF MarkFailed
<1>5. ASSUME NEW p \in Proc, Abandon(p) PROVE on[p] = d /\ status[d] = "PENDING" /\ status'[d] = "ABANDONED"
    BY <1>5, Acting DEF Abandon
<1>6. CASE UNCHANGED status
    BY <1>6
<1> HIDE DEF Base, TypeOK
<1>7. \/ \E e \in Id : Create(e) \/ Checkout(e)
      \/ \E p \in Proc : Settle(p) \/ MarkFailed(p) \/ Abandon(p)
      \/ UNCHANGED status
    BY DEF Step, state, money, CallStep, Pay, Age, Call, StartSweep, NextInSweep, ReadRow, Verify, Result, Fail
<1> QED
    BY <1>1, <1>2, <1>3, <1>4, <1>5, <1>6, <1>7

LEMMA LinkedStep == Base /\ [Step]_state => Linked'
<1> SUFFICES ASSUME Base, [Step]_state, NEW d \in Id, status'[d] \in {"NONE", "CREATING"}
             PROVE  payment'[d] = "none"
    BY DEF Linked
<1>1. status[d] \in {"NONE", "CREATING"} /\ payment[d] = "none" /\ ~Checkout(d)
    <2>1. ~Checkout(d)
        BY DEF Checkout, Base, TypeOK
    <2> QED
        BY <2>1, StatusSteps DEF Base, Linked
<1>2. CASE \E e \in Id, r \in {"paid", "mismatch", "failed"} : Pay(e, r)
    BY <1>1, <1>2 DEF Pay, Base, TypeOK
<1>3. CASE \E e \in Id : Checkout(e)
    BY <1>1, <1>3 DEF Checkout, Base, TypeOK
<1>4. CASE UNCHANGED payment
    BY <1>1, <1>4
<1> QED
    BY <1>2, <1>3, <1>4 DEF Step, state, CallStep, Create, Age, Call, StartSweep, NextInSweep, ReadRow, Verify,
       Settle, MarkFailed, Result, Abandon, Fail

\* What a process does next: it waits, it is before Paystack's answer, or it takes a step that leaves the
\* payments alone, on the deposit it has.
ProcStep(p) ==
    \/ pc'[p] = pc[p] /\ on'[p] = on[p]
    \/ pc'[p] \in {"idle", "sweep", "read", "verify"}
    \/ /\ on'[p] = on[p] /\ UNCHANGED payment
       /\ \/ pc'[p] = "settle" /\ payment[on[p]] = "paid"
          \/ pc'[p] = "fail" /\ payment[on[p]] \in {"mismatch", "failed"}
          \/ pc'[p] = "result" /\ payment[on[p]] = "open"
          \/ pc'[p] = "result" /\ (Settle(p) \/ MarkFailed(p))
          \/ pc'[p] = "abandon" /\ Result(p)

LEMMA ProcSteps == ASSUME Base, [Step]_state, NEW p \in Proc PROVE ProcStep(p)
<1> USE ProcFacts DEF Base, TypeOK, ProcStep, Goto
<1>1. CASE UNCHANGED <<pc, on>>
    BY <1>1
<1>2. ASSUME NEW d \in Id, NEW c \in Caller, Call(c, d) PROVE ProcStep(p)
    BY <1>2 DEF Call
<1>3. ASSUME NEW s \in Sweep, StartSweep(s) \/ NextInSweep(s) PROVE ProcStep(p)
    <2>1. CASE StartSweep(s)
        BY <2>1 DEF StartSweep
    <2>2. CASE NextInSweep(s)
        BY <2>2 DEF NextInSweep
    <2> QED
        BY <1>3, <2>1, <2>2
<1>4. ASSUME NEW q \in Proc, ReadRow(q) PROVE ProcStep(p)
    BY <1>4 DEF ReadRow, Return
<1>5. ASSUME NEW q \in Proc, Verify(q) PROVE ProcStep(p)
    BY <1>5 DEF Verify, Return
<1>6. ASSUME NEW q \in Proc, Settle(q) \/ MarkFailed(q) PROVE ProcStep(p)
    <2>1. Goto(q, "result") /\ on' = on /\ UNCHANGED payment
        BY <1>6 DEF Settle, MarkFailed
    <2> QED
        BY <1>6, <2>1
<1>7. ASSUME NEW q \in Proc, Result(q) PROVE ProcStep(p)
    <2>1. CASE Goto(q, "abandon") /\ UNCHANGED on
        <3>1. UNCHANGED payment
            BY <1>7 DEF Result
        <3> QED
            BY <1>7, <2>1, <3>1
    <2>2. CASE Return(q)
        BY <2>2 DEF Return
    <2> QED
        BY <1>7, <2>1, <2>2 DEF Result
<1>8. ASSUME NEW q \in Proc, Abandon(q) \/ Fail(q) PROVE ProcStep(p)
    <2>1. Return(q)
        BY <1>8 DEF Abandon, Fail
    <2> QED
        BY <2>1 DEF Return
<1> QED
    BY <1>1, <1>2, <1>3, <1>4, <1>5, <1>6, <1>7, <1>8 DEF Step, state, CallStep, Create, Checkout, Age, Pay

LEMMA ToldStep == Base /\ [Step]_state => Told'
<1> SUFFICES ASSUME Base, [Step]_state, NEW p \in Proc
             PROVE  /\ pc'[p] = "settle" => payment'[on'[p]] = "paid"
                    /\ pc'[p] = "fail" => payment'[on'[p]] \in {"mismatch", "failed"}
                    /\ pc'[p] \in {"result", "abandon"} => payment'[on'[p]] # "none"
    BY DEF Told
<1>1. CASE pc'[p] = pc[p] /\ on'[p] = on[p]
    BY <1>1, Acting, PaymentForward DEF Base, Told
<1>2. CASE pc'[p] \in {"idle", "sweep", "read", "verify"}
    BY <1>2
<1>3. CASE /\ on'[p] = on[p] /\ UNCHANGED payment
           /\ \/ pc'[p] = "settle" /\ payment[on[p]] = "paid"
              \/ pc'[p] = "fail" /\ payment[on[p]] \in {"mismatch", "failed"}
              \/ pc'[p] = "result" /\ payment[on[p]] = "open"
    BY <1>3
<1>4. CASE /\ on'[p] = on[p] /\ UNCHANGED payment
           /\ \/ pc'[p] = "result" /\ (Settle(p) \/ MarkFailed(p))
              \/ pc'[p] = "abandon" /\ Result(p)
    BY <1>4 DEF Base, Told, Settle, MarkFailed, Result
<1> QED
    BY <1>1, <1>2, <1>3, <1>4, ProcSteps DEF ProcStep

LEMMA BaseStep == Base /\ [Next]_vars => Base'
BY StepInside, TypeStep, LinkedStep, ToldStep DEF Base

-----------------------------------------------------------------------------
\* The amount moves only in Settle, on a deposit that is claimed in the same step.
LEMMA CreditSteps ==
    ASSUME Base, [Step]_state, NEW d \in Id
    PROVE  \/ credited'[d] = credited[d] /\ (status'[d] = status[d] \/ status'[d] # "SUCCESSFUL")
           \/ /\ credited'[d] = credited[d] + 1
              /\ status[d] = "PENDING" /\ status'[d] = "SUCCESSFUL" /\ payment'[d] = "paid"
<1>1. CASE \E p \in Proc : Settle(p)
    <2> PICK p \in Proc : Settle(p)
        BY <1>1
    <2>1. on[p] \in Id /\ Row(on[p]) = status[on[p]] /\ payment[on[p]] = "paid"
        BY Acting DEF Settle, Base, Told
    <2> QED
        BY <2>1 DEF Settle, money, Base, TypeOK
<1>2. CASE ~ \E p \in Proc : Settle(p)
    <2>1. UNCHANGED credited
        BY <1>2 DEF Step, state, money, CallStep, Create, Checkout, Pay, Age, Call, StartSweep, NextInSweep, ReadRow,
           Verify, MarkFailed, Result, Abandon, Fail
    <2>2. Checkout(d) => status'[d] # "SUCCESSFUL"
        BY DEF Checkout, Base, TypeOK
    <2> QED
        BY <1>2, <2>1, <2>2, StatusSteps
<1> QED
    BY <1>1, <1>2

\* The amount of a deposit is credited exactly once if it succeeds and never otherwise, and only if it
\* was paid: settleDeposit under any number of callbacks, workers and sweeps, whenever customers pay.
THEOREM CreditedExactlyOnceHolds == Spec => []CreditedExactlyOnce
<1>1. Init => CreditedExactlyOnce
    BY DEF Init, CreditedExactlyOnce
<1>2. Base /\ CreditedExactlyOnce /\ [Next]_vars => CreditedExactlyOnce'
    <2> SUFFICES ASSUME Base, CreditedExactlyOnce, [Step]_state, NEW d \in Id
                 PROVE  /\ credited'[d] = IF status'[d] = "SUCCESSFUL" THEN 1 ELSE 0
                        /\ status'[d] = "SUCCESSFUL" => payment'[d] = "paid"
        BY StepInside DEF CreditedExactlyOnce
    <2>1. /\ credited[d] = IF status[d] = "SUCCESSFUL" THEN 1 ELSE 0
          /\ status[d] = "SUCCESSFUL" => payment[d] = "paid"
        BY DEF CreditedExactlyOnce
    <2>2. status[d] = "SUCCESSFUL" => status'[d] = "SUCCESSFUL" /\ payment'[d] = "paid"
        BY <2>1, StatusSteps, PaymentForward
    <2>3. CASE credited'[d] = credited[d] /\ (status'[d] = status[d] \/ status'[d] # "SUCCESSFUL")
        BY <2>1, <2>2, <2>3
    <2>4. CASE /\ credited'[d] = credited[d] + 1
               /\ status[d] = "PENDING" /\ status'[d] = "SUCCESSFUL" /\ payment'[d] = "paid"
        BY <2>1, <2>4
    <2> QED
        BY <2>3, <2>4, CreditSteps
<1> QED
    BY <1>1, <1>2, BaseInit, BaseStep, PTL DEF Spec

\* No late callback, failed check or sweep changes the outcome of a deposit (the status: "PENDING" of
\* every updateMany in deposit.service.ts and reconcile.service.ts).
THEOREM OutcomeFinalHolds == Spec => OutcomeFinal
<1>1. Base /\ [Next]_vars =>
        [\A d \in Id : status'[d] # status[d] => status[d] \in {"NONE", "CREATING", "PENDING"}]_vars
    BY StepInside, StatusSteps
<1> QED
    BY <1>1, BaseInit, BaseStep, PTL DEF Spec, OutcomeFinal

-----------------------------------------------------------------------------
(***************************************************************************)
(* No paid deposit is written off, except by a sweep that Paystack         *)
(* answered before the payment.  Such a sweep is judging the deposit, in   *)
(* result or abandon, and the history keeps its deposit in late until it   *)
(* is done; a sweep that asks after the payment is sent to settle instead. *)
(***************************************************************************)

\* A sweep that is about to abandon a PENDING deposit was right about it when Paystack answered.
Judged ==
    \A p \in Proc :
        /\ pc[p] = "abandon" => p \in Sweep
        /\ p \in Sweep /\ pc[p] \in {"result", "abandon"} /\ status[on[p]] = "PENDING" /\ payment[on[p]] = "paid"
              => on[p] \in late

\* How the history grows and what it keeps.
LEMMA LateStep ==
    ASSUME [Next]_vars, NEW d \in Id, d \in late \/ (payment[d] # "paid" /\ payment'[d] = "paid"),
           Row(d)' # "PENDING" \/ Judging(d)'
    PROVE  d \in late'
BY DEF Next, Remember, vars, state, Row, Judging

LEMMA JudgedStep == Base /\ Judged /\ [Next]_vars => Judged'
<1> SUFFICES ASSUME Base, Judged, [Next]_vars, [Step]_state, NEW p \in Proc
             PROVE  /\ pc'[p] = "abandon" => p \in Sweep
                    /\ p \in Sweep /\ pc'[p] \in {"result", "abandon"} /\ status'[on'[p]] = "PENDING"
                           /\ payment'[on'[p]] = "paid" => on'[p] \in late'
    BY StepInside DEF Judged
<1>0. /\ pc[p] = "abandon" => p \in Sweep
      /\ p \in Sweep /\ pc[p] \in {"result", "abandon"} /\ status[on[p]] = "PENDING" /\ payment[on[p]] = "paid"
             => on[p] \in late
    BY DEF Judged
<1>1. CASE pc'[p] = pc[p] /\ on'[p] = on[p]
    <2>1. ASSUME p \in Sweep, pc[p] \in {"result", "abandon"}, status'[on[p]] = "PENDING",
                 payment'[on[p]] = "paid"
          PROVE  on[p] \in late'
        <3>1. on[p] \in Id /\ status[on[p]] \notin {"NONE", "CREATING"}
            BY <2>1, Acting
        <3>2. status[on[p]] = "PENDING"
            BY <2>1, <3>1, StatusSteps
        <3> PICK d \in Id : d = on[p]
            BY <3>1
        <3>3. Judging(d)'
            BY <1>1, <2>1 DEF Judging
        <3>4. d \in late \/ (payment[d] # "paid" /\ payment'[d] = "paid")
            BY <1>0, <2>1, <3>2
        <3> QED
            BY <3>1, <3>3, <3>4, LateStep
    <2> QED
        BY <1>0, <1>1, <2>1
<1>2. CASE pc'[p] \in {"idle", "sweep", "read", "verify", "settle", "fail"}
    BY <1>2
<1>3. CASE on'[p] = on[p] /\ UNCHANGED payment /\ pc'[p] = "result" /\ payment[on[p]] = "open"
    BY <1>3
<1>4. CASE on'[p] = on[p] /\ pc'[p] = "result" /\ (Settle(p) \/ MarkFailed(p))
    <2>1. on[p] \in Id /\ Row(on[p]) = status[on[p]]
        BY <1>4, Acting DEF Settle, MarkFailed
    <2>2. status'[on[p]] # "PENDING"
        BY <1>4, <2>1 DEF Settle, MarkFailed, money, Base, TypeOK
    <2> QED
        BY <1>4, <2>2
<1>5. CASE on'[p] = on[p] /\ pc'[p] = "abandon" /\ Result(p)
    <2>1. on[p] \in Id /\ Row(on[p]) = status[on[p]] /\ pc[p] = "result"
        BY <1>5, Acting DEF Result
    <2>2. p \in Sweep /\ Row(on[p]) = "PENDING" /\ UNCHANGED <<money, payment>>
        BY <1>5, ProcFacts DEF Result, Return, Goto, Base, TypeOK
    <2> PICK d \in Id : d = on[p]
        BY <2>1
    <2>3. Judging(d)'
        BY <1>5, <2>2 DEF Judging
    <2>4. status'[d] = status[d] /\ payment'[d] = payment[d]
        BY <2>2 DEF money
    <2>5. status'[d] = "PENDING" /\ payment'[d] = "paid" => d \in late'
        BY <1>0, <2>1, <2>2, <2>3, <2>4, LateStep
    <2> QED
        BY <1>5, <2>2, <2>5
<1> QED
    BY <1>1, <1>2, <1>3, <1>4, <1>5, ProcSteps DEF ProcStep

LEMMA WrittenOffStep == Base /\ Judged /\ PaidNeverWrittenOff /\ [Next]_vars => PaidNeverWrittenOff'
<1> SUFFICES ASSUME Base, Base', Judged, PaidNeverWrittenOff, [Next]_vars, [Step]_state,
                    NEW d \in Id, payment'[d] = "paid", status'[d] \notin {"PENDING", "SUCCESSFUL"}
             PROVE  d \in late'
    BY StepInside, BaseStep DEF PaidNeverWrittenOff
<1>1. Row(d)' # "PENDING"
    BY DEF Base, Linked, Row
<1>2. payment[d] = "paid" => d \in late
    <2> SUFFICES ASSUME payment[d] = "paid", d \notin late PROVE FALSE
        OBVIOUS
    <2>1. status[d] \in {"PENDING", "SUCCESSFUL"}
        BY DEF PaidNeverWrittenOff
    <2>2. PICK p \in Proc : on[p] = d /\ status[d] = "PENDING" /\ (MarkFailed(p) \/ Abandon(p))
        BY <2>1, StatusSteps
    <2> QED
        BY <2>2 DEF MarkFailed, Abandon, Base, Told, Judged
<1> QED
    BY <1>1, <1>2, LateStep

\* A paid deposit is credited or can still be, however late it is paid and however many callbacks and
\* sweeps there are: reconcilePayments writes one off only if the payment was made after Paystack had
\* answered the sweep that abandons it, or when it was written off already.
THEOREM PaidNeverWrittenOffHolds == Spec => []PaidNeverWrittenOff
<1>1. Init => Judged /\ PaidNeverWrittenOff
    BY ProcFacts DEF Init, Judged, PaidNeverWrittenOff
<1> QED
    BY <1>1, BaseInit, BaseStep, JudgedStep, WrittenOffStep, PTL DEF Spec
=============================================================================
