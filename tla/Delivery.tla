------------------------------ MODULE Delivery ------------------------------
(***************************************************************************)
(* What goes out after a movement of money: the transaction event, the     *)
(* calls to the webhooks users have registered, and the notification in    *)
(* the app and by email (transaction, webhook and notification queues with *)
(* their workers).  BullMQ starts a job again if its worker dies, once.    *)
(***************************************************************************)
EXTENDS Integers, FiniteSets

CONSTANTS
    Hook,           \* registered webhooks of the users an event is about
    Run,            \* runs of the event's job, 1..n: one more for a worker that dies
    HookAttempts,       \* attempts of a webhook job
    MailAttempts,   \* attempts of a notification job
    MaxDeaths       \* bound on dying workers

ASSUME DeliveryAssumption ==
    /\ 1 \in Run /\ Run \subseteq Nat
    /\ HookAttempts \in Nat \ {0} /\ MailAttempts \in Nat \ {0} /\ MaxDeaths \in Nat

VARIABLES
    active,     \* webhooks that are not deleted
    event,      \* the transaction job: "none", "waiting", or "done"
    run,        \* the run it is in
    job,        \* webhook jobs, one for a webhook and a run: state, failed attempts, and dead workers
    calls,      \* how often each has called, and how often it was answered well
    history,    \* its WebhookDelivery rows: how many, and how many successes
    mail,       \* the notification job, and the same
    inApp,      \* Notification rows with its id
    mailed,     \* how often its email was sent
    wanted,     \* the user allows such emails
    deaths

hookVars == <<active, event, run, job, calls, history>>
noteVars == <<mail, inApp, mailed, wanted>>
deliveryVars == <<hookVars, noteVars, deaths>>

Job == Hook \X Run
NoJob == [state |-> "none", failed |-> 0, stalls |-> 0]
Tally == [all |-> 0, good |-> 0]

DeliveryInit ==
    /\ active = Hook
    /\ event = "none" /\ run = 1
    /\ job = [j \in Job |-> NoJob]
    /\ calls = [j \in Job |-> Tally] /\ history = [j \in Job |-> Tally]
    /\ mail = NoJob /\ inApp = 0 /\ mailed = 0 /\ wanted \in BOOLEAN
    /\ deaths = 0

Plus(c, good) == [all |-> c.all + 1, good |-> IF good THEN c.good + 1 ELSE c.good]

\* A failed attempt is followed by another one, or by none
Again(j, most) == [state |-> IF j.failed + 1 = most THEN "failed" ELSE "waiting", failed |-> j.failed + 1, stalls |-> j.stalls]

\* BullMQ's maxStalledCount, which no worker of the repository sets: the job of a dead worker is made
\* ready again, and given up when that happens once too often
MaxStalled == 1
Stalled(j) == [state |-> IF j.stalls < MaxStalled THEN "waiting" ELSE "failed", failed |-> j.failed, stalls |-> j.stalls + 1]

-----------------------------------------------------------------------------
\* enqueueTransactionEvent and notify swallow what Redis throws: either job may never be added
MoneyMoved ==
    /\ event = "none" /\ mail.state = "none"
    /\ event' \in {"waiting", "done"}
    /\ \E s \in {"waiting", "lost"} : mail' = [mail EXCEPT !.state = s]
    /\ UNCHANGED <<active, run, job, calls, history, inApp, mailed, wanted, deaths>>

\* dispatchWebhooksForUser, for each user: some of the additions may throw, which is logged
Dispatch ==
    /\ event = "waiting"
    /\ \E added \in SUBSET active :
           job' = [j \in Job |-> IF j[1] \in added /\ j[2] = run THEN [NoJob EXCEPT !.state = "waiting"] ELSE job[j]]
    /\ event' = "done"
    /\ UNCHANGED <<active, run, calls, history, noteVars, deaths>>

\* The worker dies after it: the job is run again
DispatchAgain ==
    /\ event = "done" /\ deaths < MaxDeaths
    /\ run + 1 \in Run
    /\ event' = "waiting" /\ run' = run + 1 /\ deaths' = deaths + 1
    /\ UNCHANGED <<active, job, calls, history, noteVars>>

DeleteWebhook(h) ==
    /\ active' = active \ {h}
    /\ UNCHANGED <<event, run, job, calls, history, noteVars, deaths>>

\* processWebhookJob calls, whether or not the webhook has been deleted since; an answer may come too late
Call(j, good) ==
    /\ job[j].state = "waiting"
    /\ \E received \in {good, TRUE} : calls' = [calls EXCEPT ![j] = Plus(@, received)]
    /\ job' = [job EXCEPT ![j].state = IF good THEN "good" ELSE "bad"]
    /\ UNCHANGED <<active, event, run, history, noteVars, deaths>>

\* Mutant: a bad answer is recorded and not thrown
RecordQuietly(j) ==
    /\ job[j].state \in {"good", "bad"}
    /\ history' = [history EXCEPT ![j] = Plus(@, job[j].state = "good")]
    /\ job' = [job EXCEPT ![j].state = "completed"]
    /\ UNCHANGED <<active, event, run, calls, noteVars, deaths>>

\* The attempt becomes a row of the history; then a bad one throws
Record(j) ==
    /\ job[j].state \in {"good", "bad"}
    /\ history' = [history EXCEPT ![j] = Plus(@, job[j].state = "good")]
    /\ job' = [job EXCEPT ![j] = IF job[j].state = "good" THEN [@ EXCEPT !.state = "completed"] ELSE Again(@, HookAttempts)]
    /\ UNCHANGED <<active, event, run, calls, noteVars, deaths>>

\* The row cannot be written: the attempt fails, though the call may have succeeded
RecordFails(j) ==
    /\ job[j].state \in {"good", "bad"}
    /\ job' = [job EXCEPT ![j] = Again(@, HookAttempts)]
    /\ UNCHANGED <<active, event, run, calls, history, noteVars, deaths>>

\* The worker dies, before the row is written or after it: the attempt is not counted
CallerDies(j) ==
    /\ job[j].state \in {"good", "bad"} /\ deaths < MaxDeaths
    /\ \/ history' = [history EXCEPT ![j] = Plus(@, job[j].state = "good")]
       \/ UNCHANGED history
    /\ job' = [job EXCEPT ![j] = Stalled(@)]
    /\ deaths' = deaths + 1
    /\ UNCHANGED <<active, event, run, calls, noteVars>>

-----------------------------------------------------------------------------
\* deliverNotification: the user's choice, then the upsert by the job's id.  (The user is there: no code
\* of the repository deletes one, so the return without one is never taken.)
Store ==
    /\ mail.state = "waiting"
    /\ inApp' = 1
    /\ mail' = [mail EXCEPT !.state = IF wanted THEN "good" ELSE "completed"]
    /\ UNCHANGED <<hookVars, mailed, wanted, deaths>>

SendEmail ==
    /\ mail.state = "good"
    /\ mailed' = mailed + 1
    /\ mail' = [mail EXCEPT !.state = "completed"]
    /\ UNCHANGED <<hookVars, inApp, wanted, deaths>>

\* The mail server or the database refuses; the server may have sent it all the same
MailFails ==
    /\ mail.state \in {"waiting", "good"}
    /\ mailed' \in IF mail.state = "good" THEN {mailed, mailed + 1} ELSE {mailed}
    /\ mail' = Again(mail, MailAttempts)
    /\ UNCHANGED <<hookVars, inApp, wanted, deaths>>

MailerDies ==
    /\ mail.state \in {"waiting", "good"} /\ deaths < MaxDeaths
    /\ mailed' \in IF mail.state = "good" THEN {mailed, mailed + 1} ELSE {mailed}
    /\ mail' = Stalled(mail)
    /\ deaths' = deaths + 1
    /\ UNCHANGED <<hookVars, inApp, wanted>>

\* updatePreferences
ChangeWish == wanted' = ~wanted /\ UNCHANGED <<hookVars, mail, inApp, mailed, deaths>>

DeliveryNext ==
    \/ MoneyMoved \/ Dispatch \/ DispatchAgain
    \/ \E h \in Hook : DeleteWebhook(h)
    \/ \E j \in Job : Record(j) \/ RecordFails(j) \/ CallerDies(j) \/ \E good \in BOOLEAN : Call(j, good)
    \/ Store \/ SendEmail \/ MailFails \/ MailerDies \/ ChangeWish

DeliveryTypeOK ==
    /\ active \subseteq Hook /\ event \in {"none", "waiting", "done"} /\ run \in Run
    /\ job \in [Job -> [state : {"none", "waiting", "good", "bad", "completed", "failed"},
                      failed : 0..HookAttempts, stalls : 0..MaxStalled + 1]]
    /\ calls \in [Job -> [all : Nat, good : Nat]] /\ history \in [Job -> [all : Nat, good : Nat]]
    /\ mail \in [state : {"none", "waiting", "good", "completed", "failed", "lost"},
                failed : 0..MailAttempts, stalls : 0..MaxStalled + 1]
    /\ inApp \in Nat /\ mailed \in Nat /\ wanted \in BOOLEAN /\ deaths \in 0..MaxDeaths

\* "per-attempt audit trail" (README.md:53), as far as it goes: a webhook job is complete only when its
\* endpoint has accepted a call and the history says so; the history never tells of more calls, or of
\* more successes, than there were; and a job that was given up has made every attempt, unless two workers
\* died on it.  An attempt may be missing, and a receiver called again, when the row is not written or the
\* worker dies.  The app shows a notification once, however often its email is retried.
RecordsTrue ==
    /\ \A j \in Job :
        /\ job[j].state = "completed" => history[j].good > 0 /\ calls[j].good > 0
        /\ history[j].all <= calls[j].all /\ history[j].good <= calls[j].good
        /\ job[j].state = "failed" => calls[j].all >= HookAttempts \/ job[j].stalls > MaxStalled
        /\ calls[j].all <= HookAttempts + MaxDeaths
    /\ inApp <= 1 /\ (mail.state = "completed" => inApp = 1)
=============================================================================
