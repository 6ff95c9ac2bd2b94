------------------------------ MODULE Insights ------------------------------
(***************************************************************************)
(* Spending insights of one user: opting in and out, the refresh job and   *)
(* its queue, and the categories the AI or the user gives to payments      *)
(* (insights.service.ts, categorise.service.ts, insights.queue.ts).        *)
(***************************************************************************)
EXTENDS Integers

CONSTANTS
    Spend,          \* payments
    Asker,          \* requests to the endpoints
    MaxRefreshes,   \* MAX_REFRESHES_PER_DAY
    RefreshAttempts \* attempts of a job

ASSUME InsightsAssumption == MaxRefreshes \in Nat /\ RefreshAttempts \in Nat \ {0}

VARIABLES
    enabled,    \* aiInsightsEnabled
    stored,     \* there is a SpendingInsight
    category,   \* of each payment: "absent" (it is not made yet), "none", by "AI" or by the "USER"
    task,       \* the BullMQ job insights-<user>: "none", "waiting", "active" or "failed" (and kept)
    tried,      \* its failed attempts
    refresh,    \* the next step of the worker, and the payments it is asking about
    asking,     \* the next step of each request
    asked,      \* the day's counter of refreshes
    optedOut,   \* history: the last answered choice is to opt out
    early       \* history: the user has opted out since the running refresh found otherwise

choices == <<enabled, stored, category, optedOut>>
queue == <<task, tried, refresh>>
insightState == <<choices, queue, asking, asked>>
insightVars == <<insightState, early>>

Resting == [step |-> "idle", rows |-> {}]

InsightsInit ==
    /\ enabled = FALSE /\ stored = FALSE /\ optedOut = FALSE /\ early = FALSE
    /\ category = [s \in Spend |-> "absent"]
    /\ task = "none" /\ tried = 0 /\ refresh = Resting
    /\ asking = [p \in Asker |-> "idle"] /\ asked = 0

Asks(p, s) == asking' = [asking EXCEPT ![p] = s]

-----------------------------------------------------------------------------
\* setInsightsEnabled: the choice is written, then the first refresh queued, or the insights deleted
OptIn(p) ==
    /\ asking[p] = "idle"
    /\ enabled' = TRUE /\ optedOut' = FALSE
    /\ Asks(p, "queue")
    /\ UNCHANGED <<stored, category, queue, asked>>

OptOut(p) ==
    /\ asking[p] = "idle"
    /\ enabled' = FALSE
    /\ Asks(p, "delete")
    /\ UNCHANGED <<stored, category, optedOut, queue, asked>>

DeleteInsight(p) ==
    /\ asking[p] = "delete"
    /\ stored' = FALSE
    /\ optedOut' = ~enabled
    /\ Asks(p, "idle")
    /\ UNCHANGED <<enabled, category, queue, asked>>

\* queueInsightsRefresh: a job that is still known under the user's id swallows the new one
Queue(p) ==
    /\ asking[p] = "queue"
    /\ IF task = "none" THEN task' = "waiting" /\ tried' = 0 ELSE UNCHANGED <<task, tried>>
    /\ Asks(p, "idle")
    /\ UNCHANGED <<choices, refresh, asked>>

\* getInsights, when there is nothing stored or it is stale; requestRefresh
View(p) ==
    /\ asking[p] = "idle" /\ enabled
    /\ Asks(p, "pending")
    /\ UNCHANGED <<choices, queue, asked>>

IsRefreshPending(p) ==
    /\ asking[p] = "pending"
    /\ Asks(p, IF task \in {"waiting", "active"} THEN "idle" ELSE "queue")
    /\ UNCHANGED <<choices, queue, asked>>

AskRefresh(p) ==
    /\ asking[p] = "idle" /\ enabled
    /\ Asks(p, "count")
    /\ UNCHANGED <<choices, queue, asked>>

CountRefresh(p) ==
    /\ asking[p] = "count"
    /\ asked' = IF asked > MaxRefreshes THEN asked ELSE asked + 1
    /\ Asks(p, IF asked' > MaxRefreshes THEN "idle" ELSE "queue")
    /\ UNCHANGED <<choices, queue>>

\* setTransactionCategory
SetCategory(s) ==
    /\ category[s] # "absent"
    /\ category' = [category EXCEPT ![s] = "USER"]
    /\ UNCHANGED <<enabled, stored, optedOut, queue, asking, asked>>

\* A failing Redis or database, or the end of the process
LeaveAsker(p) ==
    /\ asking[p] # "idle"
    /\ Asks(p, "idle")
    /\ UNCHANGED <<choices, queue, asked>>

-----------------------------------------------------------------------------
Goes(s) == refresh' = [refresh EXCEPT !.step = s]
Rests == refresh' = Resting

StartRefresh ==
    /\ task = "waiting"
    /\ task' = "active" /\ Goes("check")
    /\ UNCHANGED <<choices, tried, asking, asked>>

\* Mutant: the choice at the time of queueing is taken for the present one
CheckNothing ==
    /\ refresh.step = "check"
    /\ Goes("rows") /\ UNCHANGED task
    /\ UNCHANGED <<choices, tried, asking, asked>>

\* generateInsights: "turned off since the job was queued"; a completed job is removed
CheckEnabled ==
    /\ refresh.step = "check"
    /\ IF enabled THEN Goes("rows") /\ UNCHANGED task ELSE Rests /\ task' = "none"
    /\ UNCHANGED <<choices, tried, asking, asked>>

\* categoriseRecentSpends reads payments without a category, and asks the model about them; or it throws
ReadRows ==
    /\ refresh.step = "rows"
    /\ \/ refresh' = [step |-> "fill", rows |-> {s \in Spend : category[s] = "none"}]
       \/ Goes("write")
    /\ UNCHANGED <<choices, task, tried, asking, asked>>

\* "the update only touches rows that are still uncategorised"
Fill(s) ==
    /\ refresh.step = "fill" /\ s \in refresh.rows
    /\ category' = IF category[s] = "none" THEN [category EXCEPT ![s] = "AI"] ELSE category
    /\ refresh' = [refresh EXCEPT !.rows = @ \ {s}]
    /\ UNCHANGED <<enabled, stored, optedOut, task, tried, asking, asked>>

\* The model skipped some, or there is another batch, or an update throws
Filled ==
    /\ refresh.step = "fill"
    /\ \E s \in {"rows", "write"} : refresh' = [step |-> s, rows |-> {}]
    /\ UNCHANGED <<choices, task, tried, asking, asked>>

\* The facts and the wording, and the upsert
StoreInsight ==
    /\ refresh.step = "write"
    /\ stored' = TRUE
    /\ Rests /\ task' = "none"
    /\ UNCHANGED <<enabled, category, optedOut, tried, asking, asked>>

\* The job throws, and is tried again or kept as failed; or its worker dies, and it is started again
RefreshFails ==
    /\ refresh.step # "idle"
    /\ Rests
    /\ \/ /\ tried' = tried + 1
          /\ task' = IF tried' = RefreshAttempts THEN "failed" ELSE "waiting"
       \/ task' = "waiting" /\ UNCHANGED tried
    /\ UNCHANGED <<choices, asking, asked>>

\* removeOnFail keeps so many failed jobs and no more
EvictFailed ==
    /\ task = "failed"
    /\ task' = "none" /\ tried' = 0
    /\ UNCHANGED <<choices, refresh, asking, asked>>

Pay(s) ==
    /\ category[s] = "absent"
    /\ category' = [category EXCEPT ![s] = "none"]
    /\ UNCHANGED <<enabled, stored, optedOut, queue, asking, asked>>

NextDay ==
    /\ asked' = 0
    /\ UNCHANGED <<choices, queue, asking>>

InsightsStep ==
    \/ \E p \in Asker : \/ OptIn(p) \/ OptOut(p) \/ DeleteInsight(p) \/ Queue(p) \/ View(p)
                        \/ IsRefreshPending(p) \/ AskRefresh(p) \/ CountRefresh(p) \/ LeaveAsker(p)
    \/ StartRefresh \/ CheckEnabled \/ ReadRows \/ Filled \/ StoreInsight \/ RefreshFails \/ EvictFailed
    \/ \E s \in Spend : SetCategory(s) \/ Fill(s) \/ Pay(s)
    \/ NextDay

\* A refresh that has found the user opted in
Running == refresh.step \in {"rows", "fill", "write"}

InsightsNext ==
    /\ InsightsStep
    /\ early' = (Running /\ Running' /\ (early \/ (enabled /\ ~enabled')))

InsightsTypeOK ==
    /\ enabled \in BOOLEAN /\ stored \in BOOLEAN /\ optedOut \in BOOLEAN /\ early \in BOOLEAN
    /\ category \in [Spend -> {"absent", "none", "AI", "USER"}]
    /\ task \in {"none", "waiting", "active", "failed"} /\ tried \in 0..RefreshAttempts
    /\ refresh \in [step : {"idle", "check", "rows", "fill", "write"}, rows : SUBSET Spend]
    /\ asking \in [Asker -> {"idle", "queue", "delete", "pending", "count"}]
    /\ asked \in 0..MaxRefreshes + 1

\* "Users can correct categories, and their choice always wins" (README.md:36), also over a batch the
\* model was asked about before; and after an answered opt-out nothing is stored, however many refreshes
\* had been queued, except by one that had found the user opted in before the choice was written.  Such a
\* refresh does not look again: it stores its insight although the opt-out deleted what was there.
UserChoiceStands ==
    [][/\ \A s \in Spend : category[s] = "USER" => category'[s] = "USER"
       /\ optedOut' /\ stored' /\ ~(optedOut /\ stored) => early]_<<category, optedOut, stored>>
=============================================================================
