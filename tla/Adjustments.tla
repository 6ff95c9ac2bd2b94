----------------------------- MODULE Adjustments -----------------------------
(***************************************************************************)
(* Balance adjustments (adjustments.service.ts), decided by a staff that   *)
(* changes meanwhile.  An adjustment moves one unit; those up to           *)
(* APPROVAL_THRESHOLD are Small, corrections that take money are Debits.   *)
(***************************************************************************)
EXTENDS Staff, Integers

CONSTANTS
    Adj,        \* the adjustments that may be asked for
    Small,      \* applied by whoever asks for them
    Debit,      \* they take money from the wallet
    Of,         \* the user whose wallet each is about
    Handler     \* requests to the adjustment endpoints

ASSUME AdjustmentsAssumption == Adj # {} /\ Small \subseteq Adj /\ Debit \subseteq Adj /\ Of \in [Adj -> User]

VARIABLES
    status,     \* Adjustment.status, "none" if there is no row
    asker,      \* requestedById
    decider,    \* decidedById
    moved,      \* how often its money has moved
    wallet,     \* the balances
    call,       \* what each handler is doing: its next step, who asked, and for which adjustment
    alone       \* history: the approvals during which, for a moment at least, nobody else could have approved

moneyVars == <<status, asker, decider, moved, wallet>>
adjVars == <<moneyVars, call>>

NoCall == [step |-> "idle", op |-> "approve", by |-> Nobody, adj |-> CHOOSE a \in Adj : TRUE]

AdjInit ==
    /\ status = [a \in Adj |-> "none"]
    /\ asker = [a \in Adj |-> Nobody]
    /\ decider = [a \in Adj |-> Nobody]
    /\ moved = [a \in Adj |-> 0]
    /\ wallet = [u \in User |-> 0]
    /\ call = [p \in Handler |-> NoCall]

Step(p, s) == call' = [call EXCEPT ![p].step = s]
End(p) == call' = [call EXCEPT ![p] = NoCall]

Set(a, s, u) ==
    /\ status' = [status EXCEPT ![a] = s]
    /\ decider' = [decider EXCEPT ![a] = u]

\* requestAdjustment: nobody adjusts the own balance; a small one goes on to applyAdjustment
Request(p, u, a) ==
    /\ call[p].step = "idle" /\ status[a] = "none"
    /\ role[u] \in AdjustmentsManage /\ Of[a] # u
    /\ Set(a, "PENDING", Nobody)
    /\ asker' = [asker EXCEPT ![a] = u]
    /\ call' = IF a \in Small
               THEN [call EXCEPT ![p] = [step |-> "apply", op |-> "request", by |-> u, adj |-> a]]
               ELSE call
    /\ UNCHANGED <<moved, wallet>>

\* approveAdjustment and rejectAdjustment, once the permission is checked
Decide(p, op, u, a) ==
    /\ call[p].step = "idle" /\ status[a] # "none"
    /\ role[u] \in AdjustmentsManage
    /\ call' = [call EXCEPT ![p] = [step |-> IF op = "approve" THEN "read" ELSE "claim",
                                    op |-> op, by |-> u, adj |-> a]]
    /\ UNCHANGED moneyVars

ReadPending(p) ==
    /\ call[p].step = "read"
    /\ LET a == call[p].adj
       IN IF status[a] # "PENDING" THEN End(p)
          ELSE IF asker[a] = call[p].by THEN Step(p, "second") ELSE Step(p, "apply")
    /\ UNCHANGED moneyVars

\* Mutant: only another owner counts as a second approver
CheckSecondOwner(p) ==
    /\ call[p].step = "second"
    /\ IF \A v \in Owners : v = call[p].by THEN Step(p, "apply") ELSE End(p)
    /\ UNCHANGED moneyVars

\* hasSecondApprover: the own request, while nobody else could approve it
CheckSecond(p) ==
    /\ call[p].step = "second"
    /\ IF OtherApprovers(call[p].by) = {} THEN Step(p, "apply") ELSE End(p)
    /\ UNCHANGED moneyVars

\* Mutant: the row is read again and not claimed
ApplyAnyway(p) ==
    /\ call[p].step = "apply"
    /\ LET a == call[p].adj
       IN /\ a \in Debit => wallet[Of[a]] > 0
          /\ Set(a, "APPROVED", call[p].by)
          /\ moved' = [moved EXCEPT ![a] = @ + 1]
          /\ wallet' = [wallet EXCEPT ![Of[a]] = IF a \in Debit THEN @ - 1 ELSE @ + 1]
    /\ Step(p, "after")
    /\ UNCHANGED asker

\* applyAdjustment's transaction, under the wallet's lock: the claim, the balance, the ledger
ApplyAdjustment(p) ==
    /\ call[p].step = "apply"
    /\ LET a == call[p].adj
       IN /\ status[a] = "PENDING"
          /\ a \in Debit => wallet[Of[a]] > 0
          /\ Set(a, "APPROVED", call[p].by)
          /\ moved' = [moved EXCEPT ![a] = @ + 1]
          /\ wallet' = [wallet EXCEPT ![Of[a]] = IF a \in Debit THEN @ - 1 ELSE @ + 1]
    /\ Step(p, "after")
    /\ UNCHANGED asker

\* It throws: somebody was faster, the balance is too low, the lock or the database is not available;
\* or, the money having moved, the cache or the queue is not
Throw(p) ==
    /\ call[p].step \in {"apply", "after"}
    /\ IF call[p].op = "request" THEN Step(p, "undo") ELSE End(p)
    /\ UNCHANGED moneyVars

\* requestAdjustment's catch block; its update may match nothing
Undo(p) ==
    /\ call[p].step = "undo"
    /\ IF status[call[p].adj] = "PENDING"
       THEN Set(call[p].adj, "REJECTED", call[p].by)
       ELSE UNCHANGED <<status, decider>>
    /\ End(p)
    /\ UNCHANGED <<asker, moved, wallet>>

\* rejectAdjustment's claim
ClaimReject(p) ==
    /\ call[p].step = "claim"
    /\ status[call[p].adj] = "PENDING"
    /\ Set(call[p].adj, "REJECTED", call[p].by)
    /\ End(p)
    /\ UNCHANGED <<asker, moved, wallet>>

\* The answer, a refusal on the way, or the end of the process
LeaveCall(p) ==
    /\ call[p].step # "idle"
    /\ End(p)
    /\ UNCHANGED moneyVars

AdjNext ==
    \/ \E p \in Handler : \/ ReadPending(p) \/ CheckSecond(p) \/ ApplyAdjustment(p) \/ Throw(p)
                          \/ Undo(p) \/ ClaimReject(p) \/ LeaveCall(p)
    \/ \E p \in Handler, u \in User, a \in Adj :
           Request(p, u, a) \/ \E op \in {"approve", "reject"} : Decide(p, op, u, a)

-----------------------------------------------------------------------------
ConsoleInit == StaffInit /\ AdjInit /\ alone = {}

\* The history: an approval stays in alone until its end
FindAlone == alone' = {p \in Handler : /\ call'[p].step # "idle" /\ call'[p].op = "approve"
                                       /\ p \in alone \/ OtherApprovers(call[p].by)' = {}}

ConsoleNext ==
    /\ \/ StaffNext /\ UNCHANGED adjVars
       \/ AdjNext /\ UNCHANGED staffVars
    /\ FindAlone

consoleVars == <<staffVars, adjVars, alone>>

ConsoleSpec == ConsoleInit /\ [][ConsoleNext]_consoleVars

-----------------------------------------------------------------------------
ConsoleTypeOK ==
    /\ StaffTypeOK
    /\ status \in [Adj -> {"none", "PENDING", "APPROVED", "REJECTED"}]
    /\ asker \in [Adj -> User \cup {Nobody}]
    /\ decider \in [Adj -> User \cup {Nobody}]
    /\ moved \in [Adj -> Nat]
    /\ wallet \in [User -> Nat]
    /\ call \in [Handler -> [step : {"idle", "read", "second", "apply", "after", "undo", "claim"},
                             op : {"request", "approve", "reject"}, by : User \cup {Nobody}, adj : Adj]]
    /\ alone \subseteq Handler

Word == [none |-> "absent", PENDING |-> "pending", APPROVED |-> "accepted", REJECTED |-> "refused"]

Decided == INSTANCE Decision WITH Item <- Adj, state <- [a \in Adj |-> Word[status[a]]], effect <- moved

\* Whatever happens between the awaits of requests, approvals and rejections, an adjustment is decided
\* once and its money moves exactly when it is approved, also when what follows the commit fails.
AdjustmentsDecidedOnce == Decided!Spec

\* The two-person rule (README.md:39): above the threshold a requester's own approval moves money only
\* if there was a moment, after the approval was asked for, when nobody else on the staff could have
\* given it.  Roles and freezes change between the check and the commit, so that somebody else may be
\* able to by then; somebody who was able to all along never is passed over.
TwoPersonRule ==
    [][\A a \in Adj \ Small : moved'[a] # moved[a] /\ decider'[a] = asker[a]
                                 => \E p \in alone : call[p].by = asker[a] /\ call[p].adj = a]_moved
=============================================================================
