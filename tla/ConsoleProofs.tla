--------------------------- MODULE ConsoleProofs ---------------------------
(***************************************************************************)
(* What holds of the console for every staff, every set of adjustments and *)
(* tier upgrades, any number of requests, and lists and pages of any       *)
(* length.  Only the lists ask something of the environment: that the row  *)
(* a page ended with stays.                                                *)
(***************************************************************************)
EXTENDS Adjustments, Kyc, Paging, Sums, TLAPS

-----------------------------------------------------------------------------
\* The staff and the adjustments

\* What a request has established by the step it is at
CallOK(p) ==
    LET c == call[p]
    IN /\ c.step # "idle" => c.by \in User /\ status[c.adj] # "none"
       /\ c.op = "request" => c.step \in {"apply", "after", "undo"} /\ c.adj \in Small
       /\ c.op = "reject" => c.step = "claim"
       /\ c.step = "second" => c.op = "approve" /\ asker[c.adj] = c.by

\* Whoever approves the own request has been found alone
AloneOK(p) ==
    LET c == call[p]
    IN c.step = "apply" /\ c.op = "approve" /\ asker[c.adj] = c.by => p \in alone

EditOK(p) == edit[p].step # "idle" => edit[p].on \in User

\* A role change that is going to demote an owner has another one left, or has been overtaken
OwnerOK(p) ==
    edit[p].step = "write" /\ edit[p].on \in Owners /\ p \notin overtaken => \E u \in Owners : u # edit[p].on

Calls == \A p \in Handler : CallOK(p)
Alone == \A p \in Handler : AloneOK(p)
Edits == \A p \in Editor : EditOK(p) /\ OwnerOK(p)

IInv == ConsoleTypeOK /\ Calls /\ Alone /\ Edits

-----------------------------------------------------------------------------
LEMMA InitOK == ConsoleInit => IInv
<1> SUFFICES ASSUME ConsoleInit PROVE IInv
    OBVIOUS
<1> USE DEF ConsoleInit, StaffInit, AdjInit, NoCall, NoEdit
<1>1. ConsoleTypeOK
    <2>1. StaffTypeOK
        BY StaffAssumption DEF StaffTypeOK, Role
    <2> QED BY <2>1, AdjustmentsAssumption DEF ConsoleTypeOK
<1>2. Calls /\ Alone
    BY DEF Calls, Alone, CallOK, AloneOK
<1>3. Edits
    BY DEF Edits, EditOK, OwnerOK
<1> QED BY <1>1, <1>2, <1>3 DEF IInv

\* What a step does to the role changes: one that is about to be written was so before and nothing came in
\* front of it, or has just looked at the staff.
EditStep(q) ==
    edit'[q].step = "write" /\ q \notin overtaken' =>
        \/ edit[q].step = "write" /\ edit'[q] = edit[q] /\ q \notin overtaken
        \/ edit'[q].on = edit[q].on /\ UNCHANGED role /\ edit[q].on \notin Owners
        \/ edit'[q].on = edit[q].on /\ UNCHANGED role /\ \E u, v \in Owners : u # v

\* A role change or a freeze moves one editor on, or several requests of the script and of support none
LEMMA StaffMoves ==
    ASSUME IInv, StaffNext
    PROVE  StaffTypeOK' /\ \A q \in Editor : EditOK(q)' /\ EditStep(q)
<1> DEFINE Good == StaffTypeOK' /\ \A q \in Editor : EditOK(q)' /\ EditStep(q)
<1>0. overtaken' \subseteq Editor /\ \A q \in Editor : edit[q].step = "write" /\ edit'[q].step = "write" => (q \in overtaken => q \in overtaken')
    BY DEF StaffNext, Overtake
<1> USE DEF IInv, ConsoleTypeOK, StaffTypeOK, Edits, EditOK, EditStep, NoEdit, Leave, Goto
<1>1. ASSUME NEW p \in Editor, ReadTarget(p) PROVE Good
    <2>1. edit[p].step = "target" /\ UNCHANGED <<role, frozen>> /\ (Leave(p) \/ Goto(p, "count") \/ (Goto(p, "write") /\ edit[p].on \notin Owners))
        BY <1>1 DEF ReadTarget, Owners
    <2> QED BY <1>0, <2>1, StaffAssumption DEF Role
<1>2. ASSUME NEW p \in Editor, CountOwners(p) PROVE Good
    <2>1. edit[p].step = "count" /\ UNCHANGED <<role, frozen>> /\ (Leave(p) \/ (Goto(p, "write") /\ \E u, v \in Owners : u # v))
        BY <1>2 DEF CountOwners
    <2> QED BY <1>0, <2>1 DEF Role
<1>3. ASSUME NEW p \in Editor, WriteRole(p) PROVE Good
    BY <1>0, <1>3 DEF WriteRole, Role
<1>4. ASSUME NEW p \in Editor, WriteFreeze(p) \/ LeaveEdit(p) PROVE Good
    BY <1>0, <1>4 DEF WriteFreeze, LeaveEdit, Role
<1>5. ASSUME NEW p \in Editor, NEW u \in User, NEW v \in User, Freeze(p, u, v) PROVE Good
    BY <1>0, <1>5 DEF Freeze, Role
<1>6. ASSUME NEW p \in Editor, NEW u \in User, NEW v \in User, NEW r \in Granted, SetRole(p, u, v, r) PROVE Good
    BY <1>0, <1>6, StaffAssumption DEF SetRole
<1>7. ASSUME NEW u \in User, NEW v \in User, Unfreeze(u, v) PROVE Good
    BY <1>0, <1>7 DEF Unfreeze
<1>8. ASSUME NEW v \in User, NEW r \in {"OWNER", "USER"}, Script(v, r) PROVE Good
    BY <1>0, <1>8 DEF Script, Role
<1> QED BY <1>1, <1>2, <1>3, <1>4, <1>5, <1>6, <1>7, <1>8 DEF StaffNext, StaffStep

LEMMA StaffNextOK ==
    ASSUME IInv, StaffNext
    PROVE  StaffTypeOK' /\ Edits'
<1> SUFFICES ASSUME NEW q \in Editor PROVE OwnerOK(q)'
    BY StaffMoves DEF Edits
<1> SUFFICES ASSUME edit'[q].step = "write", edit'[q].on \in Owners', q \notin overtaken'
             PROVE  \E u \in Owners' : u # edit'[q].on
    BY DEF OwnerOK
<1>1. CASE edit[q].step = "write" /\ edit'[q] = edit[q] /\ q \notin overtaken
    <2>1. Owners \subseteq Owners' /\ edit[q].on \in Owners
        BY <1>1 DEF StaffNext, Overtake
    <2> QED BY <1>1, <2>1 DEF IInv, Edits, OwnerOK
<1>2. CASE edit'[q].on = edit[q].on /\ UNCHANGED role /\ edit[q].on \notin Owners
    BY <1>2 DEF Owners
<1>3. CASE edit'[q].on = edit[q].on /\ UNCHANGED role /\ \E u, v \in Owners : u # v
    BY <1>3 DEF Owners
<1> QED BY <1>1, <1>2, <1>3, StaffMoves DEF EditStep

\* The fields of a handler
CallSet == [step : {"idle", "read", "second", "apply", "after", "undo", "claim"},
            op : {"request", "approve", "reject"}, by : User \cup {Nobody}, adj : Adj]

LEMMA CallType ==
    ASSUME call \in [Handler -> CallSet], NEW p \in Handler
    PROVE  /\ End(p) => call' \in [Handler -> CallSet]
           /\ \A s \in {"read", "second", "apply", "after", "undo"} : Step(p, s) => call' \in [Handler -> CallSet]
           /\ \A s : Step(p, s) =>
                /\ \A q \in Handler \ {p} : call'[q] = call[q]
                /\ call'[p].step = s /\ call'[p].op = call[p].op /\ call'[p].by = call[p].by /\ call'[p].adj = call[p].adj
<1>1. NoCall \in CallSet
    BY AdjustmentsAssumption DEF NoCall, CallSet
<1>2. ASSUME NEW s, Step(p, s)
      PROVE  /\ \A q \in Handler \ {p} : call'[q] = call[q]
             /\ call'[p].step = s /\ call'[p].op = call[p].op /\ call'[p].by = call[p].by /\ call'[p].adj = call[p].adj
    BY <1>2 DEF Step, CallSet
<1>3. ASSUME NEW s \in {"read", "second", "apply", "after", "undo"}, Step(p, s) PROVE call' \in [Handler -> CallSet]
    BY <1>3 DEF Step, CallSet
<1> QED BY <1>1, <1>2, <1>3 DEF End

LEMMA AdjStep ==
    ASSUME IInv, AdjNext, UNCHANGED staffVars, FindAlone
    PROVE  ConsoleTypeOK' /\ Calls' /\ Alone'
<1> DEFINE Good == ConsoleTypeOK' /\ Calls' /\ Alone'
<1> USE DEF moneyVars, Set
<1>0. /\ call \in [Handler -> CallSet]
      /\ status \in [Adj -> {"none", "PENDING", "APPROVED", "REJECTED"}]
      /\ asker \in [Adj -> User \cup {Nobody}] /\ decider \in [Adj -> User \cup {Nobody}]
      /\ moved \in [Adj -> Nat] /\ wallet \in [User -> Nat]
      /\ StaffTypeOK' /\ UNCHANGED <<role, frozen>>
      /\ \A q \in Handler : CallOK(q) /\ AloneOK(q)
      /\ alone' \subseteq Handler
    BY DEF IInv, ConsoleTypeOK, StaffTypeOK, CallSet, Calls, Alone, staffVars, staffState, FindAlone
<1>a. \A q \in Handler : call'[q].step # "idle" /\ call'[q].op = "approve"
                             => (q \in alone \/ OtherApprovers(call[q].by)' = {} => q \in alone')
    BY DEF FindAlone
<1>1. ASSUME NEW p \in Handler, ReadPending(p) PROVE Good
    <2>1. ConsoleTypeOK'
        BY <1>0, <1>1, CallType, AdjustmentsAssumption DEF ReadPending, ConsoleTypeOK, CallSet
    <2>2. Calls'
        BY <1>0, <1>1, CallType DEF ReadPending, Calls, CallOK, CallSet, End, NoCall
    <2>3. Alone'
        BY <1>0, <1>a, <1>1, CallType DEF ReadPending, Alone, AloneOK, CallOK, CallSet, End, NoCall
    <2> QED BY <2>1, <2>2, <2>3
<1>2. ASSUME NEW p \in Handler, CheckSecond(p) PROVE Good
    <2>1. ConsoleTypeOK'
        BY <1>0, <1>2, CallType, AdjustmentsAssumption DEF CheckSecond, ConsoleTypeOK, CallSet
    <2>2. Calls'
        <3>1. CASE Step(p, "apply")
            BY <1>0, <1>2, <3>1, CallType DEF CheckSecond, Calls, CallOK
        <3>2. CASE End(p)
            BY <1>0, <1>2, <3>2 DEF CheckSecond, Calls, CallOK, CallSet, End, NoCall
        <3> QED BY <1>2, <3>1, <3>2 DEF CheckSecond
    <2>3. Alone'
        <3>1. CASE Step(p, "apply") /\ OtherApprovers(call[p].by) = {}
            <4>1. call'[p].by = call[p].by /\ OtherApprovers(call[p].by)' = {}
                BY <1>0, <3>1, CallType DEF OtherApprovers
            <4>2. call'[p].step = "apply" /\ call'[p].op = "approve"
                BY <1>0, <1>2, <3>1, CallType DEF CheckSecond, CallOK
            <4>3. p \in alone'
                BY <1>a, <4>1, <4>2
            <4> QED BY <1>0, <1>a, <1>2, <3>1, <4>3, CallType DEF CheckSecond, Alone, AloneOK
        <3>2. CASE End(p)
            BY <1>0, <1>a, <1>2, <3>2, CallType DEF CheckSecond, Alone, AloneOK, CallSet, End, NoCall
        <3> QED BY <1>2, <3>1, <3>2 DEF CheckSecond
    <2> QED BY <2>1, <2>2, <2>3
<1>3. ASSUME NEW p \in Handler, ApplyAdjustment(p) PROVE Good
    <2>1. ConsoleTypeOK'
        <3> DEFINE a == call[p].adj
        <3>1. a \in Adj /\ Of[a] \in User /\ call[p].by \in User \cup {Nobody}
            BY <1>0, AdjustmentsAssumption DEF CallSet
        <3>2. wallet' \in [User -> Nat]
            <4>1. CASE a \in Debit
                BY <1>0, <1>3, <3>1, <4>1 DEF ApplyAdjustment
            <4>2. CASE a \notin Debit
                BY <1>0, <1>3, <3>1, <4>2 DEF ApplyAdjustment
            <4> QED BY <4>1, <4>2
        <3>3. call' \in [Handler -> CallSet]
            BY <1>0, <1>3, CallType DEF ApplyAdjustment
        <3>4. moved' \in [Adj -> Nat] /\ decider' \in [Adj -> User \cup {Nobody}]
              /\ status' \in [Adj -> {"none", "PENDING", "APPROVED", "REJECTED"}] /\ asker' = asker
            BY <1>0, <1>3, <3>1 DEF ApplyAdjustment
        <3> QED BY <1>0, <3>2, <3>3, <3>4 DEF ConsoleTypeOK, CallSet
    <2>2. Calls'
        BY <1>0, <1>3, CallType DEF ApplyAdjustment, Calls, CallOK, CallSet, End, NoCall
    <2>3. Alone'
        BY <1>0, <1>a, <1>3, CallType DEF ApplyAdjustment, Alone, AloneOK, CallOK, CallSet, End, NoCall
    <2> QED BY <2>1, <2>2, <2>3
<1>4. ASSUME NEW p \in Handler, Throw(p) \/ LeaveCall(p) PROVE Good
    <2>1. ConsoleTypeOK'
        BY <1>0, <1>4, CallType, AdjustmentsAssumption DEF Throw, LeaveCall, ConsoleTypeOK, CallSet
    <2>2. Calls'
        BY <1>0, <1>4, CallType DEF Throw, LeaveCall, Calls, CallOK, CallSet, End, NoCall
    <2>3. Alone'
        BY <1>0, <1>a, <1>4, CallType DEF Throw, LeaveCall, Alone, AloneOK, CallOK, CallSet, End, NoCall
    <2> QED BY <2>1, <2>2, <2>3
<1>5. ASSUME NEW p \in Handler, Undo(p) PROVE Good
    <2>1. ConsoleTypeOK'
        BY <1>0, <1>5, CallType, AdjustmentsAssumption DEF Undo, ConsoleTypeOK, CallSet
    <2>2. Calls'
        BY <1>0, <1>5, CallType DEF Undo, Calls, CallOK, CallSet, End, NoCall
    <2>3. Alone'
        BY <1>0, <1>a, <1>5, CallType DEF Undo, Alone, AloneOK, CallOK, CallSet, End, NoCall
    <2> QED BY <2>1, <2>2, <2>3
<1>6. ASSUME NEW p \in Handler, ClaimReject(p) PROVE Good
    <2>1. ConsoleTypeOK'
        BY <1>0, <1>6, CallType, AdjustmentsAssumption DEF ClaimReject, ConsoleTypeOK, CallSet
    <2>2. Calls'
        BY <1>0, <1>6, CallType DEF ClaimReject, Calls, CallOK, CallSet, End, NoCall
    <2>3. Alone'
        BY <1>0, <1>a, <1>6, CallType DEF ClaimReject, Alone, AloneOK, CallOK, CallSet, End, NoCall
    <2> QED BY <2>1, <2>2, <2>3
<1>7. ASSUME NEW p \in Handler, NEW u \in User, NEW a \in Adj, Request(p, u, a) PROVE Good
    <2>1. ConsoleTypeOK'
        BY <1>0, <1>7, CallType, AdjustmentsAssumption DEF Request, ConsoleTypeOK, CallSet
    <2>2. Calls'
        BY <1>0, <1>7, CallType DEF Request, Calls, CallOK, CallSet, End, NoCall
    <2>3. Alone'
        BY <1>0, <1>a, <1>7, CallType DEF Request, Alone, AloneOK, CallOK, CallSet, End, NoCall
    <2> QED BY <2>1, <2>2, <2>3
<1>8. ASSUME NEW p \in Handler, NEW u \in User, NEW a \in Adj, NEW op \in {"approve", "reject"}, Decide(p, op, u, a) PROVE Good
    <2>1. ConsoleTypeOK'
        BY <1>0, <1>8, CallType, AdjustmentsAssumption DEF Decide, ConsoleTypeOK, CallSet
    <2>2. Calls'
        BY <1>0, <1>8, CallType DEF Decide, Calls, CallOK, CallSet, End, NoCall
    <2>3. Alone'
        BY <1>0, <1>a, <1>8, CallType DEF Decide, Alone, AloneOK, CallOK, CallSet, End, NoCall
    <2> QED BY <2>1, <2>2, <2>3
<1> QED BY <1>1, <1>2, <1>3, <1>4, <1>5, <1>6, <1>7, <1>8 DEF AdjNext

LEMMA NextOK == IInv /\ [ConsoleNext]_consoleVars => IInv'
<1> SUFFICES ASSUME IInv, [ConsoleNext]_consoleVars PROVE IInv'
    OBVIOUS
<1>1. CASE StaffNext /\ UNCHANGED adjVars /\ FindAlone
    <2>1. StaffTypeOK' /\ Edits'
        BY <1>1, StaffNextOK
    <2>2. ConsoleTypeOK' /\ Calls'
        BY <1>1, <2>1 DEF IInv, ConsoleTypeOK, Calls, CallOK, adjVars, moneyVars, FindAlone
    <2>3. Alone'
        BY <1>1 DEF IInv, Alone, AloneOK, adjVars, moneyVars, FindAlone
    <2> QED BY <2>1, <2>2, <2>3 DEF IInv
<1>2. CASE AdjNext /\ UNCHANGED staffVars /\ FindAlone
    <2>1. ConsoleTypeOK' /\ Calls' /\ Alone'
        BY <1>2, AdjStep
    <2>2. Edits'
        BY <1>2 DEF IInv, Edits, EditOK, OwnerOK, Owners, staffVars, staffState
    <2> QED BY <2>1, <2>2 DEF IInv
<1>3. CASE UNCHANGED consoleVars
    BY <1>3 DEF IInv, ConsoleTypeOK, StaffTypeOK, Calls, CallOK, Alone, AloneOK, Edits,
                EditOK, OwnerOK, Owners, consoleVars, staffVars, staffState, adjVars, moneyVars
<1> QED BY <1>1, <1>2, <1>3 DEF ConsoleNext

THEOREM Invariance == ConsoleSpec => []IInv
BY InitOK, NextOK, PTL DEF ConsoleSpec

-----------------------------------------------------------------------------
\* Every reachable state of the console is well typed.
THEOREM TypeCorrect == ConsoleSpec => []ConsoleTypeOK
BY Invariance, PTL DEF IInv

\* Adjustments implement Decision: decided once, and moved exactly when approved, whatever the staff
\* does, wherever requests stop, and when what follows the commit fails (applyAdjustment, Undo).
THEOREM AdjustmentsDecidedOnceHolds == ConsoleSpec => AdjustmentsDecidedOnce
<1>1. ConsoleInit => Decided!Init
    BY DEF ConsoleInit, AdjInit, Decided!Init, Word
<1>2. IInv /\ [ConsoleNext]_consoleVars => [Decided!Next]_<<[a \in Adj |-> Word[status[a]]], moved>>
    <2> SUFFICES ASSUME IInv, [ConsoleNext]_consoleVars
                 PROVE  Decided!Next \/ (UNCHANGED <<status, moved>>)
        BY DEF Word
    <2>1. ASSUME NEW p \in Handler, NEW u \in User, NEW a \in Adj, Request(p, u, a) PROVE Decided!Next
        <3>1. status \in [Adj -> {"none", "PENDING", "APPROVED", "REJECTED"}]
            BY DEF IInv, ConsoleTypeOK
        <3>2. status' = [status EXCEPT ![a] = "PENDING"] /\ status[a] = "none" /\ UNCHANGED moved
            BY <2>1 DEF Request, Set
        <3>3. Decided!Ask(a)
            <4>1. Word["none"] = "absent" /\ Word["PENDING"] = "pending"
                BY DEF Word
            <4> QED BY <3>1, <3>2, <4>1 DEF Decided!Ask
        <3> QED BY <3>3 DEF Decided!Next
    <2>2. ASSUME NEW p \in Handler, ApplyAdjustment(p) PROVE Decided!Next
        <3>1. PICK a \in Adj : a = call[p].adj
            BY DEF IInv, ConsoleTypeOK
        <3>2. Decided!Accept(a)
            BY <2>2, <3>1 DEF IInv, ConsoleTypeOK, ApplyAdjustment, Set, Decided!Accept, Word
        <3> QED BY <3>1, <3>2 DEF Decided!Next
    <2>3. ASSUME NEW p \in Handler, Undo(p) \/ ClaimReject(p) PROVE Decided!Next \/ (UNCHANGED <<status, moved>>)
        <3>1. PICK a \in Adj : a = call[p].adj
            BY DEF IInv, ConsoleTypeOK
        <3>2. CASE status[a] = "PENDING"
            <4>1. Decided!Refuse(a)
                BY <2>3, <3>1, <3>2 DEF IInv, ConsoleTypeOK, Undo, ClaimReject, Set, Decided!Refuse, Word
            <4> QED BY <3>1, <4>1 DEF Decided!Next
        <3>3. CASE status[a] # "PENDING"
            BY <2>3, <3>1, <3>3 DEF Undo, ClaimReject
        <3> QED BY <3>2, <3>3
    <2>4. ASSUME NEW p \in Handler, ReadPending(p) \/ CheckSecond(p) \/ Throw(p) \/ LeaveCall(p)
          PROVE  UNCHANGED <<status, moved>>
        BY <2>4 DEF ReadPending, CheckSecond, Throw, LeaveCall, moneyVars
    <2>5. ASSUME NEW p \in Handler, NEW u, NEW a, NEW op, Decide(p, op, u, a) PROVE UNCHANGED <<status, moved>>
        BY <2>5 DEF Decide, moneyVars
    <2>6. UNCHANGED adjVars => UNCHANGED <<status, moved>>
        BY DEF adjVars, moneyVars
    <2> QED BY <2>1, <2>2, <2>3, <2>4, <2>5, <2>6 DEF ConsoleNext, AdjNext, consoleVars
<1> QED BY <1>1, <1>2, Invariance, PTL DEF ConsoleSpec, AdjustmentsDecidedOnce, Decided!Spec

\* Whatever the staff does meanwhile, whoever moves money by approving the own request was, at some moment
\* of that approval, the only one who could have (hasSecondApprover, approveAdjustment).
THEOREM TwoPersonRuleHolds == ConsoleSpec => TwoPersonRule
<1>1. IInv /\ [ConsoleNext]_consoleVars =>
        [\A a \in Adj \ Small : moved'[a] # moved[a] /\ decider'[a] = asker[a]
                                 => \E p \in alone : call[p].by = asker[a] /\ call[p].adj = a]_moved
    <2> SUFFICES ASSUME IInv, [ConsoleNext]_consoleVars, moved' # moved,
                        NEW a \in Adj \ Small, moved'[a] # moved[a], decider'[a] = asker[a]
                 PROVE  \E p \in alone : call[p].by = asker[a] /\ call[p].adj = a
        OBVIOUS
    <2>1. PICK p \in Handler : ApplyAdjustment(p)
        BY DEF ConsoleNext, AdjNext, consoleVars, adjVars, moneyVars, ReadPending, CheckSecond, Throw, Undo, ClaimReject,
               LeaveCall, Request, Decide
    <2>2. call[p].adj = a /\ call[p].step = "apply" /\ call[p].by = asker[a]
        BY <2>1 DEF IInv, ConsoleTypeOK, ApplyAdjustment, Set
    <2>3. CallOK(p) /\ call[p].op \in {"request", "approve", "reject"}
        BY DEF IInv, ConsoleTypeOK, Calls
    <2>4. call[p].op = "approve"
        BY <2>2, <2>3 DEF CallOK
    <2> QED BY <2>2, <2>4 DEF IInv, Alone, AloneOK
<1> QED BY <1>1, Invariance, PTL DEF ConsoleSpec, TwoPersonRule

\* However many role changes run at once, and with the script beside them, one takes the last owner away
\* only if another came in front of it after it had looked at the staff (setStaffRole).
THEOREM LastOwnerKeptHolds == ConsoleSpec => LastOwnerKept
<1>1. IInv => [\A p \in Editor \ overtaken : WriteRole(p) /\ Owners # {} => Owners' # {}]_role
    <2> SUFFICES ASSUME IInv, NEW p \in Editor \ overtaken, WriteRole(p), Owners # {} PROVE Owners' # {}
        OBVIOUS
    <2>1. edit[p].on \in User /\ role \in [User -> Role]
        BY DEF IInv, Edits, EditOK, WriteRole, ConsoleTypeOK, StaffTypeOK
    <2>2. PICK u \in Owners : u # edit[p].on
        BY <2>1 DEF IInv, Edits, OwnerOK, WriteRole
    <2> QED BY <2>1, <2>2 DEF Owners, WriteRole
<1> QED BY <1>1, Invariance, PTL DEF ConsoleSpec, LastOwnerKept

-----------------------------------------------------------------------------
\* The tier upgrades
Status == {"none", "PENDING", "APPROVED", "REJECTED"}
ReviewSet == [verdict : {"none", "APPROVED", "REJECTED"}, by : Reviewer, of : Upgrade]

LEMMA KycTypeInit == KycInit => KycTypeOK
BY KycAssumption DEF KycInit, KycTypeOK, NoReview

LEMMA KycTypeNext == KycTypeOK /\ [KycNext]_kycVars => KycTypeOK'
<1> SUFFICES ASSUME KycTypeOK, [KycNext]_kycVars PROVE KycTypeOK'
    OBVIOUS
<1> USE DEF KycTypeOK, kycRows
<1>1. NoReview \in ReviewSet
    BY KycAssumption DEF NoReview, ReviewSet
<1>2. ASSUME NEW r \in Upgrade, ReadTier(r) \/ CountPending(r) \/ CreateUpgrade(r) \/ LeaveSubmit(r)
      PROVE  KycTypeOK'
    BY <1>2 DEF ReadTier, CountPending, CreateUpgrade, LeaveSubmit
<1>3. ASSUME NEW r \in Upgrade, Age30Days(r) \/ ListDue(r) PROVE KycTypeOK'
    BY <1>3 DEF Age30Days, ListDue
<1>4. ASSUME NEW p \in Review, ClaimUpgrade(p) PROVE KycTypeOK'
    <2> DEFINE r == review[p].of
    <2>1. r \in Upgrade /\ From[r] \in Applicant /\ review[p].verdict \in {"none", "APPROVED", "REJECTED"}
        BY KycAssumption
    <2>2. row' \in [Upgrade -> Status] /\ review' \in [Review -> ReviewSet]
        BY <1>1, <1>4, <2>1 DEF ClaimUpgrade, Status, ReviewSet
    <2>3. tier' \subseteq Applicant /\ raised' \in [Upgrade -> Nat]
        <3>1. CASE review[p].verdict = "APPROVED"
            BY <1>4, <2>1, <3>1 DEF ClaimUpgrade
        <3>2. CASE review[p].verdict # "APPROVED"
            BY <1>4, <3>2 DEF ClaimUpgrade
        <3> QED BY <3>1, <3>2
    <2> QED BY <1>4, <2>2, <2>3 DEF ClaimUpgrade, Status, ReviewSet
<1>5. ASSUME NEW p \in Review, LeaveReview(p) PROVE KycTypeOK'
    BY <1>1, <1>5 DEF LeaveReview, ReviewSet
<1>6. ASSUME NEW p \in Review, NEW v \in Reviewer, NEW r \in Upgrade, NEW d \in {"APPROVED", "REJECTED"},
             ReadUpgrade(p, v, r, d)
      PROVE  KycTypeOK'
    BY <1>6 DEF ReadUpgrade
<1>7. ASSUME NEW v \in Reviewer, NEW u \in Applicant, SetUserTier(v, u) PROVE KycTypeOK'
    BY <1>7 DEF SetUserTier
<1>8. CASE PurgeDue
    BY <1>8 DEF PurgeDue
<1>9. CASE UNCHANGED kycVars
    BY <1>9 DEF kycVars
<1> QED BY <1>2, <1>3, <1>4, <1>5, <1>6, <1>7, <1>8, <1>9 DEF KycNext

\* A submission has no row before it is through
Sending == \A r \in Upgrade : sending[r] # "idle" => row[r] = "none"

LEMMA SendingNext == KycTypeOK /\ Sending /\ [KycNext]_kycVars => Sending'
<1> SUFFICES ASSUME KycTypeOK, Sending, [KycNext]_kycVars PROVE Sending'
    OBVIOUS
<1> USE DEF KycTypeOK, Sending, kycRows
<1>1. ASSUME NEW r \in Upgrade, ReadTier(r) \/ CountPending(r) \/ CreateUpgrade(r) \/ LeaveSubmit(r)
      PROVE  Sending'
    BY <1>1 DEF ReadTier, CountPending, CreateUpgrade, LeaveSubmit
<1>2. ASSUME NEW p \in Review, ClaimUpgrade(p) PROVE Sending'
    BY <1>2 DEF ClaimUpgrade
<1>3. ASSUME UNCHANGED <<row, sending>> PROVE Sending'
    BY <1>3
<1> QED
    BY <1>1, <1>2, <1>3 DEF KycNext, kycVars, Age30Days, ListDue, LeaveReview, ReadUpgrade, SetUserTier, PurgeDue

KycInv == KycTypeOK /\ Sending

THEOREM KycInvariance == KycSpec => []KycInv
<1>1. KycInit => Sending
    BY DEF KycInit, Sending
<1> QED BY <1>1, KycTypeInit, KycTypeNext, SendingNext, PTL DEF KycSpec, KycInv

\* Every reachable state of the upgrades is well typed.
THEOREM KycTypeCorrect == KycSpec => []KycTypeOK
BY KycInvariance, PTL DEF KycInv

\* Upgrades implement Decision: whoever reviews, submits, sets tiers by hand or purges meanwhile, each
\* request is decided once and raises the tier exactly when it is approved (decide).
THEOREM UpgradesDecidedOnceHolds == KycSpec => UpgradesDecidedOnce
<1>1. KycInit => Reviewed!Init
    BY DEF KycInit, Reviewed!Init, Answer
<1>2. KycInv /\ [KycNext]_kycVars => [Reviewed!Next]_<<[r \in Upgrade |-> Answer[row[r]]], raised>>
    <2> SUFFICES ASSUME KycInv, [KycNext]_kycVars
                 PROVE  Reviewed!Next \/ (UNCHANGED <<row, raised>>)
        BY DEF Answer
    <2>0. row \in [Upgrade -> Status] /\ raised \in [Upgrade -> Nat]
        BY DEF KycInv, KycTypeOK, Status
    <2>w. Answer["none"] = "absent" /\ Answer["PENDING"] = "pending" /\ Answer["APPROVED"] = "accepted"
          /\ Answer["REJECTED"] = "refused"
        BY DEF Answer
    <2>1. ASSUME NEW r \in Upgrade, CreateUpgrade(r) PROVE Reviewed!Next
        <3>1. Reviewed!Ask(r)
            BY <2>0, <2>w, <2>1 DEF KycInv, Sending, CreateUpgrade, Reviewed!Ask
        <3> QED BY <3>1 DEF Reviewed!Next
    <2>2. ASSUME NEW p \in Review, ClaimUpgrade(p) PROVE Reviewed!Next
        <3>1. PICK r \in Upgrade : r = review[p].of
            BY DEF KycInv, KycTypeOK
        <3>2. review[p].verdict \in {"APPROVED", "REJECTED"}
            BY <2>2 DEF ClaimUpgrade, KycInv, KycTypeOK
        <3>3. CASE review[p].verdict = "APPROVED"
            <4>1. Reviewed!Accept(r)
                BY <2>0, <2>w, <2>2, <3>1, <3>3 DEF ClaimUpgrade, Reviewed!Accept
            <4> QED BY <4>1 DEF Reviewed!Next
        <3>4. CASE review[p].verdict = "REJECTED"
            <4>1. Reviewed!Refuse(r)
                BY <2>0, <2>w, <2>2, <3>1, <3>4 DEF ClaimUpgrade, Reviewed!Refuse
            <4> QED BY <4>1 DEF Reviewed!Next
        <3> QED BY <3>2, <3>3, <3>4
    <2>3. UNCHANGED <<row, raised>> \/ (\E r \in Upgrade : CreateUpgrade(r)) \/ (\E p \in Review : ClaimUpgrade(p))
        BY DEF KycNext, kycVars, kycRows, ReadTier, CountPending, LeaveSubmit, Age30Days, ListDue, LeaveReview,
               ReadUpgrade, SetUserTier, PurgeDue
    <2> QED BY <2>1, <2>2, <2>3
<1> QED BY <1>1, <1>2, KycInvariance, PTL DEF KycSpec, UpgradesDecidedOnce, Reviewed!Spec

-----------------------------------------------------------------------------
\* The lists, page after page
PagingSpec == PagingInit /\ [][PagingNext]_pagingVars

\* The rows that the next page is taken from
RowsAhead == {r \in matching : cursor = 0 \/ Precedes(cursor, r)}

Items == FirstOf(PageSize, Taken)

\* Every row up to the cursor that has matched all the while has been shown, and none after it.
PagingInv ==
    /\ PagingTypeOK
    /\ NothingMissed
    /\ cursor = 0 => \A r \in 1..Rows : shown[r] = 0
    /\ cursor > 0 => /\ cursor \in matching
                     /\ \A r \in awaited : ~Precedes(cursor, r) => shown[r] = 1
                     /\ \A r \in 1..Rows : Precedes(cursor, r) => shown[r] = 0

\* A finite set of integers has a least and a greatest element.
LEMMA EndsOfSet ==
    ASSUME NEW S \in SUBSET Int, IsFiniteSet(S), S # {}
    PROVE  (\E m \in S : \A x \in S : m <= x) /\ (\E m \in S : \A x \in S : m >= x)
<1> DEFINE Good == {T \in SUBSET S : T # {} => /\ \E m \in T : \A x \in T : m <= x
                                              /\ \E m \in T : \A x \in T : m >= x}
<1>1. ASSUME NEW T \in SUBSET S, \A U \in SUBSET T : U # T => U \in Good PROVE T \in Good
    <2> SUFFICES ASSUME T # {}
                 PROVE  (\E m \in T : \A x \in T : m <= x) /\ (\E m \in T : \A x \in T : m >= x)
        OBVIOUS
    <2>1. PICK e \in T : TRUE
        OBVIOUS
    <2>2. CASE T \ {e} = {}
        <3>1. \A x \in T : x = e /\ x \in Int
            BY <2>2
        <3> QED BY <2>1, <3>1
    <2>3. CASE T \ {e} # {}
        <3>1. T \ {e} \in Good
            BY <1>1, <2>1, ZenonT(30)
        <3>2. PICK a \in T \ {e} : \A x \in T \ {e} : a <= x
            BY <2>3, <3>1
        <3>3. PICK b \in T \ {e} : \A x \in T \ {e} : b >= x
            BY <2>3, <3>1
        <3>4. \A x \in T : (IF e <= a THEN e ELSE a) <= x
            BY <2>1, <3>2
        <3>5. \A x \in T : (IF e >= b THEN e ELSE b) >= x
            BY <2>1, <3>3
        <3> QED BY <2>1, <3>2, <3>3, <3>4, <3>5
    <2> QED BY <2>2, <2>3
<1> HIDE DEF Good
<1>2. S \in Good
    BY <1>1, SubsetInduction
<1> QED BY <1>2 DEF Good

\* Precedes is a strict total order on the rows.
LEMMA ListOrder ==
    ASSUME NEW q \in Int, NEW r \in Int
    PROVE  /\ ~(Precedes(q, r) /\ Precedes(r, q))
           /\ q # r => Precedes(q, r) \/ Precedes(r, q)
           /\ \A x \in Int : Precedes(q, r) /\ Precedes(r, x) => Precedes(q, x)
BY DEF Precedes

LEMMA ListFinite ==
    ASSUME NEW S \in SUBSET (1..Rows)
    PROVE  IsFiniteSet(S) /\ S \subseteq Int /\ Cardinality(S) \in Nat
<1>1. IsFiniteSet(1..Rows)
    BY PagingAssumption, FS_Interval
<1>2. S \subseteq 1..Rows
    OBVIOUS
<1>3. IsFiniteSet(S)
    BY <1>1, <1>2, FS_Subset
<1>4. Cardinality(S) \in Nat
    BY <1>3, FS_CardinalityType
<1>5. S \subseteq Int
    BY <1>2
<1> QED BY <1>3, <1>4, <1>5

LEMMA EndsOfList ==
    ASSUME NEW S \in SUBSET (1..Rows), S # {}
    PROVE  (\E m \in S : \A x \in S : ~Precedes(x, m)) /\ (\E m \in S : \A x \in S : ~Precedes(m, x))
<1>1. S \subseteq Int /\ \A x \in S : x \in Int
    BY ListFinite
<1>2. PICK m \in S : \A x \in S : m <= x
    BY <1>1, ListFinite, EndsOfSet
<1>3. PICK n \in S : \A x \in S : n >= x
    BY <1>1, ListFinite, EndsOfSet
<1>4. \A x \in S : ~(x < m) /\ ~(x > n)
    BY <1>1, <1>2, <1>3
<1>5. CASE oldest
    <2>1. \A x \in S : ~Precedes(x, m) /\ ~Precedes(n, x)
        BY <1>1, <1>4, <1>5 DEF Precedes
    <2> QED BY <2>1, <1>2, <1>3
<1>6. CASE ~oldest
    <2>1. \A x \in S : ~Precedes(x, n) /\ ~Precedes(m, x)
        BY <1>1, <1>4, <1>6 DEF Precedes
    <2> QED BY <2>1, <1>2, <1>3
<1> QED BY <1>5, <1>6

\* What the database returns first is the beginning of the list.
LEMMA FirstOfIsPrefix ==
    ASSUME NEW S \in SUBSET (1..Rows), NEW n \in Nat, NEW r \in FirstOf(n, S), NEW q \in S, Precedes(q, r)
    PROVE  q \in FirstOf(n, S)
<1> DEFINE Earlier(x) == {y \in S : Precedes(y, x)}
<1>1. Earlier(q) \subseteq Earlier(r)
    <2>1. r \in S /\ q \in Int /\ r \in Int /\ \A y \in S : y \in Int
        BY ListFinite DEF FirstOf
    <2> QED BY <2>1, ListOrder
<1>2. Earlier(r) \subseteq 1..Rows
    OBVIOUS
<1>3. IsFiniteSet(Earlier(r)) /\ Cardinality(Earlier(r)) \in Nat /\ Cardinality(Earlier(q)) \in Nat
    BY <1>1, <1>2, ListFinite
<1>4. Cardinality(Earlier(q)) <= Cardinality(Earlier(r))
    BY <1>1, <1>3, FS_Subset
<1>5. Cardinality(Earlier(r)) < n
    BY DEF FirstOf
<1>6. Cardinality(Earlier(q)) < n
    BY <1>3, <1>4, <1>5
<1> QED BY <1>6 DEF FirstOf

\* It is empty only if there is nothing, and it is everything if there is less than asked for.
LEMMA FirstOfSome ==
    ASSUME NEW S \in SUBSET (1..Rows), S # {}, NEW n \in Nat \ {0}
    PROVE  FirstOf(n, S) # {}
<1>1. PICK m \in S : \A x \in S : ~Precedes(x, m)
    BY EndsOfList
<1>2. {x \in S : Precedes(x, m)} = {}
    BY <1>1
<1>3. Cardinality({x \in S : Precedes(x, m)}) = 0
    BY <1>2, FS_EmptySet
<1> QED BY <1>3 DEF FirstOf

LEMMA FirstOfAll ==
    ASSUME NEW S \in SUBSET (1..Rows), NEW n \in Nat, Cardinality(FirstOf(n, S)) < n
    PROVE  FirstOf(n, S) = S
<1> DEFINE F == FirstOf(n, S)
           Rest == S \ F
<1>0. F \subseteq S /\ F \subseteq 1..Rows /\ Rest \in SUBSET (1..Rows)
    BY DEF FirstOf
<1> SUFFICES ASSUME Rest # {} PROVE FALSE
    BY <1>0
<1>1. PICK m \in Rest : \A x \in Rest : ~Precedes(x, m)
    <2> HIDE DEF Rest
    <2> QED BY <1>0, EndsOfList
<1> DEFINE Earlier == {y \in S : Precedes(y, m)}
<1>2. Earlier \subseteq F
    BY <1>1
<1>3. IsFiniteSet(F) /\ Cardinality(F) \in Nat
    BY <1>0, ListFinite
<1>4. Cardinality(Earlier) <= Cardinality(F) /\ Cardinality(Earlier) \in Nat
    BY <1>2, <1>3, FS_Subset, FS_CardinalityType
<1>5. ~(Cardinality(Earlier) < n)
    BY <1>1 DEF FirstOf
<1> QED BY <1>3, <1>4, <1>5

LEMMA FirstOfFew ==
    ASSUME NEW S \in SUBSET (1..Rows), NEW n \in Nat, Cardinality(S) <= n
    PROVE  FirstOf(n, S) = S
<1> SUFFICES ASSUME NEW r \in S PROVE r \in FirstOf(n, S)
    BY DEF FirstOf
<1> DEFINE Earlier == {y \in S : Precedes(y, r)}
<1>1. Earlier \subseteq S \ {r}
    BY ListOrder
<1>2. IsFiniteSet(S) /\ Cardinality(S) \in Nat
    BY ListFinite
<1>3. Cardinality(S \ {r}) = Cardinality(S) - 1 /\ IsFiniteSet(S \ {r})
    BY <1>2, FS_RemoveElement
<1>4. Cardinality(Earlier) <= Cardinality(S \ {r}) /\ Cardinality(Earlier) \in Nat
    BY <1>1, <1>3, FS_Subset, FS_CardinalityType
<1>5. Cardinality(Earlier) < n
    BY <1>2, <1>3, <1>4
<1> QED BY <1>5 DEF FirstOf

\* skip 1 skips the cursor's own row, which is still there.
LEMMA TakenAhead ==
    ASSUME PagingInv, cursor # -1
    PROVE  Taken = FirstOf(PageSize + 1, RowsAhead) /\ RowsAhead \subseteq 1..Rows
<1>0. matching \subseteq 1..Rows /\ cursor \in 0..Rows
    BY PagingAssumption DEF PagingInv, PagingTypeOK
<1>1. CASE cursor = 0
    <2>1. FromCursor = matching /\ RowsAhead = matching
        BY <1>1 DEF FromCursor, RowsAhead
    <2>2. Taken = FirstOf(PageSize + 1, FromCursor \ {})
        BY <1>1 DEF Taken
    <2>3. FromCursor \ {} = RowsAhead
        BY <2>1
    <2> QED BY <1>0, <2>1, <2>2, <2>3
<1>2. CASE cursor > 0
    <2>0. cursor \in Int /\ \A r \in matching : r \in Int
        BY <1>0
    <2>1. cursor \in FromCursor
        BY <1>2, <2>0, ListOrder DEF FromCursor, PagingInv
    <2>2. ASSUME NEW r \in FromCursor
          PROVE  r \in FirstOf(1, FromCursor) <=> r = cursor
        <3> DEFINE Earlier == {q \in FromCursor : Precedes(q, r)}
        <3>1. Earlier \subseteq 1..Rows
            BY <1>0 DEF FromCursor
        <3>2. IsFiniteSet(Earlier) /\ Cardinality(Earlier) \in Nat
            BY <3>1, ListFinite
        <3>3. Cardinality(Earlier) < 1 <=> Earlier = {}
            BY <3>2, FS_EmptySet
        <3>4. Earlier = {} <=> r = cursor
            <4>1. r \in Int /\ ~Precedes(r, cursor)
                BY <1>2, <2>0 DEF FromCursor
            <4>2. r = cursor => Earlier = {}
                BY <1>2 DEF FromCursor
            <4>3. r # cursor => cursor \in Earlier
                BY <2>0, <2>1, <4>1, ListOrder
            <4> QED BY <4>2, <4>3
        <3> QED BY <3>3, <3>4 DEF FirstOf
    <2>3. FromCursor \ FirstOf(1, FromCursor) = RowsAhead
        <3>1. \A r \in matching : (r \in FromCursor /\ r # cursor) <=> Precedes(cursor, r)
            BY <1>2, <2>0, ListOrder DEF FromCursor
        <3>2. FromCursor \subseteq matching /\ FirstOf(1, FromCursor) \subseteq FromCursor
            BY DEF FromCursor, FirstOf
        <3> QED BY <1>2, <2>2, <3>1, <3>2 DEF RowsAhead
    <2>4. Taken = FirstOf(PageSize + 1, FromCursor \ FirstOf(1, FromCursor))
        BY <1>2 DEF Taken
    <2> QED BY <1>0, <2>3, <2>4 DEF RowsAhead
<1> QED BY <1>0, <1>1, <1>2

\* A page is a beginning of what lies ahead, and all of it when no row was left over.
LEMMA ItemsFacts ==
    ASSUME PagingInv, cursor # -1
    PROVE  /\ Items \subseteq RowsAhead
           /\ \A r \in Items, q \in RowsAhead : Precedes(q, r) => q \in Items
           /\ Cardinality(Taken) <= PageSize => Items = RowsAhead
           /\ Cardinality(Taken) > PageSize => Items # {}
<1>0. /\ PageSize \in Nat \ {0} /\ PageSize + 1 \in Nat
      /\ Taken = FirstOf(PageSize + 1, RowsAhead) /\ RowsAhead \subseteq 1..Rows
    BY PagingAssumption, TakenAhead
<1>1. Taken \subseteq RowsAhead /\ Items \subseteq Taken /\ Taken \subseteq 1..Rows
    BY <1>0 DEF FirstOf, Items
<1>2. \A r \in Items, q \in RowsAhead : Precedes(q, r) => q \in Items
    <2> SUFFICES ASSUME NEW r \in Items, NEW q \in RowsAhead, Precedes(q, r) PROVE q \in Items
        OBVIOUS
    <2>1. q \in Taken
        BY <1>0, <1>1, FirstOfIsPrefix
    <2> QED BY <2>1, <1>0, <1>1, FirstOfIsPrefix DEF Items
<1>3. ASSUME Cardinality(Taken) <= PageSize PROVE Items = RowsAhead
    <2>1. Cardinality(Taken) \in Nat
        BY <1>1, ListFinite
    <2>2. Cardinality(FirstOf(PageSize + 1, RowsAhead)) < PageSize + 1
        BY <1>0, <1>3, <2>1
    <2>3. Taken = RowsAhead
        BY <1>0, <2>2, FirstOfAll
    <2>4. Items = Taken
        BY <1>0, <1>1, <1>3, FirstOfFew DEF Items
    <2> QED BY <2>3, <2>4
<1>4. ASSUME Cardinality(Taken) > PageSize PROVE Items # {}
    <2>1. Taken # {}
        BY <1>0, <1>4, FS_EmptySet
    <2> QED BY <1>0, <1>1, <2>1, FirstOfSome DEF Items
<1> QED BY <1>1, <1>2, <1>3, <1>4

\* The cursor of a page is its last row.
LEMMA CursorIsLast ==
    ASSUME NEW S \in SUBSET (1..Rows), S # {}, oldest \in BOOLEAN
    PROVE  LET last == IF oldest THEN Max(S) ELSE Min(S)
           IN  last \in S /\ \A x \in S : x # last => Precedes(x, last)
<1>1. (\E m \in S : \A x \in S : m <= x) /\ (\E m \in S : \A x \in S : m >= x)
    BY ListFinite, EndsOfSet
<1>2. Max(S) \in S /\ \A x \in S : Max(S) >= x
    BY <1>1 DEF Max
<1>3. Min(S) \in S /\ \A x \in S : Min(S) <= x
    BY <1>1 DEF Min
<1>4. \A x \in S : x \in Int
    OBVIOUS
<1>5. ASSUME oldest, NEW x \in S, x # Max(S) PROVE Precedes(x, Max(S))
    <2>1. PICK m \in S : m = Max(S) /\ m >= x
        BY <1>2, <1>5
    <2>2. m \in Int /\ x \in Int /\ m # x
        BY <1>4, <1>5, <2>1
    <2>3. Precedes(x, m)
        BY <1>5, <2>1, <2>2 DEF Precedes
    <2> QED BY <2>1, <2>3
<1>6. ASSUME ~oldest, NEW x \in S, x # Min(S) PROVE Precedes(x, Min(S))
    <2>1. PICK m \in S : m = Min(S) /\ m <= x
        BY <1>3, <1>6
    <2>2. m \in Int /\ x \in Int /\ m # x
        BY <1>4, <1>6, <2>1
    <2>3. Precedes(x, m)
        BY <1>6, <2>1, <2>2 DEF Precedes
    <2> QED BY <2>1, <2>3
<1> QED BY <1>2, <1>3, <1>5, <1>6

LEMMA NextPageOK == ASSUME PagingInv, NextPage PROVE PagingInv'
<1>0. /\ made \in 0..Rows /\ matching \subseteq 1..Rows /\ awaited \subseteq matching /\ oldest \in BOOLEAN
      /\ cursor \in 0..Rows /\ shown \in [1..Rows -> Nat] /\ cursor # -1
      /\ \A r \in 1..Rows : shown[r] <= 1
      /\ UNCHANGED <<made, matching, oldest, awaited>>
    BY PagingAssumption DEF NextPage, PagingInv, PagingTypeOK, NothingMissed
<1>1. /\ Items \subseteq RowsAhead /\ Items \subseteq 1..Rows
      /\ \A r \in Items, q \in RowsAhead : Precedes(q, r) => q \in Items
      /\ Cardinality(Taken) <= PageSize => Items = RowsAhead
      /\ Cardinality(Taken) > PageSize => Items # {}
    BY <1>0, ItemsFacts, TakenAhead
<1>2. /\ shown' = [r \in 1..Rows |-> IF r \in Items THEN shown[r] + 1 ELSE shown[r]]
      /\ cursor' = IF Cardinality(Taken) > PageSize THEN (IF oldest THEN Max(Items) ELSE Min(Items)) ELSE -1
    BY DEF NextPage, Items
<1>3. \A r \in RowsAhead : shown[r] = 0
    BY <1>0 DEF RowsAhead, PagingInv
<1>4. /\ shown' \in [1..Rows -> Nat]
      /\ \A r \in 1..Rows : shown'[r] = IF r \in Items THEN 1 ELSE shown[r]
      /\ \A r \in 1..Rows : shown'[r] <= 1
    BY <1>0, <1>1, <1>2, <1>3
<1>5. \A r \in awaited : r \notin RowsAhead => shown[r] = 1
    <2> SUFFICES ASSUME NEW r \in awaited, r \notin RowsAhead PROVE shown[r] = 1
        OBVIOUS
    <2>1. cursor > 0 /\ ~Precedes(cursor, r)
        BY <1>0 DEF RowsAhead
    <2> QED BY <2>1 DEF PagingInv
<1>6. CASE Cardinality(Taken) > PageSize
    <2> DEFINE c == IF oldest THEN Max(Items) ELSE Min(Items)
    <2>1. cursor' = c
        BY <1>2, <1>6
    <2>2. c \in Items /\ \A x \in Items : x # c => Precedes(x, c)
        BY <1>0, <1>1, <1>6, CursorIsLast
    <2> HIDE DEF c
    <2>3. c \in matching /\ c \in 1..Rows /\ (cursor > 0 => Precedes(cursor, c))
        BY <1>0, <1>1, <2>2 DEF RowsAhead
    <2>4. ASSUME NEW r \in awaited, ~Precedes(c, r) PROVE shown'[r] = 1
        <3>1. CASE r \in RowsAhead
            <4>1. r \in Items
                BY <1>0, <1>1, <2>2, <2>3, <2>4, <3>1, ListOrder
            <4> QED BY <4>1, <1>0, <1>4
        <3>2. CASE r \notin RowsAhead
            BY <1>0, <1>1, <1>4, <1>5, <3>2
        <3> QED BY <3>1, <3>2
    <2>5. ASSUME NEW r \in 1..Rows, Precedes(c, r) PROVE shown'[r] = 0
        <3>1. r \notin Items
            BY <1>0, <2>2, <2>3, <2>5, ListOrder
        <3>2. cursor = 0 \/ Precedes(cursor, r)
            BY <1>0, <2>3, <2>5, ListOrder
        <3>3. shown[r] = 0
            BY <1>0, <3>2 DEF PagingInv
        <3> QED BY <1>4, <3>1, <3>3
    <2>6. \A r \in 1..Rows : Precedes(cursor, r)' <=> Precedes(c, r)
        BY <1>0, <2>1 DEF Precedes
    <2>7. PagingTypeOK' /\ cursor' > 0
        BY <1>0, <1>4, <2>1, <2>3 DEF PagingInv, PagingTypeOK
    <2> QED BY <1>0, <1>4, <2>1, <2>3, <2>4, <2>5, <2>6, <2>7 DEF PagingInv, NothingMissed
<1>7. CASE ~(Cardinality(Taken) > PageSize)
    <2>1. cursor' = -1
        BY <1>2, <1>7
    <2>2. Items = RowsAhead
        <3>1. Taken \subseteq 1..Rows
            BY <1>0, TakenAhead DEF FirstOf
        <3>2. Cardinality(Taken) \in Nat /\ PageSize \in Nat
            BY <3>1, ListFinite, PagingAssumption
        <3> QED BY <1>1, <1>7, <3>2
    <2>3. \A r \in awaited : shown'[r] = 1
        BY <1>0, <1>4, <1>5, <2>2
    <2>4. PagingTypeOK'
        BY <1>0, <1>4, <2>1, PagingAssumption DEF PagingInv, PagingTypeOK
    <2> QED BY <1>0, <1>4, <2>1, <2>3, <2>4 DEF PagingInv, NothingMissed
<1> QED BY <1>6, <1>7

\* Whoever reads a list to its last page has seen every row that matched all the while, and none
\* twice, however rows come and go between the pages, as long as the row a page ended with stays.
THEOREM NothingMissedHolds ==
    ASSUME ~CursorLeaves
    PROVE  PagingSpec => [](PagingTypeOK /\ NothingMissed)
<1>1. PagingInit => PagingInv
    BY PagingAssumption DEF PagingInit, PagingInv, PagingTypeOK, NothingMissed
<1>2. PagingInv /\ [PagingNext]_pagingVars => PagingInv'
    <2> SUFFICES ASSUME PagingInv, [PagingNext]_pagingVars PROVE PagingInv'
        OBVIOUS
    <2>1. CASE NewRow
        <3>1. PagingTypeOK'
            BY <2>1, PagingAssumption DEF NewRow, PagingInv, PagingTypeOK
        <3> QED BY <2>1, <3>1 DEF NewRow, PagingInv, NothingMissed, Precedes
    <2>2. ASSUME NEW r \in 1..Rows, LeaveList(r) PROVE PagingInv'
        <3>1. PagingTypeOK' /\ r # cursor
            BY <2>2, PagingAssumption DEF LeaveList, PagingInv, PagingTypeOK
        <3> QED BY <2>2, <3>1 DEF LeaveList, PagingInv, NothingMissed, Precedes
    <2>3. CASE UNCHANGED pagingVars
        BY <2>3 DEF pagingVars, PagingInv, PagingTypeOK, NothingMissed, Precedes
    <2> QED BY <2>1, <2>2, <2>3, NextPageOK DEF PagingNext
<1>3. PagingInv => PagingTypeOK /\ NothingMissed
    BY DEF PagingInv
<1> QED BY <1>1, <1>2, <1>3, PTL DEF PagingSpec
=============================================================================
