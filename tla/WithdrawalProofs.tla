-------------------------- MODULE WithdrawalProofs --------------------------
(***************************************************************************)
(* What holds of Withdrawal for every number of withdrawals and of         *)
(* concurrent callers.  Type correctness, the single refund and the order  *)
(* of the statuses ask nothing of the environment; agreement with Paystack *)
(* holds without Stalls, agreement of the ledger without SuddenReversals.  *)
(***************************************************************************)
EXTENDS Withdrawal, TLAPS

\* What each process may be doing: requests work on their own withdrawal, which exists from Debit
\* on; nobody refunds without an outcome.
CallerOK(p) ==
    /\ p \in Request => /\ on[p] = p
                        /\ pc[p] \notin {"idle", "verify"}
                        /\ pc[p] = "start" => status[p] = "NONE"
    /\ p \in Checker => pc[p] \notin {"start", "send", "wait", "done"}
    /\ pc[p] \in {"send", "wait", "verify", "mark", "refund", "claim"} => status[on[p]] # "NONE"
    /\ pc[p] \in {"refund", "claim"} => outcome[p] \in {"FAILED", "REVERSED"}

Callers == \A p \in Proc : CallerOK(p)

Base == TypeOK /\ Callers

LEMMA BaseInit == Init => Base
<1> SUFFICES ASSUME Init PROVE Base
    OBVIOUS
<1>1. TypeOK
    BY DEF Init, TypeOK, Proc, Statuses, Outcomes
<1>2. Callers
    BY WithdrawalAssumption DEF Init, Callers, CallerOK, Proc
<1> QED
    BY <1>1, <1>2 DEF Base

LEMMA PostType ==
    ASSUME ledger \in [Request -> [Account -> Int]], NEW w \in Request,
           NEW d \in Account, NEW c \in Account, d # c, Post(w, d, c)
    PROVE  /\ ledger' \in [Request -> [Account -> Int]]
           /\ \A v \in Request \ {w} : ledger'[v] = ledger[v]
           /\ \A a \in Account : ledger'[w][a] = CASE a = d -> ledger[w][a] - 1
                                                   [] a = c -> ledger[w][a] + 1
                                                   [] OTHER -> ledger[w][a]
BY DEF Post

LocalOK ==
    /\ pc \in [Proc -> {"start", "send", "wait", "mark", "refund", "claim", "done", "idle", "verify"}]
    /\ on \in [Proc -> Request]
    /\ seen \in [Proc -> Statuses]
    /\ outcome \in [Proc -> Outcomes]

LEMMA LocalType ==
    ASSUME LocalOK, NEW p \in Proc, NEW s,
           \/ End(p)
           \/ ToRefund(p, "FAILED")
           \/ Apply(p, s)
    PROVE  LocalOK'
<1> USE DEF LocalOK, Goto, local, Outcomes, Statuses
<1>1. CASE End(p)
    BY <1>1 DEF End
<1>2. CASE ToRefund(p, "FAILED") \/ ToRefund(p, "REVERSED")
    BY <1>2 DEF ToRefund
<1>3. CASE Goto(p, "mark") /\ UNCHANGED local
    BY <1>3
<1> QED
    BY <1>1, <1>2, <1>3 DEF Apply

LEMMA TypeStep == Base /\ [Next]_vars => TypeOK'
<1> SUFFICES ASSUME Base, [Next]_vars PROVE TypeOK'
    OBVIOUS
<1> USE DEF Base
<1>0. /\ TypeOK /\ LocalOK /\ Callers
      /\ Request \subseteq Proc /\ Checker \subseteq Proc
    BY DEF Proc, TypeOK, LocalOK
<1>1. ASSUME NEW r \in Request, Debit(r) PROVE TypeOK'
    <2>1. ledger' \in [Request -> [Account -> Int]]
        BY <1>0, <1>1, PostType DEF Debit, TypeOK, Account
    <2>2. wallet' \in [Request -> Int]
        BY <1>0, <1>1 DEF Debit, TypeOK
    <2> QED
        BY <1>0, <1>1, <2>1, <2>2 DEF Debit, TypeOK, Statuses, Goto, paystack, local
<1>2. ASSUME NEW r \in Request, Send(r) PROVE TypeOK'
    BY <1>0, <1>2 DEF Send, TypeOK, Goto, money, local
<1>3. ASSUME NEW p \in Proc, Refuse(p) \/ Answered(p) \/ Verify(p) \/ Fail(p) PROVE TypeOK'
    <2>1. LocalOK' /\ UNCHANGED <<money, aged, paystack>>
        BY <1>0, <1>3, LocalType DEF Refuse, Answered, Verify, Fail
    <2> QED
        BY <1>0, <2>1 DEF TypeOK, LocalOK, money, paystack
<1>4. ASSUME NEW w \in Request, PaystackStep(w) \/ Reverse(w) \/ GiveUp(w) PROVE TypeOK'
    <2>1. CASE Receive(w)
        <3>1. /\ sent' \in [Request -> {"no", "inflight", "arrived", "lost"}]
              /\ UNCHANGED <<money, aged, notice, pc, local>>
            BY <1>0, <2>1 DEF Receive, TypeOK
        <3>2. answer' \in [Request -> {"NONE", "PENDING", "SUCCESS", "FAILED", "REJECTED"}]
            BY <1>0, <2>1 DEF Receive, TypeOK
        <3>3. transfer' \in [Request -> {"NONE", "PENDING", "SUCCESS", "FAILED", "REVERSED"}]
            BY <1>0, <2>1 DEF Receive, TypeOK
        <3> QED
            BY <1>0, <3>1, <3>2, <3>3 DEF TypeOK, local, money
    <2>2. CASE Lose(w)
        BY <1>0, <2>2 DEF Lose, TypeOK, local, money
    <2>3. ASSUME NEW s \in {"SUCCESS", "FAILED", "REVERSED"}, Settle(w, s) PROVE TypeOK'
        <3>1. /\ transfer' = [transfer EXCEPT ![w] = s]
              /\ UNCHANGED <<money, aged, sent, answer, pc, local>>
            BY <2>3 DEF Settle
        <3>2. notice' \in [Request -> {"none", "due", "over"}]
            BY <1>0, <2>3 DEF Settle, Announced, TypeOK
        <3> QED
            BY <1>0, <3>1, <3>2 DEF TypeOK, local, money
    <2>4. CASE Reverse(w)
        <3>1. /\ transfer' = [transfer EXCEPT ![w] = "REVERSED"]
              /\ UNCHANGED <<money, aged, sent, answer, pc, local>>
            BY <2>4 DEF Reverse
        <3>2. notice' \in [Request -> {"none", "due", "over"}]
            BY <1>0, <2>4 DEF Reverse, Announced, TypeOK
        <3> QED
            BY <1>0, <3>1, <3>2 DEF TypeOK, local, money
    <2>5. CASE GiveUp(w)
        BY <1>0, <2>5 DEF GiveUp, TypeOK, local, money
    <2> QED
        BY <1>4, <2>1, <2>2, <2>3, <2>4, <2>5 DEF PaystackStep
<1>5. ASSUME NEW w \in Request, Age(w) PROVE TypeOK'
    <2>1. aged' \subseteq Request
        BY <1>0, <1>5 DEF Age, TypeOK
    <2> QED
        BY <1>0, <1>5, <2>1 DEF Age, TypeOK, paystack, local, money
<1>6. ASSUME NEW c \in Checker, NEW w \in Request, ReadRow(c, w) PROVE TypeOK'
    BY <1>0, <1>6 DEF ReadRow, TypeOK, Goto, paystack, money
<1>7. ASSUME NEW p \in Proc, Mark(p) PROVE TypeOK'
    <2>1. ledger' \in [Request -> [Account -> Int]]
        BY <1>0, <1>7, PostType DEF Mark, TypeOK, Account
    <2>2. LocalOK'
        BY <1>0, <1>7, LocalType DEF Mark
    <2>3. UNCHANGED status \/ status' = [status EXCEPT ![on[p]] = "SUCCESSFUL"]
        BY <1>7 DEF Mark
    <2>4. status' \in [Request -> Statuses]
        <3>1. status \in [Request -> Statuses] /\ "SUCCESSFUL" \in Statuses
            BY <1>0 DEF TypeOK, Statuses
        <3> QED
            BY <2>3, <3>1
    <2>5. UNCHANGED <<debitRow, wallet, aged, paystack>>
        BY <1>7 DEF Mark
    <2> QED
        BY <1>0, <2>1, <2>2, <2>4, <2>5 DEF TypeOK, LocalOK, paystack
<1>8. ASSUME NEW p \in Proc, ReadBefore(p) PROVE TypeOK'
    BY <1>0, <1>8 DEF ReadBefore, TypeOK, Goto, paystack, money
<1>9. ASSUME NEW p \in Proc, Claim(p) PROVE TypeOK'
    <2>1. ledger' \in [Request -> [Account -> Int]]
        BY <1>0, <1>9, PostType DEF Claim, TypeOK, Account, money
    <2>2. wallet' \in [Request -> Int]
        BY <1>0, <1>9 DEF Claim, TypeOK, money
    <2>3. outcome[p] \in {"FAILED", "REVERSED"}
        BY <1>0, <1>9 DEF Claim, Callers, CallerOK
    <2>4. status' \in [Request -> Statuses]
        BY <1>0, <1>9, <2>3, ZenonT(30) DEF Claim, TypeOK, Statuses, money
    <2>5. debitRow' \in [Request -> {"NONE", "SUCCESSFUL", "REVERSED"}]
        BY <1>0, <1>9 DEF Claim, TypeOK, money
    <2>6. LocalOK' /\ UNCHANGED <<aged, paystack>>
        BY <1>0, <1>9, LocalType DEF Claim
    <2> QED
        BY <1>0, <2>1, <2>2, <2>4, <2>5, <2>6 DEF TypeOK, LocalOK, paystack
<1>10. CASE UNCHANGED vars
    BY <1>0, <1>10 DEF vars, TypeOK
<1> QED
    BY <1>0, <1>1, <1>2, <1>3, <1>4, <1>5, <1>6, <1>7, <1>8, <1>9, <1>10 DEF Next, RequestStep, CallStep

\* A request debits once, before its withdrawal exists.
LEMMA DebitFirst ==
    ASSUME Base, NEW r \in Request, Debit(r)
    PROVE  status[r] = "NONE" /\ status' = [status EXCEPT ![r] = "PROCESSING"]
<1>1. CallerOK(r)
    BY DEF Base, Callers, Proc
<1>2. pc[r] = "start" /\ status' = [status EXCEPT ![r] = "PROCESSING"]
    BY DEF Debit
<1> QED
    BY <1>1, <1>2 DEF CallerOK

\* A withdrawal that exists never ceases to.
LEMMA StatusKept ==
    ASSUME Base, [Next]_vars, NEW w \in Request, status[w] # "NONE"
    PROVE  status'[w] # "NONE"
<1>1. CASE UNCHANGED status
    BY <1>1
<1>2. ASSUME NEW p \in Proc, Debit(p) \/ Mark(p) \/ Claim(p) PROVE status'[w] # "NONE"
    BY <1>2 DEF Debit, Mark, Claim, Base, TypeOK, Callers, CallerOK, money
<1> QED
    BY <1>1, <1>2
    DEF Next, RequestStep, CallStep, PaystackStep, Refuse, Send, Answered, Receive, Lose, Settle, Reverse,
        GiveUp, Age, Verify, ReadRow, ReadBefore, Fail, vars, money, Proc

LEMMA CallersStep == Base /\ [Next]_vars => Callers'
<1> SUFFICES ASSUME Base, [Next]_vars, NEW q \in Proc PROVE CallerOK(q)'
    BY DEF Callers
<1> USE DEF Base
<1>0. /\ TypeOK /\ CallerOK(q)
      /\ \A r \in Request : r \in Proc /\ r \notin Checker
      /\ \A c \in Checker : c \in Proc /\ c \notin Request
    BY WithdrawalAssumption DEF Proc, Callers
<1>1. on[q] \in Request /\ \A w \in Request : status[w] # "NONE" => status'[w] # "NONE"
    BY <1>0, StatusKept DEF TypeOK
<1>2. ASSUME NEW r \in Request, Debit(r) \/ Refuse(r) \/ Send(r) PROVE CallerOK(q)'
    <2>1. CASE Debit(r)
        <3>1. pc' = [pc EXCEPT ![r] = "send"] /\ UNCHANGED <<on, seen, outcome>>
            BY <2>1 DEF Debit, Goto, local
        <3>2. status'[r] = "PROCESSING" /\ \A w \in Request \ {r} : status'[w] = status[w]
            BY <1>0, <2>1, DebitFirst DEF TypeOK
        <3> QED
            BY <1>0, <1>1, <3>1, <3>2 DEF CallerOK, TypeOK
    <2>2. CASE Refuse(r)
        BY <1>0, <1>1, <2>2 DEF CallerOK, TypeOK, Refuse, End, Goto, money
    <2>3. CASE Send(r)
        BY <1>0, <1>1, <2>3 DEF CallerOK, TypeOK, Send, Goto, local, money
    <2> QED
        BY <1>2, <2>1, <2>2, <2>3
<1>3. ASSUME NEW r \in Request, Answered(r) PROVE CallerOK(q)'
    BY <1>0, <1>1, <1>3 DEF CallerOK, TypeOK, Answered, Apply, ToRefund, End, Goto, local, money
<1>4. ASSUME NEW w \in Request, PaystackStep(w) \/ Reverse(w) \/ GiveUp(w) \/ Age(w) PROVE CallerOK(q)'
    BY <1>0, <1>4 DEF CallerOK, PaystackStep, Receive, Lose, Settle, Reverse, GiveUp, Age, local, money
<1>5. ASSUME NEW c \in Checker, NEW w \in Request, ReadRow(c, w) PROVE CallerOK(q)'
    BY <1>0, <1>5 DEF CallerOK, TypeOK, ReadRow, Goto, money
<1>6. ASSUME NEW c \in Checker, Verify(c) PROVE CallerOK(q)'
    BY <1>0, <1>1, <1>6 DEF CallerOK, TypeOK, Verify, Apply, ToRefund, End, Goto, local, money
<1>7. ASSUME NEW p \in Proc, Mark(p) \/ Claim(p) \/ Fail(p) PROVE CallerOK(q)'
    <2>1. End(p) /\ pc[p] # "start"
        BY <1>7 DEF Mark, Claim, Fail
    <2> QED
        <3>1. CASE q = p
            BY <1>0, <1>1, <2>1, <3>1 DEF CallerOK, TypeOK, End, Goto
        <3>2. CASE q # p
            <4>1. pc'[q] = pc[q] /\ on'[q] = on[q] /\ outcome'[q] = outcome[q]
                BY <1>0, <2>1, <3>2 DEF TypeOK, End, Goto
            <4>2. status' = status \/ \A w \in Request \ {on[p]} : status'[w] = status[w]
                BY <1>0, <1>7 DEF TypeOK, Mark, Claim, Fail, money
            <4>3. status[on[p]] # "NONE"
                BY <1>7 DEF Callers, CallerOK, Mark, Claim, Fail
            <4> QED
                BY <1>0, <1>1, <4>1, <4>2, <4>3 DEF CallerOK
        <3> QED BY <3>1, <3>2
<1>8. ASSUME NEW p \in Proc, ReadBefore(p) PROVE CallerOK(q)'
    BY <1>0, <1>8 DEF CallerOK, TypeOK, ReadBefore, Goto, money
<1>9. CASE UNCHANGED vars
    BY <1>0, <1>9 DEF vars, CallerOK
<1> QED
    BY <1>2, <1>3, <1>4, <1>5, <1>6, <1>7, <1>8, <1>9 DEF Next, RequestStep, CallStep

LEMMA BaseStep == Base /\ [Next]_vars => Base'
BY TypeStep, CallersStep DEF Base

\* Every variable always has its type.
THEOREM TypeCorrect == Spec => []TypeOK
<1>1. Base => TypeOK
    BY DEF Base
<1> QED
    BY <1>1, BaseInit, BaseStep, PTL DEF Spec

-----------------------------------------------------------------------------
\* Only three steps touch the rows, the balance or the ledger.
LEMMA MoneySteps ==
    ASSUME [Next]_vars
    PROVE  \/ \E r \in Request : Debit(r)
           \/ \E p \in Proc : Mark(p) \/ Claim(p)
           \/ UNCHANGED money
BY DEF Next, RequestStep, CallStep, PaystackStep, Refuse, Send, Answered, Receive, Lose, Settle, Reverse,
       GiveUp, Age, Verify, ReadRow, ReadBefore, Fail, vars, money

LEMMA RefundStep == Base /\ RefundedExactlyOnce /\ [Next]_vars => RefundedExactlyOnce'
<1> SUFFICES ASSUME Base, RefundedExactlyOnce, [Next]_vars PROVE RefundedExactlyOnce'
    OBVIOUS
<1> USE DEF Base, TypeOK, Open, Statuses
<1>0. Account = {"wallet", "transit", "clearing"}
    BY DEF Account
<1>1. ASSUME NEW r \in Request, Debit(r) PROVE RefundedExactlyOnce'
    <2>1. /\ \A v \in Request \ {r} : ledger'[v] = ledger[v]
          /\ ledger'[r]["wallet"] = ledger[r]["wallet"] - 1
        BY <1>0, <1>1, PostType DEF Debit
    <2>2. status[r] = "NONE"
        BY <1>1, DebitFirst
    <2> QED
        BY <1>1, <2>1, <2>2 DEF Debit, RefundedExactlyOnce
<1>2. ASSUME NEW p \in Proc, Mark(p) PROVE RefundedExactlyOnce'
    <2>1. CASE status[on[p]] = "PROCESSING"
        <3>1. /\ \A v \in Request \ {on[p]} : ledger'[v] = ledger[v]
              /\ ledger'[on[p]]["wallet"] = ledger[on[p]]["wallet"]
            BY <1>0, <1>2, <2>1, PostType DEF Mark
        <3> QED
            BY <1>2, <2>1, <3>1, SMTT(30) DEF Mark, RefundedExactlyOnce
    <2>2. CASE status[on[p]] # "PROCESSING"
        BY <1>2, <2>2 DEF Mark, RefundedExactlyOnce
    <2> QED BY <2>1, <2>2
<1>3. ASSUME NEW p \in Proc, Claim(p) PROVE RefundedExactlyOnce'
    <2>1. CASE status[on[p]] \in Claimable(outcome[p])
        <3>1. /\ \A v \in Request \ {on[p]} : ledger'[v] = ledger[v]
              /\ ledger'[on[p]]["wallet"] = ledger[on[p]]["wallet"] + 1
            BY <1>0, <1>3, <2>1, PostType DEF Claim
        <3>2. status[on[p]] \in Open /\ outcome[p] \in {"FAILED", "REVERSED"}
            BY <1>3, <2>1 DEF Claim, Claimable, Callers, CallerOK
        <3> QED
            <4> SUFFICES ASSUME NEW v \in Request
                         PROVE  /\ wallet'[v] = IF status'[v] \in Open THEN -1 ELSE 0
                                /\ ledger'[v]["wallet"] = wallet'[v]
                                /\ debitRow'[v] = CASE status'[v] = "NONE" -> "NONE"
                                                     [] status'[v] \in Open -> "SUCCESSFUL"
                                                     [] OTHER               -> "REVERSED"
                BY DEF RefundedExactlyOnce
            <4>1. CASE v = on[p]
                <5>1. status'[v] = outcome[p] /\ debitRow'[v] = "REVERSED" /\ wallet'[v] = wallet[v] + 1
                    BY <1>3, <2>1, <4>1 DEF Claim
                <5> QED
                    BY <3>1, <3>2, <4>1, <5>1 DEF RefundedExactlyOnce
            <4>2. CASE v # on[p]
                BY <1>3, <2>1, <3>1, <4>2 DEF Claim, RefundedExactlyOnce
            <4> QED BY <4>1, <4>2
    <2>2. CASE status[on[p]] \notin Claimable(outcome[p])
        BY <1>3, <2>2 DEF Claim, RefundedExactlyOnce, money
    <2> QED BY <2>1, <2>2
<1>4. CASE UNCHANGED money
    BY <1>4 DEF money, RefundedExactlyOnce
<1> QED
    BY <1>1, <1>2, <1>3, <1>4, MoneySteps

\* A withdrawal's money comes back exactly once, however many callers learn that it failed.
THEOREM RefundedExactlyOnceHolds == Spec => []RefundedExactlyOnce
<1>1. Init => RefundedExactlyOnce
    <2> SUFFICES ASSUME Init, NEW w \in Request
                 PROVE  wallet[w] = 0 /\ ledger[w]["wallet"] = 0 /\ status[w] = "NONE" /\ debitRow[w] = "NONE"
        BY DEF RefundedExactlyOnce, Open
    <2> QED
        BY DEF Init, Account
<1> QED
    BY <1>1, BaseInit, BaseStep, RefundStep, PTL DEF Spec

\* Late and repeated calls never take a withdrawal back to an earlier status.
THEOREM StatusForwardHolds == Spec => StatusForward
<1> DEFINE Forward ==
        \A w \in Request :
            status'[w] # status[w] =>
                \/ status[w] = "NONE" /\ status'[w] = "PROCESSING"
                \/ status[w] = "PROCESSING" /\ status'[w] \in {"SUCCESSFUL", "FAILED", "REVERSED"}
                \/ status[w] = "SUCCESSFUL" /\ status'[w] = "REVERSED"
<1>1. Base /\ [Next]_vars => [Forward]_vars
    <2> SUFFICES ASSUME Base, [Next]_vars PROVE Forward
        OBVIOUS
    <2>1. CASE \E r \in Request : Debit(r)
        BY <2>1, DebitFirst DEF Base, TypeOK
    <2>2. CASE \E p \in Proc : Mark(p) \/ Claim(p)
        BY <2>2 DEF Mark, Claim, Claimable, Base, Callers, CallerOK, TypeOK, money
    <2> QED
        BY <2>1, <2>2, MoneySteps DEF money
<1> QED
    BY <1>1, BaseInit, BaseStep, PTL DEF Spec, StatusForward
-----------------------------------------------------------------------------
(***************************************************************************)
(* Agreement with Paystack.  The argument follows the request for the      *)
(* transfer: it is sent once, an answer means it has arrived, and without  *)
(* Stalls a withdrawal older than the grace no longer has one on its way.  *)
(* So "no transfer" then means there will never be one.                    *)
(***************************************************************************)
NeverSent(w) == sent[w] # "inflight" /\ pc[w] \notin {"start", "send"}

\* The state of the exchange with Paystack about withdrawal w
Exchange(w) ==
    /\ pc[w] \in {"start", "send"} => sent[w] = "no"
    /\ answer[w] # "NONE" => sent[w] = "arrived"
    /\ transfer[w] # "NONE" => sent[w] = "arrived"
    /\ answer[w] = "SUCCESS" => transfer[w] \in {"SUCCESS", "REVERSED"}
    /\ answer[w] = "FAILED" => transfer[w] = "FAILED"
    /\ answer[w] = "REJECTED" => transfer[w] = "NONE"

\* What process p is about to record is what Paystack said
Informed(p) ==
    /\ pc[p] = "mark" => transfer[on[p]] \in {"SUCCESS", "REVERSED"}
    /\ pc[p] \in {"refund", "claim"} /\ outcome[p] = "REVERSED" => transfer[on[p]] = "REVERSED"

Agreed(w) ==
    /\ status[w] = "REVERSED" => transfer[w] = "REVERSED"
    /\ status[w] = "SUCCESSFUL" => transfer[w] \in {"SUCCESS", "REVERSED"}

Told ==
    /\ \A w \in Request : Exchange(w) /\ Agreed(w)
    /\ \A p \in Proc : Informed(p)

\* A request leaves "start" and "send" for good.
LEMMA PcSteps ==
    ASSUME Base, [Next]_vars, NEW w \in Request, pc'[w] \in {"start", "send"}
    PROVE  pc[w] \in {"start", "send"}
<1> USE DEF Base, TypeOK, Goto
<1>0. w \in Proc
    BY DEF Proc
<1>1. ASSUME NEW p \in Proc, Debit(p) \/ CallStep(p) \/ Refuse(p) \/ Fail(p) \/ Send(p) PROVE pc[w] \in {"start", "send"}
    BY <1>0, <1>1 DEF Debit, CallStep, Mark, ReadBefore, Claim, Refuse, Fail, Send, End
<1>2. ASSUME NEW p \in Proc, Answered(p) \/ Verify(p) PROVE pc[w] \in {"start", "send"}
    BY <1>0, <1>2 DEF Answered, Verify, Apply, ToRefund, End
<1>3. ASSUME NEW c \in Checker, NEW v \in Request, ReadRow(c, v) PROVE pc[w] \in {"start", "send"}
    BY <1>0, <1>3 DEF ReadRow
<1>4. CASE UNCHANGED pc
    BY <1>4
<1>5. ASSUME NEW v \in Request, PaystackStep(v) \/ Reverse(v) \/ GiveUp(v) \/ Age(v) PROVE UNCHANGED pc
    BY <1>5 DEF PaystackStep, Receive, Lose, Settle, Reverse, GiveUp, Age
<1> QED
    BY <1>1, <1>2, <1>3, <1>4, <1>5 DEF Next, RequestStep, Proc, vars

\* Only the network and Paystack change the exchange, and a verdict is final except for a reversal.
LEMMA TransferSteps ==
    ASSUME Base, Told, [Next]_vars, NEW w \in Request
    PROVE  /\ transfer[w] = "REVERSED" => transfer'[w] = "REVERSED"
           /\ transfer[w] \in {"SUCCESS", "REVERSED"} => transfer'[w] \in {"SUCCESS", "REVERSED"}
           /\ transfer[w] = "FAILED" => transfer'[w] = "FAILED"
           /\ NeverSent(w) => NeverSent(w)' /\ (transfer[w] = "NONE" => transfer'[w] = "NONE")
<1> USE DEF Base, TypeOK
<1>0. Exchange(w) /\ (pc'[w] \in {"start", "send"} => pc[w] \in {"start", "send"})
    BY PcSteps DEF Told
<1>1. CASE UNCHANGED <<sent, transfer>>
    BY <1>0, <1>1 DEF NeverSent
<1>2. ASSUME NEW r \in Request, Send(r) PROVE UNCHANGED transfer /\ (r = w => ~NeverSent(w)) /\ (r # w => sent'[w] = sent[w])
    BY <1>2 DEF Send, NeverSent
<1>3. ASSUME NEW v \in Request, Receive(v) \/ Lose(v)
      PROVE  \/ v = w /\ sent[w] = "inflight" /\ (Lose(v) => UNCHANGED transfer)
             \/ v # w /\ sent'[w] = sent[w] /\ transfer'[w] = transfer[w]
    BY <1>3 DEF Receive, Lose
<1>4. ASSUME NEW v \in Request, NEW s \in {"SUCCESS", "FAILED", "REVERSED"}, Settle(v, s) \/ Reverse(v)
      PROVE  /\ UNCHANGED sent
             /\ \/ transfer'[w] = transfer[w]
                \/ transfer[w] = "PENDING" /\ transfer'[w] = s
                \/ transfer[w] = "SUCCESS" /\ transfer'[w] = "REVERSED"
    BY <1>4 DEF Settle, Reverse
<1>5. \/ UNCHANGED <<sent, transfer>>
      \/ \E v \in Request : Send(v) \/ Receive(v) \/ Lose(v)
      \/ \E v \in Request : \E s \in {"SUCCESS", "FAILED", "REVERSED"} : Settle(v, s) \/ Reverse(v)
    BY DEF Next, RequestStep, CallStep, PaystackStep, Debit, Refuse, Answered, GiveUp, Age, Verify,
           ReadRow, Mark, ReadBefore, Claim, Fail, paystack, vars
<1>6. CASE \E v \in Request : Send(v)
    BY <1>0, <1>2, <1>6 DEF NeverSent
<1>7. CASE \E v \in Request : Receive(v) \/ Lose(v)
    BY <1>0, <1>3, <1>7 DEF NeverSent, Exchange
<1>8. CASE \E v \in Request : \E s \in {"SUCCESS", "FAILED", "REVERSED"} : Settle(v, s) \/ Reverse(v)
    BY <1>0, <1>4, <1>8 DEF NeverSent
<1> QED
    BY <1>1, <1>5, <1>6, <1>7, <1>8

LEMMA ExchangeStep ==
    ASSUME Base, Told, [Next]_vars, NEW w \in Request
    PROVE  Exchange(w)'
<1> USE DEF Base, TypeOK
<1>0. Exchange(w) /\ (pc'[w] \in {"start", "send"} => pc[w] \in {"start", "send"})
    BY PcSteps DEF Told
<1>1. CASE UNCHANGED paystack
    BY <1>0, <1>1 DEF Exchange, paystack
<1>2. ASSUME NEW r \in Request, Send(r) PROVE Exchange(w)'
    <2>1. UNCHANGED <<answer, transfer>> /\ pc[r] = "send" /\ r \in Proc
        BY <1>2 DEF Send, Proc
    <2>2. r = w => sent'[w] = "inflight" /\ pc'[w] = "wait"
        BY <1>2, <2>1 DEF Send, Goto
    <2>3. r # w => sent'[w] = sent[w]
        BY <1>2 DEF Send
    <2> QED
        BY <1>0, <2>1, <2>2, <2>3 DEF Exchange
<1>3. ASSUME NEW v \in Request, Receive(v) PROVE Exchange(w)'
    <2>1. UNCHANGED pc /\ (v # w => sent'[w] = sent[w] /\ answer'[w] = answer[w] /\ transfer'[w] = transfer[w])
        BY <1>3 DEF Receive
    <2>2. v = w => /\ sent[w] = "inflight" /\ sent'[w] = "arrived"
                   /\ \/ answer'[w] = transfer'[w] /\ answer'[w] \in {"PENDING", "SUCCESS", "FAILED"}
                      \/ answer'[w] = "REJECTED" /\ transfer'[w] = transfer[w]
        BY <1>3 DEF Receive
    <2> QED
        BY <1>0, <2>1, <2>2 DEF Exchange
<1>4. ASSUME NEW v \in Request, Lose(v) PROVE Exchange(w)'
    <2>1. /\ UNCHANGED <<pc, answer, transfer>>
          /\ v = w => sent[w] = "inflight"
          /\ v # w => sent'[w] = sent[w]
        BY <1>4 DEF Lose
    <2> QED
        BY <1>0, <2>1 DEF Exchange
<1>5. ASSUME NEW v \in Request, NEW s \in {"SUCCESS", "FAILED", "REVERSED"}, Settle(v, s) PROVE Exchange(w)'
    <2>1. /\ UNCHANGED <<pc, answer, sent>>
          /\ v = w => transfer[w] = "PENDING" /\ transfer'[w] = s
          /\ v # w => transfer'[w] = transfer[w]
        BY <1>5 DEF Settle
    <2> QED
        BY <1>0, <2>1 DEF Exchange
<1>6. ASSUME NEW v \in Request, Reverse(v) PROVE Exchange(w)'
    <2>1. /\ UNCHANGED <<pc, answer, sent>>
          /\ v = w => transfer[w] = "SUCCESS" /\ transfer'[w] = "REVERSED"
          /\ v # w => transfer'[w] = transfer[w]
        BY <1>6 DEF Reverse
    <2> QED
        BY <1>0, <2>1 DEF Exchange
<1>7. CASE UNCHANGED <<pc, sent, answer, transfer>>
    BY <1>0, <1>7 DEF Exchange
<1>8. ASSUME NEW v \in Request, GiveUp(v) PROVE UNCHANGED <<pc, sent, answer, transfer>>
    BY <1>8 DEF GiveUp
<1>9. \/ \E v \in Request : GiveUp(v)
      \/ UNCHANGED paystack
      \/ \E v \in Request : Send(v) \/ Receive(v) \/ Lose(v) \/ Reverse(v)
      \/ \E v \in Request : \E s \in {"SUCCESS", "FAILED", "REVERSED"} : Settle(v, s)
    BY DEF Next, RequestStep, CallStep, PaystackStep, Debit, Refuse, Answered, Age, Verify, ReadRow,
           Mark, ReadBefore, Claim, Fail, paystack, vars
<1> QED
    BY <1>1, <1>2, <1>3, <1>4, <1>5, <1>6, <1>7, <1>8, <1>9

LEMMA InformedStep ==
    ASSUME Base, Told, [Next]_vars, NEW q \in Proc
    PROVE  Informed(q)'
<1> USE DEF Base, TypeOK, Goto
<1>0. on[q] \in Request /\ Informed(q)
    BY DEF Told
<1>1. /\ transfer[on[q]] = "REVERSED" => transfer'[on[q]] = "REVERSED"
      /\ transfer[on[q]] \in {"SUCCESS", "REVERSED"} => transfer'[on[q]] \in {"SUCCESS", "REVERSED"}
    BY <1>0, TransferSteps
<1>2. ASSUME UNCHANGED on, pc'[q] \in {"mark", "refund", "claim"} => pc'[q] = pc[q] /\ outcome'[q] = outcome[q]
      PROVE  Informed(q)'
    BY <1>0, <1>1, <1>2 DEF Informed
<1>3. ASSUME NEW p \in Proc, Debit(p) \/ Refuse(p) \/ Send(p) \/ Mark(p) \/ Claim(p) \/ Fail(p) PROVE Informed(q)'
    BY <1>2, <1>3 DEF Debit, Refuse, Send, Mark, Claim, Fail, End, local
<1>4. ASSUME NEW r \in Request, Answered(r) PROVE Informed(q)'
    <2>1. CASE q # r
        BY <1>2, <1>4, <2>1 DEF Answered, Apply, ToRefund, End, local
    <2>2. CASE q = r
        <3>1. on'[q] = q /\ transfer' = transfer
            BY <1>4, <2>2 DEF Answered, Apply, ToRefund, End, local, paystack, Callers, CallerOK
        <3>2. /\ pc'[q] = "mark" => answer[q] = "SUCCESS"
              /\ pc'[q] \in {"refund", "claim"} => outcome'[q] = "FAILED"
            BY <1>4, <2>2 DEF Answered, Apply, ToRefund, End
        <3>3. Exchange(q)
            BY <2>2 DEF Told
        <3> QED
            BY <3>1, <3>2, <3>3 DEF Informed, Exchange
    <2> QED BY <2>1, <2>2
<1>5. ASSUME NEW c \in Checker, NEW w \in Request, ReadRow(c, w) PROVE Informed(q)'
    <2>1. CASE q # c
        <3>1. on'[q] = on[q] /\ pc'[q] = pc[q] /\ outcome'[q] = outcome[q]
            BY <1>5, <2>1 DEF ReadRow
        <3> QED
            BY <1>0, <1>1, <3>1 DEF Informed
    <2>2. CASE q = c
        BY <1>5, <2>2 DEF ReadRow, Informed
    <2> QED BY <2>1, <2>2
<1>6. ASSUME NEW c \in Checker, Verify(c) PROVE Informed(q)'
    <2>1. CASE q # c
        BY <1>2, <1>6, <2>1 DEF Verify, Apply, ToRefund, End, local
    <2>2. CASE q = c
        <3>1. on' = on /\ transfer' = transfer
            BY <1>6 DEF Verify, Apply, ToRefund, End, local, paystack
        <3>2. /\ pc'[q] = "mark" => transfer[on[q]] = "SUCCESS"
              /\ pc'[q] \in {"refund", "claim"} /\ outcome'[q] = "REVERSED" => transfer[on[q]] = "REVERSED"
            BY <1>6, <2>2 DEF Verify, Apply, ToRefund, End
        <3> QED
            BY <3>1, <3>2 DEF Informed
    <2> QED BY <2>1, <2>2
<1>7. ASSUME NEW p \in Proc, ReadBefore(p) PROVE Informed(q)'
    BY <1>0, <1>1, <1>7 DEF ReadBefore, Informed
<1>8. CASE UNCHANGED <<pc, on, outcome>>
    BY <1>2, <1>8
<1>9. ASSUME NEW v \in Request, PaystackStep(v) \/ Reverse(v) \/ GiveUp(v) \/ Age(v) PROVE UNCHANGED <<pc, on, outcome>>
    BY <1>9 DEF PaystackStep, Receive, Lose, Settle, Reverse, GiveUp, Age, local
<1> QED
    BY <1>3, <1>4, <1>5, <1>6, <1>7, <1>8, <1>9 DEF Next, RequestStep, CallStep, Proc, vars

LEMMA AgreedStep ==
    ASSUME Base, Told, [Next]_vars, NEW w \in Request
    PROVE  Agreed(w)'
<1> USE DEF Base, TypeOK
<1>0. Agreed(w)
    BY DEF Told
<1>1. /\ transfer[w] = "REVERSED" => transfer'[w] = "REVERSED"
      /\ transfer[w] \in {"SUCCESS", "REVERSED"} => transfer'[w] \in {"SUCCESS", "REVERSED"}
    BY TransferSteps
<1>2. CASE status'[w] = status[w]
    BY <1>0, <1>1, <1>2 DEF Agreed
<1>3. ASSUME NEW r \in Request, Debit(r) PROVE Agreed(w)'
    BY <1>2, <1>3, DebitFirst DEF Agreed
<1>4. ASSUME NEW p \in Proc, Mark(p) PROVE Agreed(w)'
    <2>1. transfer[on[p]] \in {"SUCCESS", "REVERSED"}
        BY <1>4 DEF Told, Informed, Mark
    <2>2. status'[w] = status[w] \/ (w = on[p] /\ status'[w] = "SUCCESSFUL")
        BY <1>4 DEF Mark
    <2> QED
        BY <1>1, <1>2, <2>1, <2>2 DEF Agreed
<1>5. ASSUME NEW p \in Proc, Claim(p) PROVE Agreed(w)'
    <2>1. /\ outcome[p] \in {"FAILED", "REVERSED"}
          /\ outcome[p] = "REVERSED" => transfer[on[p]] = "REVERSED"
        BY <1>5 DEF Told, Informed, Claim, Callers, CallerOK
    <2>2. status'[w] = status[w] \/ (w = on[p] /\ status'[w] = outcome[p])
        BY <1>5 DEF Claim, money
    <2> QED
        BY <1>1, <1>2, <2>1, <2>2 DEF Agreed
<1> QED
    BY <1>2, <1>3, <1>4, <1>5, MoneySteps DEF money

LEMMA ToldStep == Base /\ Told /\ [Next]_vars => Told'
BY ExchangeStep, InformedStep, AgreedStep DEF Told

LEMMA ToldInit == Init => Told
BY ZenonT(30) DEF Init, Told, Exchange, Agreed, Informed, Proc

\* A withdrawal that may be called failed: its transfer failed, or there is none and never will be
Failing(w) == transfer[w] = "FAILED" \/ (transfer[w] = "NONE" /\ NeverSent(w))

Final ==
    /\ \A p \in Proc : pc[p] \in {"refund", "claim"} /\ outcome[p] = "FAILED" => Failing(on[p])
    /\ \A w \in Request : status[w] = "FAILED" => Failing(w)
    /\ \A w \in aged : NeverSent(w)

LEMMA FailingStep ==
    ASSUME Base, Told, [Next]_vars, NEW w \in Request, Failing(w)
    PROVE  Failing(w)'
BY TransferSteps DEF Failing

LEMMA FinalStep == ~Stalls /\ Base /\ Told /\ Final /\ [Next]_vars => Final'
<1> SUFFICES ASSUME ~Stalls, Base, Told, Final, [Next]_vars PROVE Final'
    OBVIOUS
<1> USE DEF Base, TypeOK
<1>1. ASSUME NEW q \in Proc, pc'[q] \in {"refund", "claim"}, outcome'[q] = "FAILED" PROVE Failing(on[q])'
    <2> USE DEF Goto
    <2>0. on[q] \in Request
        OBVIOUS
    <2>1. CASE on'[q] = on[q] /\ pc[q] \in {"refund", "claim"} /\ outcome[q] = "FAILED"
        BY <2>0, <2>1, FailingStep DEF Final
    <2>2. ASSUME NEW p \in Proc, Debit(p) \/ Refuse(p) \/ Send(p) \/ Mark(p) \/ Claim(p) \/ Fail(p) \/ ReadBefore(p)
          PROVE  on'[q] = on[q] /\ pc[q] \in {"refund", "claim"} /\ outcome[q] = "FAILED"
        BY <1>1, <2>2 DEF Debit, Refuse, Send, Mark, Claim, Fail, ReadBefore, End, local
    <2>3. ASSUME NEW r \in Request, Answered(r), ~(on'[q] = on[q] /\ pc[q] \in {"refund", "claim"} /\ outcome[q] = "FAILED")
          PROVE  Failing(on[q])'
        <3>1. q = r /\ on'[q] = on[q] /\ answer[q] \in {"FAILED", "REJECTED"}
            BY <1>1, <2>3 DEF Answered, Apply, ToRefund, End, local
        <3>2. on[q] = q /\ Exchange(q) /\ pc[q] = "wait"
            BY <2>3, <3>1 DEF Answered, Callers, CallerOK, Told
        <3>3. Failing(q)
            BY <3>1, <3>2 DEF Exchange, Failing, NeverSent
        <3> QED
            BY <3>1, <3>2, <3>3, <2>0, FailingStep
    <2>4. ASSUME NEW c \in Checker, Verify(c), ~(on'[q] = on[q] /\ pc[q] \in {"refund", "claim"} /\ outcome[q] = "FAILED")
          PROVE  Failing(on[q])'
        <3>1. q = c /\ on'[q] = on[q]
            BY <1>1, <2>4 DEF Verify, Apply, ToRefund, End, local
        <3>2. transfer[on[q]] = "FAILED" \/ (transfer[on[q]] = "NONE" /\ on[q] \in aged)
            BY <1>1, <2>4, <3>1 DEF Verify, Apply, ToRefund, End
        <3> QED
            BY <2>0, <3>1, <3>2, FailingStep DEF Failing, Final
    <2>5. ASSUME NEW c \in Checker, NEW w \in Request, ReadRow(c, w)
          PROVE  on'[q] = on[q] /\ pc[q] \in {"refund", "claim"} /\ outcome[q] = "FAILED"
        BY <1>1, <2>5 DEF ReadRow
    <2>6. CASE UNCHANGED <<pc, on, outcome>>
        BY <1>1, <2>1, <2>6
    <2>7. ASSUME NEW v \in Request, PaystackStep(v) \/ Reverse(v) \/ GiveUp(v) \/ Age(v) PROVE UNCHANGED <<pc, on, outcome>>
        BY <2>7 DEF PaystackStep, Receive, Lose, Settle, Reverse, GiveUp, Age, local
    <2> QED
        BY <2>1, <2>2, <2>3, <2>4, <2>5, <2>6, <2>7 DEF Next, RequestStep, CallStep, Proc, vars
<1>2. ASSUME NEW w \in Request, status'[w] = "FAILED" PROVE Failing(w)'
    <2>1. CASE status[w] = "FAILED"
        BY <2>1, FailingStep DEF Final
    <2>2. ASSUME NEW p \in Proc, Claim(p), status[w] # "FAILED" PROVE Failing(w)
        <3>1. w = on[p] /\ outcome[p] = "FAILED" /\ pc[p] = "claim"
            BY <1>2, <2>2 DEF Claim, money
        <3> QED
            BY <3>1 DEF Final
    <2>3. ASSUME NEW p \in Proc, Mark(p) PROVE status[w] = "FAILED"
        BY <1>2, <2>3 DEF Mark
    <2>4. ASSUME NEW r \in Request, Debit(r) PROVE status[w] = "FAILED"
        BY <1>2, <2>4 DEF Debit
    <2> QED
        BY <1>2, <2>1, <2>2, <2>3, <2>4, MoneySteps, FailingStep DEF money
<1>3. ASSUME NEW w \in aged' PROVE NeverSent(w)'
    <2>1. CASE w \in aged
        BY <2>1, TransferSteps DEF Final
    <2>2. ASSUME NEW v \in Request, Age(v), w \notin aged PROVE NeverSent(w)'
        <3>1. /\ v = w /\ status[w] # "NONE"
              /\ pc[w] # "send" /\ sent[w] # "inflight"
              /\ UNCHANGED <<pc, sent>>
            BY <1>3, <2>2 DEF Age, paystack
        <3>2. pc[w] # "start"
            BY <3>1 DEF Callers, CallerOK, Proc
        <3> QED
            BY <3>1, <3>2 DEF NeverSent
    <2>3. UNCHANGED aged \/ \E v \in Request : Age(v)
        BY DEF Next, RequestStep, CallStep, PaystackStep, Debit, Refuse, Send, Answered, Receive, Lose, Settle,
               Reverse, GiveUp, Verify, ReadRow, Mark, ReadBefore, Claim, Fail, vars
    <2> QED
        BY <1>3, <2>1, <2>2, <2>3
<1> QED
    BY <1>1, <1>2, <1>3 DEF Final

\* Unless a transfer request can be delayed for longer than the grace, wallet and bank agree: no
\* withdrawal is both given back and paid out, however the calls interleave.
THEOREM NeverRefundedAndPaidHolds == ~Stalls => (Spec => []NeverRefundedAndPaid)
<1> SUFFICES ASSUME ~Stalls PROVE Spec => []NeverRefundedAndPaid
    OBVIOUS
<1> DEFINE I == Base /\ Told /\ Final
<1>1. Init => I
    <2>1. Init => Final
        BY ZenonT(30) DEF Init, Final, Proc
    <2> QED BY <2>1, BaseInit, ToldInit
<1>2. I /\ [Next]_vars => I'
    BY BaseStep, ToldStep, FinalStep
<1>3. I => NeverRefundedAndPaid
    BY DEF Told, Agreed, Final, Failing, NeverRefundedAndPaid
<1> HIDE DEF I
<1> QED
    BY <1>1, <1>2, <1>3, PTL DEF Spec

-----------------------------------------------------------------------------
(***************************************************************************)
(* Agreement of the ledger.  A refund may post against the wrong account   *)
(* only if the withdrawal is marked SUCCESSFUL between its two statements; *)
(* without SuddenReversals nobody is still marking what was reversed.      *)
(***************************************************************************)
Orderly ==
    /\ \A w \in Request : transfer[w] = "REVERSED" => ~Recording(w)
    /\ \A p \in Proc : pc[p] = "claim" /\ status[on[p]] \in Claimable(outcome[p]) => seen[p] = status[on[p]]

LEMMA RecordingStep ==
    ASSUME ~SuddenReversals, Base, Told, Orderly, [Next]_vars, NEW w \in Request, transfer'[w] = "REVERSED"
    PROVE  ~Recording(w)'
<1> USE DEF Base, TypeOK, Goto
<1>0. Exchange(w) /\ w \in Proc
    BY DEF Told, Proc
<1>1. ASSUME NEW v \in Request, NEW s \in {"SUCCESS", "FAILED", "REVERSED"}, Settle(v, s) PROVE ~Recording(w)'
    <2>1. UNCHANGED <<pc, on, answer>> /\ (transfer[w] = "REVERSED" \/ transfer[w] = "PENDING")
        BY <1>1 DEF Settle, local
    <2>2. \A p \in Proc : on[p] = w /\ pc[p] = "mark" => transfer[w] \in {"SUCCESS", "REVERSED"}
        BY DEF Told, Informed
    <2> QED
        BY <1>0, <2>1, <2>2 DEF Recording, Exchange, Orderly
<1>2. ASSUME NEW v \in Request, Reverse(v) PROVE ~Recording(w)'
    BY <1>2 DEF Reverse, Recording, Orderly, local
<1>3. ASSUME NEW v \in Request, Receive(v) PROVE ~Recording(w)'
    <2>1. transfer[w] = "REVERSED" /\ v # w
        BY <1>0, <1>3 DEF Receive, Exchange
    <2> QED
        BY <1>3, <2>1 DEF Receive, Recording, Orderly, local
<1>4. ASSUME ~Recording(w), UNCHANGED answer,
             pc'[w] = "wait" => pc[w] = "wait" \/ answer[w] = "NONE",
             \A p \in Proc : pc'[p] = "mark" /\ on'[p] = w => pc[p] = "mark" /\ on[p] = w
      PROVE  ~Recording(w)'
    BY <1>4 DEF Recording
<1>5. ASSUME transfer[w] = "REVERSED" PROVE ~Recording(w)
    BY <1>5 DEF Orderly
<1>6. ASSUME NEW p \in Proc, Debit(p) \/ Refuse(p) \/ Mark(p) \/ Claim(p) \/ Fail(p) \/ ReadBefore(p)
      PROVE  ~Recording(w)'
    <2>1. UNCHANGED <<answer, transfer>>
        BY <1>6 DEF Debit, Refuse, Mark, Claim, Fail, ReadBefore, paystack
    <2>2. pc'[w] = "wait" => pc[w] = "wait"
        BY <1>0, <1>6 DEF Debit, Refuse, Mark, Claim, Fail, ReadBefore, End
    <2>3. \A q \in Proc : pc'[q] = "mark" /\ on'[q] = w => pc[q] = "mark" /\ on[q] = w
        BY <1>6 DEF Debit, Refuse, Mark, Claim, Fail, ReadBefore, End, local
    <2> QED
        BY <1>4, <1>5, <2>1, <2>2, <2>3
<1>7. ASSUME NEW r \in Request, Send(r) PROVE ~Recording(w)'
    <2>1. UNCHANGED <<answer, transfer, on>> /\ pc[r] = "send" /\ pc' = [pc EXCEPT ![r] = "wait"]
        BY <1>7 DEF Send, local
    <2>2. r = w => answer[w] = "NONE"
        BY <1>0, <2>1 DEF Exchange
    <2> QED
        BY <1>4, <1>5, <2>1, <2>2
<1>8. ASSUME NEW r \in Request, Answered(r) PROVE ~Recording(w)'
    <2>1. UNCHANGED <<answer, transfer, on>>
        BY <1>8 DEF Answered, Apply, ToRefund, End, local, paystack
    <2>2. pc'[w] = "wait" => pc[w] = "wait"
        BY <1>0, <1>8 DEF Answered, Apply, ToRefund, End
    <2>3. on[r] = r
        BY DEF Callers, CallerOK, Proc
    <2>4. \A q \in Proc : pc'[q] = "mark" /\ on[q] = w => pc[q] = "mark"
        <3> SUFFICES ASSUME NEW q \in Proc, pc'[q] = "mark", on[q] = w, pc[q] # "mark" PROVE FALSE
            OBVIOUS
        <3>1. q = r /\ pc[r] = "wait" /\ answer[r] = "SUCCESS"
            BY <1>8 DEF Answered, Apply, ToRefund, End
        <3> QED
            BY <1>5, <2>1, <2>3, <3>1 DEF Recording
    <2> QED
        BY <1>4, <1>5, <2>1, <2>2, <2>4
<1>9. ASSUME NEW c \in Checker, NEW v \in Request, ReadRow(c, v) PROVE ~Recording(w)'
    <2>1. UNCHANGED <<answer, transfer>>
        BY <1>9 DEF ReadRow, paystack
    <2>2. pc'[w] = "wait" => pc[w] = "wait"
        BY <1>0, <1>9 DEF ReadRow
    <2>3. \A q \in Proc : pc'[q] = "mark" /\ on'[q] = w => pc[q] = "mark" /\ on[q] = w
        BY <1>9 DEF ReadRow
    <2> QED
        BY <1>4, <1>5, <2>1, <2>2, <2>3
<1>10. ASSUME NEW c \in Checker, Verify(c) PROVE ~Recording(w)'
    <2>1. UNCHANGED <<answer, transfer, on>>
        BY <1>10 DEF Verify, Apply, ToRefund, End, local, paystack
    <2>2. pc'[w] = "wait" => pc[w] = "wait"
        BY <1>0, <1>10 DEF Verify, Apply, ToRefund, End
    <2>3. \A q \in Proc : pc'[q] = "mark" /\ on[q] = w => pc[q] = "mark"
        BY <1>10, <2>1 DEF Verify, Apply, ToRefund, End
    <2> QED
        BY <1>4, <1>5, <2>1, <2>2, <2>3
<1>11. CASE UNCHANGED <<answer, transfer, pc, on>>
    BY <1>4, <1>5, <1>11
<1>12. ASSUME NEW v \in Request, Lose(v) \/ GiveUp(v) \/ Age(v) PROVE UNCHANGED <<answer, transfer, pc, on>>
    BY <1>12 DEF Lose, GiveUp, Age, local, paystack
<1> QED
    BY <1>1, <1>2, <1>3, <1>6, <1>7, <1>8, <1>9, <1>10, <1>11, <1>12
    DEF Next, RequestStep, CallStep, PaystackStep, Proc, vars

LEMMA OrderlyStep ==
    ~SuddenReversals /\ Base /\ Told /\ Orderly /\ [Next]_vars => Orderly'
<1> SUFFICES ASSUME ~SuddenReversals, Base, Told, Orderly, [Next]_vars,
                    NEW q \in Proc, pc'[q] = "claim", (status[on[q]] \in Claimable(outcome[q]))'
             PROVE  seen'[q] = status'[on'[q]]
    BY RecordingStep DEF Orderly
<1> USE DEF Base, TypeOK, Goto
<1>0. on[q] \in Request
    OBVIOUS
<1>1. ASSUME NEW p \in Proc, ReadBefore(p) PROVE seen'[q] = status'[on'[q]]
    BY <1>1 DEF ReadBefore, Orderly, money
<1>2. ASSUME pc[q] = "claim", UNCHANGED status, on'[q] = on[q], seen'[q] = seen[q], outcome'[q] = outcome[q]
      PROVE  seen'[q] = status'[on'[q]]
    BY <1>2 DEF Orderly, Claimable
<1>3. ASSUME NEW r \in Request, Debit(r) PROVE seen'[q] = status'[on'[q]]
    <2>1. pc[q] = "claim" /\ UNCHANGED <<on, seen, outcome>>
        BY <1>3 DEF Debit, local
    <2>2. status[on[q]] # "NONE" /\ status[r] = "NONE" /\ status' = [status EXCEPT ![r] = "PROCESSING"]
        BY <1>3, <2>1, DebitFirst DEF Callers, CallerOK
    <2> QED
        BY <1>0, <2>1, <2>2 DEF Orderly, Claimable
<1>4. ASSUME NEW p \in Proc, Mark(p) PROVE seen'[q] = status'[on'[q]]
    <2>1. q # p /\ pc[q] = "claim" /\ on' = on /\ seen'[q] = seen[q] /\ outcome'[q] = outcome[q]
        BY <1>4 DEF Mark, End
    <2>2. status'[on[q]] = status[on[q]] \/ (on[q] = on[p] /\ status'[on[q]] = "SUCCESSFUL")
        BY <1>0, <1>4 DEF Mark
    <2>3. on[q] = on[p] /\ outcome[q] = "REVERSED" => FALSE
        BY <1>0, <1>4, <2>1 DEF Mark, Told, Informed, Orderly, Recording
    <2> QED
        BY <2>1, <2>2, <2>3 DEF Orderly, Claimable
<1>5. ASSUME NEW p \in Proc, Claim(p) PROVE seen'[q] = status'[on'[q]]
    <2>1. q # p /\ pc[q] = "claim" /\ on' = on /\ seen'[q] = seen[q] /\ outcome'[q] = outcome[q]
        BY <1>5 DEF Claim, End
    <2>2. /\ status'[on[q]] = status[on[q]] \/ status'[on[q]] = outcome[p]
          /\ outcome[p] \in {"FAILED", "REVERSED"}
        BY <1>0, <1>5 DEF Claim, Callers, CallerOK, money
    <2> QED
        BY <2>1, <2>2 DEF Orderly, Claimable
<1>6. ASSUME NEW p \in Proc, Refuse(p) \/ Fail(p) PROVE seen'[q] = status'[on'[q]]
    BY <1>2, <1>6 DEF Refuse, Fail, End, money
<1>7. ASSUME NEW p \in Proc, Answered(p) \/ Verify(p) PROVE seen'[q] = status'[on'[q]]
    BY <1>2, <1>7 DEF Answered, Verify, Apply, ToRefund, End, local, money
<1>8. ASSUME NEW p \in Proc, Send(p) PROVE seen'[q] = status'[on'[q]]
    BY <1>2, <1>8 DEF Send, local, money
<1>9. ASSUME NEW c \in Checker, NEW w \in Request, ReadRow(c, w) PROVE seen'[q] = status'[on'[q]]
    BY <1>2, <1>9 DEF ReadRow, money
<1>10. CASE UNCHANGED <<status, pc, on, seen, outcome>>
    BY <1>2, <1>10
<1>11. ASSUME NEW v \in Request, PaystackStep(v) \/ Reverse(v) \/ GiveUp(v) \/ Age(v)
       PROVE  UNCHANGED <<status, pc, on, seen, outcome>>
    BY <1>11 DEF PaystackStep, Receive, Lose, Settle, Reverse, GiveUp, Age, local, money
<1> QED
    BY <1>1, <1>3, <1>4, <1>5, <1>6, <1>7, <1>8, <1>9, <1>10, <1>11
    DEF Next, RequestStep, CallStep, Proc, vars

LEMMA LedgerStep == Base /\ Orderly /\ LedgerFollowsStatus /\ [Next]_vars => LedgerFollowsStatus'
<1> SUFFICES ASSUME Base, Orderly, LedgerFollowsStatus, [Next]_vars, NEW w \in Request
             PROVE  /\ ledger'[w]["transit"] = IF status'[w] = "PROCESSING" THEN 1 ELSE 0
                    /\ ledger'[w]["clearing"] = IF status'[w] = "SUCCESSFUL" THEN 1 ELSE 0
    BY DEF LedgerFollowsStatus
<1> DEFINE Goal == /\ ledger'[w]["transit"] = IF status'[w] = "PROCESSING" THEN 1 ELSE 0
                   /\ ledger'[w]["clearing"] = IF status'[w] = "SUCCESSFUL" THEN 1 ELSE 0
<1> USE DEF Base, TypeOK
<1>0. /\ ledger[w]["transit"] = IF status[w] = "PROCESSING" THEN 1 ELSE 0
      /\ ledger[w]["clearing"] = IF status[w] = "SUCCESSFUL" THEN 1 ELSE 0
      /\ Account = {"wallet", "transit", "clearing"}
    BY DEF LedgerFollowsStatus, Account
<1>1. CASE ledger'[w] = ledger[w] /\ status'[w] = status[w]
    BY <1>0, <1>1
<1>2. ASSUME NEW r \in Request, Debit(r) PROVE Goal
    <2>1. /\ \A v \in Request \ {r} : ledger'[v] = ledger[v]
          /\ ledger'[r]["transit"] = ledger[r]["transit"] + 1
          /\ ledger'[r]["clearing"] = ledger[r]["clearing"]
        BY <1>0, <1>2, PostType DEF Debit
    <2>2. status[r] = "NONE" /\ status' = [status EXCEPT ![r] = "PROCESSING"]
        BY <1>2, DebitFirst
    <2> QED
        BY <1>0, <2>1, <2>2
<1>3. ASSUME NEW p \in Proc, Mark(p), status[on[p]] = "PROCESSING" PROVE Goal
    <2>1. /\ \A v \in Request \ {on[p]} : ledger'[v] = ledger[v]
          /\ ledger'[on[p]]["transit"] = ledger[on[p]]["transit"] - 1
          /\ ledger'[on[p]]["clearing"] = ledger[on[p]]["clearing"] + 1
        BY <1>0, <1>3, PostType DEF Mark
    <2>2. status' = [status EXCEPT ![on[p]] = "SUCCESSFUL"]
        BY <1>3 DEF Mark
    <2> QED
        BY <1>0, <1>3, <2>1, <2>2
<1>4. ASSUME NEW p \in Proc, Claim(p), status[on[p]] \in Claimable(outcome[p]) PROVE Goal
    <2>1. /\ seen[p] = status[on[p]]
          /\ outcome[p] \in {"FAILED", "REVERSED"}
          /\ status[on[p]] \in {"PROCESSING", "SUCCESSFUL"}
        BY <1>4 DEF Claim, Orderly, Callers, CallerOK, Claimable
    <2>2. status' = [status EXCEPT ![on[p]] = outcome[p]]
        BY <1>4 DEF Claim
    <2>3. CASE status[on[p]] = "SUCCESSFUL"
        <3>1. /\ \A v \in Request \ {on[p]} : ledger'[v] = ledger[v]
              /\ ledger'[on[p]]["transit"] = ledger[on[p]]["transit"]
              /\ ledger'[on[p]]["clearing"] = ledger[on[p]]["clearing"] - 1
            BY <1>0, <1>4, <2>1, <2>3, PostType DEF Claim
        <3> QED
            BY <1>0, <2>1, <2>2, <2>3, <3>1
    <2>4. CASE status[on[p]] = "PROCESSING"
        <3>1. /\ \A v \in Request \ {on[p]} : ledger'[v] = ledger[v]
              /\ ledger'[on[p]]["transit"] = ledger[on[p]]["transit"] - 1
              /\ ledger'[on[p]]["clearing"] = ledger[on[p]]["clearing"]
            BY <1>0, <1>4, <2>1, <2>4, PostType DEF Claim
        <3> QED
            BY <1>0, <2>1, <2>2, <2>4, <3>1
    <2> QED BY <2>1, <2>3, <2>4
<1>5. \/ UNCHANGED <<status, ledger>>
      \/ \E r \in Request : Debit(r)
      \/ \E p \in Proc : Mark(p) /\ status[on[p]] = "PROCESSING"
      \/ \E p \in Proc : Claim(p) /\ status[on[p]] \in Claimable(outcome[p])
    BY MoneySteps DEF Mark, Claim, money
<1> QED
    BY <1>1, <1>2, <1>3, <1>4, <1>5

\* Unless Paystack reverses a payment while it is being recorded, the in-transit and clearing
\* accounts hold exactly the withdrawals that are on their way or paid.
THEOREM LedgerFollowsStatusHolds == ~SuddenReversals => (Spec => []LedgerFollowsStatus)
<1> SUFFICES ASSUME ~SuddenReversals PROVE Spec => []LedgerFollowsStatus
    OBVIOUS
<1> DEFINE I == Base /\ Told /\ Orderly /\ LedgerFollowsStatus
<1>1. Init => I
    <2>1. Init => Orderly
        BY DEF Init, Orderly, Proc
    <2>2. Init => LedgerFollowsStatus
        <3> SUFFICES ASSUME Init, NEW w \in Request
                     PROVE  ledger[w]["transit"] = 0 /\ ledger[w]["clearing"] = 0 /\ status[w] = "NONE"
            BY DEF LedgerFollowsStatus
        <3> QED BY DEF Init, Account
    <2> QED BY <2>1, <2>2, BaseInit, ToldInit
<1>2. I /\ [Next]_vars => I'
    BY BaseStep, ToldStep, OrderlyStep, LedgerStep
<1> HIDE DEF I
<1>3. I => LedgerFollowsStatus
    BY DEF I
<1> QED
    BY <1>1, <1>2, <1>3, PTL DEF Spec
=============================================================================
