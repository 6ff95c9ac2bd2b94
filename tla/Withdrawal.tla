----------------------------- MODULE Withdrawal -----------------------------
(***************************************************************************)
(* Withdrawals to a bank (payments/withdrawal.service.ts).                 *)
(*                                                                         *)
(* createWithdrawal debits the wallet, then sends a Paystack transfer; the *)
(* webhook worker, the follow-up job and the reconciliation all call       *)
(* confirmWithdrawal, at any time and at once.  Each request makes one     *)
(* withdrawal, named after it.  Each database transaction is a step; the   *)
(* refund's is two, because READ COMMITTED lets others commit between its  *)
(* reading of the status and its claim.  Money is counted in units of the  *)
(* withdrawal's amount.  The wallet's own balance is read and written      *)
(* under the lock of module WalletLock, so here it only moves.             *)
(***************************************************************************)
EXTENDS Integers

CONSTANTS
    Request,        \* calls of createWithdrawal, and the withdrawals they make
    Checker,        \* callers of confirmWithdrawal: workers and the reconciliation
    Stalls,         \* TRUE: a transfer may still be on its way to Paystack after the 10 minute grace
    SuddenReversals \* TRUE: Paystack may reverse a paid transfer while the payment is being recorded

ASSUME WithdrawalAssumption ==
    /\ Request \cap Checker = {}
    /\ Stalls \in BOOLEAN /\ SuddenReversals \in BOOLEAN

Proc == Request \cup Checker

VARIABLES
    status,     \* Withdrawal.status, "NONE" before the row exists
    debitRow,   \* status of the withdrawal's DEBIT row
    wallet,     \* what the withdrawal has done to Wallet.balance
    ledger,     \* credits minus debits the withdrawal has posted, by account
    aged,       \* the withdrawals created more than MISSING_TRANSFER_GRACE_MS ago
    sent,       \* the request to create the transfer: "no", "inflight", "arrived" or "lost"
    answer,     \* Paystack's answer to it, "NONE" before it is made
    transfer,   \* the transfer at Paystack, "NONE" while there is none
    notice,     \* the webhook event of its reversal: "none", "due" (stored, its job has attempts left), "over"
    pc, on,     \* where each process is, and the withdrawal it works on
    seen,       \* the withdrawal's status as the process last read it
    outcome     \* the status a refund is to end in

paystack == <<sent, answer, transfer, notice>>
money    == <<status, debitRow, wallet, ledger>>
local    == <<on, seen, outcome>>
vars     == <<status, debitRow, wallet, ledger, aged, sent, answer, transfer, notice, pc, on, seen, outcome>>

Account == {"wallet", "transit", "clearing"}

Init ==
    /\ status = [w \in Request |-> "NONE"]
    /\ debitRow = [w \in Request |-> "NONE"]
    /\ wallet = [w \in Request |-> 0]
    /\ ledger = [w \in Request |-> [a \in Account |-> 0]]
    /\ aged = {}
    /\ sent = [w \in Request |-> "no"]
    /\ answer = [w \in Request |-> "NONE"]
    /\ transfer = [w \in Request |-> "NONE"]
    /\ notice = [w \in Request |-> "none"]
    /\ pc = [p \in Proc |-> IF p \in Request THEN "start" ELSE "idle"]
    /\ on \in [Proc -> Request] /\ \A r \in Request : on[r] = r
    /\ seen = [p \in Proc |-> "NONE"]
    /\ outcome = [p \in Proc |-> "NONE"]

Goto(p, label) == pc' = [pc EXCEPT ![p] = label]

\* The call returns or throws
End(p) ==
    /\ Goto(p, IF p \in Request THEN "done" ELSE "idle")
    /\ seen' = [seen EXCEPT ![p] = "NONE"]
    /\ outcome' = [outcome EXCEPT ![p] = "NONE"]
    /\ UNCHANGED on

\* ledger.service.ts post: one debit line, one credit line
Post(w, debit, credit) ==
    ledger' = [ledger EXCEPT ![w][debit] = @ - 1, ![w][credit] = @ + 1]

-----------------------------------------------------------------------------
\* createWithdrawal's transaction: balance, DEBIT row, Withdrawal row and ledger entry
Debit(r) ==
    /\ pc[r] = "start"
    /\ status' = [status EXCEPT ![r] = "PROCESSING"]
    /\ debitRow' = [debitRow EXCEPT ![r] = "SUCCESSFUL"]
    /\ wallet' = [wallet EXCEPT ![r] = @ - 1]
    /\ Post(r, "wallet", "transit")
    /\ Goto(r, "send")
    /\ UNCHANGED <<aged, paystack, local>>

\* sendTransfer calls initiateTransfer
Send(r) ==
    /\ pc[r] = "send"
    /\ sent' = [sent EXCEPT ![r] = "inflight"]
    /\ Goto(r, "wait")
    /\ UNCHANGED <<money, aged, answer, transfer, notice, local>>

ToRefund(p, result) ==
    /\ Goto(p, "refund")
    /\ outcome' = [outcome EXCEPT ![p] = result]
    /\ UNCHANGED <<on, seen>>

\* applyTransferStatus; "FAILED" stands for failed, abandoned, blocked, rejected and otp,
\* "PENDING" for every status that is still on its way
Apply(p, s) ==
    \/ s = "SUCCESS"  /\ Goto(p, "mark") /\ UNCHANGED local
    \/ s = "FAILED"   /\ ToRefund(p, "FAILED")
    \/ s = "REVERSED" /\ ToRefund(p, "REVERSED")
    \/ s = "PENDING"  /\ End(p)

\* initiateTransfer returns, or throws a 4xx PaystackError
Answered(r) ==
    /\ pc[r] = "wait"
    /\ answer[r] # "NONE"
    /\ IF answer[r] = "REJECTED" THEN ToRefund(r, "FAILED") ELSE Apply(r, answer[r])
    /\ UNCHANGED <<money, aged, paystack>>

-----------------------------------------------------------------------------
\* confirmWithdrawal reads the row; only an open withdrawal goes on
ReadRow(c, w) ==
    /\ pc[c] = "idle"
    /\ status[w] \in {"PROCESSING", "SUCCESSFUL"}
    /\ on' = [on EXCEPT ![c] = w]
    /\ seen' = [seen EXCEPT ![c] = status[w]]
    /\ Goto(c, "verify")
    /\ UNCHANGED <<money, aged, paystack, outcome>>

\* Mutant: a transfer Paystack does not know has failed, however young it is
VerifyAtOnce(c) ==
    LET w == on[c] IN
    /\ pc[c] = "verify"
    /\ IF transfer[w] = "NONE"
       THEN IF seen[c] = "PROCESSING" THEN ToRefund(c, "FAILED") ELSE End(c)
       ELSE IF seen[c] = "PROCESSING" \/ transfer[w] = "REVERSED" THEN Apply(c, transfer[w]) ELSE End(c)
    /\ UNCHANGED <<money, aged, paystack>>

\* Mutant: a transfer Paystack does not know is left alone
VerifyKnown(c) ==
    LET w == on[c] IN
    /\ pc[c] = "verify"
    /\ IF transfer[w] # "NONE" /\ (seen[c] = "PROCESSING" \/ transfer[w] = "REVERSED")
       THEN Apply(c, transfer[w])
       ELSE End(c)
    /\ UNCHANGED <<money, aged, paystack>>

\* verifyTransfer answers, and confirmWithdrawal compares the age to the grace
Verify(c) ==
    LET w == on[c] IN
    /\ pc[c] = "verify"
    /\ IF transfer[w] = "NONE"
       THEN IF seen[c] = "PROCESSING" /\ w \in aged THEN ToRefund(c, "FAILED") ELSE End(c)
       ELSE IF seen[c] = "PROCESSING" \/ transfer[w] = "REVERSED" THEN Apply(c, transfer[w]) ELSE End(c)
    /\ UNCHANGED <<money, aged, paystack>>

\* Mutant: an update that does not ask for PROCESSING
MarkAnyway(p) ==
    /\ pc[p] = "mark"
    /\ status' = [status EXCEPT ![on[p]] = "SUCCESSFUL"]
    /\ Post(on[p], "transit", "clearing")
    /\ End(p)
    /\ UNCHANGED <<debitRow, wallet, aged, paystack>>

\* markSuccessful: the claim and the ledger entry, in one transaction
Mark(p) ==
    LET w == on[p] IN
    /\ pc[p] = "mark"
    /\ IF status[w] = "PROCESSING"
       THEN status' = [status EXCEPT ![w] = "SUCCESSFUL"] /\ Post(w, "transit", "clearing")
       ELSE UNCHANGED <<status, ledger>>
    /\ End(p)
    /\ UNCHANGED <<debitRow, wallet, aged, paystack>>

\* refundWithdrawal's transaction opens by reading the status
ReadBefore(p) ==
    /\ pc[p] = "refund"
    /\ seen' = [seen EXCEPT ![p] = status[on[p]]]
    /\ Goto(p, "claim")
    /\ UNCHANGED <<money, aged, paystack, on, outcome>>

\* Mutants: a refund that claims a withdrawal in any status, and one that claims only an unpaid one
ClaimableAlways(result) == {"PROCESSING", "SUCCESSFUL", "FAILED", "REVERSED"}
ClaimableUnpaid(result) == {"PROCESSING"}

\* The statuses a refund may claim
Claimable(result) == IF result = "REVERSED" THEN {"PROCESSING", "SUCCESSFUL"} ELSE {"PROCESSING"}

\* It then claims the withdrawal, credits the wallet, reverses the DEBIT row and posts the entry
Claim(p) ==
    LET w == on[p] IN
    /\ pc[p] = "claim"
    /\ IF status[w] \in Claimable(outcome[p])
       THEN /\ status' = [status EXCEPT ![w] = outcome[p]]
            /\ debitRow' = [debitRow EXCEPT ![w] = "REVERSED"]
            /\ wallet' = [wallet EXCEPT ![w] = @ + 1]
            /\ Post(w, IF seen[p] = "SUCCESSFUL" THEN "clearing" ELSE "transit", "wallet")
       ELSE UNCHANGED money
    /\ End(p)
    /\ UNCHANGED <<aged, paystack>>

\* A timeout, a Redis, database or Paystack error, or a crash: the call ends where it is.
\* invalidateBalance before the transfer is sent may throw too.  Jobs are retried as new calls.
Fail(p) ==
    /\ pc[p] \in {"send", "wait", "verify", "mark", "refund", "claim"}
    /\ End(p)
    /\ UNCHANGED <<money, aged, paystack>>

\* Insufficient funds, a limit, a busy lock
Refuse(r) == pc[r] = "start" /\ End(r) /\ UNCHANGED <<money, aged, paystack>>

-----------------------------------------------------------------------------
\* Paystack creates the transfer, rejects the request, or never gets it; the answer may be too late
Receive(w) ==
    /\ sent[w] = "inflight"
    /\ sent' = [sent EXCEPT ![w] = "arrived"]
    /\ \/ \E s \in {"PENDING", "SUCCESS", "FAILED"} :
            /\ transfer' = [transfer EXCEPT ![w] = s]
            /\ answer' = [answer EXCEPT ![w] = s]
       \/ /\ answer' = [answer EXCEPT ![w] = "REJECTED"]
          /\ UNCHANGED transfer
    /\ UNCHANGED <<money, aged, notice, pc, local>>

Lose(w) ==
    /\ sent[w] = "inflight"
    /\ sent' = [sent EXCEPT ![w] = "lost"]
    /\ UNCHANGED <<money, aged, answer, transfer, notice, pc, local>>

\* A reversal is announced by one webhook event, which is stored and queued, or never gets here
Announced(w) == \E n \in {"due", "over"} : notice' = [notice EXCEPT ![w] = n]

Settle(w, s) ==
    /\ transfer[w] = "PENDING"
    /\ transfer' = [transfer EXCEPT ![w] = s]
    /\ IF s = "REVERSED" THEN Announced(w) ELSE UNCHANGED notice
    /\ UNCHANGED <<money, aged, sent, answer, pc, local>>

\* Somebody has been told that w was paid and has not recorded it yet
Recording(w) ==
    \/ \E p \in Proc : on[p] = w /\ pc[p] = "mark"
    \/ pc[w] = "wait" /\ answer[w] = "SUCCESS"

Reverse(w) ==
    /\ transfer[w] = "SUCCESS"
    /\ SuddenReversals \/ ~Recording(w)
    /\ transfer' = [transfer EXCEPT ![w] = "REVERSED"]
    /\ Announced(w)
    /\ UNCHANGED <<money, aged, sent, answer, pc, local>>

\* Every attempt of the event's job has failed (PaystackEvents says what then happens to it)
GiveUp(w) ==
    /\ notice[w] = "due"
    /\ notice' = [notice EXCEPT ![w] = "over"]
    /\ UNCHANGED <<money, aged, sent, answer, transfer, pc, local>>

\* Ten minutes have passed.  Unless Stalls, the transfer request has reached Paystack or is lost by then.
Age(w) ==
    /\ status[w] # "NONE" /\ w \notin aged
    /\ Stalls \/ (pc[w] # "send" /\ sent[w] # "inflight")
    /\ aged' = aged \cup {w}
    /\ UNCHANGED <<money, paystack, pc, local>>

-----------------------------------------------------------------------------
RequestStep(r) == Debit(r) \/ Refuse(r) \/ Send(r) \/ Answered(r)

CallStep(p) == Mark(p) \/ ReadBefore(p) \/ Claim(p)

PaystackStep(w) == Receive(w) \/ Lose(w) \/ \E s \in {"SUCCESS", "FAILED", "REVERSED"} : Settle(w, s)

Next ==
    \/ \E r \in Request : RequestStep(r) \/ PaystackStep(r) \/ Reverse(r) \/ GiveUp(r) \/ Age(r)
    \/ \E c \in Checker : Verify(c) \/ \E w \in Request : ReadRow(c, w)
    \/ \E p \in Proc : CallStep(p) \/ Fail(p)

Spec == Init /\ [][Next]_vars

\* The reconciliation asks about w for as long as it is PROCESSING, and only as long
Reconciled(w) == status[w] = "PROCESSING" /\ \E c \in Checker : ReadRow(c, w)

\* The webhook worker asks about w while the job of its reversal's event has attempts left; whatever
\* the withdrawal's status, nothing else is sure to
Notified(w) == notice[w] = "due" /\ \E c \in Checker : ReadRow(c, w)

\* Paystack decides in the end, and no step fails every time it is tried
FairSpec ==
    /\ Spec
    /\ \A w \in Request : WF_vars(PaystackStep(w)) /\ WF_vars(Age(w)) /\ WF_vars(Send(w) \/ Fail(w))
                          /\ SF_vars(Reconciled(w)) /\ SF_vars(Notified(w))
    /\ \A c \in Checker : SF_vars(Verify(c)) /\ SF_vars(Mark(c)) /\ SF_vars(Claim(c)) /\ SF_vars(ReadBefore(c))

-----------------------------------------------------------------------------
Outcomes == {"NONE", "FAILED", "REVERSED"}
Statuses == {"NONE", "PROCESSING", "SUCCESSFUL", "FAILED", "REVERSED"}

TypeOK ==
    /\ status \in [Request -> Statuses]
    /\ debitRow \in [Request -> {"NONE", "SUCCESSFUL", "REVERSED"}]
    /\ wallet \in [Request -> Int]
    /\ ledger \in [Request -> [Account -> Int]]
    /\ aged \subseteq Request
    /\ sent \in [Request -> {"no", "inflight", "arrived", "lost"}]
    /\ answer \in [Request -> {"NONE", "PENDING", "SUCCESS", "FAILED", "REJECTED"}]
    /\ transfer \in [Request -> {"NONE", "PENDING", "SUCCESS", "FAILED", "REVERSED"}]
    /\ notice \in [Request -> {"none", "due", "over"}]
    /\ pc \in [Proc -> {"start", "send", "wait", "mark", "refund", "claim", "done", "idle", "verify"}]
    /\ on \in [Proc -> Request]
    /\ seen \in [Proc -> Statuses]
    /\ outcome \in [Proc -> Outcomes]

Open == {"PROCESSING", "SUCCESSFUL"}

\* The debit is given back exactly once, when the withdrawal fails or is reversed and never otherwise,
\* whoever finds out and however many do ("Returns a withdrawal's money to the wallet - exactly once");
\* the DEBIT row, the stored balance and the ledger's wallet account tell the same story.
RefundedExactlyOnce ==
    \A w \in Request :
        /\ wallet[w] = IF status[w] \in Open THEN -1 ELSE 0
        /\ ledger[w]["wallet"] = wallet[w]
        /\ debitRow[w] = CASE status[w] = "NONE" -> "NONE"
                           [] status[w] \in Open -> "SUCCESSFUL"
                           [] OTHER              -> "REVERSED"

\* The system accounts say where the money is: in transit while PROCESSING, out of the Paystack
\* balance once paid, nowhere once refunded ("Withdrawals sent to banks, not yet confirmed").
LedgerFollowsStatus ==
    \A w \in Request :
        /\ ledger[w]["transit"] = IF status[w] = "PROCESSING" THEN 1 ELSE 0
        /\ ledger[w]["clearing"] = IF status[w] = "SUCCESSFUL" THEN 1 ELSE 0

\* The wallet never says something the bank contradicts: a refunded withdrawal has no live or paid
\* transfer, now or later, and a withdrawal is called paid or reversed only if Paystack said so.
NeverRefundedAndPaid ==
    \A w \in Request :
        /\ status[w] = "FAILED"     => transfer[w] \in {"NONE", "FAILED"}
        /\ status[w] = "REVERSED"   => transfer[w] = "REVERSED"
        /\ status[w] = "SUCCESSFUL" => transfer[w] \in {"SUCCESS", "REVERSED"}

\* However late or repeated the calls are, a withdrawal moves only forward: a refund is final, and
\* a paid withdrawal can only be reversed.
StatusForward ==
    [][\A w \in Request :
        status'[w] # status[w] =>
            \/ status[w] = "NONE" /\ status'[w] = "PROCESSING"
            \/ status[w] = "PROCESSING" /\ status'[w] \in {"SUCCESSFUL", "FAILED", "REVERSED"}
            \/ status[w] = "SUCCESSFUL" /\ status'[w] = "REVERSED"]_vars

\* No withdrawal stays PROCESSING for ever, even if its request died before or after the transfer
\* was sent and every webhook was lost.
WithdrawalSettles == \A w \in Request : status[w] = "PROCESSING" ~> status[w] # "PROCESSING"

\* Money Paystack sends back reaches the wallet again, however often a call about it fails, with one
\* exception: the withdrawal had been recorded as paid, and the reversal's event never came or its job
\* gave up.  The reconciliation does not look at SUCCESSFUL withdrawals.
ReversalIsRefunded ==
    \A w \in Request :
        transfer[w] = "REVERSED" ~> status[w] = "REVERSED" \/ (status[w] = "SUCCESSFUL" /\ notice[w] = "over")
=============================================================================
