--------------------------- MODULE WalletService ---------------------------
(***************************************************************************)
(* The services that move money between wallets: creditWallet and          *)
(* debitWallet (wallet.service.ts), transferFunds (transfer.service.ts)    *)
(* and reverseTransaction (reversal.service.ts), with their PENDING rows,  *)
(* idempotency records, failures at every awaited call, and crashes.       *)
(* The locked transaction is one step, Commit: WalletLock shows when that  *)
(* is justified.                                                           *)
(***************************************************************************)
EXTENDS Integers, FiniteSets, FiniteSetsExt

CONSTANTS
    Wallet, InitBalance,
    Req,            \* requests reaching a service, one call each
    Calls,          \* the calls clients may make (records, see Call)
    Faults,         \* which failures happen: subset of {"redis", "db", "crash"}
    SerialRetries   \* TRUE: a client repeats a call only after the first one was answered

Kinds == {"credit", "debit", "transfer", "reverse"}
NoKey == "none"
NoRow == [user |-> 0, type |-> "NONE", status |-> "NONE", amount |-> 0, transfer |-> 0, reverses |-> <<0, 0>>]
NoId  == <<0, 0>>

RowId == Req \X {1, 2}      \* the first and second Transaction row a request creates

ASSUME ServiceAssumption ==
    /\ Wallet \subseteq Nat \ {0} /\ Req \subseteq Nat \ {0}
    /\ InitBalance \in [Wallet -> Nat]
    /\ Faults \subseteq {"redis", "db", "crash"}
    /\ SerialRetries \in BOOLEAN
    /\ Calls \subseteq [kind: Kinds, user: Wallet, to: Wallet \cup {0}, amount: Nat, key: STRING,
                        target: RowId \cup {NoId}]
    /\ \A c \in Calls :       \* nobody transfers to the own wallet; a reversal is named by its row alone
        /\ c.to # c.user /\ (c.to # 0 <=> c.kind = "transfer")
        /\ c.target # NoId <=> c.kind = "reverse"
        /\ c.kind = "reverse" => c.amount = 0 /\ c.key = NoKey

VARIABLES
    row,        \* Transaction table, by row id
    balance,    \* Wallet.balance
    ledger,     \* minus the sum of each wallet account's LedgerLines
    idem,       \* idempotency:<user>:<key> records: the request whose response is saved, 0 if none
    pc, call,   \* where each request is, and the call it serves
    pair,       \* for a transfer reversal, the row found as the receiver's side
    reply,      \* what the client got: the request whose result it was given, -1 an error, 0 nothing
    beside,     \* history: reversals, and calls with one key, that were under way at the same time
    moved,      \* history: requests that have committed
    kept        \* history: requests that have got as far as their idempotency record

service == <<row, balance, ledger, idem, pc, call, pair, reply>>
vars == <<service, beside, moved, kept>>

NoCall == [kind |-> "none", user |-> 0, to |-> 0, amount |-> 0, key |-> NoKey, target |-> NoId]

Init ==
    /\ row = [id \in RowId |-> NoRow]
    /\ balance = InitBalance
    /\ ledger = InitBalance
    /\ idem = [k \in {<<c.user, c.key>> : c \in Calls} |-> 0]
    /\ pc = [r \in Req |-> "idle"]
    /\ call = [r \in Req |-> NoCall]
    /\ pair = [r \in Req |-> NoId]
    /\ reply = [r \in Req |-> 0]
    /\ beside = {} /\ moved = {} /\ kept = {}

-----------------------------------------------------------------------------
Pending(u, t, a, tr, rev) ==
    [user |-> u, type |-> t, status |-> "PENDING", amount |-> a, transfer |-> tr, reverses |-> rev]

Opposite(t) == IF t = "CREDIT" THEN "DEBIT" ELSE "CREDIT"

IsTransferReversal(c) == c.kind = "reverse" /\ row[c.target].transfer # 0

\* The rows a reversal undoes: the requested one and, for a transfer, the receiver's
Originals(r) == <<call[r].target, pair[r]>>

\* The rows a request creates before it takes the lock
NewRows(r) ==
    LET c == call[r]
        o == row[c.target]
        q == row[pair[r]]
    IN  CASE c.kind = "credit" -> <<Pending(c.user, "CREDIT", c.amount, 0, NoId)>>
          [] c.kind = "debit"  -> <<Pending(c.user, "DEBIT", c.amount, 0, NoId)>>
          [] c.kind = "transfer" -> <<Pending(c.user, "DEBIT", c.amount, r, NoId),
                                      Pending(c.to, "CREDIT", c.amount, r, NoId)>>
          [] IsTransferReversal(c) -> <<Pending(c.user, "CREDIT", o.amount, o.transfer, Originals(r)[1]),
                                        Pending(q.user, "DEBIT", q.amount, q.transfer, Originals(r)[2])>>
          [] OTHER -> <<Pending(o.user, Opposite(o.type), o.amount, 0, Originals(r)[1])>>

Legs(r) == {l \in {1, 2} : row[<<r, l>>] # NoRow}

Goto(r, label) == pc' = [pc EXCEPT ![r] = label]

Answer(r, what) ==
    /\ Goto(r, "done")
    /\ reply' = [reply EXCEPT ![r] = what]

\* A client calls; creditWallet, debitWallet and transferFunds first look the key up
Start(r, c) ==
    /\ pc[r] = "idle"
    /\ SerialRetries => \A q \in Req : call[q] = c => pc[q] = "done"
    /\ c.target # NoId => c.target[1] # r /\ row[c.target] # NoRow
    /\ call' = [call EXCEPT ![r] = c]
    /\ \/ /\ c.kind # "reverse" /\ c.key # NoKey /\ idem[<<c.user, c.key>>] # 0
          /\ Answer(r, idem[<<c.user, c.key>>])
       \/ /\ c.kind # "reverse" /\ (c.key = NoKey \/ idem[<<c.user, c.key>>] = 0)
          /\ Goto(r, "create")
          /\ UNCHANGED reply
       \/ /\ c.kind = "reverse"
          /\ \/ /\ row[c.target].user = c.user
                /\ row[c.target].reverses = NoId
                /\ row[c.target].status = "SUCCESSFUL"
                /\ Goto(r, "check")
                /\ UNCHANGED reply
             \/ /\ \/ row[c.target].user # c.user
                   \/ row[c.target].reverses # NoId
                   \/ row[c.target].status # "SUCCESSFUL"
                /\ Answer(r, -1)
    /\ UNCHANGED <<row, balance, ledger, idem, pair>>

\* reverseTransaction looks for an earlier reversal that has not failed.  Deposits and withdrawals, which
\* it also refuses, have no row in this module.
FindReversal(r) ==
    /\ pc[r] = "check"
    /\ IF \E id \in RowId : row[id].reverses = call[r].target /\ row[id].status # "FAILED"
       THEN Answer(r, -1)
       ELSE /\ Goto(r, IF IsTransferReversal(call[r]) THEN "pair" ELSE "create")
            /\ UNCHANGED reply
    /\ UNCHANGED <<row, balance, ledger, idem, call, pair>>

\* reverseTransfer takes as the receiver's side the first CREDIT row of the transfer the database
\* returns, in no particular order
FindPair(r) ==
    /\ pc[r] = "pair"
    /\ \E id \in RowId :
        /\ row[id].transfer = row[call[r].target].transfer /\ row[id].type = "CREDIT"
        /\ IF row[id].status = "SUCCESSFUL"
           THEN Goto(r, "create") /\ pair' = [pair EXCEPT ![r] = id] /\ UNCHANGED reply
           ELSE Answer(r, -1) /\ UNCHANGED pair
    /\ UNCHANGED <<row, balance, ledger, idem, call>>

\* The PENDING rows; the two of a transfer are separate inserts, and one may fail
Create(r) ==
    /\ pc[r] = "create"
    /\ LET new == NewRows(r) IN
        \/ /\ row' = [id \in RowId |-> IF id[1] = r /\ id[2] \in DOMAIN new THEN new[id[2]] ELSE row[id]]
           /\ Goto(r, "pending")
           /\ UNCHANGED reply
        \/ /\ "db" \in Faults
           /\ \E made \in SUBSET DOMAIN new :
                /\ made # DOMAIN new
                /\ row' = [id \in RowId |-> IF id[1] = r /\ id[2] \in made THEN new[id[2]] ELSE row[id]]
           /\ Answer(r, -1)
    /\ UNCHANGED <<balance, ledger, idem, call, pair>>

-----------------------------------------------------------------------------
(***************************************************************************)
(* The locked transaction.  Move(u, a) adds a to wallet u.                 *)
(***************************************************************************)
Move(u, a) == [w \in Wallet |-> IF w = u THEN a ELSE 0]
Plus(f, g) == [w \in Wallet |-> f[w] + g[w]]
Negative(f) == [w \in Wallet |-> -f[w]]

\* The wallet lines of the entry a direct credit or debit, or a transfer, posts
Posted(q) ==
    CASE call[q].kind = "credit"   -> Move(call[q].user, call[q].amount)
      [] call[q].kind = "debit"    -> Move(call[q].user, -call[q].amount)
      [] call[q].kind = "transfer" -> Plus(Move(call[q].user, -call[q].amount), Move(call[q].to, call[q].amount))
      [] OTHER -> [w \in Wallet |-> 0]

\* Mutant: no check
NothingChecked(r) == <<call[r].user, 0>>

\* The wallet whose funds are checked, and the amount: 0 for a plain credit
Checked(r) ==
    LET c == call[r] IN
    CASE c.kind \in {"debit", "transfer"} -> <<c.user, c.amount>>
      [] IsTransferReversal(c) -> <<row[pair[r]].user, row[pair[r]].amount>>
      [] c.kind = "reverse" /\ row[c.target].type = "CREDIT" -> <<c.user, row[c.target].amount>>
      [] OTHER -> <<c.user, 0>>

\* Balances written: each is read, then set to an absolute value.  When both sides of a transfer
\* reversal are one wallet, both values come from the same reading and the last write stays.
Written(r) ==
    LET c == call[r] IN
    CASE c.kind # "reverse" -> Plus(balance, Posted(r))
      [] IsTransferReversal(c) ->
            [w \in Wallet |-> CASE w = row[pair[r]].user -> balance[w] - row[pair[r]].amount
                                [] w = c.user            -> balance[w] + row[c.target].amount
                                [] OTHER                 -> balance[w]]
      [] OTHER -> Plus(balance, Move(c.user, IF row[c.target].type = "CREDIT" THEN -row[c.target].amount
                                                                              ELSE row[c.target].amount))

\* Mutant: only the first row is marked
FirstSettled(r) == [row EXCEPT ![<<r, 1>>].status = "SUCCESSFUL"]

\* Mutant: the reversed rows are not marked
OriginalsStay(r) ==
    [id \in RowId |-> IF id[1] = r /\ row[id] # NoRow THEN [row[id] EXCEPT !.status = "SUCCESSFUL"] ELSE row[id]]

\* Rows marked in the same transaction: the new ones SUCCESSFUL, the reversed ones REVERSED
Settled(r) ==
    [id \in RowId |->
        CASE id[1] = r /\ row[id] # NoRow -> [row[id] EXCEPT !.status = "SUCCESSFUL"]
          [] call[r].kind = "reverse" /\ id \in {Originals(r)[1], Originals(r)[2]} -> [row[id] EXCEPT !.status = "REVERSED"]
          [] OTHER -> row[id]]

\* Mutant: a reversal posts the original once more
SameEntry(r) == IF call[r].kind # "reverse" THEN Posted(r) ELSE Posted(call[r].target[1])

\* A reversal mirrors the entry of the original: found by its transfer, or by its own transaction id
Entry(r) == IF call[r].kind # "reverse" THEN Posted(r) ELSE Negative(Posted(call[r].target[1]))

Commit(r) ==
    /\ pc[r] = "pending"
    /\ balance[Checked(r)[1]] >= Checked(r)[2]
    /\ balance' = Written(r)
    /\ row' = Settled(r)
    /\ ledger' = Plus(ledger, Entry(r))
    /\ Goto(r, "committed")
    /\ UNCHANGED <<idem, call, pair, reply>>

\* Lock not acquired, insufficient funds, a limit, or a failed transaction: nothing was written
Refuse(r) ==
    /\ pc[r] = "pending"
    /\ \/ balance[Checked(r)[1]] < Checked(r)[2]
       \/ Faults # {}
    /\ Goto(r, "failing")
    /\ UNCHANGED <<row, balance, ledger, idem, call, pair, reply>>

-----------------------------------------------------------------------------
\* Mutant: no idempotency record
FinishUnsaved(r) ==
    /\ pc[r] = "committed"
    /\ IF call[r].kind = "transfer" THEN Goto(r, "notify") /\ UNCHANGED reply
                                    ELSE Answer(r, r)
    /\ UNCHANGED <<row, balance, ledger, idem, call, pair>>

\* Still inside the try block: invalidateBalance, releaseLock, saveIdempotencyRecord, notifyTransfer
Finish(r) ==
    /\ pc[r] = "committed"
    /\ idem' = IF call[r].kind # "reverse" /\ call[r].key # NoKey
               THEN [idem EXCEPT ![<<call[r].user, call[r].key>>] = r] ELSE idem
    /\ IF call[r].kind = "transfer" THEN Goto(r, "notify") /\ UNCHANGED reply
                                    ELSE Answer(r, r)
    /\ UNCHANGED <<row, balance, ledger, call, pair>>

\* Redis fails after the commit, in the cache, the lock release or the idempotency record
RedisFails(r) ==
    /\ "redis" \in Faults
    /\ pc[r] = "committed"
    /\ Goto(r, "failing")
    /\ UNCHANGED <<row, balance, ledger, idem, call, pair, reply>>

\* notifyTransfer reads the sender's name, then notify() swallows every failure
Notify(r) ==
    /\ pc[r] = "notify"
    /\ \/ Answer(r, r)
       \/ "db" \in Faults /\ Goto(r, "failing") /\ UNCHANGED reply
    /\ UNCHANGED <<row, balance, ledger, idem, call, pair>>

\* The catch block: each row of the request is set to FAILED, in an update of its own
MarkFailed(r, l) ==
    /\ pc[r] = "failing"
    /\ l \in Legs(r) /\ row[<<r, l>>].status # "FAILED"
    /\ row' = [row EXCEPT ![<<r, l>>].status = "FAILED"]
    /\ UNCHANGED <<balance, ledger, idem, pc, call, pair, reply>>

\* Mutant: no catch block
RethrowAtOnce(r) ==
    /\ pc[r] = "failing"
    /\ Answer(r, -1)
    /\ UNCHANGED <<row, balance, ledger, idem, call, pair>>

\* The error is rethrown; a failed update in the catch block leaves its row as it was
Rethrow(r) ==
    /\ pc[r] = "failing"
    /\ "db" \in Faults \/ \A l \in Legs(r) : row[<<r, l>>].status = "FAILED"
    /\ Answer(r, -1)
    /\ UNCHANGED <<row, balance, ledger, idem, call, pair>>

\* The process dies: an open transaction rolls back, and nothing else is undone
Crash(r) ==
    /\ "crash" \in Faults
    /\ pc[r] \notin {"idle", "done"}
    /\ Goto(r, "done")
    /\ UNCHANGED <<row, balance, ledger, idem, call, pair, reply>>

Step(r) ==
    \/ FindReversal(r) \/ FindPair(r) \/ Create(r) \/ Commit(r) \/ Refuse(r) \/ Finish(r)
    \/ RedisFails(r) \/ Notify(r) \/ Rethrow(r)
    \/ \E l \in {1, 2} : MarkFailed(r, l)

Serve == \E r \in Req : Step(r) \/ Crash(r) \/ \E c \in Calls : Start(r, c)

Live(r) == pc[r] \notin {"idle", "done"}
OneKey(r, q) == call[r].key # NoKey /\ call[q].key = call[r].key /\ call[q].user = call[r].user
Rivals(r, q) == OneKey(r, q) \/ (call[r].kind = "reverse" /\ call[q].kind = "reverse")

\* What has been seen of the requests, for the properties
Remember ==
    /\ beside' = beside \cup {p \in Req \X Req : (p[1] # p[2] /\ Live(p[1]) /\ Live(p[2]) /\ Rivals(p[1], p[2]))'}
    /\ moved' = moved \cup {r \in Req : pc[r] = "pending" /\ pc'[r] = "committed"}
    /\ kept' = kept \cup {r \in Req : pc[r] = "committed" /\ (pc'[r] = "notify" \/ reply'[r] = r)}

Next == Serve /\ Remember

Spec == Init /\ [][Next]_vars

\* The runtime keeps running every request that has started
FairSpec == Spec /\ \A r \in Req : WF_service(Step(r))

-----------------------------------------------------------------------------
TypeOK ==
    /\ row \in [RowId -> [user: Wallet \cup {0}, type: {"NONE", "CREDIT", "DEBIT"},
                          status: {"NONE", "PENDING", "SUCCESSFUL", "FAILED", "REVERSED"},
                          amount: Nat, transfer: Req \cup {0}, reverses: RowId \cup {NoId}]]
    /\ balance \in [Wallet -> Nat]
    /\ ledger \in [Wallet -> Int]
    /\ idem \in [DOMAIN idem -> Req \cup {0}]
    /\ pc \in [Req -> {"idle", "check", "pair", "create", "pending", "committed", "notify", "failing", "done"}]
    /\ call \in [Req -> Calls \cup {NoCall}]
    /\ pair \in [Req -> RowId \cup {NoId}]
    /\ reply \in [Req -> Req \cup {-1, 0}]

\* Mutant: a reversed transaction does not count
CountedOnce(u, t) == {id \in RowId : row[id].user = u /\ row[id].type = t /\ row[id].status = "SUCCESSFUL"}

\* BALANCE_STATUSES: a reversed transaction counts, because its reversal is a row of its own
Counted(u, t) == {id \in RowId : row[id].user = u /\ row[id].type = t /\ row[id].status \in {"SUCCESSFUL", "REVERSED"}}

Total(ids) == SumFunctionOnSet([id \in RowId |-> row[id].amount], ids)

\* computeBalance: what a user's history adds up to
ComputedBalance(u) == InitBalance[u] + Total(Counted(u, "CREDIT")) - Total(Counted(u, "DEBIT"))

\* The three balances reconciliation compares (README "Reconciliation checks that stored balance, sum of
\* transactions and ledger balance agree for every wallet") agree in every state, not only at rest.
HistoryMatchesBalance == \A u \in Wallet : ComputedBalance(u) = balance[u]

\* The ledger explains every stored balance, unless two reversals of one movement have been under way at
\* the same time: the later may take a row of the earlier for the receiver's, and move its money twice over.
LedgerMatchesBalance ==
    (\A p \in beside : call[p[1]].kind = "reverse" => call[p[1]].target[1] # call[p[2]].target[1]) => balance = ledger

\* Both legs of a transfer, and of its reversal, succeed or are reversed together.
LegsTogether ==
    \A r \in Req : \A s \in {"SUCCESSFUL", "REVERSED"} :
        row[<<r, 2>>] # NoRow => (row[<<r, 1>>].status = s <=> row[<<r, 2>>].status = s)

Moved(r) == \E l \in {1, 2} : row[<<r, l>>].status \in {"SUCCESSFUL", "REVERSED"}

\* A key executes once: of the answered calls a user makes with one key at most one moves money, and each
\* answer that is not an error is the result of a call that did.
IdempotentOnce ==
    \A r, q \in Req :
        /\ call[r].key # NoKey /\ call[r].kind # "reverse"
        /\ call[q].user = call[r].user /\ call[q].key = call[r].key
        => /\ Moved(r) /\ Moved(q) /\ reply[r] # 0 /\ reply[q] # 0 => r = q
           /\ reply[q] = r => Moved(r)

\* A transaction is undone at most once ("Transaction has already been reversed").
ReversedOnce ==
    \A id \in RowId : Cardinality({x \in RowId : row[x].reverses = id /\ row[x].status = "SUCCESSFUL"}) <= 1

\* A reversal that begins after another one has undone the transaction is refused, whatever has failed in
\* between: two requests that have undone one row were under way at the same time.
ReversedApart ==
    \A a, b \in moved : \A k, l \in {1, 2} :
        a # b /\ row[<<a, k>>].reverses = row[<<b, l>>].reverses /\ row[<<a, k>>].reverses # NoId => <<a, b>> \in beside

\* A request that moved money and ended before its key was recorded
Lost(r) == pc[r] = "done" /\ r \notin kept

\* A key moves money once, except that two calls under way at the same time both may, and so may one after
\* another that has committed and been cut off before it recorded the key; and an answer that is not an
\* error is the result of a call that moved money.
KeyMovesOnce ==
    /\ \A r, q \in moved : r # q /\ OneKey(r, q) => <<r, q>> \in beside \/ Lost(r) \/ Lost(q)
    /\ \A q \in Req : reply[q] \in Req => reply[q] \in moved

\* A request that ended without an answer
Crashed(r) == pc[r] = "done" /\ reply[r] = 0

\* Once its rows exist, a request that is not cut off by a crash leaves none of them PENDING.
RowsSettle ==
    \A r \in Req : pc[r] = "pending" ~> Crashed(r) \/ \A l \in Legs(r) : row[<<r, l>>].status # "PENDING"
=============================================================================
