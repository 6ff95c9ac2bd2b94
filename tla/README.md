# PurpleWallet: a TLA+ model of the wallet API

This directory holds TLA+ specifications of the PurpleWallet API (`apps/api`): the money-moving
core, the back office that corrects it, and what belongs to a user's account. They say what the
services do at each awaited call, what may happen between two of them, and which promises survive.
TLC checks small instances; TLAPS proves the most important properties for every instance. Paths below are relative to `apps/api/src/` unless they start with `apps/`.

Contents: 1 the system, 2 the plan, 3 the modules, 4 the runs, 5 bounds and fairness, 6 the
proofs, 7 disagreements between code and documentation, 8 what is not modelled.

## 1. The system

An Express API in TypeScript, of which several instances may run, over PostgreSQL (through Prisma,
READ COMMITTED), Redis (locks, caches, idempotency records) and BullMQ workers. Paystack takes and
pays out the real money. All state lives in PostgreSQL and Redis; a process keeps nothing but the
local variables of the requests it serves, so a crash is the loss of those and of the open
database transaction.

### Components, state, operations

| Component (source) | State | Operations |
|---|---|---|
| Wallet lock (`utils/lock.utils.ts`) | Redis keys `wallet:lock:<id>` with a token and a 10 s lease | `withLock`, `withMultiLock` (sorted keys, 50 tries of 100 ms each), release script |
| Direct funding, transfers, reversals (`services/wallet`, `transfer`, `reversal.service.ts`) | `Wallet.balance`, `Transaction` rows with status, `transferId`, `reversedTransactionId` | `creditWallet`, `debitWallet`, `transferFunds`, `reverseTransaction`, `computeBalance` |
| Idempotency records (`utils/idempotency.utils.ts`) | Redis `idempotency:<user>:<key>`, 24 h | look up before the work, save after it |
| Ledger (`services/ledger/ledger.service.ts`) | `JournalEntry` and `LedgerLine` rows, append-only | `post`, `postReversal`, `walletsOffLedger` |
| Deposits (`services/payments/deposit.service.ts`) | `Deposit` rows PENDING, SUCCESSFUL, FAILED, ABANDONED | `createDeposit`, `confirmDeposit`, `getDeposit` |
| Withdrawals (`services/payments/withdrawal.service.ts`) | `Withdrawal` rows PROCESSING, SUCCESSFUL, FAILED, REVERSED and their DEBIT rows | `createWithdrawal`, `confirmWithdrawal`, mark, refund |
| Paystack webhooks (`paystack-webhook.service.ts`, `paystack.queue.ts`, its worker) | `PaystackEvent` rows with `processedAt`, BullMQ jobs keyed by event | record, queue, acknowledge, process, retry |
| Reconciliation (`payments/reconcile.service.ts`) | nothing of its own | batches of 50 oldest deposits, withdrawals, events; abandons day-old deposits |
| Paystack client, simulator | nothing (the simulator: memory) | HTTP calls |
| Adjustments (`services/admin/adjustments.service.ts`) | `Adjustment` rows PENDING, APPROVED, REJECTED, with who asked and who decided | request, approve, reject; `applyAdjustment` |
| Staff roles (`services/admin/staff.service.ts`, `scripts/admin-role.ts`, `admin.service.ts`) | `User.role`, `frozenAt` | `setStaffRole`, the script, freeze, unfreeze |
| Limits (`services/limits.service.ts`) | nothing; derived from `Transaction` rows and `User.tier` | `assertCanSend`, `assertCanReceive`, `spentToday` |
| Tier upgrades (`services/kyc`) | `TierUpgradeRequest` rows, `KycDocument` photos, `User.tier` | submit, decide, purge; `setUserTier` |
| PIN (`services/security/pin.service.ts`) | `pinFailedAttempts`, `pinLockedUntil` | verify, set, change, unlock |
| Password and verification links (`password.service.ts`, `verification.service.ts`) | one row per link with expiry and `usedAt`; cooldown keys and a daily counter in Redis | request, resend, follow, change password |
| Sessions (`auth.controller.ts`, `auth.middleware.ts`, `tokenBlacklist.utils.ts`) | tokens (with the client), the blacklist in Redis, `passwordChangedAt` | login, logout, authenticate |
| User webhooks (`webhook.service.ts`, its queue and worker) | endpoints, `WebhookDelivery` rows, jobs | dispatch, call, record, retry |
| Notifications (`services/notifications`, queue, worker) | `Notification` rows, jobs | notify, store, email, retry |
| Spending insights (`services/insights`, queue, worker) | the opt-in, the stored insight, categories of payments, one job per user | opt in and out, refresh, categorise, correct |
| Lists (`pageArgs`, `toPage` in `admin.service.ts` and their copies) | nothing; a cursor with the client | next page |
| Bank accounts, assistant, statements, statistics | rows and derived reports | mostly reads |
| HTTP layer, schema and migrations, web application | none or configuration | routing, validation, startup |

### How they interact

- A service that moves money takes the wallet's lock in Redis, opens a database transaction, reads
  balances, writes *absolute* new balances, `Transaction` rows and ledger lines, and releases the
  lock in a `finally`. The lock is a lease that nobody renews. The database does not protect the
  balance on its own.
- `transferFunds`, `reverseTransaction` and direct funding write PENDING rows *before* the lock,
  and a catch block marks them FAILED. That block also covers the calls after the commit (cache,
  lock release, idempotency record, notification).
- A deposit is settled, and a withdrawal finished, by whoever learns of it first: the callback
  page or the request itself, the webhook worker, a follow-up job, the reconciliation, an
  administrator. They all ask Paystack's verify endpoint and then claim the row with an
  `updateMany` that names the status they expect.
- Requests that staff must decide are claimed the same way, by an `updateMany` that names PENDING;
  what the decision was based on (is there a second approver? is this the last owner?) has been
  read in an earlier statement.
- What a user's account remembers is read and written by independent statements of independent
  requests: the PIN's counter, the links, the blacklist and `passwordChangedAt`, the opt-in.
- Webhook events are stored, queued, then acknowledged; a worker calls `confirmDeposit` or
  `confirmWithdrawal`. The reconciliation queues stored events again under the same job id.

### Where it is hard

Leases that expire inside the locked section; reads made before a lock or a claim and used after
it (reversal checks, idempotency lookups, the refund's status); failures after a commit; crashes
between two statements; concurrent answers, repeated and reordered events; batches whose head
never moves; job ids that swallow later additions; counters compared before they are counted;
clocks of different precision; rows that leave a list while somebody reads it page by page.
`PROJECT.json` lists each at its line, with the properties that cover it, or why none does.

### What makes each component correct

- *Lock*: no two movements are computed from one reading of a balance; no wallet is overdrawn; a
  request never frees another's key; transfers in opposite directions do not wait for each other;
  requests end, and keys of dead processes disappear.
- *Services*: history, stored balance and ledger agree; both legs of a transfer share a fate; a
  key executes once; a transaction is reversed once; a committed row is never called failed.
- *Deposits*: credited exactly once if and only if paid; an outcome is final; paid money is not
  written off; every deposit ends.
- *Withdrawals*: refunded exactly once if and only if failed or reversed; statuses move forward;
  system accounts follow the statuses; what the wallet says never contradicts the bank; every one
  settles.
- *Events*: an event marked processed has had its effect; an acknowledged one is not lost; every
  stored one is processed.
- *Adjustments and staff*: an adjustment is decided once and moves money exactly when approved;
  nobody approves their own large one while somebody else could; one owner always remains.
- *Limits*: what payments of one day take out of a wallet never exceeds the allowance, whatever
  runs at once and whatever comes back.
- *Upgrades*: one decision per request, and the tier rises exactly when it is an approval.
- *PIN*: a bound on wrong guesses, whatever runs in parallel or fails. *Sessions*: a token signed
  out gets in nowhere, a newer one is not taken for it. *Links*: none works twice, and none undoes
  a later change of the password.
- *Webhooks, notifications*: the records are true: nothing is claimed that did not happen, and a
  job that gave up has made all its attempts.
- *Insights*: a user's own category stays, and nothing is kept of who has opted out.
- *Lists*: whoever reads to the last page has seen every row that was there all the while, once.

## 2. The plan

Most important first; everything in it is done.

| # | Modules | About | Proofs |
|---|---|---|---|
| 1 | `WalletOps`, `AtomicWallet`, `WalletLock` | the lock, and that locked sections implement atomic movements | `WalletLockProofs` |
| 2 | `WalletService` | rows, retries, reversals, failures around the atomic movement | `Sums`, `WalletServiceProofs` |
| 3 | `Withdrawal` | the withdrawal state machine against Paystack | `WithdrawalProofs` |
| 4 | `Deposit` | the same for deposits, with sweeps | `DepositProofs` |
| 5 | `PaystackEvents` | store, queue, retry, redeliver | `PaystackEventsProofs` |
| 6 | `Decision`, `Staff`, `Adjustments`, `Kyc` | what staff decide, and who the staff is meanwhile | `ConsoleProofs` |
| 7 | `Links`, `Sessions`, `Pin` | what guards an account | `AccountProofs` |
| 8 | `Limits` | `spentToday` against locks, failures, refunds, midnight | `Sums`, `AccountProofs` |
| 9 | `Delivery`, `Insights` | the queues behind a movement of money | `AccountProofs` |
| 10 | `Paging` | the lists, read while they change | `ConsoleProofs` |

`WalletLock` INSTANCEs `AtomicWallet`: the detailed module is shown to implement the abstract one,
and every later module uses a wallet movement as one step on that authority. In the same way
`Adjustments` and `Kyc` are both shown to implement `Decision`. `Adjustments` EXTENDS `Staff` and
composes with it: the staff changes between the awaits of an approval. `PaystackEvents` calls
`confirmDeposit` and `confirmWithdrawal` through what `Deposit` and `Withdrawal` promise of them.
For deposits and withdrawals the abstract promise is small enough to be an action property
(`OutcomeFinal`, `StatusForward`).

The number of runs is kept small: one or two per module that ask everything that can be asked of
one instance, and separate ones only where the environment has to differ. The ten parts of the
back office and the account, which share nothing, are instances of one run, `Accounts`.

## 3. The modules

Each module is in the order of the code: state, `Init`, one action per awaited call or
transaction, `Next`, `Spec`, `FairSpec`, properties. An operator under a comment *Mutant:* is a
plausible bug, kept beside the definition it would replace; nothing uses it, and putting it in
place of that definition makes the property named in `PROJECT.json` fail.

Where the code keeps a promise except in one race, the race is not taken out of the model: a
*history variable* records it when it happens, and the property excuses exactly what is recorded.
History variables are `beside`, `moved`, `kept` (WalletService), `late` (Deposit), `overtaken`
(Staff), `alone` (Adjustments), `most`, `wrong`, `lost` (Pin), `born`, `out`, `fresh` (Sessions) and
`early` (Insights). No guard of an action reads one.

### WalletOps, AtomicWallet, WalletLock

`WalletOps` has the movements (credit, debit, transfer) and what each adds to a wallet.
`AtomicWallet` is the promise: a balance changes only by a whole movement applied to the balances
of that moment, and a debit only if the money is there.

`WalletLock` models `withLock` and `withMultiLock` around the read-then-write transactions. `lock`
and `lease` are Redis; `balance` and `ledger` the database; `pc`, `op`, `held`, `timer`, `seen`
the locals of each request. `Acquire` is `SET NX PX`, `GiveUp` the last failed try, `ReadWallet`
and `Commit` the transaction, `Release` the compare-and-delete script or its failure, `Crash` the
death of the process with its keys left behind. `Tick` is time: leases run down and expire, a
request's own deadline is acted on before time passes it. A tick is 2.5 s, which makes the lease 4
ticks, the wait for one key 2, and Prisma's `maxWait` + `timeout` (2 s + 5 s) at most 3.

A release is modelled as one step that either runs the script or leaves the key to its lease, so
releases of two keys interleave with everything. A transaction commits in one step: that its own
writes are atomic is the database's promise.

### WalletService

`creditWallet`, `debitWallet`, `transferFunds` and `reverseTransaction` with their PENDING rows.
`row` is the `Transaction` table (two rows per request at most), `idem` the idempotency records,
`balance` and `ledger` as before, `pair` the receiver's row a transfer reversal found. `Start`
looks the key up or checks the row to be reversed; `FindReversal`, `FindPair`, `Create`, `Commit`,
`Finish`, `Notify` follow the code; `Refuse`, `RedisFails`, `MarkFailed` (one row per update) and
`Rethrow` are the error paths; `Crash` ends a request anywhere. The locked transaction is the
single step `Commit`, as `WalletLock` justifies. Which failures occur (`Faults`) and whether
clients wait for an answer before they repeat a call (`SerialRetries`) are constants. Limits and
busy locks appear as `Refuse`, a possible outcome. `Serve` is what the services do, and `Remember`
adds to the histories: `beside` the reversals, and the calls with one key, that were under way at
the same time; `moved` the requests that have committed; `kept` those that have saved their
record. `ReversedApart` and `KeyMovesOnce` are what checks made before the lock, and a record saved
after the commit, still give: two executions of one thing overlapped, or the first was cut off
before its record.

### Withdrawal

Each request makes one withdrawal. `Debit`, `Send`, `Answered` are `createWithdrawal` and
`sendTransfer`; `ReadRow`, `Verify` are `confirmWithdrawal`; `Mark` is `markSuccessful`;
`ReadBefore` and `Claim` are the two statements of `refundWithdrawal` between which READ COMMITTED
lets others commit; `Fail` ends a call wherever it is (timeout, error or crash). Paystack receives
the transfer request or never does, decides, and may reverse a paid transfer. `notice` is the
webhook event of a reversal: due while its job has attempts left, over when it never came or they
are used up (`GiveUp`). The reconciliation asks about PROCESSING withdrawals only (`Reconciled`), so
that of one recorded as paid only the event brings news (`Notified`). The wallet is
counted in units of the withdrawal's amount, the ledger per account (`wallet`, `transit`,
`clearing`). The comparison of the row's age with the grace is made at the moment Paystack's
answer is read. A status of `otp` counts as failed, as the code treats it. Idempotency of
`createWithdrawal` is that of `WalletService`, and is not repeated.

`Stalls` lets a transfer request be on its way after the ten-minute grace: it is counted from the
row's creation, and two Redis calls lie between the debit and the transfer. `SuddenReversals` lets
Paystack reverse a paid transfer while its payment is being recorded.

### Deposit

`Create` and `Checkout` are `createDeposit` (the row, then Paystack's link, or a failure, or a
crash between them); `Call`, `ReadRow`, `Verify`, `Settle`, `MarkFailed`, `Result` are
`confirmDeposit`; `StartSweep`, `NextInSweep`, `Abandon` the deposit part of `reconcilePayments`
with its oldest-first batch; `Pay` is the customer and `Age` the passing of a day. `settleDeposit`
is one transaction under the wallet's lock, whose wallet movement is one of `WalletLock`. A
reversal of a charge before it was credited counts as "failed", and Paystack's verdicts (paid, not
what was asked for, failed) are final. The two minutes a row must be old before a sweep takes it
are left out: a sweep may take it at once. Customers pay at any time; the history `late` has the
deposits paid while a sweep was acting on "not paid" (`Judging`), or after the write-off.
`Crashes` lets the API die while it asks for a checkout, which leaves a row Paystack has never
heard of.

### PaystackEvents

`Receive`, `Enqueue`, `AcceptFails` are the webhook route, `Redeliver` and `Drop` Paystack;
`Take`, `Verify`, `Apply`, `Mark`, `WorkFails` the worker; `Requeue` the reconciliation; `Evict`
BullMQ dropping finished jobs (`removeOnComplete`, `removeOnFail`), which may never happen. All events concern one payment
and are numbered as Paystack emits them, so that "applied" can be compared with "announced".
`Apply` only moves forward, which is what `OutcomeFinal` and `StatusForward` establish of
`confirmDeposit` and `confirmWithdrawal`.

### Decision, Staff, Adjustments

`Decision` is what the console promises of anything that must be decided: it is asked for once,
accepted or refused once, and has its effect when it is accepted and not otherwise.

`Staff` has the roles and the frozen accounts. `SetRole`, `ReadTarget`, `CountOwners` and
`WriteRole` are the awaits of `setStaffRole`, `Freeze` and `WriteFreeze` those of `freezeUser`;
`Unfreeze` and `Script` (the `admin-role` script) are one step each; `LeaveEdit` is a refusal, a
failure or the end of the process. Any number of role changes, and the script, run at once; the
history `overtaken` has those about to be written on a count of owners, or a target's role, that
another one has changed since.

`Adjustments` adds the requests. `Request` creates the row and goes on to apply it if it is small;
`Decide`, `ReadPending`, `CheckSecond` and `ApplyAdjustment` are `approveAdjustment`, `ClaimReject`
is the claim of `rejectAdjustment`. `Throw` is a failure after the commit, and `Undo` the catch
block, which releases the claim only of a row that has no transaction. The staff changes at any
moment; the history `alone` has the approvals during which, at some moment, nobody else could have
approved.

### Kyc

`ReadTier`, `CountPending` and `CreateUpgrade` are `submitUpgrade`, with the partial unique index
as the last guard; `ReadUpgrade` and `ClaimUpgrade` are a decision (the claim, the tier and the
audit in one transaction); `ListDue` and `PurgeDue` the purge of old photos, which lists before it
deletes; `SetUserTier` is the console's own way to a tier. Reviewers may be applicants.

### Pin, Links, Sessions

`Pin`: `TryRight` and `TryWrong` read the user and compare; `Count` increments, `LockPin` sets the
lock in a statement of its own, `Clear` and `WritePin` wipe both fields; `ReadLocked` is
`unlockPin`; `Failed` drops a request between two steps. A guess is wrong when the comparison
says so, whether or not it is ever counted; `most` remembers how many wrong ones were at some time
compared and not yet dealt with.

`Links`: password resets and email verifications are the same protocol with different cooldowns.
`RequestReset`, `Resend`, `Send` and `Mint` make a link (cooldown key, daily counter, deletion of
the unused ones, the new row), `Follow` finds it, `ClaimLink` marks it used and, in the same
transaction, sets the password or the address; `Change`, `WritePassword`, `Revoke` are
`changePassword` with its two statements. Links, cooldowns and the day expire at any time.

`Sessions`: the clock runs in half seconds because tokens carry whole seconds (`iat`) and
`passwordChangedAt` does not. `Arrive`, `IsBlacklisted`, `Verify`, `ReadUser` are `authenticate`;
`Logout`, `Revoked`, `RevokeToken`, `Blacklist` the logout with the computed rest of the token's
life; `TakeTime`, `SetPassword`, `SignAgain` a change or reset of the password, any number of which
may be under way. `out`, `fresh` and `born` are history: what has been signed out, what is newer
than the password, and when, to the half second, each token was issued. `Outdated` is what a new
password is sure to sign out; it is computed from `born` and not from what the code compares.

### Limits

`Ask` creates a payment's row before the lock; `LockWallet`, `AssertCanSend`, `Commit` or `Refuse`
are the locked transaction, whose sum of the day is read before the commit and not later;
`AfterCommit` what may throw behind it; `GiveBack` a refund or a reversal, `PaidOut` a settled
withdrawal, `TakeBack` the reversal of a transfer to this user, whose debit row uses up allowance;
`SetTier` and `Midnight` move the limit and the day under a payment that is being made.

### Delivery, Insights, Paging

`Delivery`: `MoneyMoved` queues an event and a notification; `Dispatch` makes one job for every
active webhook, and a worker that dies makes them all again in the next `Run`; `Call`, `Record`,
`RecordFails` and `CallerDies` are one attempt of a job; `Store`, `SendEmail`, `MailFails` and
`MailerDies` one of the notification's. BullMQ gives a job up when its worker has died once too often
(`MaxStalled`, its default). `calls` and `mailed` are what the world has seen.

`Insights`: `OptIn`, `OptOut`, `DeleteInsight`, `Queue` and `AskRefresh`, `CountRefresh` are the
endpoints; `StartRefresh`, `CheckEnabled`, `ReadRows`, `Fill`, `StoreInsight` the worker, which has
read which payments lack a category long before it writes one; `RefreshFails` and `EvictFailed`
the retained job. Categories may be corrected (`SetCategory`), and insights switched off, at any
moment; the history `early` says that the refresh that is running had found them on before.

`Paging`: a page is `Taken`: the first `PageSize + 1` rows from the cursor on, the cursor's own
skipped. `NewRow` and `LeaveList` happen between pages, in lists of either order.

`MCAccounts` puts these ten parts side by side: a behaviour belongs to one of them, chosen by
`part`.

## 4. The runs

| Run | What it checks | What it shows |
|---|---|---|
| `WalletLockSingle` | `StoredMatchesLedger`, `NoDoubleSpend`, `ForeignLockKept` | three single-wallet requests with the code's own times: no update is lost |
| `WalletLockTransfers` | `NoCircularWait`, `RefinesAtomicWallet`, `RequestEnds` | transfers in both directions with short transactions: atomic movements, no deadlock, and requests end in spite of crashes and failed releases |
| `WalletLockCodeTimes` | `StoredMatchesLedger` (violated) | with the code's own times, a transfer's first lease can expire in the locked section |
| `WalletServiceCrashes` | `TypeOK`, `HistoryMatchesBalance`, `LedgerMatchesBalance`, `LegsTogether`, `RowsSettle` | all calls with crashes anywhere, when clients wait for answers: history, ledger and balance agree in every state |
| `WalletServiceFaults` | `LedgerMatchesBalance`, `ReversedApart`, `KeyMovesOnce` | what is left when calls overlap and Redis and the database fail too: only overlapping reversals undo twice, and a key moves money twice only in overlapping calls or after a loss of its record |
| `WalletServiceConcurrentRetry` | `IdempotentOnce` (violated) | one key sent twice at once moves the money twice |
| `WalletServiceConcurrentReversal` | `ReversedOnce` (violated) | two reversals at once both succeed |
| `WithdrawalSafety` | `RefundedExactlyOnce`, `LedgerFollowsStatus`, `NeverRefundedAndPaid`, `WithdrawalSettles`, `ReversalIsRefunded` | one withdrawal, its request and two checks, with crashes, lost answers and lost webhooks |
| `DepositSafety` | `CreditedExactlyOnce`, `PaidNeverWrittenOff`, `OutcomeFinal` | two deposits, a callback, two overlapping sweeps, crashes, customers who pay whenever they like |
| `DepositLive` | `PaidIsCredited`, `DepositEnds` | sweeps alone credit what was paid before it was judged unpaid, and end the rest, even one at a time |
| `PaystackEvents` | `TypeOK`, `ProcessedIsApplied`, `AckedIsQueued`, `EventSettles` | two events lost, repeated, reordered and retried |
| `Accounts` | `TypeOK`, and per part: `AdjustmentsDecidedOnce`, `TwoPersonRule`, `LastOwnerKept`, `UpgradesDecidedOnce`, `GuessesBounded`, `ChangeNotUndone`, `SignOutExact`, `AllowanceKept`, `RecordsTrue`, `UserChoiceStands`, `NothingMissed` | the back office and the account, each part with two concurrent requests, failures and time |

Runs with `CHECK_DEADLOCK FALSE` model systems that come to rest: every request answered, every
withdrawal refused or final, every event processed, every bound of a part reached. In `WalletLock`
time keeps passing, and in `Deposit` sweeps keep starting, so deadlock is checked there.

## 5. Bounds and fairness

*Bounds.* Two wallets and three requests in the lock runs (two where liveness forbids symmetry):
the lost update needs two writers and, to reach it, a third at most to keep the second key busy,
as in `WalletLockCodeTimes`. Amounts of 1 and 2 against balances of 2 and 1 make every debit both
possible and impossible, and make sums of different movements differ. Three requests in
`WalletService` are a movement, its reversal and a competitor, or a call, its retry and another. A
withdrawal or a deposit is touched by nothing but its own row, so one (with two concurrent checks
besides its own request) reaches every race; the second one is there for the batches and to show
that nothing leaks. Two events with two attempts each reach reordering, repetition and failure.

In `Accounts` the parts share no state, so that the instance is the sum of ten and not their
product; they do share model values, so that one symmetry serves all of them. Two requests at a
time (`TwoRequests` says so for the console, where editors and handlers add up) are what every
race of these parts needs; a third one only repeats what the second did. Beside adjustments the
console only freezes accounts and appoints FINANCE staff, while the script makes owners and
removes them at any time; role changes that race with each other are the part `staff`, which has no such
bound. Two accounts are the least with a second approver and a last owner. Of the upgrades one
user's requests are explored at a time (`LoneApplicant`), as no step touches another's. `MaxAttempts` is 3 instead of 5: the bound is
`MaxAttempts - 1` and what is under way, and 3 tells them apart. A token lives two seconds of a
clock in half seconds that starts halfway through a second and runs to the end of the next:
enough for a login, a change in the same second, one in the next, and an expiry; at its last
instant one request is under way (`LoneVisit`), at every other two. One webhook is enough, as
jobs of different webhooks only share the dispatch; two runs of its job come from one dying worker. Two deaths (`MaxDeaths`) are what a job is given up for; with
two runs of the event's job only one is allowed (`LoneDeath`), or the two would have to be told
apart. Two payments, two tiers and one midnight; six rows in pages of
two, which are two full pages and a last one.

Some constants say what the environment spares the code; each of the properties that need them
fails without (section 7): `CursorLeaves` (lists), `Faults` of `Limits`, `SerialRetries` and `Faults`
of `WalletServiceCrashes`, `Stalls` and `SuddenReversals` (withdrawals).

Each property has been seen to fail on its run's instance under the mutant `PROJECT.json` names.
Where a module is proved about (section 6), no bound matters for the proved properties.

*Fairness.* Requests that have started keep running (`WF_vars(Step(p))`): Node's event loop runs
every continuation; a crash is a step and so may pre-empt it. `Tick` is fair: time passes. In
`Withdrawal` and `Deposit` a step may fail (`Fail`) any number of times but not every time it is
tried (strong fairness per step): the workers and the reconciliation, which runs every few
minutes, try again for as long as the row is open. Paystack decides in the end
(`WF_vars(PaystackStep)`). A withdrawal is asked about again while it is PROCESSING
(`SF_vars(Reconciled)`), and while the job of its reversal's event has attempts left
(`SF_vars(Notified)`); nothing else is sure to ask, so a withdrawal recorded as paid whose reversal
event never came, or gave up, stays as it is, and `ReversalIsRefunded` says so. In `PaystackEvents`
workers take jobs and go on with them or fail, and the reconciliation keeps adding; no attempt is
assumed to succeed and no finished job to be evicted, which is why `EventSettles` ends in "processed,
or the job has failed". `WalletService`'s histories stand outside its fairness (`WF_service`). Clients,
callbacks, administrators and webhooks have no fairness: nothing depends on them. The parts of
`Accounts` are checked for safety only and have none.

`PaidIsCredited` and `DepositEnds` make one exception, for deposits Paystack has never heard of
(`Lost`) and those behind a batch full of them (`Blocked`): see section 7.

## 6. The proofs

Checked by TLAPS, for every value of the constants that satisfies the named ASSUMEs
(`WalletAssumption`, `LockAssumption`, `WithdrawalAssumption`, `DepositAssumption`,
`EventsAssumption`, `StaffAssumption`, `AdjustmentsAssumption`, `KycAssumption`, `LinksAssumption`,
`SessionsAssumption`, `PinAssumption`, `LimitsAssumption`, `InsightsAssumption`,
`DeliveryAssumption`, `PagingAssumption`, which say no more than that constants have their types,
limits of pages and attempts are positive, and those who guess or send are finitely many; and
`ServiceAssumption`, which adds that a call names its target as the code's signatures demand and
that nobody transfers to the own wallet). Whatever a theorem assumes beyond that stands in its own
ASSUME. Every safety property of the passing runs is proved.

`Sums` has what the library lacks for balances and allowances: lemmas about `SumFunctionOnSet`.
Induction over a finite set is not taken from a theorem with an operator parameter (the provers
cannot instantiate those) but stated for a *set* `G` of good subsets (`SubsetInduction`), from the
library's fact that strict inclusion is well founded on finite subsets. The fold's recursive function
is shown to exist and to be unique (`PartialUnfolds`, `UnfoldsUnique`); then a sum is an integer,
adding or removing an index adds or removes its value (`SumAdd`, `SumRemove`), and equal values
give equal sums (`SumSame`). The proofs about histories and allowances use only these.

`WalletLockProofs`:

- `TypeCorrect`, `NoCircularWaitHolds` and `ForeignLockKeptHolds` hold whatever the times are. The
  invariant is `TypeInv`: types, that a transaction which has read its debited wallet saw enough
  (`FundsChecked`), and that a request in its transaction holds all its keys, and one that waits
  holds only smaller ones than it waits for (`Holding`). `ForeignLockKept` also needs that a key
  that exists has time left.
- `StoredMatchesLedgerHolds`, `NoDoubleSpendHolds` and `ImplementsAtomicWallet` assume
  `LeaseCoversTx`: the longest hold of every movement is shorter than the lease. The code's times
  give it to single-wallet movements and not to transfers. `IInv` adds `LeaseInv` (a key held by a
  request is still its own, and its lease exceeds what is left of the request's deadlines) and
  `Fresh` (what an open transaction has read is still the balance). `StoredMatchesLedger` alone is
  not inductive: a commit from a stale reading breaks it, and only mutual exclusion, which only
  time can give, keeps readings fresh. The refinement follows: with fresh readings `Commit` is an
  `AtomicWallet` movement, and every other step leaves the balances alone.

`WithdrawalProofs`:

- `TypeCorrect`, `RefundedExactlyOnceHolds` and `StatusForwardHolds` assume nothing of Paystack or
  of timing. `Base` adds to the types who may be where (`Callers`).
- `NeverRefundedAndPaidHolds` assumes `~Stalls`. `Told` says that what a process has been told is
  true of Paystack's side and stays so: `Exchange` (request, answer and transfer fit together),
  `Agreed` and `Informed` (a process about to mark or refund has a reason that still stands);
  `Final` adds that a withdrawal about to be refunded has no transfer that could still succeed.
- `LedgerFollowsStatusHolds` assumes `~SuddenReversals`. `Orderly` says that the status a refund
  read before its claim is still the status when it claims, and is what its entry needs.

`DepositProofs`:

- `TypeCorrect`, `CreditedExactlyOnceHolds` and `OutcomeFinalHolds` hold for any number of
  deposits, callers and overlapping sweeps, whenever customers pay. `Base` adds to the types that
  Paystack knows no deposit before its checkout (`Linked`) and that a process acts on what
  Paystack has really said (`Told`).
- `PaidNeverWrittenOffHolds` assumes nothing of when customers pay. `PaidNeverWrittenOff` alone says nothing of the sweep that has
  made up its mind; the invariant adds that one which is about to abandon a PENDING deposit that
  is paid by now has been told otherwise before, so that the deposit is in `late`.

`WalletServiceProofs`:

- `TypeCorrect` and `LedgerMatchesBalanceHolds` hold whatever fails, and assume `Orderly`: clients
  repeat a call after its answer or its loss in a crash (`SerialRetries`), and transfers are
  reversed by their senders; section 7 says what happens otherwise. `Base` adds to the types that a
  row says what the call it was created for says (`RowOK`), and what a reversal under way has found:
  an earlier movement, its receiver's row, and no other reversal of it that is under way or has
  succeeded (`ReversalOK`, `SpentOK`). `LedgerMatchesBalance` is not inductive without it: a
  reversal writes balances computed from *rows* and an entry mirrored from the *original entry*, and
  only `RowOK` ties the two (`CommitMoves`).
- `LegsTogetherHolds` also assumes that nothing worse than a crash happens. `Tidy`: a request that
  has not committed has moved nothing, and the original of a reversal is not being marked FAILED.
- `HistoryMatchesBalanceHolds` assumes the same. What a step does to
  the sum of a history depends on which rows start to count in it: only a commit makes any count,
  those of its own request, and a row that counts never stops and never changes its amount
  (`CountingRows`). `History` adds to the equality that the rows written so far are finitely many,
  and that a reversal under way undoes a movement that counts: the original changes from SUCCESSFUL
  to REVERSED, and counts either way.
- `ReversedApartHolds` assumes nothing: any calls, any number of them at once, any failures. `Apart`
  says that what a committed request has undone is REVERSED or FAILED for good (`UndoneOK`), and
  that a reversal that has got past its checks was beside every one that has undone the same
  since (`BesideOK`). Neither half stands alone: a later reversal is refused because of the first,
  and one that is not refused was there before.
- `KeyMovesOnceHolds` assumes nothing either. `Keyed`: a request that has got past its record has left
  it there (`KeyOK`), so that a call with its key that goes on to work found it running, or
  cut off before the record (`Together`).

`PaystackEventsProofs`: `ProcessedIsAppliedHolds` and `AckedIsQueuedHolds` for any events, copies,
attempts and evictions. `Emitted` and `Recorded` tie deliveries, rows and jobs; `Asked` says that a
worker past its check has learned of the event's outcome at least.

`ConsoleProofs`:

- `AdjustmentsDecidedOnceHolds` and `UpgradesDecidedOnceHolds`: the console implements `Decision`
  under the refinement mapping of `Decided` and `Reviewed`. The invariants tie the status to the
  effect and a handler's step to both; everything but a claim is a stutter.
- `TwoPersonRuleHolds` and `LastOwnerKeptHolds` assume nothing of who else is at work. What was read
  before the claim was so when it was read; a handler that acts on it and is wrong by now has been
  recorded, in `alone` from its check on, in `overtaken` from the change that made it wrong.
- `NothingMissedHolds` assumes `~CursorLeaves`. `PagingInv`: the cursor is a row that still matches,
  every row up to it that has matched all the while has been shown once, and no row after it ever.
  The proof is about positions in a list given by `Precedes`, in either direction: the row a page
  ends with is its last, `skip: 1` takes away that one and no other (`FirstOf`, `EndsOfSet`).

`AccountProofs`:

- `ChangeNotUndoneHolds`, for any links, mailers and expiries: a request that is about to claim a link
  needs it unused, and a change of the password leaves none of its kind unused.
- `SignOutExactHolds` assumes nothing. A token signed out is dead in one of three ways, none of
  which ends: it is from an earlier second than the change and than every change still to be
  written, it has expired, or it is blacklisted for the rest of its life. The third is why the blacklist's expiry must not be rounded down.
- `GuessesBoundedHolds` assumes nothing. `PinInv` says where every wrong guess has gone while PINs
  may still be tried: it is on the counter, a request is about to count it, or it was lost; and when
  the counter is full, a request that is about to set the lock stands for the last one. Neither
  half is inductive without the other: between the increment and the lock, the counter alone
  would allow one guess too many.
- `AllowanceKeptHolds` assumes `~Faults`. `LimitsInv`: only the holder of the lock is between its
  check and its commit, what has left the wallet by then still leaves room for its amount, and every
  payment whose money is gone has a row that counts, so that `spentToday` is never less than what
  has left (`SumMonotone`). Refunds and reversals lower both, whenever they come.
- `UserChoiceStandsHolds` and `RecordsTrueHolds` assume nothing.
- `AccountsTypeCorrect` is the types of all parts of `MCAccounts` at once. For most parts the type
  is not inductive alone: the daily counter of verification emails stays below its limit plus the
  requests that have looked at it and not yet added to it (`LinksTypes`), a job that is not kept as
  failed has an attempt left (`InsightsTypes`, `DeliveryTypes`), and a request past its arrival
  carries a token (`SessionsTypes`).

Only model-checked: the liveness properties `RequestEnds`, `RowsSettle`, `WithdrawalSettles`,
`ReversalIsRefunded`, `PaidIsCredited`, `DepositEnds` and `EventSettles` (fairness and ENABLED are
out of the provers' reach).

## 7. Where code and documentation disagree

Three runs end in a counterexample and stand for findings in `PROJECT.json`. The others are found
by the constants given here, or by taking the named exception out of the property.

| Found with | Property | Disagreement |
|---|---|---|
| `WalletLockCodeTimes` | `StoredMatchesLedger` | README "Distributed locking … prevents concurrent balance corruption": a transfer may hold its first key for 5 s + 7 s under a lease of 10 s |
| `WalletServiceConcurrentRetry` | `IdempotentOnce` | INTEGRATION.md "If the same key is sent twice within 24 hours …": nothing holds the key while the first call runs |
| `WalletServiceConcurrentReversal` | `ReversedOnce` | `reversal.service.ts:32` "Transaction has already been reversed": checked before the lock, and not again |
| `WalletServiceCrashes` with `Faults = {"db"}` | `HistoryMatchesBalance` | `transfer.service.ts:18` "failures are swallowed inside notify()": the read of the sender's name is not, and the catch block marks committed rows FAILED |
| `WalletServiceCrashes` with `Calls <- MCReceiverCalls`, `Faults = {}` | `LedgerMatchesBalance` | `ledger.service.ts:165` "Should always be empty": a receiver that reverses its own CREDIT row is taken for the sender |
| `WalletServiceFaults`, `LedgerMatchesBalance` without its condition | `LedgerMatchesBalance` | the same line: of two reversals of one transfer at once the later may take a row of the earlier for the receiver's |
| `WalletServiceFaults`, `KeyMovesOnce` without `Lost` | `KeyMovesOnce` | INTEGRATION.md "safe to retry on network failure": a call cut off between its commit and its record is forgotten, and the retry moves the money again |
| `WithdrawalSafety` with `SuddenReversals = TRUE` | `LedgerFollowsStatus` | `withdrawal.service.ts:104`: the status that selects the account is read before the claim, and `markSuccessful` takes no lock |
| `WithdrawalSafety` with `Stalls = TRUE` | `NeverRefundedAndPaid` | `withdrawal.service.ts:271`: the grace runs from the row's creation, so a request held up for ten minutes before its transfer is refunded and then pays |
| `DepositSafety`, `PaidNeverWrittenOff` without `late` | `PaidNeverWrittenOff` | `config/limits.ts:12` "Money that has already been paid … is always credited": not if the customer pays between the check and the abandonment, or after it |
| `DepositLive`, `DepositEnds` without its exceptions | `DepositEnds` | `reconcile.service.ts:11` "treated as abandoned": `verifyTransaction` throws on an unknown reference, so a deposit whose request died stays PENDING, at the head of every batch |
| `PaystackEvents`, `EventSettles` without `job[e] = "failed"` | `EventSettles` | `reconcile.service.ts:17` "stored webhook events that never got processed": a failed job kept under the event's id swallows every later `add`, until a thousand others have failed |
| `WithdrawalSafety`, `ReversalIsRefunded` without `notice` | `ReversalIsRefunded` | `reconcile.service.ts:47` asks about PROCESSING withdrawals only: one recorded as paid stays SUCCESSFUL if the event of its reversal is lost |
| `Accounts`, `LastOwnerKept` of all editors | `LastOwnerKept` | `staff.service.ts:13` "the console can never lock everyone out": two owners who demote each other both count two |
| `Accounts`, `TwoPersonRule` of the moment of the commit | `TwoPersonRule` | README "two-person rule": a second approver may be appointed between the check and the commit |
| `Accounts`, `GuessesBounded` without `most` and `lost` | `GuessesBounded` | README "5 wrong attempts" and `pin.service.ts:59` "so parallel guesses can't exceed the limit": parallel guesses are compared before any of them is counted, and one whose request fails in between never is |
| `Accounts` with `CursorLeaves = TRUE` | `NothingMissed` | a page that follows a row which has left the filter skips one that has not (`skip: 1`) |
| `Accounts`, `SignOutExact` with `Outdated` all tokens issued | `SignOutExact` | README "Changing or resetting a password signs out every session issued before it": a token of the same second stays in, and of two changes at once the later writer may store the earlier time |
| `Accounts`, `UserChoiceStands` without `early` | `UserChoiceStands` | an insight is stored after the opt-out's deletion by a refresh that was running |
| `Accounts` with `Faults = TRUE` | `AllowanceKept` | README "simultaneous payments can't slip past": a committed transfer that is marked FAILED no longer counts |
| `Accounts`, `sent <= DailyLimit` | `TypeOK` | README and `verification.service.ts:79`, five emails a day: parallel resends each read the counter before any of them is counted |

Smaller ones, read in the code while modelling and visible as actions of the modules: a login that
has compared the old password still gets a token issued after the change; a verification link
that is replaced between its reading and its claim is answered "already verified" though nothing
was verified (`verification.service.ts`, "Lost a race with a second click"); between the two
statements of `changePassword` an older reset link still works; a transfer asked for before
midnight and checked after it counts for neither day; the receiver's leg of a reversed transfer
uses up the receiver's allowance; an account frozen between the check and the grant keeps a role;
a colleague's request about one's own wallet may be approved by oneself; a failed insights job
blocks further refreshes until it is evicted.

Direct funding and user reversals are off in production unless `DIRECT_FUNDING_ENABLED` is set;
adjustments and transfers are not.

## 8. What is not modelled

- *Left out of modelled parts*: known devices and the alert for a new one; the audit of views;
  `assertCanReceive` and `getLimits`; the cleaning and encryption of documents; the wording of
  insights, notifications and emails; registering webhooks; the bounded batches of withdrawals and
  events in the reconciliation.
- *Bank accounts*: their limit of five is a count before a create, and nothing depends on it.
- *Data without control*: HTTP, validation, signatures, parsing, formatting, encryption, the
  simulator, the assistant (read-only tools), statistics and statements (reports). The balance
  cache is written and invalidated and read by nobody; its invalidation matters only as a call that
  may fail.
- *More than two thirds of the implementation's lines* are the web application, the descriptions of
  the API for its documentation pages, request schemas, email templates and report queries. They
  hold no state that the properties above depend on, and a model of them would say nothing.
- *The database's own promises*: atomic transactions, READ COMMITTED, unique keys, and the
  triggers that keep ledger entries balanced and unedited. *Redis* does not lose keys before they
  expire and its clock runs at the pace of the processes' clocks; a process that is paused inside
  its transaction is bounded by `TxLimit`.
- *Idempotency records* do not expire within a run. *Batches* are bounded for deposits only.
- *Paystack* is what the client's answers allow it to be; a transfer that waits for an OTP is
  final, as the code assumes.
