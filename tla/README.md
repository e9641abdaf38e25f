# Money lending: TLA+ models, model checking and proofs

This directory specifies the server side of the money-lending application in
`src/`: the part that decides what borrowers owe, what the books say, where the
cash is and who may change any of it. The modules are written from the TypeScript
services and the SQL migrations; `PROJECT.json` names, for every definition that
models code, the lines it stands for.

    tlc -workers 2 -config settle_corrections.cfg MCLoanSettlement   # model-check
    tlapm LoanSettlement_proofs.tla                                  # check proofs

## 1. The system

A Next.js application. A browser calls a *server action* (`src/src/actions`),
which checks the session and the permissions (`lib/with-action.ts`) and runs a
*service* (`src/src/services`). A service that writes money does so in one Postgres
transaction through drizzle, at READ COMMITTED; the month-end batch and the
correction tools use SERIALIZABLE. All money is in a double-entry journal, the table
`transactions`: balances are sums over it. Triggers keep one projection,
`loan_balances`. Browsers fetch rows again over HTTP. The only state of a server process
that matters is its permission cache. What runs concurrently is
transactions of several clerks, the cron routes, maintenance tools started by hand,
and repeated calls.

What is hard follows from that:

- **Reads before locks.** A handler often selects a row, then waits for
  `SELECT ... FOR UPDATE` on the loan, and goes on with the copy it has. READ
  COMMITTED gives every statement its own snapshot; SERIALIZABLE takes one at the
  first read, which may be before the locks.
- **Locks that are not there.** `FOR UPDATE` locks the rows it finds. A balance is
  a sum, so it has no row; a customer without an active loan has none either;
  creditors' handlers, invitations and delegations take no lock at all.
- **Locks nobody asked for.** Triggers write a row of `loan_balances` for every
  journal row, and a journal row's foreign key holds a reference to its loan.
- **Corrections.** Nothing in the journal is deleted. Editing, deleting, marking
  wrong, unmarking, waiving and undoing post reversals computed from what the
  journal carries at that moment, dated by one copy of a row or another, in any
  order; a rate correction reposts the interest of the whole life of a loan.
- **Closing.** Seven operations can close a loan and four can reopen it; each that
  closes must cancel pending requests, and none may act on a loan that was rolled over or
  settled while it waited.
- **Dates.** A payment is dated at midnight of a chosen day, everything else at
  the moment it happens, and balances are read "as of" one or the other.
- **Two ways to the same number.** Interest is worked out by days (statement,
  planner), by segments (batch) and from the journal, and the batch posts only where
  they agree.

### 1.1 Components

| Component | State | Operations | Modelled in |
|---|---|---|---|
| Loan settlement (`payment.service`, `loan-waiver.service`, `settlement.service`, `ledger-queries.service`, the accrual of one loan in `transaction.service`) | `payments`, `loan_waivers`, the loan's journal lines, `loans.status` | record, edit, delete, mark wrong, unmark, waive, undo, monthly accrual | `LoanSettlement` |
| Loan lifecycle (`loan.service`, `rollover-quote.service`, `collateral-settlement.service`) | `loans` with `rolled_over_from`, principal and rollover amounts | create, roll over, settle with collateral | `LoanLifecycle` |
| Cash locations (`fund-transfer.service`, the checks in `expense.actions` and `createLoan`) | Cash lines per location and bank account | transfer, inject, expense, disburse, repay a creditor | `FundTransfers` |
| Rate corrections (`rate-change-request.service` and its actions) | `rate_change_requests`, the loan's rate, its accrual journals | request, apply at once, adjust, approve, reject, cancel | `RateCorrection` |
| Month end (`transaction.service`, `portfolio-accrual-repair.service`, `cron/month-end`) and the balance projection (`drizzle/0025`, `0028`) | Interest Receivable lines, `loan_balances`, the financial snapshots | accrue all loans, publish; triggers | `MonthEnd` |
| Interest engine, statements, penalties (`lib/interest`, `lib/loan-statement`, `cron/overdue`) | none, but for `penalty_waived_at` and `penalty_multiplier` | statement, split, planner's delta, batch's amount; waive and reset a penalty, set its multiplier | `LoanStatement` |
| Creditors (`creditor.service`, `accrueInterestForCreditors`) | creditors, investments, repayments, Interest Payable lines | invest, repay, accrue | `Creditors` |
| Financial correction tools (`*-repair-apply*`, `rollover-correction-apply`, agent reviews) | reviews, run tables, journal | review, apply | `CorrectionRun` |
| Permissions, delegations, roles, invitations (`action-utils`, `delegation.service`, `invitation.service`, `accept-invite`) | their tables, a cache with a 30 s life per process, session cookies | check, delegate, revoke, assign; invite, resend, revoke, expire, accept | `Access` |
| Cleanup cron; income, expenses and the journal; customers and credit score; IP allowlist; bank accounts and settings | one row per call | create, update, delete | not modelled, section 5 |
| Reports, dashboards, receipts, exports | none | queries | not modelled: read only |
| Client (collections, components), authentication library | browser state | | not modelled |

How they interact: `createLoan` writes the loan, its disbursement (cash) and, for
a rollover, closes the predecessor. Payments, waivers, rollover and settlement
all end in the same three effects, a loan status, journal lines and the
cancellation of pending rate requests, and all are ordered, where they are
ordered at all, by the loan's row lock. The month-end batch takes those locks one
after the other, and its snapshot meets all those writes in the row of
`loan_balances`; so do the correction tools. A rate correction and a penalty change
what the statement says of days already posted. Cash lines are shared by every
operation that receives or pays; only fund transfers lock a location. Permissions
are read before any transaction and nothing looks at them again.

### 1.2 What makes each component correct

- *Settlement.* A posting is reversed at most once. A payment takes effect once, a
  void one leaves nothing. The two ways the code derives principal, by loan and by
  reference, agree. Principal is not repaid below zero; a closed loan owes none and has
  no pending request. Nobody waits for the row forever.
- *Lifecycle.* One successor per loan; what was owed is carried, exactly; the
  ledger follows the terms; closing by rollover or collateral is final.
- *Cash.* Concurrent transfers never spend the same money; each is one
  indivisible move of money that is there; each that waits ends.
- *Rate corrections.* One pending request; each approved request is applied once; the
  rate changes only before the first settlement and with authority; the interest posted
  is that of the present rate.
- *Month end.* A batch posts what is missing for every loan or nothing; a month
  is published only when it was accrued; the projection equals the journal; payments
  and seizures never deadlock with it.
- *Statement.* Principal is repaid only after interest; a settlement, a waiver or a
  new day leaves the past as it was; a loan whose interest is paid in full does not
  block the batch; planner and batch agree.
- *Creditors.* No more is repaid than was invested, no interest accrued twice.
- *Correction runs.* A plan changes the journal at most once, as one step, and only
  while it still describes it, after a passing review by somebody else.
- *Access.* A change of delegation reaches the process that made it; an
  invitation that was revoked or accepted stays so.

`PROJECT.json` lists the hazards line by line with the properties that cover
them. Where the code does not guarantee what one would wish, the property says what it
does guarantee and section 3.2 records the rest.

## 2. The modules

| Module | Purpose |
|---|---|
| `LoanSettlement`, `MCLoanSettlement` | one loan, its payments, waivers, accrual and rate request |
| `PaymentEffect` | abstract: what a payment promises the books |
| `LoanSettlement_proofs` | all its safety properties: types, serialization, no double reversal, closing cancels requests, the books agree, nothing is repaid twice, refinement of `PaymentEffect` |
| `LoanLifecycle`, `MCLoanLifecycle` | the loans of one customer |
| `LoanLifecycle_proofs` | all safety properties of `LoanLifecycle` and of `LoanStatement`, which share the lemmas on sums: types, one successor, no orphan request, closing is final, the books; what a statement shows |
| `FundTransfers`, `MCFundTransfers` | cash at locations |
| `CashFunds` | abstract: what transfers promise |
| `FundTransfers_proofs` | types, no double spending, refinement of `CashFunds` |
| `RateCorrection`, `MCRateCorrection` | the rate of one loan and the requests to correct it |
| `RateTerms` | abstract: who may change a rate, and until when |
| `RateCorrection_proofs` | all its safety properties, refinement of `RateTerms` |
| `MonthEnd`, `MCMonthEnd` | the batch over several loans among settlements, with the projection |
| `MonthEnd_proofs` | all its properties: types, projection, postings, publication, who may deadlock |
| `LoanStatement`, `MCLoanStatement` | one loan's statement, planner and batch amount, in days and shillings |
| `Creditors`, `MCCreditors` | one creditor investment |
| `Creditors_proofs` | nothing overpaid, nothing accrued twice, without overlap |
| `CorrectionRun`, `MCCorrectionRun` | the correction tools on one loan among its other transactions |
| `AppliedCorrections` | abstract: what a correction tool promises |
| `CorrectionRun_proofs` | exclusive locks, refinement of `AppliedCorrections`, latest review |
| `Access`, `MCAccess` | one person's role, delegations, cached permissions and invitations |
| `Access_proofs` | changes reach their process, closed invitations stay closed |

Operators whose comment begins "Mutant of" are small plausible bugs of the
definition they stand next to, never used by a specification. Each property of a
passing run is known to fail when one of them replaces its original.

The modules overlap on purpose. `LoanSettlement` has every correction of a payment
on one loan with a flat daily rate; `LoanStatement` has the arithmetic it abstracts,
one request at a time; `MonthEnd` has the batch over several loans, for which a
settlement is an amount that appears in the journal and a checkpoint that may be off;
`RateCorrection` and `CorrectionRun` see a settlement as the fact that there was
one. What one module takes from another is named in the comment above the action.

### 2.1 LoanSettlement

*State.* `row` holds the payments table, `waiver` the waivers with what they
posted, `status` and `pendingRate` the loan. The journal is read by the code only
through sums, so the sums are the variables: `portion` is what a payment's
`payment` and `payment_reversal` lines amount to (`getPaymentPortionsFromLedger`),
`receivable` the net of Loans Receivable at the end of each day
(`getLoanBalancesFromLedger` as of a date), `accrual` and `restored` Interest
Receivable at each instant as `reverseInterestAccrual` counts it and as it is put
back by an undone waiver. `lock` is the loan row's `FOR UPDATE` holder; `req` the
transaction each clerk has under way.

*Steps.* An operation is two or three steps, cut where another transaction can
come between: `BeginCorrection` (edit, delete, mark and unmark select the payment
before they lock), `BeginUndo` (the waiver's row lock), `BeginOnLoan`; `LockLoan`
(granted when free, then the portions are read); and one commit action per
operation, `RecordPayment` to `RequestRateChange`, with every journal line,
status change and cancellation of the handler. `Rollback` is any failure after
the lock: validation, error, lost connection. `RejectRateChange` locks the request
only. `NextDay` is the calendar.

*Abstractions.* Perpetual loans at one flat rate per day and unit of principal, so
interest of a day is `Rate` times the principal of the day before; `StatementAccrued`
keeps the day loop of `buildLoanStatement`, its start-day rule included. The
minimum interest period is kept. Penalties, schedules of term loans, cash legs and
receipts are left out. A request that finds its guard false after the lock can
only roll back, which is what the code's throw does.

### 2.2 LoanLifecycle

Loans are numbered in order of insertion. `createLoan` is `EnterCreate` or
`EnterRollover` (which brings the quote the form was shown), `FindActive` (the
statement `SELECT ... FOR UPDATE` begins: the rows it will wait for),
`LockActive` (granted; rows are re-checked, rows inserted meanwhile are not
found; the carry is quoted again under the lock) and `IssueLoan` or `RollOver`.
`settleWithCollateral` is `CheckSettlement` (outside the transaction),
`ReadBalance` (no lock) and `SettleWithCollateral` (its writes wait for a holder
of the row). Payments, deletions and rate requests hold the row from before they
read to their end, so each is one step; `LoanSettlement` has their inside.
Interest is abstract: whether any is due when a loan might close, and how much a
rollover carries, is any choice.

### 2.3 FundTransfers

`cash` is the net of the Cash lines of an account (a location with its bank
account). A transfer is `EnterTransfer`, `TakeLock` (`pg_advisory_xact_lock` on
the source's key), `ReadFunds`, `PostTransfer` or `Rollback`. A disbursement
(`CheckDisbursement`) reads the account, an expense (`CheckExpense`) the whole
location, both without the lock, and post later (`PostOutflow`); a creditor
repayment or the reversal of a deleted payment (`RepayCreditor`) does not look.
`spent` is a history variable: what unlocked outflows have taken from each account.

### 2.4 RateCorrection

*State.* The loan's `rate`, whether anything was ever `settled` on it, the `request`
rows, `posted` (the net of its accrual journals), `held` (every permission a user was
ever given: checks read any part of it, since permissions can be revoked and are
cached), and the locks on loan and request rows.

*Steps.* `Enter...` is everything an action does before its transaction: the
permission a rate needs (`Needs`), the reviewer's authority (`MayReview`), the rate
the form was shown. Then `LockLoan` and `LockRequest`, in the order
`reviewRequest` takes them, `Check` (every assertion made under the locks, ending the
transaction where the code throws), and one write action per operation. `Apply` is
`applyLoanRateChangeTransaction` with the adjustment it posts: the interest of the new rate
from the first day, less what is posted. Payments, waivers and rollovers are one
operation, `settle`, which may close the loan; a seizure checks the status only before.

`RateTerms` is the abstract specification: a rate changes only before the first
settlement, and each change was set by somebody given the permission to set that
rate, or approved by somebody given the permission to approve it when another asked.

### 2.5 MonthEnd

*State.* Days are half months. `delta[l][d]` is what the planner would find missing
on loan `l` at checkpoint `d`, `journal` and `balance` the committed sum of the loan's
journal and its row in `loan_balances`. A batch carries what its SERIALIZABLE
snapshot told it (`plan`, `base`), and `newer` is what was written since: touching such
a row fails, as in Postgres.

*Steps.* `StartBatch` is the first read: all plans at once, and nothing at all when
one active loan is blocked (`Preflight`). `LockNext` locks the loans in turn, in any
order, since the query has none; `Post` inserts the pair of rows, whose trigger
writes the balance row; `CommitBatch`, then `Publish` or `Crash` in between.
A settlement is `Compute` (the loan row's lock, or for a seizure the reference its
first journal row makes to it; the trigger's sum), `Upsert` (it waits for the balance
row and writes that sum), `Refire` (the second row of the pair sums again), for a
seizure `Close` (the loan row last), `CommitSettlement`. `Mode`, `Hinders` and
`Refers` are Postgres's row lock table for the three modes that occur.
`BreakDeadlock` is Postgres's detector for two sessions.

*Abstractions.* What a settlement does to the planner's checkpoints is any of the
outcomes `LoanStatement` has: something missing on its day or not, and more or less at
later month ends. The creditors' accrual of the same route is in `Creditors`.

### 2.6 LoanStatement

One perpetual loan day by day. `Walk` is `buildLoanStatement` as a recursive
function: `Interval` accrues a day on the balance and the penalty in force before the
events of the day, then takes the settlement. Accrued interest is exact (multiplied
by `Unit`); only `Receivable` and `Unpaid` round, half up, as `toFixed(0)` does.
`Blocked`, `Ready` and `Delta` are the accrual planner; `BatchAmount` is what
`accrueInterestForLoans` works out for itself, by segments between payments of
principal at the effective rate of the evening, less Interest Earned on the ledger.
`PostMonth` happens only where the two agree, else the code throws. `RecordSettlement`
is what `Pay` and `Waive` share. `WaivePenalty` and
`AdjustPenaltyMultiplier` are guarded as the loan page guards them; `ResetWaiver` is
the overdue cron. Settlements are at most one a day and the start-day rules are in
`LoanSettlement`.

### 2.7 Creditors

`recordCreditorRepayment` reads the last repayment, then the principal, then what was
accrued, and writes; the cron reads the balances, the repayments and the accruals, and
writes. No lock is taken, so each read is a step. Two histories say when that was
harmless: `raced` (a commit followed reads that another commit had outdated) and
`inOrder` (no repayment was dated before what had been recorded).

### 2.8 CorrectionRun

The accounting of one loan is a version number, because a plan's hash and
fingerprint cover every row it was computed from. `Verify` and `RecordReview` are the
reviewing agent; `ReadReview` to `Commit` the executing one, in two protocols:
"portfolio" takes its SERIALIZABLE snapshot first and locks review and loan
afterwards (accrual, historical rate and payment allocation repairs), "rollover" has
`LOCK TABLE` before it reads anything. The application's own transactions are `settle`,
`amend` (rate, penalty) and `seize`, each with the rows it locks in its order.
`AppliedCorrections` is what this promises: one step, on exactly the version reviewed,
with an unused passing review of another agent.

### 2.9 Access

`cache[s]` is what process `s` remembers of the person as supervisor: nothing, plain
or elevated by a delegation. A check that misses reads the delegations
(`ReadDelegations`) and stores what it read (`Store`); in between the process may have
invalidated the entry, and the lookup is `overtaken`. Delegations, roles and
invitations are written by handlers that check and write in separate statements, none
in a transaction: creating a delegation is `CheckActive`, `CheckSupervisor`, `Insert`,
`Invalidate`; resending, expiring and accepting an invitation read its status and then
update it by id. Accepting writes role and status in either order (`Promise.all`).
`Restart` ends a process with its cache and its requests.

## 3. What the runs check

Two sessions of a kind are enough for almost every race here: each hazard is between
one transaction that has read and one that commits, and a third only waits. Two
payments give "before" and "after"; a third adds an order, not a kind. Bounds
are named constants and appear in guards: `MaxPayments`, `LastDay`,
`MaxBackdate`, `MaxDrift` (no correction *begins* once the receivable is that far
off), `MaxLoans`, `MaxFunds`, `MaxSpent`, `MaxRequests`, `MaxDays`, `MaxMonth`,
`MaxSettlements`, `MaxDay`, `MaxRepayments`, `MaxSource`, `MaxReviews`, `MaxAttempt`.

| Run | Instance | Shows |
|---|---|---|
| `settle_corrections` | 2 clerks, 1 payment, 1 waiver, every correction, 2 days | types; no posting reversed twice; `BooksAgree`; `RequestsEnd` (liveness), with undo's two locks |
| `settle_reversing` | 2 clerks, 2 payments, 1 waiver, rate request, backdating, no edit or unmark | `PaymentsTakeEffectOnce` (refines `PaymentEffect`); closing leaves no pending request |
| `settle_in_order` | 1 clerk, 2 payments, 1 waiver, month end, 3 days | principal never repaid twice, a closed loan owes none |
| `lifecycle` | 2 clerks, 3 loans (a rollover of a rollover), 1 payment | one successor; what was owed is carried and the old ledger is empty; the ledger follows the terms; no request outlives its loan; closing is final |
| `funds` | 2 clerks, a box and two bank accounts, 2 units | no double spending, refinement of `CashFunds`, every transfer ends |
| `rates` | 2 sessions of an officer and a manager, 2 requests, a rate that needs approval and one that does not, 1 day | one pending request, each applied once, interest posted at the present rate, refinement of `RateTerms`, every request ends |
| `month_end` | 2 crons, 2 clerks, 2 loans, 2 months, 2 settlements | the projection follows the journal; the batch posts what is missing; a published month was accrued; only two batches deadlock |
| `statement` | a loan of 20 at a shilling a day, 7 days, 3 month ends, 3 settlements, penalty from 3 days | interest first; only partial payments block the batch; planner and batch agree; the past stands |
| `creditors` | 2 clerks, a cron, 2 repayments, 3 days | nothing overpaid and nothing accrued twice, unless requests overlap |
| `corrections` | 2 tools, 1 clerk, 2 agents, 2 changes, 2 reviews | refinement of `AppliedCorrections`; a later review stops a rollover correction |
| `access` | 2 processes, 2 requests, 2 delegations, 2 invitations | a change of delegation reaches its process; a closed invitation is reopened only by a request that read it open |

*Why the bounds are enough.* Between them the settlement runs' `Amounts` make a payment
too small, exact and too large for what is due; `Principal = 2` makes a partial
repayment possible. `MaxSpent = 1` is one overdraft per account. In `settle_corrections`
the two days separate the copy's date from a new one; `settle_in_order` has one clerk
because its question is arithmetic, not interleaving. In `rates` there is a
rate that needs the higher permission and the issued one, which needs no approval; the
band between them differs only in the permission it names, and the third rate is left
to the theorems. A day passes so that there is interest to repost. In `month_end` two
months let a batch meet an earlier month that was missed, two loans give the
batch an order to lock in, and the second cron is the repeated call. In
`statement` the interest month is two days and the penalty begins after three, so
that a month ends before, in and after the penalty, and the amounts 1, 12 and 25 pay part
of the interest, interest and part of the principal, and everything. In `creditors` 5 is
more than was invested with all its interest. In `corrections` a change makes a plan
stale and a second one makes its successor stale; with one review run identifier
(`MaxAttempt = 1`) a plan is reviewed once, so the later review that stops a tool is a
late one of an older plan. A second review of the plan itself is left to the theorem:
`MaxAttempt = 2` is beyond what TLC finishes in the time of a run. In `access` the second process is
where the change was not made, and the second delegation the one that survives.

`creditors`, `corrections` and the two `statement` runs do not check for deadlock: days,
changes and settlements are bounded and these systems then really have nothing left
to do.

One run ends in a counterexample. It states what a comment of the repository says, and
the trace is the program's:

| Run | The claim | What happens |
|---|---|---|
| `statement_waiver_reset` | the overdue cron resets a waived penalty "only ... for future overdue episodes" (`cron/overdue/route.ts:85-87`) | clearing `penalty_waived_at` takes the waiver's date away, so the statement charges the penalty for the waived days too: what is owed today rises with the reset |

### 3.1 Fairness

`LoanSettlement`, `FundTransfers` and `RateCorrection` have liveness properties. Weak
fairness of commit-or-rollback says that Postgres runs a transaction that holds its
locks to its end, one way or the other; no handler waits for a person or another
service in between. Strong fairness of taking a lock says that waiters are
granted in turn, which is how Postgres queues row and advisory locks: a
waiter cannot be overtaken for ever. `RateCorrection` states it for the step a
session is at, whichever lock that is; there a rollback is not forced, so a session that
ends does so by its own steps. Nothing is assumed of people: they may never
act. A request that ends does not necessarily succeed. `LoanStatement` states that days
pass, for its counterexample only; no liveness is claimed of the batch, the tools or the
creditors' handlers, which may be rolled back and tried again for ever.

### 3.2 Observed, without a run

Seen while writing the models and choosing bounds; many are the reason a property is
stated with a hypothesis, or checked on the narrower instance named above.

*Settlement and lifecycle.*

- An edit reads the payment before it locks (`payment.service.ts:419`). If a deletion
  commits meanwhile, the edit posts a fresh split for a payment that is gone.
- Mark wrong, edit, unmark: the edit posts a split although the row does not count, the
  unmark posts it again (`payment.service.ts:1289`).
- After a deletion the reopen decision computes the interest of a loan that is still
  `fully_paid`, which is zero by definition: the loan stays closed with interest due
  (`payment.service.ts:837`).
- A payment dated at midnight does not see a reversal stamped later that day, so two
  reversals of one day take the accrual off twice (`transaction.service.ts:605`).
- A payment dated before later ones is split against the principal *before* it,
  so together they can repay more than there was (`ReceivableNotNegative` fails with
  backdating). A backdated payment after an undone waiver can close a loan with
  principal due.
- What an undone waiver restores is invisible to `reverseInterestAccrual`.
- Two first loans of a customer are both issued: there is no row to lock, although the
  comment says concurrent calls are serialized (`loan.service.ts:149-151`). A
  `createLoan` that waited behind a rollover does not find the successor either, and a
  correction on a `fully_paid` loan can reopen it beside a newer active one.
- A seizure reads the balance inside its transaction but without locking the loan; a
  payment that commits before the journals leaves the settled loan overpaid
  (`collateral-settlement.service.ts:130`).

*Month end and statement.*

- One loan with a payment of part of its interest within the month, or with any
  settlement after the month's end, blocks the batch for all loans. A month that was
  missed blocks the later ones.
- A payment that commits after the batch's snapshot is caught only because the triggers
  write `loan_balances`: the batch locks the loan row, but a payment that does not close
  the loan never updates that row. The mutant `RowUnseen` shows it.
- Two batches may deadlock: the query that lists the active loans states no order.
- Planner and batch disagree, and the whole batch rolls back, when a penalty was active
  (the batch takes one effective rate for the whole life), when principal was waived (its
  segments know payments only), and when accrued interest is not a whole number of
  shillings. `AmountsAgree` has the three as hypotheses.
- A new multiplier applies to the penalty of days already charged. The waiver of a
  penalty is guarded by the page, not by the server action. `effective-rate.ts:22-23`
  says the waiver is reset below 60 days overdue; the cron does it at 0.

*Creditors.*

- A cron beside another one, or beside a repayment, posts a month twice in spite of
  "Idempotent: calling multiple times will not double-post"
  (`transaction.service.ts:954`). Two repayments at once repay more principal than there
  is, or reverse more than was accrued.
- A repayment of part of the interest reverses all of the accrual and starts a new
  period: the rest of the interest is lost. What is paid beyond the principal is posted
  nowhere.
- Creditor and first investment are two transactions: a crash leaves a creditor
  without one, and a repeated submission makes second ones.

*Rate corrections and correction tools.*

- An approval does not compare the rate the request was filed for with the present
  one; the request's own rate is applied over whatever came in between.
- After any correction the month-end loader blocks the loan
  (`portfolio-accrual-repair.service.ts:546-547`), and with it the batch.
- The portfolio tools do not look at a later, failing review that was recorded after
  their first read; rollover corrections do. `LatestReviewStands` is about those.
- As with the batch, a stale plan of a portfolio tool is refused only because of the
  balance row's trigger, or because the other transaction wrote the loan row.
- `LOCK TABLE` waits for a request that has written, which may wait for a row the
  tool's predecessor holds: Postgres or `lock_timeout` ends one of them.

*Access.*

- A lookup that had read before a revocation can store the elevation afterwards, for 30
  seconds; other processes keep their entry until it lapses, although the comment
  says changes take effect "in real time" (`action-utils.ts:74-77`).
- Two delegations of one supervisor can be active; revoking one leaves the elevation.
  Assigning another role revokes no delegation, and the session cookie says
  "supervisor" for up to 15 minutes more.
- An accepted invitation's role and status are two statements: one may fail. An
  invitation revoked while somebody accepts, resends or lets it expire is overwritten.

## 4. What is proved

Constants are arbitrary: any number of sessions, payments, waivers, accounts,
delegations, any amounts, any calendar. The only assumptions are the named ones of the
modules (`LoanAssumption`, `NameAssumption`, `WaiverAssumption`, `LifecycleAssumption`,
`FundsAssumption`, `RateAssumption`, `MonthEndAssumption`, `LoanStatementAssumption`,
`CreditorsAssumption`, `CorrectionAssumption`, `InvitedAsRoles`): bounds are naturals,
amounts positive naturals, the null value is none of the names, tools and crons are not
clerks, a table has finitely many rows.

| Theorem | Statement |
|---|---|
| `LoanSettlement_proofs!TypeCorrect` | `Spec => []TypeOK` |
| `LoanSettlement_proofs!Serialized` | `Spec => []CorrectionsSerialized` |
| `LoanSettlement_proofs!NeverDoublyReversed` | `Spec => []NoDoubleReversal` |
| `LoanSettlement_proofs!ClosingCancels` | `Spec => []ClosedHasNoPendingRequest` |
| `LoanSettlement_proofs!BooksAlwaysAgree` | `Spec => []BooksAgree` |
| `LoanSettlement_proofs!RecordingImplementsPaymentEffect` | without edit and unmark, `Spec => PaymentsTakeEffectOnce` |
| `LoanSettlement_proofs!NeverRepaidTwice` | without edit, unmark and backdating, `Spec => []ReceivableNotNegative` |
| `LoanSettlement_proofs!ClosedMeansRepaid` | without edit, unmark and backdating, `Spec => []ClosedOwesNoPrincipal` |
| `FundTransfers_proofs!TypeCorrect` | `Spec => []TypeOK` |
| `FundTransfers_proofs!NeverSpentTwice` | `Spec => []NoDoubleSpend` |
| `FundTransfers_proofs!TransfersImplementCashFunds` | `Spec => TransfersMoveWhatIsThere` |
| `LoanLifecycle_proofs!TypeCorrect` | `Spec => []TypeOK` |
| `LoanLifecycle_proofs!RolledOverOnce` | `Spec => []OneSuccessor` |
| `LoanLifecycle_proofs!NoRequestOutlivesItsLoan` | `Spec => []ClosedHasNoPendingRequest` |
| `LoanLifecycle_proofs!ClosingIsFinal` | `Spec => ClosedForGood` |
| `LoanLifecycle_proofs!RolloverCarriesAll` | `Spec => []RolloverCarriesWhatWasOwed` |
| `LoanLifecycle_proofs!LedgersFollowTerms` | `Spec => []LedgerFollowsTerms` |
| `LoanLifecycle_proofs!InterestComesFirst` | `StatementSpec => []InterestFirst` |
| `LoanLifecycle_proofs!ThePastStands` | `StatementSpec => PastStands` |
| `LoanLifecycle_proofs!OnlyPartialsBlock` | `StatementSpec => []OnlyPartialBlocks` |
| `LoanLifecycle_proofs!AmountsAlwaysAgree` | `StatementSpec => []AmountsAgree` |
| `RateCorrection_proofs!TypeCorrect` | `Spec => []TypeOK` |
| `RateCorrection_proofs!AtMostOnePending` | `Spec => []OnePending` |
| `RateCorrection_proofs!RequestsAppliedOnce` | `Spec => []AppliedOnce` |
| `RateCorrection_proofs!ClosingEndsRequests` | `Spec => []ClosedHasNoPendingRequest` |
| `RateCorrection_proofs!InterestFollowsRate` | `Spec => []PostedAtPresentRate` |
| `RateCorrection_proofs!CorrectionsImplementRateTerms` | `Spec => CorrectionsKeepTerms` |
| `MonthEnd_proofs!TypeCorrect` | `Spec => []TypeOK` |
| `MonthEnd_proofs!ProjectionFollowsJournal` | `Spec => []BalanceFollowsJournal` |
| `MonthEnd_proofs!DeadlocksAreBatches` | `Spec => []OnlyBatchesDeadlock` |
| `MonthEnd_proofs!BatchPosts` | `Spec => BatchPostsWhatIsMissing` |
| `MonthEnd_proofs!PublishedMonthsAreAccrued` | `Spec => PublishedIsAccrued` |
| `Creditors_proofs!OverpaidOnlyWithOverlap` | `Spec => []OverpaidOnlyByOverlap` |
| `Creditors_proofs!AccruedAtMostOnce` | `Spec => []AccruedOnlyOnce` |
| `CorrectionRun_proofs!TypeCorrect` | `Spec => []TypeOK` |
| `CorrectionRun_proofs!LocksAreExclusive` | `Spec => []LocksExclude` |
| `CorrectionRun_proofs!CorrectionsApplyAtomically` | `Spec => AppliesAtomically` |
| `CorrectionRun_proofs!LatestReviewDecides` | `Spec => LatestReviewStands` |
| `Access_proofs!TypeCorrect` | `Spec => []TypeOK` |
| `Access_proofs!ChangesReachTheirProcess` | `Spec => []ChangeReachesItsProcess` |
| `Access_proofs!ClosedInvitationsStay` | `Spec => ClosedUnlessReadOpen` |

*No double reversal.* `NoDoubleReversal` alone is not inductive: a locked
transaction posts the reversal of the portions it *saw*, and if the journal had
changed since, the net could go negative. The missing half is
`CorrectionsSerialized`: a transaction is locked exactly when it is the one the
row's lock names, and what it saw is what the journal carries. With it, reversing
leaves exactly nothing (`ReversedToNothing`), and posting adds a split whose parts
are not negative (`AllocationSplits`). `CorrectionsSerialized` is itself inductive
because only the holder changes a portion, and it lets go of the lock as it does.

*A payment takes effect once.* The mapping takes a payment that was recorded and
counts to "counted", any other recorded one to "void". The invariant adds that a
payment not recorded, deleted or marked wrong carries no split (`EffectInv`). Then
recording maps to `Count`, deleting and marking a counted payment to `Void`, and a
second deletion or a deletion of a marked payment to a stutter, because what it
reverses is nothing. The hypothesis `NoReposting` (`Ops` has neither edit nor
unmark) is needed: the first two observations of 3.2 are what happens with them.

*The books of a loan.* `BooksAgree` compares a sum over all payments and live waivers
with the account. Every commit moves one term of the sum and the account by the
same amount, provided no undo takes back what another one took back already:
`UndoAlone`, which the waiver's row lock gives, says that what an undo is about is live
and in no other hands. `ReceivableNotNegative` and `ClosedOwesNoPrincipal` hold only where
postings are dated in order. Then nothing lies ahead of today (`NothingAhead`), the
split a payment works out is capped by what today shows, and a correction never takes
back less than it posted. The hypotheses are `NoReposting` and `MaxBackdate = 0`, those
of the run `settle_in_order`; any number of clerks, payments and waivers may race. With
backdating both fail, as 3.2 says.

*Transfers.* `NoDoubleSpend` needs to know that the balance a transfer has read is
still there when it posts: while the source's advisory lock is held, the only
unlocked changes are arrivals, which help, and outflows, which `spent` accounts for.
`ReadStaysGood` says so: what was read is at most `cash + spent` of the
source. `LocksHeld` makes the reader unique, `AccountsDiffer` excludes a transfer onto
itself and `AmountsPositive` makes each a real move. The refinement then maps a
posted transfer to `Move`, an arrival to `Arrive` and everything else to a stutter.

*One successor.* `OneSuccessor` says nothing of the rollovers under way. The
invariant adds `HeldAreActive`, the rows a `createLoan` holds are active, which stays
so because every step that changes a loan's status needs its row free or its own
(`HeldStayActive`, `FreeRowChanges`), and `SourcesClosed`, a loan with a successor is
rolled over or settled. So a second `createLoan` cannot hold the predecessor: it has to
be active to be held and closed to have a successor. `ClosingIsFinal` is an action
property, from the same invariant and one case per action: the steps that write
`status` either need the loan operational or paid, or write to a row that is new.
What is *not* needed is the status check of `settleWithCollateral`, which is made
before its transaction: a settlement may still overtake a rollover.

*What a rollover carries.* `Books` adds `QuotesStand`: the quote a `createLoan` made under
its locks is still what the old loan owes when it commits, because a payment, its
deletion, a seizure and another rollover each need that row free; and
`PaymentsOfIssued`, so that a new loan starts without payments. So moving the carry
empties the old ledger, and fresh money, carry and interest make up both the successor's
ledger and its `principal_amount`. `LedgerFollowsTerms` belongs to the same invariant,
since what is owed is read from the ledger.

*Rates.* All safety properties of `RateCorrection` come from one inductive
invariant (`Invariance`). Its heart is `StillGood`: what `Check` found under the locks
still holds at the write, because whoever changes the loan holds the loan row and
whoever changes a request's status holds its row or waits until nobody does.
`Authorised` carries the authority of whoever corrects or approves from before the
transaction, by `held`, which only grows.

*Month end.* Everything rests on the balance row: who writes the row of `loan_balances`
holds it until it commits, and every change of a loan's journal writes it. So what a
trigger summed while it holds the row is still the sum when it commits (`SumFresh`),
which is `BalanceFollowsJournal`; and a row not written since a batch's snapshot tells
that the loan is as the snapshot saw it (`PlanStands`), so that posting the plan leaves
nothing missing, and nothing is missing when the month is published
(`NothingMissing`). `OnlyBatchesDeadlock` looks at two sessions that wait for each other.
A clerk that waits for a balance row holds no more than the loan row, which only a
seizure still needs once it has the balance row; and a seizure refers to the loan, so
that nobody locks the loan row for update beside it (`NoReference`). So both are
batches.

*What a statement shows.* A day's line is worked out from the line of the day before and
the settlement of the day, so two histories that agree up to a day have the same
statement up to it (`StatementLooksBack`): that is `PastStands`. `InterestFirst` is
arithmetic on one day: what is left after a settlement that reaches principal is less
than half a shilling and rounds to nothing; a later waiver of the penalty does not reach
back. For `OnlyPartialBlocks` the invariant is `Kept`: in the evening of a posted month
the journal has what the statement has, and a settlement behind which everything was
paid reverses all that was recorded. From one checkpoint to the next the journal stands
still and the statement only grows, so nothing can be recorded too much.
`AmountsAgree` compares two sums. Each day lengthens the last segment by one and
accrues on the balance that segment has, so both grow alike (`SegmentedGrows`); the
hypotheses of the property say where the two then still differ by rounding, a penalty or
a waiver of principal.

*Sums and walks.* What a fold over a finite set returns (`SumRemove`) and that the
recursion of `Walk` has a solution (`WalksExist`) are statements about data of every
size. They are proved by a least counterexample, from the well-foundedness of the order
of the naturals and from the finiteness of the set.

*Creditors.* `ReadsAreFresh`: what a request has read is what the books say, unless
another one committed in between, and then it is marked. So as long as nothing raced
every commit works from the books, and the split caps principal at what is left and
reverses at most what was accrued. `AccruedOnlyOnce` needs that interest grows with
the days (`InterestGrows`, from the monotonicity of a product) and that a repayment
which charges no interest finds none accrued.

*Corrections.* The code compares the plan with its snapshot, not with the present. That
suffices because every change of the accounting writes the loan row or the balance row
(`RowsTell`), and a tool about to commit holds both and found neither newer than its
snapshot (`GoodTask`): so nothing has changed since. `LocksExclude` says that no two
sessions hold the same row, nor one a table while another has written. `RunsArePast`
makes an applied plan one that cannot be current again. The refinement maps `Commit` to
`Correct`, `Save` to `Change`, a recorded review to `Record`.

*Access.* `LookupsFresh`: a lookup of the process that last changed the elevation, not
overtaken, has read what holds now, or an invalidation of that process is still to
come; a stored entry inherits it. For `ClosedUnlessReadOpen`, a request carries what it
saw, never a closed state, and `RowsKnown` says that an insertion finds no row under
its number, so that it closes or reopens none.

Only model-checked: the liveness properties (`RequestsEnd` of `LoanSettlement` and of
`RateCorrection`, `TransfersEnd`), which need fairness and ENABLED, and
`ResetOnlyForFuture`, which fails. Every other property of a run is stated by a theorem
above. What the theorems say is about the models; that a model has every interleaving of
the code, the locks as Postgres grants them and the dates as they are written is what
section 2 argues.

## 5. Not modelled, and the plan

The plan of the first version is done: settlement, lifecycle, transfers, rate
corrections, month end with the projection, creditors, correction runs, allocation as
part of the statement, and access. Two entries were dropped on reading the code:

- *Delivery* (client ids, repeated submission, the retry without an id): a payment
  delivered twice is a second payment by what the code does, and no state tells it from
  a new one; the client turns its retries off for that reason.
- *Amending a loan*: `updateLoan` and `deleteLoan` are refused by the actions that
  would call them (`actions/loan.actions.ts:241-257`).

Left out, with the reason:

- Pages, components and collections, which are most of the repository: the server
  decides every outcome, and what the client does to its own copies is a library's
  work (TanStack DB).
- Reports, dashboards, receipts, exports: queries only. The reads that guard a write
  are in the modules.
- Cleanup cron, customers, bank accounts, categories, settings, audit: one row per
  call, and nothing that matters to money reads them between two steps.
- IP allowlist: the caches of `Access` once more, without its invalidation.
- Authentication: a library, configured. Its cookie is an external action of `Access`.
- Within the correction tools: planners, verifiers and backup proofs, which are pure
  comparisons of rows (a plan is its version here), and the tool for deleted
  rollovers. Historical rate and payment allocation repairs have the steps of the
  portfolio protocol and are not separate actions.
- The engine's fixed-rate and reducing-balance schedules (loans are issued perpetual), and the journal legs that
  only distribute an amount over accounts.

A next step would be the penalty in `LoanSettlement`'s concurrent setting, where the
overdue cron and an administrator update the loan row between a payment's read and its
lock, and creditors with several investments.
