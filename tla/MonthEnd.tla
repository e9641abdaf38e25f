------------------------------- MODULE MonthEnd -------------------------------
(***************************************************************************)
(* The month-end accrual of all loans (accrueInterestForLoans and the cron *)
(* route that calls it), among the transactions that settle something on a *)
(* loan, and the loan_balances row the triggers on the journal maintain.   *)
(*                                                                         *)
(* The batch is one SERIALIZABLE transaction: it plans from the snapshot   *)
(* of its first read, posts for all active loans or for none, and fails    *)
(* when it writes a row that was written since that snapshot.  The others  *)
(* are READ COMMITTED.  A payment locks the loan row FOR UPDATE before it  *)
(* looks; a settlement with collateral posts first and updates the row     *)
(* last.  A journal row refers to its loan, which keeps the loan row from  *)
(* being locked FOR UPDATE by another, not from being updated.             *)
(* Every journal row a transaction inserts makes the trigger sum the       *)
(* loan's journal anew and write the sum to the loan's balance row.        *)
(*                                                                         *)
(* Days are half months: 2*m is the end of month m.  The accrual planner   *)
(* compares statement and journal at every month end and on the day of     *)
(* every settlement; delta is what it finds missing.                       *)
(***************************************************************************)
EXTENDS Integers, FiniteSets

CONSTANTS
  Cron,            \* concurrent calls of the month-end route
  Clerk,           \* concurrent requests that settle something
  Loan,
  MaxMonth,        \* bound: months that pass
  MaxSettlements,  \* bound: requests that settle something
  None

ASSUME MonthEndAssumption ==
  /\ MaxMonth \in Nat
  /\ MaxSettlements \in Nat
  /\ None \notin Cron \cup Clerk \cup Loan
  /\ Cron \cap Clerk = {}

Session == Cron \cup Clerk
Day == 1..(2 * MaxMonth + 1)
Blocked == -1
Pc == {"idle", "lock", "post", "report",             \* the batch
       "compute", "upsert", "refire", "close", "commit"}  \* the others
Task == [pc : Pc, op : {"batch", "pay", "seize"}, loan : Loan \cup {None}, month : Nat,
         plan : [Loan -> Int], base : [Loan -> Int], left : SUBSET Loan,
         posted : SUBSET Loan, sum : Int]
Idle == [pc |-> "idle", op |-> "pay", loan |-> None, month |-> 0,
         plan |-> [l \in Loan |-> 0], base |-> [l \in Loan |-> 0], left |-> {},
         posted |-> {}, sum |-> 0]

VARIABLES
  month,        \* months that have ended
  active,       \* loans.status = "active"
  delta,        \* per loan and day: what the planner finds missing
  last,         \* per loan: the day of its last settlement
  settlements,  \* requests that settle something, so far
  journal,      \* per loan: the committed sum of its journal rows
  balance,      \* per loan: the committed loan_balances row
  published,    \* months with a financial snapshot
  loanLock,     \* the session that holds each loan row
  rowLock,      \* the session that wrote each balance row and is under way
  task,         \* per session: what it is doing
  newer         \* per session: rows written by others since its snapshot

loans == <<month, active, delta, last, settlements>>
books == <<journal, balance>>
locks == <<loanLock, rowLock>>
vars == <<loans, books, published, locks, task, newer>>

Nothing == [loans |-> {}, rows |-> {}]

Init ==
  /\ month = 0
  /\ active = [l \in Loan |-> TRUE]
  /\ delta = [l \in Loan |-> [d \in Day |-> 0]]
  /\ last = [l \in Loan |-> 0]
  /\ settlements = 0
  /\ journal = [l \in Loan |-> 0]
  /\ balance = [l \in Loan |-> 0]
  /\ published = {}
  /\ loanLock = [l \in Loan |-> None]
  /\ rowLock = [l \in Loan |-> None]
  /\ task = [s \in Session |-> Idle]
  /\ newer = [s \in Session |-> Nothing]

-----------------------------------------------------------------------------
(* Locks and the ends of transactions.                                     *)

\* Mutant of Release: the balance rows stay locked.
ReleaseLoans(s) ==
  /\ loanLock' = [l \in Loan |-> IF loanLock[l] = s THEN None ELSE loanLock[l]]
  /\ UNCHANGED rowLock
Release(s) ==
  /\ loanLock' = [l \in Loan |-> IF loanLock[l] = s THEN None ELSE loanLock[l]]
  /\ rowLock' = [l \in Loan |-> IF rowLock[l] = s THEN None ELSE rowLock[l]]

Abort(s) ==
  /\ Release(s)
  /\ task' = [task EXCEPT ![s] = Idle]
  /\ newer' = [newer EXCEPT ![s] = Nothing]
  /\ UNCHANGED <<loans, books, published>>

\* FOR KEY SHARE on the loan row, since the foreign key of a journal row was
\* checked: what holds the row FOR UPDATE needs no more.
Refers(t, l) == /\ task[t].op = "seize" /\ task[t].loan = l
                /\ task[t].pc \in {"upsert", "refire", "close", "commit"}

\* Mutant of CloseMode: the loan row is read FOR UPDATE before it is updated.
CloseForUpdate == "update"
CloseMode == "no key update"

\* The lock on its loan's row a session is about to take, and who is in its way.
Mode(s) == IF task[s].pc = "close" THEN CloseMode
           ELSE IF task[s].op = "seize" THEN "key share" ELSE "update"
Hinders(t, l, mode) ==
  \/ loanLock[l] = t /\ ~(mode = "key share" /\ task[t].op = "seize")
  \/ Refers(t, l) /\ mode = "update"
Lockable(s, l) == \A t \in Session \ {s} : ~Hinders(t, l, Mode(s))

\* The row a session waits for is held by another one.
WaitsFor(s, t) ==
  LET l == task[s].loan
  IN \/ task[s].pc = "lock" /\ \E k \in task[s].left : Hinders(t, k, Mode(s))
     \/ task[s].pc \in {"compute", "close"} /\ Hinders(t, l, Mode(s))
     \/ task[s].pc \in {"post", "upsert"} /\ rowLock[l] = t

\* Postgres aborts a transaction that waits for one that waits for it (a longer
\* circle takes three batches).
BreakDeadlock(s) ==
  /\ \E t \in Session \ {s} : WaitsFor(s, t) /\ WaitsFor(t, s)
  /\ Abort(s)

\* An error or a lost connection.
Rollback(s) == task[s].pc \notin {"idle", "report"} /\ Abort(s)

\* What a commit of s writes is newer than the snapshots of the others.
Outdate(s, changed, rows) ==
  newer' = [t \in Session |->
              IF t = s \/ task[t].op # "batch" THEN newer[t]
              ELSE [loans |-> newer[t].loans \cup changed, rows |-> newer[t].rows \cup rows]]

-----------------------------------------------------------------------------
(* The batch.                                                              *)

Ready(l, m) == {d \in Day : d <= 2 * m /\ delta[l][d] # 0} = {2 * m} /\ delta[l][2 * m] > 0
Noop(l, m) == \A d \in Day : d <= 2 * m => delta[l][d] = 0

\* loadPortfolioAccrualPlan: a settlement after the month end blocks the loan,
\* and so does anything missing on another day.
PlanOf(l, m) == IF last[l] > 2 * m THEN Blocked
                ELSE IF Noop(l, m) THEN 0
                ELSE IF Ready(l, m) THEN delta[l][2 * m] ELSE Blocked

ActiveLoans == {l \in Loan : active[l]}

Snapshot(todo) ==
  [pc |-> "lock", op |-> "batch", loan |-> None, month |-> month, left |-> todo,
   plan |-> [l \in Loan |-> IF l \in todo THEN PlanOf(l, month) ELSE 0],
   base |-> [l \in Loan |-> IF l \in todo THEN journal[l] ELSE 0],
   posted |-> {}, sum |-> 0]

\* Mutant of Preflight: loans that are blocked are left out.
PreflightSkipping(s) ==
  task' = [task EXCEPT ![s] = Snapshot({l \in ActiveLoans : PlanOf(l, month) # Blocked})]
\* One blocked loan stops the batch for all of them.
Preflight(s) ==
  IF \A l \in ActiveLoans : PlanOf(l, month) # Blocked
  THEN task' = [task EXCEPT ![s] = Snapshot(ActiveLoans)]
  ELSE UNCHANGED task

\* The cron route, for the month that ended last.
StartBatch(s) ==
  /\ task[s].pc = "idle"
  /\ month > 0
  /\ Preflight(s)
  /\ UNCHANGED <<loans, books, published, locks, newer>>

\* FOR UPDATE: fails if the loan row was updated since the snapshot.
LockNext(s) ==
  /\ task[s].pc = "lock"
  /\ \E l \in task[s].left :
       /\ Lockable(s, l)
       /\ IF l \in newer[s].loans
          THEN Abort(s)
          ELSE /\ loanLock' = [loanLock EXCEPT ![l] = s]
               /\ task' = [task EXCEPT ![s].pc = IF task[s].plan[l] > 0 THEN "post" ELSE "lock",
                                       ![s].loan = l, ![s].left = @ \ {l}]
               /\ UNCHANGED <<loans, books, published, rowLock, newer>>

\* Mutant of RowChanged: a balance row written since the snapshot is overwritten.
RowUnseen(s, l) == FALSE
RowChanged(s, l) == l \in newer[s].rows

\* The pair of journal rows and the trigger's write of the balance row.
Post(s) ==
  /\ task[s].pc = "post"
  /\ LET l == task[s].loan
     IN /\ rowLock[l] = None
        /\ IF RowChanged(s, l)
           THEN Abort(s)
           ELSE /\ rowLock' = [rowLock EXCEPT ![l] = s]
                /\ task' = [task EXCEPT ![s].pc = "lock", ![s].posted = @ \cup {l}]
                /\ UNCHANGED <<loans, books, published, loanLock, newer>>

CommitBatch(s) ==
  /\ task[s].pc = "lock"
  /\ task[s].left = {}
  /\ LET t == task[s]
     IN /\ delta' = [l \in Loan |-> IF l \in t.posted
                       THEN [delta[l] EXCEPT ![2 * t.month] = @ - t.plan[l]] ELSE delta[l]]
        /\ journal' = [l \in Loan |-> IF l \in t.posted
                         THEN journal[l] + t.plan[l] ELSE journal[l]]
        /\ balance' = [l \in Loan |-> IF l \in t.posted
                         THEN t.base[l] + t.plan[l] ELSE balance[l]]
        /\ Outdate(s, {}, t.posted)
  /\ task' = [task EXCEPT ![s].pc = "report"]
  /\ Release(s)
  /\ UNCHANGED <<month, active, last, settlements, published>>

\* generateMonthlySnapshot, after the creditors' accrual; a month that has its
\* snapshot keeps it.
Publish(s) ==
  /\ task[s].pc = "report"
  /\ published' = published \cup {task[s].month}
  /\ task' = [task EXCEPT ![s] = Idle]
  /\ newer' = [newer EXCEPT ![s] = Nothing]
  /\ UNCHANGED <<loans, books, locks>>

\* The request dies between the batch and the snapshot.
Crash(s) ==
  /\ task[s].pc = "report"
  /\ task' = [task EXCEPT ![s] = Idle]
  /\ newer' = [newer EXCEPT ![s] = Nothing]
  /\ UNCHANGED <<loans, books, published, locks>>

-----------------------------------------------------------------------------
(* Settlements: payments, waivers and their corrections under the loan     *)
(* row's lock ("pay"), the seizure of collateral without it ("seize").     *)

\* settleWithCollateral looks at the status before its transaction only.
Enter(s, op, l) ==
  /\ task[s].pc = "idle"
  /\ settlements < MaxSettlements
  /\ op = "seize" => active[l]
  /\ task' = [task EXCEPT ![s] = [Idle EXCEPT !.pc = "compute", !.op = op, !.loan = l]]
  /\ settlements' = settlements + 1
  /\ UNCHANGED <<month, active, delta, last, books, published, locks, newer>>

\* The loan row's lock or the first journal row's reference to it; then the
\* trigger sums what is committed and its own.
Compute(s) ==
  /\ task[s].pc = "compute"
  /\ LET l == task[s].loan
         early == task[s].op = "pay"
     IN /\ Lockable(s, l)
        /\ IF early /\ ~active[l]
           THEN Abort(s)
           ELSE /\ loanLock' = IF early THEN [loanLock EXCEPT ![l] = s] ELSE loanLock
                /\ task' = [task EXCEPT ![s].pc = "upsert", ![s].sum = journal[l] + 1]
                /\ UNCHANGED <<loans, books, published, rowLock, newer>>

\* ... and waits for the balance row before it writes that sum to it.
Upsert(s) ==
  /\ task[s].pc = "upsert"
  /\ rowLock[task[s].loan] = None
  /\ rowLock' = [rowLock EXCEPT ![task[s].loan] = s]
  /\ task' = [task EXCEPT ![s].pc = "refire"]
  /\ UNCHANGED <<loans, books, published, loanLock, newer>>

\* Mutant of Sum: one trigger call per transaction.
SumOnce(s) == task[s].sum
\* The other row of the pair sums again, in a snapshot of its own.
Sum(s) == journal[task[s].loan] + 1

Refire(s) ==
  /\ task[s].pc = "refire"
  /\ task' = [task EXCEPT ![s].sum = Sum(s),
                          ![s].pc = IF task[s].op = "seize" THEN "close" ELSE "commit"]
  /\ UNCHANGED <<loans, books, published, locks, newer>>

\* settleWithCollateral updates the loan row last.
Close(s) ==
  /\ task[s].pc = "close"
  /\ Lockable(s, task[s].loan)
  /\ loanLock' = [loanLock EXCEPT ![task[s].loan] = s]
  /\ task' = [task EXCEPT ![s].pc = "commit"]
  /\ UNCHANGED <<loans, books, published, rowLock, newer>>

\* What a settlement dated d leaves the planner to find: nothing or a part on
\* a day within a month, and at month ends from then on what it was, or less.
AfterSettlement(l, d, part, less) ==
  [c \in Day |-> IF c \in {2 * m : m \in 1..month} THEN (IF c < d THEN 0 ELSE 0 - less) + delta[l][c]
                 ELSE IF c = d THEN part ELSE delta[l][c]]

\* A payment may pay the loan off, dated up to today.
CommitSettlement(s) ==
  /\ task[s].pc = "commit"
  /\ LET l == task[s].loan
     IN \E d \in 1..(2 * month + 1), part, less \in {0, 1}, ends \in BOOLEAN :
          /\ task[s].op = "seize" => ends /\ d = 2 * month + 1
          /\ delta' = [delta EXCEPT ![l] = AfterSettlement(l, d, part, less)]
          /\ active' = [active EXCEPT ![l] = @ /\ ~ends]
          /\ last' = [last EXCEPT ![l] = IF d > @ THEN d ELSE @]
          /\ journal' = [journal EXCEPT ![l] = @ + 1]
          /\ balance' = [balance EXCEPT ![l] = task[s].sum]
          /\ Outdate(s, IF ends THEN {l} ELSE {}, {l})
  /\ task' = [task EXCEPT ![s] = Idle]
  /\ Release(s)
  /\ UNCHANGED <<month, settlements, published>>

\* The month's interest is missing until it is posted.
MonthPasses ==
  /\ month < MaxMonth
  /\ \A s \in Session : task[s].op # "batch"
  /\ month' = month + 1
  /\ delta' = [l \in Loan |-> IF active[l] THEN [delta[l] EXCEPT ![2 * month'] = @ + 1] ELSE delta[l]]
  /\ UNCHANGED <<active, last, settlements, books, published, locks, task, newer>>

Batch(s) == LockNext(s) \/ Post(s) \/ CommitBatch(s) \/ Publish(s)
Settlement(s) == Compute(s) \/ Upsert(s) \/ Refire(s) \/ Close(s) \/ CommitSettlement(s)
Step(s) == Batch(s) \/ Settlement(s) \/ BreakDeadlock(s)

Next ==
  \/ \E s \in Session : Step(s) \/ Rollback(s) \/ Crash(s)
  \/ \E s \in Cron : StartBatch(s)
  \/ \E s \in Clerk, op \in {"pay", "seize"}, l \in Loan : Enter(s, op, l)
  \/ MonthPasses

Spec == Init /\ [][Next]_vars

-----------------------------------------------------------------------------
(* Properties.                                                             *)

\* Every variable keeps its type; a row is locked by a session at work on it.
TypeOK ==
  /\ month \in 0..MaxMonth /\ settlements \in 0..MaxSettlements
  /\ active \in [Loan -> BOOLEAN]
  /\ delta \in [Loan -> [Day -> Int]]
  /\ last \in [Loan -> Day \cup {0}]
  /\ journal \in [Loan -> Int] /\ balance \in [Loan -> Int]
  /\ published \subseteq 1..MaxMonth
  /\ loanLock \in [Loan -> Session \cup {None}]
  /\ rowLock \in [Loan -> Session \cup {None}]
  /\ task \in [Session -> Task]
  /\ newer \in [Session -> [loans : SUBSET Loan, rows : SUBSET Loan]]
  /\ \A l \in Loan, s \in Session :
       loanLock[l] = s \/ rowLock[l] = s => task[s].pc \notin {"idle", "report", "compute"}

\* The balance row of a loan that nobody is writing to is the sum of its
\* journal, whichever transactions wrote to both at the same time.
BalanceFollowsJournal == balance = journal

\* A month-end batch posts what the planner finds missing when it commits, not
\* when it looked: its loans have nothing missing afterwards.
BatchPostsWhatIsMissing ==
  [][\A s \in Cron : CommitBatch(s) =>
       \A l \in task[s].posted, d \in Day : d <= 2 * task[s].month => delta'[l][d] = 0]_vars

\* A month is published only when nothing of it or of an earlier month is
\* missing on any active loan, but for what was settled since the batch began.
PublishedIsAccrued ==
  [][\A m \in published' \ published, l \in ActiveLoans :
       (\A s \in Cron : task[s].pc = "report" /\ task'[s].pc = "idle" => l \notin newer[s].rows)
         => \A d \in Day : d <= 2 * m => delta[l][d] = 0]_vars

\* Payments, seizures and the batch all claim the loan row before the balance
\* row, each in its own way: only two batches, which lock loans in turn, can
\* wait for each other.
OnlyBatchesDeadlock ==
  \A s, t \in Session : s # t /\ WaitsFor(s, t) /\ WaitsFor(t, s) => {s, t} \subseteq Cron

=============================================================================
