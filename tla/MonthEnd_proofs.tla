---------------------------- MODULE MonthEnd_proofs ----------------------------
(***************************************************************************)
(* MonthEnd for every set of crons, clerks and loans, and any number of    *)
(* months: the projection follows the journal, the batch posts what is     *)
(* missing, a published month was accrued, only batches deadlock.          *)
(*                                                                         *)
(* The argument: who writes the balance row of a loan holds it, and every  *)
(* change of a loan's journal writes that row.  So what a transaction      *)
(* computed from the journal while it holds the row still holds when it    *)
(* commits (SumFresh), and a row that was not written since a batch's      *)
(* snapshot tells that the loan is as the snapshot saw it (PlanStands).    *)
(***************************************************************************)
EXTENDS MonthEnd, TLAPS

Settling == {"upsert", "refire", "close", "commit"}
Batching == {"lock", "post"}

\* Who does what, and where a task may be; no month passes during a batch.
Kind(s) ==
  /\ task[s].op = "batch" <=> task[s].pc \in Batching \cup {"report"}
  /\ task[s].op = "batch" => s \in Cron /\ task[s].month = month /\ month > 0
  /\ task[s].pc \in Settling \cup {"compute"} => s \in Clerk /\ task[s].loan \in Loan
  /\ task[s].pc = "close" => task[s].op = "seize"
  /\ task[s].pc = "post" => task[s].loan \in Loan
  /\ task[s].op # "batch" => newer[s].rows = {}

\* The rows a session holds, by where its task is.
Locks(s) ==
  /\ task[s].pc \in {"idle", "report", "compute"}
       => \A l \in Loan : loanLock[l] # s /\ rowLock[l] # s
  /\ task[s].pc \in Settling =>
       \A l \in Loan :
         /\ loanLock[l] = s <=> l = task[s].loan /\ (task[s].op = "pay" \/ task[s].pc = "commit")
         /\ rowLock[l] = s <=> l = task[s].loan /\ task[s].pc # "upsert"
  /\ task[s].pc \in Batching =>
       \A l \in Loan :
         /\ loanLock[l] = s => l \notin task[s].left
         /\ rowLock[l] = s <=> l \in task[s].posted
         /\ l \in task[s].posted \/ (task[s].pc = "post" /\ l = task[s].loan) => loanLock[l] = s
  /\ task[s].pc = "post" => task[s].loan \notin task[s].posted

\* What the trigger summed under the balance row's lock is still the sum.
SumFresh(s) == task[s].pc \in {"close", "commit"} => task[s].sum = journal[task[s].loan] + 1

ToPost(s) == task[s].left \cup task[s].posted
               \cup {l \in Loan : task[s].pc = "post" /\ l = task[s].loan}

\* An active loan whose balance row was not written since the batch's snapshot
\* is as the snapshot saw it: the sum of its journal, what is missing at the
\* month end, and nothing before it.
PlanStands(s) ==
  task[s].pc \in Batching =>
    /\ task[s].posted \cap newer[s].rows = {}
    /\ \A l \in Loan \ newer[s].rows :
         /\ l \in ToPost(s) => active[l]
         /\ active[l] =>
              /\ task[s].base[l] = journal[l]
              /\ task[s].plan[l] = delta[l][2 * month] /\ task[s].plan[l] >= 0
              /\ \A d \in Day : d < 2 * month => delta[l][d] = 0
              /\ l \in ToPost(s) \/ task[s].plan[l] = 0

\* After the batch nothing is missing on the loans nobody settled on since.
NothingMissing(s) ==
  task[s].pc = "report" =>
    \A l \in Loan \ newer[s].rows :
      active[l] => \A d \in Day : d <= 2 * month => delta[l][d] = 0

Good(s) == Kind(s) /\ Locks(s) /\ SumFresh(s) /\ PlanStands(s) /\ NothingMissing(s)

\* No journal row refers to a loan that another session holds FOR UPDATE.
NoReference(s, t) == \A l \in Loan : loanLock[l] = s /\ task[s].op # "seize" => ~Refers(t, l)

IInv ==
  /\ TypeOK
  /\ BalanceFollowsJournal
  /\ \A s \in Session : Good(s)
  /\ \A s, t \in Session : s # t => NoReference(s, t)

-----------------------------------------------------------------------------
(* Types.                                                                  *)

\* TypeOK without its last part, which follows from Locks.
LoansTyped ==
  /\ month \in 0..MaxMonth /\ settlements \in 0..MaxSettlements
  /\ active \in [Loan -> BOOLEAN]
  /\ delta \in [Loan -> [Day -> Int]]
  /\ last \in [Loan -> Day \cup {0}]
  /\ journal \in [Loan -> Int] /\ balance \in [Loan -> Int]
  /\ published \subseteq 1..MaxMonth
LocksTyped ==
  /\ loanLock \in [Loan -> Session \cup {None}]
  /\ rowLock \in [Loan -> Session \cup {None}]
WorkTyped ==
  /\ task \in [Session -> Task]
  /\ newer \in [Session -> [loans : SUBSET Loan, rows : SUBSET Loan]]

LEMMA TypedByParts ==
  ASSUME LoansTyped, LocksTyped, WorkTyped, \A s \in Session : Locks(s)
  PROVE  TypeOK
<1>1. ASSUME NEW l \in Loan, NEW s \in Session, loanLock[l] = s \/ rowLock[l] = s
      PROVE  task[s].pc \notin {"idle", "report", "compute"}
  BY <1>1 DEF Locks
<1> QED
  BY <1>1 DEF TypeOK, LoansTyped, LocksTyped, WorkTyped

LEMMA PartsOfType == TypeOK => LoansTyped /\ LocksTyped /\ WorkTyped
BY DEF TypeOK, LoansTyped, LocksTyped, WorkTyped

LEMMA IdleTyped == Idle \in Task /\ Idle.pc = "idle" /\ Idle.op = "pay"
BY DEF Idle, Task, Pc

LEMMA NoneIsNobody ==
  /\ None \notin Session /\ None \notin Loan
  /\ \A s \in Cron : s \notin Clerk
BY MonthEndAssumption DEF Session

LEMMA MonthEndDays ==
  ASSUME NEW m \in 0..MaxMonth, m > 0
  PROVE  2 * m \in Day /\ m \in Nat /\ m \in 1..MaxMonth
BY MonthEndAssumption DEF Day

-----------------------------------------------------------------------------
(* The other sessions' part of the invariant.                              *)

\* What a step of s leaves of what holds of another session: it changes no
\* loan but those whose balance row it holds, and says so to a batch.
OthersSee(s, t, C) ==
  /\ task'[t] = task[t]
  /\ month' = month
  /\ \A l \in Loan : /\ loanLock'[l] = t <=> loanLock[l] = t
                     /\ rowLock'[l] = t <=> rowLock[l] = t
  /\ \A l \in C : rowLock[l] = s
  /\ \A l \in Loan \ C : /\ journal'[l] = journal[l]
                         /\ delta'[l] = delta[l]
                         /\ active'[l] = active[l]
  /\ newer'[t].rows = IF task[t].op = "batch" THEN newer[t].rows \cup C ELSE newer[t].rows

LEMMA OthersStayGood ==
  ASSUME IInv, NEW s \in Session, NEW t \in Session, s # t, NEW C \in SUBSET Loan,
         OthersSee(s, t, C)
  PROVE  Good(t)'
<1>1. Good(t) /\ task[t] \in Task /\ newer[t].rows \in SUBSET Loan
  BY DEF IInv, TypeOK
<1>2. Kind(t)'
  BY <1>1 DEF Good, Kind, OthersSee, Batching
<1>3. Locks(t)'
  BY <1>1 DEF Good, Locks, OthersSee
<1>4. SumFresh(t)'
  <2>1. CASE task[t].pc \in {"close", "commit"}
    <3>1. task[t].loan \in Loan /\ rowLock[task[t].loan] = t
      BY <1>1, <2>1 DEF Good, Kind, Locks, Settling
    <3>2. task[t].loan \notin C
      BY <3>1 DEF OthersSee
    <3> QED
      BY <1>1, <3>1, <3>2 DEF Good, SumFresh, OthersSee
  <2> QED
    BY <2>1 DEF SumFresh, OthersSee
<1>5. PlanStands(t)'
  <2>1. CASE task[t].pc \in Batching
    <3>1. newer'[t].rows = newer[t].rows \cup C
      BY <1>1, <2>1 DEF Good, Kind, OthersSee
    <3>2. task[t].posted \cap C = {}
      BY <1>1, <2>1 DEF Good, Locks, OthersSee, Task
    <3>3. ToPost(t)' = ToPost(t)
      BY DEF ToPost, OthersSee
    <3> QED
      BY <1>1, <2>1, <3>1, <3>2, <3>3 DEF Good, PlanStands, OthersSee
  <2> QED
    BY <2>1 DEF PlanStands, OthersSee
<1>6. NothingMissing(t)'
  <2>1. CASE task[t].pc = "report"
    <3>1. newer'[t].rows = newer[t].rows \cup C
      BY <1>1, <2>1 DEF Good, Kind, OthersSee
    <3> QED
      BY <1>1, <2>1, <3>1 DEF Good, NothingMissing, OthersSee
  <2> QED
    BY <2>1 DEF NothingMissing, OthersSee
<1> QED
  BY <1>2, <1>3, <1>4, <1>5, <1>6 DEF Good

\* What the invariant's proof has to show of a step of s.
LEMMA StepOfOne ==
  ASSUME IInv, NEW s \in Session, NEW C \in SUBSET Loan,
         LoansTyped', LocksTyped', WorkTyped', balance' = journal', Good(s)',
         \A t \in Session : t # s =>
           OthersSee(s, t, C) /\ NoReference(s, t)' /\ NoReference(t, s)'
  PROVE  IInv'
<1>1. \A t \in Session : Good(t)'
  BY OthersStayGood
<1>2. TypeOK'
  <2>1. \A t \in Session : Locks(t)'
    BY <1>1 DEF Good
  <2> QED
    BY <2>1 DEF TypeOK, LoansTyped, LocksTyped, WorkTyped, Locks
<1>3. ASSUME NEW t \in Session, NEW u \in Session, t # u PROVE NoReference(t, u)'
  <2>1. CASE t = s \/ u = s
    BY <1>3, <2>1
  <2>2. CASE t # s /\ u # s
    <3>1. NoReference(t, u)
      BY <1>3 DEF IInv
    <3>2. /\ task'[t] = task[t] /\ task'[u] = task[u]
          /\ \A l \in Loan : loanLock'[l] = t <=> loanLock[l] = t
      BY <2>2 DEF OthersSee
    <3> QED
      BY <3>1, <3>2 DEF NoReference, Refers
  <2> QED
    BY <2>1, <2>2
<1> QED
  BY <1>1, <1>2, <1>3 DEF IInv, BalanceFollowsJournal

\* A session without a task holds nothing and refers to nothing.
LEMMA AtRest ==
  ASSUME NEW s \in Session, task'[s] = Idle, newer'[s].rows = {},
         \A l \in Loan : loanLock'[l] # s /\ rowLock'[l] # s
  PROVE  Good(s)' /\ \A t \in Session : NoReference(s, t)' /\ NoReference(t, s)'
BY IdleTyped DEF Good, Kind, Locks, SumFresh, PlanStands, NothingMissing, NoReference,
   Refers, Settling, Batching

\* Letting go of one's rows leaves the others theirs.
LEMMA ReleaseSeen ==
  ASSUME LocksTyped, NEW s \in Session, Release(s)
  PROVE  /\ LocksTyped'
         /\ \A l \in Loan : loanLock'[l] # s /\ rowLock'[l] # s
         /\ \A t \in Session : t # s => \A l \in Loan : /\ loanLock'[l] = t <=> loanLock[l] = t
                                                        /\ rowLock'[l] = t <=> rowLock[l] = t
BY NoneIsNobody DEF LocksTyped, Release

LEMMA AbortStep ==
  ASSUME IInv, NEW s \in Session, Abort(s)
  PROVE  IInv'
<1>1. LoansTyped' /\ LocksTyped' /\ WorkTyped'
  BY PartsOfType, ReleaseSeen, IdleTyped
     DEF IInv, Abort, loans, books, LoansTyped, WorkTyped, Nothing
<1>2. Good(s)' /\ \A t \in Session : NoReference(s, t)' /\ NoReference(t, s)'
  BY PartsOfType, ReleaseSeen, AtRest DEF IInv, Abort, WorkTyped, Nothing
<1>3. ASSUME NEW t \in Session, t # s PROVE OthersSee(s, t, {})
  BY <1>3, PartsOfType, ReleaseSeen DEF IInv, Abort, OthersSee, loans, books, WorkTyped
<1> QED
  BY <1>1, <1>2, <1>3, StepOfOne DEF IInv, Abort, books, BalanceFollowsJournal

-----------------------------------------------------------------------------
(* The batch.                                                              *)

LEMMA SnapshotTyped ==
  ASSUME TypeOK, month > 0
  PROVE  /\ Snapshot(ActiveLoans) \in Task
         /\ \A l \in ActiveLoans : PlanOf(l, month) \in Int
<1>1. \A l \in ActiveLoans : PlanOf(l, month) \in Int
  BY MonthEndDays DEF PlanOf, ActiveLoans, TypeOK, Blocked
<1>2. ActiveLoans \in SUBSET Loan
  BY DEF ActiveLoans
<1> HIDE DEF ActiveLoans
<1>3. month \in Nat /\ \A l \in Loan : journal[l] \in Int
  BY MonthEndAssumption DEF TypeOK
<1>4. /\ [l \in Loan |-> IF l \in ActiveLoans THEN PlanOf(l, month) ELSE 0] \in [Loan -> Int]
      /\ [l \in Loan |-> IF l \in ActiveLoans THEN journal[l] ELSE 0] \in [Loan -> Int]
  BY <1>1, <1>3
<1> QED
  BY <1>1, <1>2, <1>3, <1>4 DEF Snapshot, Idle, Task, Pc

\* A loan the planner does not block misses at most its month end.
LEMMA PlanTells ==
  ASSUME TypeOK, month > 0, NEW l \in Loan, PlanOf(l, month) # Blocked
  PROVE  /\ PlanOf(l, month) = delta[l][2 * month] /\ PlanOf(l, month) >= 0
         /\ \A d \in Day : d < 2 * month => delta[l][d] = 0
<1>1. PICK m \in Day : m = 2 * month
  BY MonthEndDays DEF TypeOK
<1>2. Day \subseteq Int
  BY DEF Day
<1>3. CASE Noop(l, month)
  <2>1. \A d \in Day : d <= m => delta[l][d] = 0
    BY <1>1, <1>3 DEF Noop
  <2>2. PlanOf(l, month) = 0
    BY <1>3 DEF PlanOf
  <2> QED
    BY <1>1, <1>2, <2>1, <2>2
<1>4. CASE ~Noop(l, month)
  <2>1. PlanOf(l, month) = delta[l][m] /\ Ready(l, month) /\ delta[l][m] > 0
    BY <1>1, <1>4 DEF PlanOf, Ready
  <2>2. {d \in Day : d <= m /\ delta[l][d] # 0} = {m}
    BY <1>1, <2>1 DEF Ready
  <2>3. ASSUME NEW d \in Day, d < m PROVE delta[l][d] = 0
    <3>1. d # m /\ d <= m
      BY <1>2, <2>3
    <3> QED
      BY <2>2, <3>1
  <2> QED
    BY <1>1, <2>1, <2>3 DEF TypeOK
<1> QED
  BY <1>3, <1>4

LEMMA StartBatchStep ==
  ASSUME IInv, NEW s \in Cron, StartBatch(s)
  PROVE  IInv'
<1>0. s \in Session /\ task[s].pc = "idle" /\ month > 0 /\ TypeOK /\ Good(s)
  BY DEF StartBatch, Session, IInv
<1>1. CASE UNCHANGED task
  BY <1>1 DEF StartBatch, loans, books, locks, IInv, TypeOK, BalanceFollowsJournal, Good, Kind,
     Locks, SumFresh, PlanStands, NothingMissing, NoReference, Refers, ToPost
<1>2. CASE /\ \A l \in ActiveLoans : PlanOf(l, month) # Blocked
           /\ task' = [task EXCEPT ![s] = Snapshot(ActiveLoans)]
  <2> DEFINE k == Snapshot(ActiveLoans)
  <2>1. /\ k.pc = "lock" /\ k.op = "batch" /\ k.month = month
        /\ k.left = ActiveLoans /\ k.posted = {}
        /\ \A l \in ActiveLoans : k.plan[l] = PlanOf(l, month) /\ k.base[l] = journal[l]
    BY DEF Snapshot, Idle, ActiveLoans
  <2>2. k \in Task
    BY <1>0, SnapshotTyped
  <2> HIDE DEF k
  <2>3. task'[s] = k /\ \A t \in Session : t # s => task'[t] = task[t]
    BY <1>0, <1>2 DEF k, TypeOK
  <2>4. /\ loans' = loans /\ journal' = journal /\ balance' = balance /\ newer' = newer
        /\ loanLock' = loanLock /\ rowLock' = rowLock /\ published' = published
    BY DEF StartBatch, books, locks
  <2>5. LoansTyped' /\ LocksTyped' /\ WorkTyped'
    BY <1>0, <2>2, <2>3, <2>4, <1>2, PartsOfType DEF LoansTyped, LocksTyped, WorkTyped, loans, k
  <2>6. \A l \in Loan : loanLock[l] # s /\ rowLock[l] # s
    BY <1>0 DEF Good, Locks
  <2>7. newer[s].rows = {}
    BY <1>0 DEF Good, Kind, Batching
  <2>8. Kind(s)'
    BY <1>0, <2>1, <2>3, <2>4 DEF Kind, Batching, Settling, loans
  <2>9. Locks(s)'
    BY <2>1, <2>3, <2>4, <2>6 DEF Locks, Settling, Batching
  <2>10. PlanStands(s)'
    <3>1. ASSUME NEW l \in Loan
          PROVE  /\ l \in ToPost(s)' <=> l \in ActiveLoans
                 /\ l \in ActiveLoans <=> active[l]
      BY <2>1, <2>3 DEF ToPost, ActiveLoans
    <3>2. ASSUME NEW l \in Loan, active[l]
          PROVE  /\ k.base[l] = journal[l]
                 /\ k.plan[l] = delta[l][2 * month] /\ k.plan[l] >= 0
                 /\ \A d \in Day : d < 2 * month => delta[l][d] = 0
      BY <1>0, <1>2, <2>1, <3>1, <3>2, PlanTells
    <3> QED
      BY <2>1, <2>3, <2>4, <2>7, <3>1, <3>2 DEF PlanStands, loans
  <2>11. Good(s)'
    BY <2>1, <2>3, <2>8, <2>9, <2>10 DEF Good, SumFresh, NothingMissing
  <2>12. ASSUME NEW t \in Session, t # s
         PROVE  OthersSee(s, t, {}) /\ NoReference(s, t)' /\ NoReference(t, s)'
    BY <2>1, <2>3, <2>4, <2>6, <2>12 DEF OthersSee, NoReference, Refers, loans
  <2> QED
    BY <1>0, <2>4, <2>5, <2>11, <2>12, StepOfOne DEF IInv, BalanceFollowsJournal
<1> QED
  BY <1>1, <1>2 DEF StartBatch, Preflight

LEMMA LockNextStep ==
  ASSUME IInv, NEW s \in Session, LockNext(s)
  PROVE  IInv'
<1>1. CASE Abort(s)
  BY <1>1, AbortStep
<1>2. ASSUME NEW l \in task[s].left, Lockable(s, l),
             loanLock' = [loanLock EXCEPT ![l] = s],
             task' = [task EXCEPT ![s].pc = IF task[s].plan[l] > 0 THEN "post" ELSE "lock",
                                  ![s].loan = l, ![s].left = @ \ {l}],
             UNCHANGED <<loans, books, published, rowLock, newer>>
      PROVE  IInv'
  <2> DEFINE k == task'[s]
  <2>1. /\ TypeOK /\ Good(s) /\ task[s].pc = "lock" /\ task[s] \in Task /\ l \in Loan
        /\ LoansTyped /\ LocksTyped /\ WorkTyped
    BY PartsOfType DEF LockNext, IInv, TypeOK, Task
  <2>2. /\ k.pc = (IF task[s].plan[l] > 0 THEN "post" ELSE "lock")
        /\ k.loan = l /\ k.left = task[s].left \ {l}
        /\ k.op = task[s].op /\ k.month = task[s].month /\ k.posted = task[s].posted
        /\ k.plan = task[s].plan /\ k.base = task[s].base
        /\ k \in Task
        /\ \A t \in Session : t # s => task'[t] = task[t]
    BY <1>2, <2>1 DEF WorkTyped, Task, Pc
  <2>3. /\ \A j \in Loan : loanLock'[j] = IF j = l THEN s ELSE loanLock[j]
        /\ rowLock' = rowLock /\ newer' = newer /\ loans' = loans /\ books' = books
    BY <1>2, <2>1 DEF LocksTyped
  <2>4. LoansTyped' /\ LocksTyped' /\ WorkTyped'
    BY <1>2, <2>1, <2>2, <2>3 DEF LoansTyped, LocksTyped, WorkTyped, loans, books
  <2>5. task[s].op = "batch"
    BY <2>1 DEF Good, Kind, Batching
  <2>6. \A t \in Session \ {s} : loanLock[l] # t /\ ~Refers(t, l)
    BY <1>2, <2>1, <2>5 DEF Lockable, Hinders, Mode
  <2> HIDE DEF k
  <2>7. Kind(s)'
    BY <2>1, <2>2, <2>3 DEF k, Good, Kind, Batching, Settling, loans
  <2>8. Locks(s)'
    BY <2>1, <2>2, <2>3 DEF k, Good, Locks, Batching, Settling
  <2>9. PlanStands(s)'
    <3>1. ASSUME NEW j \in Loan
          PROVE  /\ j \in ToPost(s)' => j \in ToPost(s)
                 /\ j \in ToPost(s) => j \in ToPost(s)' \/ (j = l /\ ~(task[s].plan[l] > 0))
      BY <2>1, <2>2 DEF k, ToPost
    <3> QED
      BY <2>1, <2>2, <2>3, <3>1 DEF k, Good, PlanStands, Batching, loans, books, Task
  <2>10. Good(s)'
    BY <2>2, <2>7, <2>8, <2>9 DEF k, Good, SumFresh, NothingMissing
  <2>11. ASSUME NEW t \in Session, t # s
         PROVE  OthersSee(s, t, {}) /\ NoReference(s, t)' /\ NoReference(t, s)'
    <3>1. OthersSee(s, t, {})
      BY <2>2, <2>3, <2>6, <2>11 DEF OthersSee, loans, books
    <3>2. NoReference(s, t)'
      BY <2>2, <2>3, <2>5, <2>6, <2>11 DEF k, IInv, NoReference, Refers
    <3>3. NoReference(t, s)'
      BY <2>2 DEF k, NoReference, Refers
    <3> QED
      BY <3>1, <3>2, <3>3
  <2> QED
    BY <2>3, <2>4, <2>10, <2>11, StepOfOne DEF IInv, BalanceFollowsJournal, books
<1> QED
  BY <1>1, <1>2 DEF LockNext

LEMMA PostStep ==
  ASSUME IInv, NEW s \in Session, Post(s)
  PROVE  IInv'
<1> DEFINE l == task[s].loan
           k == task'[s]
<1>1. CASE Abort(s)
  BY <1>1, AbortStep
<1>2. CASE /\ ~RowChanged(s, l) /\ rowLock[l] = None
           /\ rowLock' = [rowLock EXCEPT ![l] = s]
           /\ task' = [task EXCEPT ![s].pc = "lock", ![s].posted = @ \cup {l}]
           /\ UNCHANGED <<loans, books, published, loanLock, newer>>
  <2>1. /\ TypeOK /\ Good(s) /\ task[s].pc = "post" /\ task[s] \in Task
        /\ LoansTyped /\ LocksTyped /\ WorkTyped
    BY PartsOfType DEF Post, IInv, TypeOK
  <2>2. l \in Loan
    BY <2>1 DEF Good, Kind
  <2>3. /\ k.pc = "lock" /\ k.loan = l /\ k.left = task[s].left
        /\ k.op = task[s].op /\ k.month = task[s].month
        /\ k.posted = task[s].posted \cup {l}
        /\ k.plan = task[s].plan /\ k.base = task[s].base
        /\ k \in Task
        /\ \A t \in Session : t # s => task'[t] = task[t]
    BY <1>2, <2>1, <2>2 DEF WorkTyped, Task, Pc
  <2>4. /\ \A j \in Loan : rowLock'[j] = IF j = l THEN s ELSE rowLock[j]
        /\ loanLock' = loanLock /\ newer' = newer /\ loans' = loans /\ books' = books
    BY <1>2, <2>1 DEF LocksTyped
  <2>5. LoansTyped' /\ LocksTyped' /\ WorkTyped'
    BY <1>2, <2>1, <2>3, <2>4 DEF LoansTyped, LocksTyped, WorkTyped, loans, books
  <2>6. l \notin newer[s].rows
    BY <1>2 DEF RowChanged
  <2> HIDE DEF k
  <2>7. Kind(s)'
    BY <2>1, <2>3, <2>4 DEF k, Good, Kind, Batching, Settling, loans
  <2>8. Locks(s)'
    BY <2>1, <2>2, <2>3, <2>4 DEF k, Good, Locks, Batching, Settling
  <2>9. PlanStands(s)'
    <3>1. \A j \in Loan : j \in ToPost(s)' <=> j \in ToPost(s)
      BY <2>1, <2>2, <2>3 DEF k, ToPost
    <3> QED
      BY <2>1, <2>3, <2>4, <2>6, <3>1 DEF k, Good, PlanStands, Batching, loans, books
  <2>10. Good(s)'
    BY <2>3, <2>7, <2>8, <2>9 DEF k, Good, SumFresh, NothingMissing
  <2>11. ASSUME NEW t \in Session, t # s
         PROVE  OthersSee(s, t, {}) /\ NoReference(s, t)' /\ NoReference(t, s)'
    <3>1. \A j \in Loan : rowLock'[j] = t <=> rowLock[j] = t
      BY <1>2, <2>4, <2>11, NoneIsNobody
    <3>2. OthersSee(s, t, {})
      BY <2>3, <2>4, <2>11, <3>1 DEF OthersSee, loans, books
    <3>3. NoReference(s, t)' /\ NoReference(t, s)'
      BY <2>3, <2>4, <2>11 DEF k, IInv, NoReference, Refers
    <3> QED
      BY <3>2, <3>3
  <2> QED
    BY <2>4, <2>5, <2>10, <2>11, StepOfOne DEF IInv, BalanceFollowsJournal, books
<1> QED
  BY <1>1, <1>2 DEF Post

\* What the batch has posted when it commits, and what it leaves.
LEMMA BatchEffect ==
  ASSUME IInv, NEW s \in Session, CommitBatch(s)
  PROVE  /\ task[s].op = "batch" /\ task[s].month = month
         /\ task[s].posted \in SUBSET Loan /\ 2 * month \in Day
         /\ \A l \in Loan :
              /\ l \in task[s].posted =>
                   /\ rowLock[l] = s /\ l \notin newer[s].rows
                   /\ balance'[l] = journal'[l]
                   /\ \A d \in Day : d <= 2 * month => delta'[l][d] = 0
              /\ l \notin task[s].posted =>
                   /\ delta'[l] = delta[l] /\ journal'[l] = journal[l] /\ balance'[l] = balance[l]
              /\ l \notin newer[s].rows /\ active[l]
                   => \A d \in Day : d <= 2 * month => delta'[l][d] = 0
<1>1. /\ TypeOK /\ Good(s) /\ task[s].pc = "lock" /\ task[s].left = {} /\ task[s] \in Task
  BY DEF CommitBatch, IInv, TypeOK
<1>2. task[s].op = "batch" /\ task[s].month = month /\ month > 0
  BY <1>1 DEF Good, Kind, Batching
<1>3. PICK m \in Day : m = 2 * month
  BY <1>1, <1>2, MonthEndDays DEF TypeOK
<1>4. /\ task[s].posted \in SUBSET Loan /\ Day \subseteq Int /\ delta \in [Loan -> [Day -> Int]]
      /\ task[s].plan \in [Loan -> Int]
  BY <1>1 DEF TypeOK, Task, Day
<1>5. \A l \in Loan :
        /\ delta'[l] = IF l \in task[s].posted
                       THEN [delta[l] EXCEPT ![m] = @ - task[s].plan[l]] ELSE delta[l]
        /\ journal'[l] = IF l \in task[s].posted THEN journal[l] + task[s].plan[l] ELSE journal[l]
        /\ balance'[l] = IF l \in task[s].posted
                         THEN task[s].base[l] + task[s].plan[l] ELSE balance[l]
  BY <1>2, <1>3 DEF CommitBatch
<1>6. \A l \in Loan : l \in ToPost(s) <=> l \in task[s].posted
  BY <1>1 DEF ToPost
<1>7. ASSUME NEW l \in Loan, l \notin newer[s].rows, active[l]
      PROVE  /\ task[s].base[l] = journal[l]
             /\ task[s].plan[l] = delta[l][m]
             /\ \A d \in Day : d < m => delta[l][d] = 0
             /\ l \in task[s].posted \/ task[s].plan[l] = 0
  BY <1>1, <1>3, <1>6, <1>7 DEF Good, PlanStands, Batching
<1>8. ASSUME NEW l \in task[s].posted
      PROVE  l \in Loan /\ rowLock[l] = s /\ l \notin newer[s].rows /\ active[l]
  BY <1>1, <1>4, <1>6 DEF Good, PlanStands, Locks, Batching
<1>9. ASSUME NEW l \in Loan, l \notin newer[s].rows, active[l], NEW d \in Day, d <= m
      PROVE  delta'[l][d] = 0
  <2>1. CASE l \in task[s].posted
    <3>1. delta'[l] = [delta[l] EXCEPT ![m] = @ - task[s].plan[l]]
      BY <1>5, <2>1
    <3>2. CASE d = m
      BY <1>4, <1>7, <1>9, <3>1, <3>2
    <3>3. CASE d # m
      BY <1>4, <1>7, <1>9, <3>1, <3>3
    <3> QED
      BY <3>2, <3>3
  <2>2. CASE l \notin task[s].posted
    <3>1. delta'[l] = delta[l] /\ delta[l][m] = 0
      BY <1>5, <1>7, <1>9, <2>2
    <3>2. d = m \/ d < m
      BY <1>4, <1>9
    <3> QED
      BY <1>7, <1>9, <3>1, <3>2
  <2> QED
    BY <2>1, <2>2
<1>10. ASSUME NEW l \in task[s].posted PROVE balance'[l] = journal'[l]
  <2>1. l \in Loan /\ task[s].base[l] = journal[l]
    BY <1>7, <1>8, <1>10
  <2>2. /\ journal'[l] = journal[l] + task[s].plan[l]
        /\ balance'[l] = task[s].base[l] + task[s].plan[l]
    BY <1>5, <1>10, <2>1
  <2> QED
    BY <2>1, <2>2
<1>11. \A l \in Loan : l \notin task[s].posted =>
         delta'[l] = delta[l] /\ journal'[l] = journal[l] /\ balance'[l] = balance[l]
  BY <1>5
<1> HIDE DEF Day
<1> QED
  BY <1>2, <1>3, <1>4, <1>8, <1>9, <1>10, <1>11

LEMMA CommitBatchStep ==
  ASSUME IInv, NEW s \in Session, CommitBatch(s)
  PROVE  IInv'
<1> DEFINE C == task[s].posted
<1>1. /\ TypeOK /\ Good(s) /\ task[s].pc = "lock" /\ task[s] \in Task
      /\ LoansTyped /\ LocksTyped /\ WorkTyped
  BY PartsOfType DEF CommitBatch, IInv, TypeOK
<1>2. /\ C \in SUBSET Loan /\ task[s].op = "batch" /\ month > 0
      /\ task[s].month = month /\ 2 * month \in Day
  BY <1>1, BatchEffect DEF Good, Kind, Batching
<1>3. /\ task'[s].pc = "report" /\ task'[s].op = "batch" /\ task'[s].month = month
      /\ task'[s] \in Task
      /\ \A t \in Session : t # s => task'[t] = task[t]
  BY <1>1, <1>2 DEF CommitBatch, WorkTyped, Task, Pc
<1>4. /\ newer'[s] = newer[s]
      /\ \A t \in Session : t # s =>
           newer'[t].rows = IF task[t].op = "batch" THEN newer[t].rows \cup C ELSE newer[t].rows
      /\ newer' \in [Session -> [loans : SUBSET Loan, rows : SUBSET Loan]]
  BY <1>1, <1>2 DEF CommitBatch, Outdate, WorkTyped
<1>5. LoansTyped' /\ LocksTyped' /\ WorkTyped'
  <2>1. delta' \in [Loan -> [Day -> Int]]
    BY <1>1, <1>2 DEF CommitBatch, LoansTyped, Task
  <2>2. journal' \in [Loan -> Int] /\ balance' \in [Loan -> Int]
    BY <1>1 DEF CommitBatch, LoansTyped, Task
  <2>3. task' \in [Session -> Task]
    BY <1>1, <1>3 DEF CommitBatch, WorkTyped
  <2> QED
    BY <1>1, <1>4, <2>1, <2>2, <2>3, ReleaseSeen DEF CommitBatch, LoansTyped, WorkTyped
<1>6. balance' = journal'
  <2>1. ASSUME NEW l \in Loan PROVE balance'[l] = journal'[l]
    BY BatchEffect DEF IInv, BalanceFollowsJournal
  <2> QED
    BY <2>1 DEF CommitBatch
<1>7. Good(s)'
  <2>1. Kind(s)'
    BY <1>2, <1>3, <1>1 DEF Kind, Good, Batching, Settling, CommitBatch
  <2>2. Locks(s)'
    BY <1>1, <1>3, ReleaseSeen DEF Locks, Settling, Batching, CommitBatch
  <2>3. NothingMissing(s)'
    <3>1. active' = active /\ month' = month
      BY DEF CommitBatch
    <3> QED
      BY <1>4, <3>1, BatchEffect DEF NothingMissing
  <2> QED
    BY <1>3, <2>1, <2>2, <2>3 DEF Good, SumFresh, PlanStands, Batching
<1>8. ASSUME NEW t \in Session, t # s
      PROVE  OthersSee(s, t, C) /\ NoReference(s, t)' /\ NoReference(t, s)'
  <2>1. OthersSee(s, t, C)
    <3>1. active' = active /\ month' = month /\ Release(s)
      BY DEF CommitBatch
    <3>2. \A l \in Loan : /\ loanLock'[l] = t <=> loanLock[l] = t
                          /\ rowLock'[l] = t <=> rowLock[l] = t
      BY <1>1, <1>8, <3>1, ReleaseSeen
    <3>3. /\ \A l \in C : rowLock[l] = s
          /\ \A l \in Loan \ C : journal'[l] = journal[l] /\ delta'[l] = delta[l]
      BY BatchEffect
    <3> QED
      BY <1>3, <1>4, <1>8, <3>1, <3>2, <3>3 DEF OthersSee
  <2>2. NoReference(s, t)' /\ NoReference(t, s)'
    BY <1>1, <1>3, ReleaseSeen DEF NoReference, Refers, CommitBatch
  <2> QED
    BY <2>1, <2>2
<1> QED
  BY <1>2, <1>5, <1>6, <1>7, <1>8, StepOfOne

LEMMA ReportStep ==
  ASSUME IInv, NEW s \in Session, Publish(s) \/ Crash(s)
  PROVE  IInv'
<1>1. /\ TypeOK /\ Good(s) /\ task[s].pc = "report" /\ LoansTyped /\ LocksTyped /\ WorkTyped
  BY PartsOfType DEF Publish, Crash, IInv
<1>2. /\ task' = [task EXCEPT ![s] = Idle] /\ newer' = [newer EXCEPT ![s] = Nothing]
      /\ UNCHANGED <<loans, books, locks>>
      /\ published' \subseteq published \cup {task[s].month}
  BY DEF Publish, Crash
<1>3. task[s].month \in 1..MaxMonth
  BY <1>1, MonthEndDays DEF Good, Kind, TypeOK
<1>4. LoansTyped' /\ LocksTyped' /\ WorkTyped'
  BY <1>1, <1>2, <1>3, IdleTyped
     DEF LoansTyped, LocksTyped, WorkTyped, Nothing, loans, books, locks
<1>5. \A l \in Loan : loanLock[l] # s /\ rowLock[l] # s
  BY <1>1 DEF Good, Locks
<1>6. Good(s)' /\ \A t \in Session : NoReference(s, t)' /\ NoReference(t, s)'
  BY <1>1, <1>2, <1>5, AtRest DEF locks, WorkTyped, Nothing
<1>7. ASSUME NEW t \in Session, t # s PROVE OthersSee(s, t, {})
  BY <1>1, <1>2, <1>7 DEF OthersSee, loans, books, locks, WorkTyped
<1> QED
  BY <1>2, <1>4, <1>6, <1>7, StepOfOne DEF IInv, BalanceFollowsJournal, books

-----------------------------------------------------------------------------
(* Settlements.                                                            *)

LEMMA EnterStep ==
  ASSUME IInv, NEW s \in Clerk, NEW op \in {"pay", "seize"}, NEW l \in Loan, Enter(s, op, l)
  PROVE  IInv'
<1> DEFINE k == [Idle EXCEPT !.pc = "compute", !.op = op, !.loan = l]
<1>1. /\ s \in Session /\ TypeOK /\ Good(s) /\ task[s].pc = "idle"
      /\ LoansTyped /\ LocksTyped /\ WorkTyped
  BY PartsOfType DEF Enter, IInv, Session
<1>2. k \in Task /\ k.pc = "compute" /\ k.op = op /\ k.loan = l
  BY IdleTyped DEF Task, Pc
<1> HIDE DEF k
<1>3. /\ task'[s] = k /\ \A t \in Session : t # s => task'[t] = task[t]
      /\ task' \in [Session -> Task]
  BY <1>1, <1>2 DEF Enter, WorkTyped, k
<1>4. /\ UNCHANGED <<month, active, delta, last, books, published, locks, newer>>
      /\ settlements' \in 0..MaxSettlements
  BY <1>1, MonthEndAssumption DEF Enter, LoansTyped
<1>5. LoansTyped' /\ LocksTyped' /\ WorkTyped'
  BY <1>1, <1>3, <1>4 DEF LoansTyped, LocksTyped, WorkTyped, books, locks
<1>6. \A j \in Loan : loanLock[j] # s /\ rowLock[j] # s
  BY <1>1 DEF Good, Locks
<1>7. newer[s].rows = {}
  BY <1>1 DEF Good, Kind, Batching
<1>8. Good(s)'
  BY <1>2, <1>3, <1>4, <1>6, <1>7
     DEF Good, Kind, Locks, SumFresh, PlanStands, NothingMissing, Settling, Batching, locks
<1>9. ASSUME NEW t \in Session, t # s
      PROVE  OthersSee(s, t, {}) /\ NoReference(s, t)' /\ NoReference(t, s)'
  BY <1>2, <1>3, <1>4, <1>6, <1>9 DEF OthersSee, NoReference, Refers, locks, books
<1> QED
  BY <1>1, <1>4, <1>5, <1>8, <1>9, StepOfOne DEF IInv, BalanceFollowsJournal, books

LEMMA ComputeStep ==
  ASSUME IInv, NEW s \in Session, Compute(s)
  PROVE  IInv'
<1> DEFINE l == task[s].loan
           k == task'[s]
           early == task[s].op = "pay"
<1>1. CASE Abort(s)
  BY <1>1, AbortStep
<1>2. CASE /\ loanLock' = IF early THEN [loanLock EXCEPT ![l] = s] ELSE loanLock
           /\ task' = [task EXCEPT ![s].pc = "upsert", ![s].sum = journal[l] + 1]
           /\ UNCHANGED <<loans, books, published, rowLock, newer>>
  <2>1. /\ TypeOK /\ Good(s) /\ task[s].pc = "compute" /\ task[s] \in Task /\ Lockable(s, l)
        /\ LoansTyped /\ LocksTyped /\ WorkTyped
    BY PartsOfType DEF Compute, IInv, TypeOK
  <2>2. l \in Loan /\ s \in Clerk /\ task[s].op \in {"pay", "seize"}
    BY <2>1 DEF Good, Kind, Task, Batching
  <2>3. journal[l] + 1 \in Int
    BY <2>1, <2>2 DEF LoansTyped
  <2>4. /\ k.pc = "upsert" /\ k.loan = l /\ k.op = task[s].op /\ k \in Task
        /\ \A t \in Session : t # s => task'[t] = task[t]
    BY <1>2, <2>1, <2>2, <2>3 DEF WorkTyped, Task, Pc
  <2>5. /\ \A j \in Loan : loanLock'[j] = IF early /\ j = l THEN s ELSE loanLock[j]
        /\ rowLock' = rowLock /\ newer' = newer /\ loans' = loans /\ books' = books
    BY <1>2, <2>1 DEF LocksTyped
  <2>6. LoansTyped' /\ LocksTyped' /\ WorkTyped'
    <3>1. task' \in [Session -> Task]
      BY <1>2, <2>1, <2>4 DEF WorkTyped
    <3>2. loanLock' \in [Loan -> Session \cup {None}]
      BY <1>2, <2>1 DEF LocksTyped
    <3> QED
      BY <1>2, <2>1, <2>5, <3>1, <3>2 DEF LoansTyped, LocksTyped, WorkTyped, loans, books
  <2> HIDE DEF k
  <2>7. \A j \in Loan : loanLock[j] # s /\ rowLock[j] # s
    BY <2>1 DEF Good, Locks
  <2>8. \A t \in Session \ {s} :
          /\ early => loanLock[l] # t /\ ~Refers(t, l)
          /\ ~early => ~(loanLock[l] = t /\ task[t].op # "seize")
    BY <2>1, <2>2 DEF Lockable, Hinders, Mode
  <2>9. Good(s)'
    <3>1. Kind(s)'
      BY <2>1, <2>2, <2>4, <2>5 DEF k, Good, Kind, Batching, Settling
    <3>2. Locks(s)'
      BY <2>2, <2>4, <2>5, <2>7 DEF k, Locks, Batching, Settling
    <3> QED
      BY <2>4, <3>1, <3>2 DEF k, Good, SumFresh, PlanStands, NothingMissing, Batching
  <2>10. ASSUME NEW t \in Session, t # s
         PROVE  OthersSee(s, t, {}) /\ NoReference(s, t)' /\ NoReference(t, s)'
    <3>1. OthersSee(s, t, {})
      BY <2>4, <2>5, <2>8, <2>10 DEF OthersSee, loans, books
    <3>2. NoReference(s, t)'
      BY <2>4, <2>5, <2>7, <2>8, <2>10 DEF k, NoReference, Refers
    <3>3. NoReference(t, s)'
      BY <2>2, <2>4, <2>5, <2>8, <2>10 DEF k, NoReference, Refers
    <3> QED
      BY <3>1, <3>2, <3>3
  <2> QED
    BY <2>5, <2>6, <2>9, <2>10, StepOfOne DEF IInv, BalanceFollowsJournal, books
<1> QED
  BY <1>1, <1>2 DEF Compute

LEMMA UpsertStep ==
  ASSUME IInv, NEW s \in Session, Upsert(s)
  PROVE  IInv'
<1> DEFINE l == task[s].loan
           k == task'[s]
<1>1. /\ TypeOK /\ Good(s) /\ task[s].pc = "upsert" /\ task[s] \in Task /\ rowLock[l] = None
      /\ LoansTyped /\ LocksTyped /\ WorkTyped
  BY PartsOfType DEF Upsert, IInv, TypeOK
<1>2. l \in Loan /\ s \in Clerk
  BY <1>1 DEF Good, Kind, Settling
<1>3. /\ k.pc = "refire" /\ k.loan = l /\ k.op = task[s].op /\ k \in Task
      /\ \A t \in Session : t # s => task'[t] = task[t]
  BY <1>1, <1>2 DEF Upsert, WorkTyped, Task, Pc
<1>4. /\ \A j \in Loan : rowLock'[j] = IF j = l THEN s ELSE rowLock[j]
      /\ loanLock' = loanLock /\ newer' = newer /\ loans' = loans /\ books' = books
  BY <1>1 DEF Upsert, LocksTyped
<1>5. LoansTyped' /\ LocksTyped' /\ WorkTyped'
  <2>1. task' \in [Session -> Task] /\ rowLock' \in [Loan -> Session \cup {None}]
    BY <1>1, <1>3 DEF Upsert, WorkTyped, LocksTyped
  <2> QED
    BY <1>1, <1>4, <2>1 DEF Upsert, LoansTyped, LocksTyped, WorkTyped, loans, books
<1> HIDE DEF k
<1>6. Good(s)'
  <2>1. Kind(s)'
    BY <1>1, <1>2, <1>3, <1>4 DEF k, Good, Kind, Batching, Settling
  <2>2. Locks(s)'
    BY <1>1, <1>2, <1>3, <1>4 DEF k, Good, Locks, Batching, Settling
  <2> QED
    BY <1>3, <2>1, <2>2 DEF k, Good, SumFresh, PlanStands, NothingMissing, Batching
<1>7. ASSUME NEW t \in Session, t # s
      PROVE  OthersSee(s, t, {}) /\ NoReference(s, t)' /\ NoReference(t, s)'
  <2>1. \A j \in Loan : rowLock'[j] = t <=> rowLock[j] = t
    BY <1>1, <1>4, <1>7, NoneIsNobody
  <2>2. OthersSee(s, t, {})
    BY <1>3, <1>4, <1>7, <2>1 DEF OthersSee, loans, books
  <2>3. NoReference(s, t)' /\ NoReference(t, s)'
    BY <1>1, <1>3, <1>4, <1>7 DEF k, IInv, NoReference, Refers
  <2> QED
    BY <2>2, <2>3
<1> QED
  BY <1>4, <1>5, <1>6, <1>7, StepOfOne DEF IInv, BalanceFollowsJournal, books

LEMMA RefireStep ==
  ASSUME IInv, NEW s \in Session, Refire(s)
  PROVE  IInv'
<1> DEFINE l == task[s].loan
           k == task'[s]
<1>1. /\ TypeOK /\ Good(s) /\ task[s].pc = "refire" /\ task[s] \in Task
      /\ LoansTyped /\ LocksTyped /\ WorkTyped
  BY PartsOfType DEF Refire, IInv, TypeOK
<1>2. l \in Loan /\ s \in Clerk /\ task[s].op \in {"pay", "seize"}
  BY <1>1 DEF Good, Kind, Settling, Task, Batching
<1>3. journal[l] + 1 \in Int
  BY <1>1, <1>2 DEF LoansTyped
<1>4. /\ k.pc = (IF task[s].op = "seize" THEN "close" ELSE "commit")
      /\ k.loan = l /\ k.op = task[s].op /\ k.sum = journal[l] + 1 /\ k \in Task
      /\ \A t \in Session : t # s => task'[t] = task[t]
  BY <1>1, <1>2, <1>3 DEF Refire, Sum, WorkTyped, Task, Pc
<1>5. /\ locks' = locks /\ newer' = newer /\ loans' = loans /\ books' = books
      /\ published' = published /\ task' \in [Session -> Task]
  BY <1>1, <1>4 DEF Refire, WorkTyped
<1>6. LoansTyped' /\ LocksTyped' /\ WorkTyped'
  BY <1>1, <1>5 DEF LoansTyped, LocksTyped, WorkTyped, loans, books, locks
<1> HIDE DEF k
<1>7. Good(s)'
  <2>1. Kind(s)'
    BY <1>1, <1>2, <1>4, <1>5 DEF k, Good, Kind, Batching, Settling
  <2>2. Locks(s)'
    BY <1>1, <1>2, <1>4, <1>5 DEF k, Good, Locks, Batching, Settling, locks
  <2>3. SumFresh(s)'
    BY <1>4, <1>5 DEF k, SumFresh, books
  <2> QED
    BY <1>4, <2>1, <2>2, <2>3 DEF k, Good, PlanStands, NothingMissing, Batching
<1>8. ASSUME NEW t \in Session, t # s
      PROVE  OthersSee(s, t, {}) /\ NoReference(s, t)' /\ NoReference(t, s)'
  <2>1. OthersSee(s, t, {})
    BY <1>4, <1>5, <1>8 DEF OthersSee, loans, books, locks
  <2>2. NoReference(s, t)' /\ NoReference(t, s)'
    BY <1>1, <1>4, <1>5, <1>8 DEF k, IInv, NoReference, Refers, locks
  <2> QED
    BY <2>1, <2>2
<1> QED
  BY <1>5, <1>6, <1>7, <1>8, StepOfOne DEF IInv, BalanceFollowsJournal, books

LEMMA CloseStep ==
  ASSUME IInv, NEW s \in Session, Close(s)
  PROVE  IInv'
<1> DEFINE l == task[s].loan
           k == task'[s]
<1>1. /\ TypeOK /\ Good(s) /\ task[s].pc = "close" /\ task[s] \in Task /\ Lockable(s, l)
      /\ LoansTyped /\ LocksTyped /\ WorkTyped
  BY PartsOfType DEF Close, IInv, TypeOK
<1>2. l \in Loan /\ s \in Clerk /\ task[s].op = "seize"
  BY <1>1 DEF Good, Kind, Settling
<1>3. /\ k.pc = "commit" /\ k.loan = l /\ k.op = "seize" /\ k.sum = task[s].sum /\ k \in Task
      /\ \A t \in Session : t # s => task'[t] = task[t]
  BY <1>1, <1>2 DEF Close, WorkTyped, Task, Pc
<1>4. /\ \A j \in Loan : loanLock'[j] = IF j = l THEN s ELSE loanLock[j]
      /\ rowLock' = rowLock /\ newer' = newer /\ loans' = loans /\ books' = books
  BY <1>1 DEF Close, LocksTyped
<1>5. LoansTyped' /\ LocksTyped' /\ WorkTyped'
  <2>1. task' \in [Session -> Task] /\ loanLock' \in [Loan -> Session \cup {None}]
    BY <1>1, <1>3 DEF Close, WorkTyped, LocksTyped
  <2> QED
    BY <1>1, <1>4, <2>1 DEF Close, LoansTyped, LocksTyped, WorkTyped, loans, books
<1>6. \A t \in Session \ {s} : loanLock[l] # t
  BY <1>1 DEF Lockable, Hinders, Mode, CloseMode
<1> HIDE DEF k
<1>7. Good(s)'
  <2>1. Kind(s)'
    BY <1>1, <1>2, <1>3, <1>4 DEF k, Good, Kind, Batching, Settling
  <2>2. Locks(s)'
    BY <1>1, <1>2, <1>3, <1>4 DEF k, Good, Locks, Batching, Settling
  <2>3. SumFresh(s)'
    BY <1>1, <1>3, <1>4 DEF k, Good, SumFresh, books
  <2> QED
    BY <1>3, <2>1, <2>2, <2>3 DEF k, Good, PlanStands, NothingMissing, Batching
<1>8. ASSUME NEW t \in Session, t # s
      PROVE  OthersSee(s, t, {}) /\ NoReference(s, t)' /\ NoReference(t, s)'
  <2>1. OthersSee(s, t, {})
    BY <1>3, <1>4, <1>6, <1>8 DEF OthersSee, loans, books
  <2>2. NoReference(s, t)' /\ NoReference(t, s)'
    BY <1>1, <1>2, <1>3, <1>4, <1>6, <1>8 DEF k, IInv, NoReference, Refers
  <2> QED
    BY <2>1, <2>2
<1> QED
  BY <1>4, <1>5, <1>7, <1>8, StepOfOne DEF IInv, BalanceFollowsJournal, books
\* A settlement changes what the planner finds on its loan, on days there are.
LEMMA AfterSettlementTyped ==
  ASSUME TypeOK, NEW l \in Loan, NEW d \in Int, NEW part \in {0, 1}, NEW less \in {0, 1}
  PROVE  AfterSettlement(l, d, part, less) \in [Day -> Int]
BY DEF AfterSettlement, TypeOK

LEMMA CommitSettlementStep ==
  ASSUME IInv, NEW s \in Session, CommitSettlement(s)
  PROVE  IInv'
<1> DEFINE l == task[s].loan
<1>1. /\ TypeOK /\ Good(s) /\ task[s].pc = "commit" /\ task[s] \in Task
      /\ LoansTyped /\ LocksTyped /\ WorkTyped
  BY PartsOfType DEF CommitSettlement, IInv, TypeOK
<1>2. /\ l \in Loan /\ s \in Clerk /\ rowLock[l] = s /\ task[s].sum = journal[l] + 1
      /\ newer[s].rows = {}
  BY <1>1 DEF Good, Kind, Locks, SumFresh, Settling, Batching
<1>3. PICK d \in 1..(2 * month + 1), part \in {0, 1}, less \in {0, 1}, ends \in BOOLEAN :
        /\ delta' = [delta EXCEPT ![l] = AfterSettlement(l, d, part, less)]
        /\ active' = [active EXCEPT ![l] = @ /\ ~ends]
        /\ last' = [last EXCEPT ![l] = IF d > @ THEN d ELSE @]
        /\ journal' = [journal EXCEPT ![l] = @ + 1]
        /\ balance' = [balance EXCEPT ![l] = task[s].sum]
        /\ Outdate(s, IF ends THEN {l} ELSE {}, {l})
  BY DEF CommitSettlement
<1>4. /\ task' = [task EXCEPT ![s] = Idle] /\ Release(s)
      /\ UNCHANGED <<month, settlements, published>>
  BY DEF CommitSettlement
<1>5. LoansTyped'
  <2>1. d \in Day
    BY <1>1, MonthEndAssumption DEF LoansTyped, Day
  <2>2. delta' \in [Loan -> [Day -> Int]]
    BY <1>1, <1>2, <1>3, AfterSettlementTyped DEF LoansTyped
  <2>3. /\ active' \in [Loan -> BOOLEAN] /\ last' \in [Loan -> Day \cup {0}]
        /\ journal' \in [Loan -> Int] /\ balance' \in [Loan -> Int]
    BY <1>1, <1>2, <1>3, <2>1 DEF LoansTyped, Task
  <2> QED
    BY <1>1, <1>4, <2>2, <2>3 DEF LoansTyped
<1>6. /\ newer'[s] = newer[s]
      /\ \A t \in Session : t # s =>
           newer'[t].rows = IF task[t].op = "batch" THEN newer[t].rows \cup {l} ELSE newer[t].rows
      /\ newer' \in [Session -> [loans : SUBSET Loan, rows : SUBSET Loan]]
  BY <1>1, <1>2, <1>3 DEF Outdate, WorkTyped
<1>7. LocksTyped' /\ WorkTyped'
  BY <1>1, <1>4, <1>6, ReleaseSeen, IdleTyped DEF WorkTyped
<1>8. balance' = journal'
  BY <1>1, <1>2, <1>3 DEF IInv, BalanceFollowsJournal, LoansTyped
<1>9. Good(s)' /\ \A t \in Session : NoReference(s, t)' /\ NoReference(t, s)'
  BY <1>1, <1>2, <1>4, <1>6, ReleaseSeen, AtRest DEF WorkTyped
<1>10. ASSUME NEW t \in Session, t # s PROVE OthersSee(s, t, {l})
  <2>1. \A j \in Loan : /\ loanLock'[j] = t <=> loanLock[j] = t
                        /\ rowLock'[j] = t <=> rowLock[j] = t
    BY <1>1, <1>4, <1>10, ReleaseSeen
  <2>2. \A j \in Loan \ {l} :
          journal'[j] = journal[j] /\ delta'[j] = delta[j] /\ active'[j] = active[j]
    BY <1>1, <1>3 DEF LoansTyped
  <2> QED
    BY <1>1, <1>2, <1>4, <1>6, <1>10, <2>1, <2>2 DEF OthersSee, WorkTyped
<1> QED
  BY <1>2, <1>5, <1>7, <1>8, <1>9, <1>10, StepOfOne

LEMMA MonthPassesStep ==
  ASSUME IInv, MonthPasses
  PROVE  IInv'
<1>1. /\ LoansTyped /\ LocksTyped /\ WorkTyped
      /\ \A s \in Session : Good(s) /\ task[s].op # "batch"
  BY PartsOfType DEF IInv, MonthPasses
<1>2. month' \in 0..MaxMonth /\ month' > 0
  BY <1>1, MonthEndAssumption DEF MonthPasses, LoansTyped
<1>3. delta' \in [Loan -> [Day -> Int]]
  <2>1. PICK e \in Day : e = 2 * month'
    BY <1>2, MonthEndDays
  <2>2. delta' = [l \in Loan |-> IF active[l] THEN [delta[l] EXCEPT ![e] = @ + 1] ELSE delta[l]]
    BY <2>1 DEF MonthPasses
  <2> QED
    BY <1>1, <2>2 DEF LoansTyped
<1>4. LoansTyped' /\ LocksTyped' /\ WorkTyped'
  BY <1>1, <1>2, <1>3 DEF MonthPasses, LoansTyped, LocksTyped, WorkTyped, books, locks
<1>5. ASSUME NEW s \in Session PROVE Good(s)'
  <2>1. task[s].pc \notin Batching \cup {"report"}
    BY <1>1 DEF Good, Kind
  <2>2. Kind(s)' /\ Locks(s)' /\ SumFresh(s)'
    BY <1>1, <2>1 DEF Good, Kind, Locks, SumFresh, MonthPasses, books, locks
  <2> QED
    BY <2>1, <2>2 DEF Good, PlanStands, NothingMissing, MonthPasses
<1>6. \A s, t \in Session : s # t => NoReference(s, t)'
  BY DEF IInv, NoReference, Refers, MonthPasses, locks
<1>7. TypeOK'
  BY <1>4, <1>5 DEF TypeOK, LoansTyped, LocksTyped, WorkTyped, Good, Locks
<1> QED
  BY <1>5, <1>6, <1>7 DEF IInv, BalanceFollowsJournal, MonthPasses, books

-----------------------------------------------------------------------------
(* Theorems.                                                               *)

LEMMA IInvInit == Init => IInv
<1> SUFFICES ASSUME Init PROVE IInv
  OBVIOUS
<1>1. LoansTyped /\ LocksTyped /\ WorkTyped
  BY MonthEndAssumption, IdleTyped
     DEF Init, LoansTyped, LocksTyped, WorkTyped, Day, Nothing
<1>2. \A s \in Session : task[s] = Idle /\ newer[s].rows = {}
  BY DEF Init, Nothing
<1>3. \A s \in Session, l \in Loan : loanLock[l] # s /\ rowLock[l] # s
  BY NoneIsNobody DEF Init
<1>4. \A s \in Session : Good(s)
  BY <1>2, <1>3, IdleTyped
     DEF Good, Kind, Locks, SumFresh, PlanStands, NothingMissing, Settling, Batching
<1>5. \A s, t \in Session : NoReference(s, t)
  BY <1>3 DEF NoReference
<1>6. TypeOK
  BY <1>1, <1>4, TypedByParts DEF Good
<1> QED
  BY <1>4, <1>5, <1>6 DEF IInv, Init, BalanceFollowsJournal

LEMMA IInvStep == IInv /\ [Next]_vars => IInv'
<1> SUFFICES ASSUME IInv, [Next]_vars PROVE IInv'
  OBVIOUS
<1>1. ASSUME NEW s \in Session, Batch(s) PROVE IInv'
  BY <1>1, LockNextStep, PostStep, CommitBatchStep, ReportStep DEF Batch
<1>2. ASSUME NEW s \in Session, Settlement(s) PROVE IInv'
  BY <1>2, ComputeStep, UpsertStep, RefireStep, CloseStep, CommitSettlementStep DEF Settlement
<1>3. ASSUME NEW s \in Session, BreakDeadlock(s) \/ Rollback(s) PROVE IInv'
  BY <1>3, AbortStep DEF BreakDeadlock, Rollback
<1>4. ASSUME NEW s \in Session, Crash(s) PROVE IInv'
  BY <1>4, ReportStep
<1>5. ASSUME NEW s \in Cron, StartBatch(s) PROVE IInv'
  BY <1>5, StartBatchStep
<1>6. ASSUME NEW s \in Clerk, NEW op \in {"pay", "seize"}, NEW l \in Loan, Enter(s, op, l)
      PROVE  IInv'
  BY <1>6, EnterStep
<1>7. CASE MonthPasses
  BY <1>7, MonthPassesStep
<1>8. CASE UNCHANGED vars
  BY <1>8 DEF vars, loans, books, locks, IInv, TypeOK, BalanceFollowsJournal, Good, Kind, Locks,
     SumFresh, PlanStands, NothingMissing, NoReference, Refers, ToPost
<1> QED
  BY <1>1, <1>2, <1>3, <1>4, <1>5, <1>6, <1>7, <1>8 DEF Next, Step

\* IInv holds of every behaviour, for any crons, clerks, loans and months.
THEOREM Invariance == Spec => []IInv
BY IInvInit, IInvStep, PTL DEF Spec

\* Every variable keeps its type, and only sessions at work hold rows
\* (accrueInterestForLoans, settleWithCollateral, recordPayment).
THEOREM TypeCorrect == Spec => []TypeOK
<1>1. IInv => TypeOK
  BY DEF IInv
<1> QED
  BY <1>1, Invariance, PTL

\* Whatever transactions write a loan's journal at the same time, the row the
\* trigger maintains is the sum of what they committed.
THEOREM ProjectionFollowsJournal == Spec => []BalanceFollowsJournal
<1>1. IInv => BalanceFollowsJournal
  BY DEF IInv
<1> QED
  BY <1>1, Invariance, PTL
\* Of two sessions that wait for each other, neither is a clerk.
LEMMA ClerksAreNotWaitedFor ==
  ASSUME IInv, NEW s \in Session, NEW t \in Session, s # t,
         WaitsFor(s, t), WaitsFor(t, s)
  PROVE  t \in Cron
<1> DEFINE l == task[t].loan
<1>1. /\ Kind(s) /\ Locks(s) /\ Kind(t) /\ Locks(t) /\ task[s] \in Task /\ task[t] \in Task
      /\ NoReference(s, t) /\ NoReference(t, s)
  BY DEF IInv, Good, TypeOK
<1>2. SUFFICES ASSUME t \notin Cron PROVE FALSE
  OBVIOUS
<1>3. /\ task[t].pc \in {"compute", "close", "upsert"} /\ l \in Loan
      /\ task[t].op \in {"pay", "seize"} /\ t \in Clerk
  BY <1>1, <1>2 DEF Kind, WaitsFor, Settling, Batching, Task
<1>4. task[s].pc \in {"lock", "post", "compute", "close", "upsert"}
  BY DEF WaitsFor
<1>5. task[s].pc \in {"post", "compute", "close", "upsert"} => task[s].loan \in Loan
  BY <1>1 DEF Kind, Settling
<1>6. CASE task[t].pc = "compute"
  <2>1. \A k \in Loan : loanLock[k] # t /\ rowLock[k] # t /\ ~Refers(t, k)
    BY <1>1, <1>6 DEF Locks, Refers
  <2> QED
    BY <1>1, <1>4, <1>5, <2>1 DEF WaitsFor, Hinders, Task
<1>7. CASE task[t].pc = "close"
  <2>1. loanLock[l] = s
    BY <1>3, <1>7 DEF WaitsFor, Hinders, Mode, CloseMode
  <2>2. task[s].op = "seize"
    BY <1>1, <1>3, <1>7, <2>1 DEF NoReference, Refers, Kind
  <2>3. rowLock[l] = t
    BY <1>1, <1>3, <1>7 DEF Locks, Settling
  <2> QED
    BY <1>1, <1>3, <1>4, <2>1, <2>2, <2>3 DEF Kind, Locks, Settling, Batching
<1>8. CASE task[t].pc = "upsert"
  <2>1. rowLock[l] = s
    BY <1>8 DEF WaitsFor
  <2>2. \A k \in Loan : /\ rowLock[k] # t
                        /\ loanLock[k] = t => k = l /\ task[t].op = "pay"
                        /\ Refers(t, k) => k = l
    BY <1>1, <1>8 DEF Locks, Settling, Refers
  <2>3. CASE task[s].pc \in Batching
    <3>1. loanLock[l] = s /\ l \notin task[s].left
      BY <1>1, <1>3, <2>1, <2>3 DEF Locks
    <3> QED
      BY <1>1, <1>3, <1>5, <2>2, <2>3, <3>1 DEF WaitsFor, Hinders, Batching, Task
  <2>4. CASE task[s].pc = "close"
    <3>1. task[s].loan = l /\ task[s].op = "seize"
      BY <1>1, <1>3, <2>1, <2>4 DEF Locks, Settling, Kind
    <3>2. loanLock[l] = t
      BY <2>4, <3>1 DEF WaitsFor, Hinders, Mode, CloseMode
    <3> QED
      BY <1>1, <1>3, <2>2, <2>4, <3>1, <3>2 DEF NoReference, Refers
  <2>5. CASE task[s].pc \in {"compute", "upsert"}
    BY <1>1, <1>3, <2>1, <2>5 DEF Locks, Settling
  <2> QED
    BY <1>4, <2>3, <2>4, <2>5 DEF Batching
<1> QED
  BY <1>3, <1>6, <1>7, <1>8

\* Payments, seizures and the batch claim the rows of a loan in ways that never
\* make two of them wait for each other: only batches can.
THEOREM DeadlocksAreBatches == Spec => []OnlyBatchesDeadlock
<1>1. IInv => OnlyBatchesDeadlock
  BY ClerksAreNotWaitedFor DEF OnlyBatchesDeadlock
<1> QED
  BY <1>1, Invariance, PTL

\* What accrueInterestForLoans posts under its locks is what the planner would
\* find missing at that moment, though it looked before it locked.
THEOREM BatchPosts == Spec => BatchPostsWhatIsMissing
<1>1. ASSUME IInv, NEW s \in Cron, CommitBatch(s), NEW l \in task[s].posted, NEW d \in Day,
             d <= 2 * task[s].month
      PROVE  delta'[l][d] = 0
  <2>1. s \in Session
    BY DEF Session
  <2> QED
    BY <1>1, <2>1, BatchEffect
<1>2. IInv => [\A s \in Cron : CommitBatch(s) =>
                 \A l \in task[s].posted, d \in Day :
                   d <= 2 * task[s].month => delta'[l][d] = 0]_vars
  BY <1>1
<1> QED
  BY <1>2, Invariance, PTL DEF BatchPostsWhatIsMissing

\* The cron route publishes a month's snapshot when every loan that is still
\* active, and that nobody settled on since the batch began, is accrued.
THEOREM PublishedMonthsAreAccrued == Spec => PublishedIsAccrued
<1> DEFINE Accrued == \A m \in published' \ published, l \in ActiveLoans :
                        (\A s \in Cron : task[s].pc = "report" /\ task'[s].pc = "idle"
                                            => l \notin newer[s].rows)
                          => \A d \in Day : d <= 2 * m => delta[l][d] = 0
<1>1. ASSUME NEW m \in published' \ published, Next
      PROVE  \E s \in Session : Publish(s) /\ m = task[s].month
  <2>1. PICK s \in Session : Publish(s)
    BY <1>1 DEF Next, Step, Batch, Settlement, LockNext, Post, CommitBatch, Crash, Compute,
       Upsert, Refire, Close, CommitSettlement, BreakDeadlock, Rollback, Abort, StartBatch,
       Enter, MonthPasses
  <2> QED
    BY <1>1, <2>1 DEF Publish
<1>2. ASSUME IInv, [Next]_vars PROVE Accrued \/ UNCHANGED vars
  <2>1. ASSUME NEW m \in published' \ published, NEW l \in ActiveLoans, Next,
               \A s \in Cron : task[s].pc = "report" /\ task'[s].pc = "idle"
                                  => l \notin newer[s].rows,
               NEW d \in Day, d <= 2 * m
        PROVE  delta[l][d] = 0
    <3>1. PICK s \in Session : Publish(s) /\ m = task[s].month
      BY <1>1, <2>1
    <3>2. Good(s) /\ task[s].pc = "report" /\ task'[s].pc = "idle"
      BY <1>2, <3>1, IdleTyped DEF IInv, TypeOK, Publish
    <3>3. s \in Cron /\ m = month
      BY <3>1, <3>2 DEF Good, Kind
    <3> QED
      BY <2>1, <3>2, <3>3 DEF Good, NothingMissing, ActiveLoans
  <2> QED
    BY <1>2, <2>1
<1> HIDE DEF Accrued
<1>3. IInv /\ [Next]_vars => [Accrued]_vars
  BY <1>2
<1>4. Spec => [][Accrued]_vars
  BY <1>3, Invariance, PTL DEF Spec
<1> QED
  BY <1>4 DEF PublishedIsAccrued, Accrued
=============================================================================
