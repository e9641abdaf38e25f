------------------------- MODULE CorrectionRun_proofs -------------------------
(***************************************************************************)
(* CorrectionRun for every set of sessions and agents: its types, that no  *)
(* two transactions hold the same row, and that a correction is one step   *)
(* on the source its reviewer saw (AppliedCorrections).                    *)
(*                                                                         *)
(* The argument: whoever writes the loans row holds it, whoever writes the *)
(* balance row holds that, and every change of the accounting writes one   *)
(* of them.  A tool about to commit holds both and found neither newer     *)
(* than its snapshot: nothing has changed since the snapshot, from which   *)
(* it computed the reviewed plan again.                                    *)
(***************************************************************************)
EXTENDS CorrectionRun, SequenceTheorems, TLAPS

Applying == {"begin", "review", "loan", "post", "commit"}
Serving == {"own", "write", "close", "save"}

\* What holds of a session's task.
GoodTask(k) ==
  /\ k.pc = "record" =>
       /\ k.op = "review" /\ k.agent \in Agent /\ k.attempt \in 1..MaxAttempt
       /\ k.plan.version <= source
  /\ k.pc \in Applying =>
       /\ k.op = "apply" /\ k.agent \in Agent /\ k.review \in DOMAIN reviews
       /\ reviews[k.review].plan = k.plan
  /\ k.pc \in Serving => k.op \in {"settle", "amend", "seize"}
  /\ k.pc = "own" => k.op # "seize"
  /\ k.pc = "close" => k.op = "seize"
  /\ k.pc \in Applying \ {"begin"} =>
       /\ k.snap <= source
       /\ k.plan.kind = "rollover" => IsLatest(k.review, k.plan)
  /\ k.pc \in {"loan", "post", "commit"} => Matching(reviews[k.review], k.plan, k.agent)
  /\ k.pc \in {"post", "commit"} => k.snap = k.plan.version /\ loanRow <= k.snap
  /\ k.pc = "commit" => balanceRow <= k.snap

\* Two sessions do not hold the same.
Alone(j, k) ==
  /\ ~(HasLoan(j) /\ HasLoan(k))
  /\ ~(HasBalance(j) /\ HasBalance(k))
  /\ ~(HasReview(j) /\ HasReview(k) /\ j.review = k.review)
  /\ ~(HasTables(j) /\ (HasTables(k) \/ HasWritten(k)))

\* Every change of the accounting wrote one of the two rows.
RowsTell == loanRow <= source /\ balanceRow <= source /\ source \in {loanRow, balanceRow}

\* A plan that was applied is of an earlier version.
RunsArePast == \A run \in runs : run.plan.version < source

Tasks == \A s \in Session : GoodTask(task[s])
LocksExclude == \A s, t \in Session : s # t => Alone(task[s], task[t])

IInv == TypeOK /\ RowsTell /\ RunsArePast /\ Tasks /\ LocksExclude

LEMMA IdleTyped == Idle \in Task /\ Idle.pc = "idle"
BY CorrectionAssumption DEF Idle, NoPlan, Task, Plan, Kind, Pc, Op

LEMMA ReviewTyped ==
  ASSUME TypeOK, NEW i \in DOMAIN reviews
  PROVE  i \in 1..Len(reviews) /\ i \in Nat /\ reviews[i] \in Review
<1>1. reviews \in Seq(Review)
  BY DEF TypeOK
<1>2. DOMAIN reviews = 1..Len(reviews) /\ Len(reviews) \in Nat
  BY <1>1, LenProperties
<1> QED
  BY <1>1, <1>2, ElementOfSeq

LEMMA InitIInv == Init => IInv
<1> SUFFICES ASSUME Init PROVE IInv
  OBVIOUS
<1>1. TypeOK
  <2>1. task \in [Session -> Task]
    BY IdleTyped DEF Init
  <2>2. reviews \in Seq(Review) /\ Len(reviews) <= MaxReviews
    BY CorrectionAssumption DEF Init
  <2>3. source \in 0..MaxSource /\ loanRow \in 0..MaxSource /\ balanceRow \in 0..MaxSource
    BY CorrectionAssumption DEF Init
  <2> QED
    BY <2>1, <2>2, <2>3 DEF TypeOK, Init
<1>2. RowsTell /\ RunsArePast
  BY DEF Init, RowsTell, RunsArePast
<1>3. \A s \in Session : task[s].pc = "idle"
  BY IdleTyped DEF Init
<1>4. Tasks
  BY <1>3 DEF Tasks, GoodTask, Applying, Serving
<1>5. LocksExclude
  BY <1>3 DEF LocksExclude, Alone, HasLoan, HasBalance, HasReview, HasTables
<1> QED
  BY <1>1, <1>2, <1>4, <1>5 DEF IInv

\* An idle session holds nothing and meets every condition on tasks.
LEMMA IdleIsGood ==
  ASSUME NEW k, k.pc = "idle"
  PROVE  GoodTask(k) /\ ~HasLoan(k) /\ ~HasBalance(k) /\ ~HasReview(k) /\ ~HasTables(k)
         /\ ~HasWritten(k)
BY DEF GoodTask, Applying, Serving, HasLoan, HasBalance, HasReview, HasTables, HasWritten

\* A session moves on and changes nothing else.
LEMMA QuietStep ==
  ASSUME IInv, NEW s \in Session, NEW k \in Task, task' = [task EXCEPT ![s] = k],
         UNCHANGED <<books, reviews, runs>>,
         GoodTask(k),
         \A t \in Session \ {s} : Alone(k, task[t]) /\ Alone(task[t], k)
  PROVE  IInv'
<1>1. /\ source' = source /\ loanRow' = loanRow /\ balanceRow' = balanceRow
      /\ reviews' = reviews /\ runs' = runs
  BY DEF books
<1>2. task \in [Session -> Task]
  BY DEF IInv, TypeOK
<1>3. /\ task' \in [Session -> Task] /\ task'[s] = k
      /\ \A t \in Session : t # s => task'[t] = task[t]
  BY <1>2
<1>4. TypeOK' /\ RowsTell' /\ RunsArePast'
  BY <1>1, <1>3 DEF IInv, TypeOK, RowsTell, RunsArePast
<1>5. ASSUME NEW t \in Session PROVE GoodTask(task'[t])
  BY <1>3 DEF IInv, Tasks
<1>6. Tasks'
  BY <1>1, <1>5 DEF Tasks, GoodTask, Matching, IsLatest, Concerns
<1>7. ASSUME NEW t \in Session, NEW u \in Session, t # u
      PROVE  Alone(task'[t], task'[u])
  BY <1>3, <1>7 DEF IInv, LocksExclude
<1>8. LocksExclude'
  BY <1>7 DEF LocksExclude
<1> QED
  BY <1>4, <1>6, <1>8 DEF IInv

LEMMA EndStep ==
  ASSUME IInv, NEW s \in Session, End(s), UNCHANGED <<books, reviews, runs>>
  PROVE  IInv'
<1>1. task' = [task EXCEPT ![s] = Idle]
  BY DEF End
<1>2. \A t \in Session \ {s} : Alone(Idle, task[t]) /\ Alone(task[t], Idle)
  BY IdleTyped, IdleIsGood DEF Alone
<1> HIDE DEF Idle, Task
<1> QED
  BY <1>1, <1>2, IdleTyped, IdleIsGood, QuietStep

\* Only the program counter moves.
LEMMA GotoStep ==
  ASSUME IInv, NEW s \in Session, NEW pc \in Pc, Goto(s, pc), UNCHANGED <<books, reviews, runs>>,
         GoodTask([task[s] EXCEPT !.pc = pc]),
         \A t \in Session \ {s} : /\ Alone([task[s] EXCEPT !.pc = pc], task[t])
                                  /\ Alone(task[t], [task[s] EXCEPT !.pc = pc])
  PROVE  IInv'
<1>1. PICK k : k = [task[s] EXCEPT !.pc = pc]
  OBVIOUS
<1>2. task[s] \in Task
  BY DEF IInv, TypeOK
<1>3. k \in Task
  BY <1>1, <1>2 DEF Task
<1>4. task' = [task EXCEPT ![s] = k]
  BY <1>1, <1>2, Zenon DEF Goto
<1> QED
  BY <1>1, <1>3, <1>4, QuietStep

-----------------------------------------------------------------------------
(* The steps of reviews and of tools that have not posted yet.             *)

LEMMA NewTasks ==
  ASSUME NEW a \in Agent, NEW p \in Plan
  PROVE  /\ \A n \in 1..MaxAttempt, v \in {"pass", "fail"} : Reviewing(a, p, n, v) \in Task
         /\ \A i \in Nat : Executing(a, p, i) \in Task
<1>1. 0 \in 0..MaxSource /\ 0 \in 0..MaxAttempt /\ 1..MaxAttempt \subseteq 0..MaxAttempt
  BY CorrectionAssumption
<1> QED
  BY <1>1 DEF Reviewing, Executing, Task, Pc, Op

LEMMA VerifyStep ==
  ASSUME IInv, NEW s \in Session, NEW a \in Agent, NEW kind \in Kind, NEW n \in 1..MaxAttempt,
         Verify(s, a, kind, n)
  PROVE  IInv'
<1>1. PICK p : p = [kind |-> kind, version |-> source]
  OBVIOUS
<1>2. PICK v \in {"pass", "fail"} : task' = [task EXCEPT ![s] = Reviewing(a, p, n, v)]
  BY <1>1 DEF Verify
<1>3. PICK k : k = Reviewing(a, p, n, v)
  OBVIOUS
<1>4. source \in 0..MaxSource /\ p \in Plan /\ p.version = source
  BY <1>1 DEF IInv, TypeOK, Plan
<1>5. /\ k.pc = "record" /\ k.op = "review" /\ k.agent = a /\ k.attempt = n
      /\ k.plan = p
  BY <1>3 DEF Reviewing
<1>6. GoodTask(k)
  BY <1>4, <1>5 DEF GoodTask, Applying, Serving
<1>7. \A t \in Session \ {s} : Alone(k, task[t]) /\ Alone(task[t], k)
  BY <1>5 DEF Alone, HasLoan, HasBalance, HasReview, HasTables, HasWritten
<1>8. k \in Task
  BY <1>3, <1>4, NewTasks
<1>9. UNCHANGED <<books, reviews, runs>>
  BY DEF Verify
<1> QED
  BY <1>2, <1>3, <1>6, <1>7, <1>8, <1>9, QuietStep

LEMMA ReadReviewStep ==
  ASSUME IInv, NEW s \in Session, NEW a \in Agent, NEW i \in DOMAIN reviews,
         ReadReview(s, a, i)
  PROVE  IInv'
<1>1. PICK k : k = Executing(a, reviews[i].plan, i)
  OBVIOUS
<1>2. i \in Nat /\ reviews[i].plan \in Plan
  BY ReviewTyped DEF IInv, Review
<1>3. /\ k.pc = "begin" /\ k.op = "apply" /\ k.agent = a /\ k.review = i
      /\ k.plan = reviews[i].plan
  BY <1>1 DEF Executing
<1>4. k \in Task
  BY <1>1, <1>2, NewTasks
<1>5. GoodTask(k)
  BY <1>3 DEF GoodTask, Applying, Serving
<1>6. \A t \in Session \ {s} : Alone(k, task[t]) /\ Alone(task[t], k)
  BY <1>3 DEF Alone, HasLoan, HasBalance, HasReview, HasTables, HasWritten
<1>7. task' = [task EXCEPT ![s] = k] /\ UNCHANGED <<books, reviews, runs>>
  BY <1>1 DEF ReadReview
<1> QED
  BY <1>4, <1>5, <1>6, <1>7, QuietStep

\* The snapshot is taken: after the tables are locked, if they are.
LEMMA BeginStep ==
  ASSUME IInv, NEW s \in Session, task[s].pc = "begin", UNCHANGED <<books, reviews, runs>>,
         task' = [task EXCEPT ![s].pc = "review", ![s].snap = source],
         task[s].plan.kind = "rollover" =>
           /\ IsLatest(task[s].review, task[s].plan)
           /\ \A t \in Session \ {s} : ~HasWritten(task[t]) /\ ~HasTables(task[t])
  PROVE  IInv'
<1>1. PICK k : k = [task[s] EXCEPT !.pc = "review", !.snap = source]
  OBVIOUS
<1>2. /\ task[s] \in Task /\ source \in 0..MaxSource
      /\ \A t \in Session : task[t] \in Task
  BY DEF IInv, TypeOK
<1>3. k \in Task
  BY <1>1, <1>2 DEF Task, Pc
<1>4. /\ k.pc = "review" /\ k.snap = source /\ k.op = task[s].op /\ k.agent = task[s].agent
      /\ k.review = task[s].review /\ k.plan = task[s].plan
  BY <1>1, <1>2 DEF Task
<1>5. GoodTask(task[s])
  BY DEF IInv, Tasks
<1>6. GoodTask(k)
  BY <1>2, <1>4, <1>5 DEF GoodTask, Applying, Serving
<1>7. task[s].op = "apply"
  BY <1>5 DEF GoodTask, Applying
<1>8. /\ ~HasLoan(k) /\ ~HasBalance(k) /\ ~HasReview(k) /\ ~HasWritten(k)
      /\ HasTables(k) => task[s].plan.kind = "rollover"
  BY <1>4, <1>7 DEF HasLoan, HasBalance, HasReview, HasTables, HasWritten
<1>9. \A t \in Session \ {s} : Alone(k, task[t]) /\ Alone(task[t], k)
  BY <1>8 DEF Alone
<1>10. task' = [task EXCEPT ![s] = k]
  BY <1>1, <1>2
<1> QED
  BY <1>3, <1>6, <1>9, <1>10, QuietStep

LEMMA BeginSnapshotStep ==
  ASSUME IInv, NEW s \in Session, BeginSnapshot(s)
  PROVE  IInv'
<1>1. CASE End(s)
  BY <1>1, EndStep DEF BeginSnapshot
<1>2. CASE ~End(s)
  BY <1>2, BeginStep DEF BeginSnapshot
<1> QED
  BY <1>1, <1>2

LEMMA LockTablesStep ==
  ASSUME IInv, NEW s \in Session, LockTables(s)
  PROVE  IInv'
<1>1. CASE End(s)
  BY <1>1, EndStep DEF LockTables
<1>2. CASE ~End(s)
  BY <1>2, BeginStep DEF LockTables, Superseded
<1> QED
  BY <1>1, <1>2

\* The fields of a task that moved on.
LEMMA Moved ==
  ASSUME NEW j \in Task, NEW pc \in Pc, NEW k, k = [j EXCEPT !.pc = pc]
  PROVE  /\ k.pc = pc /\ k.op = j.op /\ k.plan = j.plan /\ k.agent = j.agent
         /\ k.attempt = j.attempt /\ k.review = j.review /\ k.snap = j.snap
BY DEF Task

LEMMA LockReviewStep ==
  ASSUME IInv, NEW s \in Session, LockReview(s)
  PROVE  IInv'
<1>1. CASE End(s)
  BY <1>1, EndStep DEF LockReview
<1>2. CASE Goto(s, "loan") /\ Matching(reviews[task[s].review], task[s].plan, task[s].agent)
  <2>1. PICK k : k = [task[s] EXCEPT !.pc = "loan"]
    OBVIOUS
  <2>2. task[s] \in Task /\ "loan" \in Pc
    BY DEF IInv, TypeOK, Pc
  <2>3. /\ k.pc = "loan" /\ k.op = task[s].op /\ k.plan = task[s].plan
        /\ k.agent = task[s].agent /\ k.review = task[s].review /\ k.snap = task[s].snap
    BY <2>1, <2>2, Moved
  <2>4. GoodTask(task[s]) /\ task[s].pc = "review"
    BY DEF IInv, Tasks, LockReview
  <2>5. task[s].op = "apply"
    BY <2>4 DEF GoodTask, Applying
  <2>6. GoodTask(k)
    BY <1>2, <2>3, <2>4 DEF GoodTask, Applying, Serving
  <2>7. ASSUME NEW t \in Session \ {s} PROVE Alone(k, task[t]) /\ Alone(task[t], k)
    <3>1. /\ ~HasLoan(k) /\ ~HasBalance(k) /\ ~HasWritten(k)
          /\ HasTables(k) => HasTables(task[s])
      BY <2>3, <2>4, <2>5 DEF HasLoan, HasBalance, HasTables, HasWritten
    <3>2. HasReview(task[t]) => task[t].review # k.review
      BY <2>3 DEF LockReview
    <3>3. Alone(task[s], task[t]) /\ Alone(task[t], task[s])
      BY DEF IInv, LocksExclude
    <3> QED
      BY <3>1, <3>2, <3>3 DEF Alone
  <2>8. UNCHANGED <<books, reviews, runs>>
    BY DEF LockReview
  <2> QED
    BY <1>2, <2>1, <2>2, <2>6, <2>7, <2>8, GotoStep
<1> QED
  BY <1>1, <1>2 DEF LockReview

LEMMA LockLoanStep ==
  ASSUME IInv, NEW s \in Session, LockLoan(s)
  PROVE  IInv'
<1>1. CASE End(s)
  BY <1>1, EndStep DEF LockLoan
<1>2. CASE Goto(s, "post") /\ loanRow <= task[s].snap /\ task[s].snap = task[s].plan.version
  <2>1. PICK k : k = [task[s] EXCEPT !.pc = "post"]
    OBVIOUS
  <2>2. task[s] \in Task /\ "post" \in Pc
    BY DEF IInv, TypeOK, Pc
  <2>3. /\ k.pc = "post" /\ k.op = task[s].op /\ k.plan = task[s].plan
        /\ k.agent = task[s].agent /\ k.review = task[s].review /\ k.snap = task[s].snap
    BY <2>1, <2>2, Moved
  <2>4. GoodTask(task[s]) /\ task[s].pc = "loan"
    BY DEF IInv, Tasks, LockLoan
  <2>5. task[s].op = "apply"
    BY <2>4 DEF GoodTask, Applying
  <2>6. GoodTask(k)
    BY <1>2, <2>3, <2>4 DEF GoodTask, Applying, Serving
  <2>7. ASSUME NEW t \in Session \ {s} PROVE Alone(k, task[t]) /\ Alone(task[t], k)
    <3>1. /\ ~HasBalance(k) /\ ~HasWritten(k)
          /\ HasTables(k) => HasTables(task[s])
          /\ HasReview(task[s]) /\ k.review = task[s].review
      BY <2>3, <2>4, <2>5 DEF HasLoan, HasBalance, HasTables, HasWritten, HasReview
    <3>2. ~HasLoan(task[t])
      BY DEF LockLoan, LoanFree
    <3>3. Alone(task[s], task[t]) /\ Alone(task[t], task[s])
      BY DEF IInv, LocksExclude
    <3> QED
      BY <3>1, <3>2, <3>3 DEF Alone
  <2>8. UNCHANGED <<books, reviews, runs>>
    BY DEF LockLoan
  <2> QED
    BY <1>2, <2>1, <2>2, <2>6, <2>7, <2>8, GotoStep
<1> QED
  BY <1>1, <1>2 DEF LockLoan

LEMMA PostStep ==
  ASSUME IInv, NEW s \in Session, Post(s)
  PROVE  IInv'
<1>1. CASE End(s)
  BY <1>1, EndStep DEF Post
<1>2. CASE Goto(s, "commit") /\ ~RowNewer(s)
  <2>1. PICK k : k = [task[s] EXCEPT !.pc = "commit"]
    OBVIOUS
  <2>2. task[s] \in Task /\ "commit" \in Pc
    BY DEF IInv, TypeOK, Pc
  <2>3. /\ k.pc = "commit" /\ k.op = task[s].op /\ k.plan = task[s].plan
        /\ k.agent = task[s].agent /\ k.review = task[s].review /\ k.snap = task[s].snap
    BY <2>1, <2>2, Moved
  <2>4. GoodTask(task[s]) /\ task[s].pc = "post"
    BY DEF IInv, Tasks, Post
  <2>5. task[s].op = "apply"
    BY <2>4 DEF GoodTask, Applying
  <2>6. GoodTask(k)
    <3>1. balanceRow \in 0..MaxSource /\ task[s].snap \in 0..MaxSource
      BY <2>2 DEF IInv, TypeOK, Task
    <3>2. balanceRow <= k.snap
      BY <1>2, <2>3, <3>1 DEF RowNewer
    <3> QED
      BY <2>3, <2>4, <3>2 DEF GoodTask, Applying, Serving
  <2>7. ASSUME NEW t \in Session \ {s} PROVE Alone(k, task[t]) /\ Alone(task[t], k)
    <3>1. /\ HasTables(k) => HasTables(task[s])
          /\ HasReview(task[s]) /\ k.review = task[s].review /\ HasLoan(task[s])
      BY <2>3, <2>4, <2>5 DEF HasLoan, HasTables, HasReview
    <3>2. ~HasBalance(task[t]) /\ ~HasTables(task[t])
      BY DEF Post, BalanceFree, WritesAllowed
    <3>3. Alone(task[s], task[t]) /\ Alone(task[t], task[s])
      BY DEF IInv, LocksExclude
    <3> QED
      BY <3>1, <3>2, <3>3 DEF Alone
  <2>8. UNCHANGED <<books, reviews, runs>>
    BY DEF Post
  <2> QED
    BY <1>2, <2>1, <2>2, <2>6, <2>7, <2>8, GotoStep
<1> QED
  BY <1>1, <1>2 DEF Post

-----------------------------------------------------------------------------
(* The steps that change reviews, runs or the accounting.                  *)

LEMMA RecordReviewStep ==
  ASSUME IInv, NEW s \in Session, RecordReview(s)
  PROVE  IInv'
<1>1. CASE UNCHANGED reviews
  BY <1>1, EndStep DEF RecordReview
<1>2. CASE ~UNCHANGED reviews
  <2>1. PICK r : r = [plan |-> task[s].plan, reviewer |-> task[s].agent,
                      attempt |-> task[s].attempt, verdict |-> task[s].verdict,
                      consumedBy |-> None]
    OBVIOUS
  <2>2. reviews' = Append(reviews, r) /\ Len(reviews) < MaxReviews
    BY <1>2, <2>1 DEF RecordReview
  <2>3. GoodTask(task[s]) /\ task[s] \in Task /\ task[s].pc = "record"
    BY DEF IInv, TypeOK, Tasks, RecordReview
  <2>4. r \in Review
    BY <2>1, <2>3 DEF GoodTask, Task, Review
  <2>5. /\ source' = source /\ loanRow' = loanRow /\ balanceRow' = balanceRow /\ runs' = runs
    BY DEF RecordReview, books
  <2>6. /\ reviews \in Seq(Review) /\ reviews' \in Seq(Review)
        /\ Len(reviews) \in Nat /\ Len(reviews') = Len(reviews) + 1
        /\ DOMAIN reviews = 1..Len(reviews) /\ DOMAIN reviews' = 1..Len(reviews')
        /\ \A i \in 1..Len(reviews) : reviews'[i] = reviews[i]
    BY <2>2, <2>4, AppendProperties, LenProperties DEF IInv, TypeOK
  <2>7. /\ task' \in [Session -> Task] /\ task'[s].pc = "idle"
        /\ \A t \in Session : t # s => task'[t] = task[t] /\ ~HasTables(task[t])
    BY IdleTyped DEF IInv, TypeOK, RecordReview, End, WritesAllowed
  <2>8. TypeOK'
    <3>1. Len(reviews') <= MaxReviews
      BY <2>2, <2>6, CorrectionAssumption
    <3>2. runs' \subseteq [plan : Plan, review : DOMAIN reviews', executor : Agent]
      <4>1. DOMAIN reviews \subseteq DOMAIN reviews'
        BY <2>6
      <4> QED
        BY <2>5, <4>1 DEF IInv, TypeOK
    <3> QED
      BY <2>5, <2>6, <2>7, <3>1, <3>2 DEF IInv, TypeOK
  <2>9. RowsTell' /\ RunsArePast'
    BY <2>5 DEF IInv, RowsTell, RunsArePast
  <2>10. ASSUME NEW t \in Session PROVE GoodTask(task[t])' 
    <3>1. CASE t = s
      BY <2>7, <3>1 DEF GoodTask, Applying, Serving
    <3>2. CASE t # s
      <4>1. GoodTask(task[t]) /\ task'[t] = task[t] /\ ~HasTables(task[t])
        BY <2>7, <3>2 DEF IInv, Tasks
      <4>2. task[t].pc \in Applying =>
              /\ task[t].review \in DOMAIN reviews'
              /\ reviews'[task[t].review] = reviews[task[t].review]
        BY <2>6, <4>1 DEF GoodTask
      <4>3. task[t].pc \in Applying \ {"begin"} => task[t].plan.kind # "rollover"
        BY <4>1 DEF GoodTask, Applying, HasTables
      <4> QED
        BY <2>5, <4>1, <4>2, <4>3 DEF GoodTask, Applying, Serving, Matching
    <3> QED
      BY <3>1, <3>2
  <2>11. Tasks'
    BY <2>10 DEF Tasks
  <2>12. LocksExclude'
    <3>1. ASSUME NEW t \in Session, NEW u \in Session, t # u
          PROVE  Alone(task'[t], task'[u])
      <4>1. CASE t = s \/ u = s
        BY <2>7, <4>1, IdleIsGood DEF Alone
      <4>2. CASE t # s /\ u # s
        BY <2>7, <3>1, <4>2 DEF IInv, LocksExclude
      <4> QED
        BY <4>1, <4>2
    <3> QED
      BY <3>1 DEF LocksExclude
  <2> QED
    BY <2>8, <2>9, <2>11, <2>12 DEF IInv
<1> QED
  BY <1>1, <1>2

\* The session that changes the accounting holds the loan: nobody else has
\* found it unchanged.
LEMMA ChangeStep ==
  ASSUME IInv, NEW s \in Session, End(s), HasLoan(task[s]),
         source < MaxSource, source' = source + 1,
         loanRow' \in {loanRow, source'}, balanceRow' \in {balanceRow, source'},
         source' \in {loanRow', balanceRow'},
         reviews' \in Seq(Review), Len(reviews') = Len(reviews),
         \A i \in DOMAIN reviews :
           /\ reviews'[i].plan = reviews[i].plan
           /\ reviews'[i] = reviews[i] \/ (HasReview(task[s]) /\ i = task[s].review),
         runs' \subseteq [plan : Plan, review : DOMAIN reviews', executor : Agent],
         RunsArePast'
  PROVE  IInv'
<1>1. /\ task' \in [Session -> Task] /\ task'[s].pc = "idle"
      /\ \A t \in Session : t # s => task'[t] = task[t]
  BY IdleTyped DEF IInv, TypeOK, End
<1>2. source \in Nat /\ loanRow \in Nat /\ balanceRow \in Nat /\ source' \in 0..MaxSource
  BY CorrectionAssumption DEF IInv, TypeOK
<1>3. DOMAIN reviews' = DOMAIN reviews
  BY LenProperties DEF IInv, TypeOK
<1>4. TypeOK'
  BY <1>1, <1>2 DEF IInv, TypeOK
<1>5. RowsTell'
  BY <1>2 DEF IInv, RowsTell
<1>6. ASSUME NEW t \in Session PROVE GoodTask(task[t])'
  <2>1. CASE t = s
    BY <1>1, <2>1 DEF GoodTask, Applying, Serving
  <2>2. CASE t # s
    <3>1. GoodTask(task[t]) /\ task'[t] = task[t] /\ task[t] \in Task
      BY <1>1, <2>2 DEF IInv, Tasks, TypeOK
    <3>2. Alone(task[s], task[t])
      BY <2>2 DEF IInv, LocksExclude
    <3>3. task[t].pc \notin {"post", "commit"}
      BY <3>1, <3>2 DEF GoodTask, Applying, Alone, HasLoan
    <3>4. task[t].pc = "loan" => reviews'[task[t].review] = reviews[task[t].review]
      BY <3>1, <3>2 DEF GoodTask, Applying, Alone, HasReview
    <3>5. IsLatest(task[t].review, task[t].plan) => IsLatest(task[t].review, task[t].plan)'
      BY <1>3, <3>1 DEF IsLatest, Concerns
    <3>6. task[t].snap \in Nat /\ task[t].plan.version \in Nat
      BY <3>1 DEF Task, Plan
    <3>7. /\ task[t].snap <= source => task[t].snap <= source'
          /\ task[t].plan.version <= source => task[t].plan.version <= source'
      BY <1>2, <3>6
    <3> QED
      BY <1>3, <3>1, <3>3, <3>4, <3>5, <3>7 DEF GoodTask, Applying, Serving, Matching
  <2> QED
    BY <2>1, <2>2
<1>7. Tasks'
  BY <1>6 DEF Tasks
<1>8. LocksExclude'
  <2>1. ASSUME NEW t \in Session, NEW u \in Session, t # u
        PROVE  Alone(task'[t], task'[u])
    <3>1. CASE t = s \/ u = s
      BY <1>1, <3>1, IdleIsGood DEF Alone
    <3>2. CASE t # s /\ u # s
      BY <1>1, <2>1, <3>2 DEF IInv, LocksExclude
    <3> QED
      BY <3>1, <3>2
  <2> QED
    BY <2>1 DEF LocksExclude
<1> QED
  BY <1>4, <1>5, <1>7, <1>8 DEF IInv

\* The review that a commit uses up, as one row.
LEMMA Consumed ==
  ASSUME TypeOK, NEW i \in DOMAIN reviews, NEW a \in Agent,
         reviews' = [reviews EXCEPT ![i].consumedBy = a]
  PROVE  /\ reviews' \in Seq(Review) /\ Len(reviews') = Len(reviews)
         /\ \A j \in DOMAIN reviews :
              /\ reviews'[j].plan = reviews[j].plan
              /\ reviews'[j] = reviews[j] \/ j = i
<1>1. PICK r : r = [reviews[i] EXCEPT !.consumedBy = a]
  OBVIOUS
<1>2. i \in 1..Len(reviews) /\ reviews[i] \in Review
  BY ReviewTyped
<1>3. r \in Review /\ r.plan = reviews[i].plan
  BY <1>1, <1>2 DEF Review
<1>4. reviews' = [reviews EXCEPT ![i] = r]
  BY <1>1, <1>2, Zenon
<1>5. reviews \in Seq(Review) /\ DOMAIN reviews = 1..Len(reviews)
  BY LenProperties DEF TypeOK
<1> QED
  BY <1>2, <1>3, <1>4, <1>5, ExceptSeq

\* A correction commits on the source it was planned from.
LEMMA Committing ==
  ASSUME IInv, NEW s \in Session, Commit(s)
  PROVE  /\ task[s].agent \in Agent /\ task[s].review \in DOMAIN reviews
         /\ reviews[task[s].review].plan = task[s].plan
         /\ Matching(reviews[task[s].review], task[s].plan, task[s].agent)
         /\ HasLoan(task[s]) /\ HasReview(task[s])
         /\ task[s].plan \in Plan /\ task[s].plan.version = source
         /\ task[s].plan.kind = "rollover" => IsLatest(task[s].review, task[s].plan)
<1>1. GoodTask(task[s]) /\ task[s] \in Task /\ task[s].pc = "commit"
  BY DEF IInv, Tasks, TypeOK, Commit
<1>2. /\ task[s].op = "apply" /\ task[s].snap <= source
      /\ task[s].snap = task[s].plan.version
      /\ loanRow <= task[s].snap /\ balanceRow <= task[s].snap
  BY <1>1 DEF GoodTask, Applying
<1>3. task[s].plan.version = source
  BY <1>1, <1>2 DEF IInv, RowsTell, TypeOK, Task
<1> QED
  BY <1>1, <1>2, <1>3 DEF GoodTask, Applying, HasLoan, HasReview, Task

LEMMA CommitStep ==
  ASSUME IInv, NEW s \in Session, Commit(s)
  PROVE  IInv'
<1>1. PICK i \in DOMAIN reviews : i = task[s].review
  BY Committing
<1>2. PICK a \in Agent : a = task[s].agent
  BY Committing
<1>3. /\ reviews' = [reviews EXCEPT ![i].consumedBy = a]
      /\ runs' = runs \cup {[plan |-> task[s].plan, review |-> i, executor |-> a]}
      /\ source' = source + 1 /\ source < MaxSource /\ balanceRow' = source'
      /\ loanRow' \in {loanRow, source'} /\ End(s)
  BY <1>1, <1>2 DEF Commit
<1>4. /\ reviews' \in Seq(Review) /\ Len(reviews') = Len(reviews)
      /\ \A j \in DOMAIN reviews :
           /\ reviews'[j].plan = reviews[j].plan
           /\ reviews'[j] = reviews[j] \/ j = i
  BY <1>3, Consumed DEF IInv
<1>5. DOMAIN reviews' = DOMAIN reviews
  BY <1>4, LenProperties DEF IInv, TypeOK
<1>6. runs' \subseteq [plan : Plan, review : DOMAIN reviews', executor : Agent]
  BY <1>1, <1>2, <1>3, <1>5, Committing DEF IInv, TypeOK
<1>7. RunsArePast'
  <2>1. source \in Nat
    BY DEF IInv, TypeOK
  <2>2. ASSUME NEW run \in runs' PROVE run.plan.version < source'
    <3>1. CASE run \in runs
      <4>1. run.plan.version \in Nat /\ run.plan.version < source
        BY <3>1 DEF IInv, TypeOK, RunsArePast, Plan
      <4> QED
        BY <1>3, <2>1, <4>1
    <3>2. CASE run \notin runs
      <4>1. run.plan = task[s].plan
        BY <1>3, <3>2
      <4> QED
        BY <1>3, <2>1, <4>1, Committing
    <3> QED
      BY <3>1, <3>2
  <2> QED
    BY <2>2 DEF RunsArePast
<1> QED
  BY <1>1, <1>3, <1>4, <1>6, <1>7, Committing, ChangeStep

-----------------------------------------------------------------------------
(* The application.                                                        *)

LEMMA EnterStep ==
  ASSUME IInv, NEW s \in Session, NEW op \in {"settle", "amend", "seize"}, Enter(s, op)
  PROVE  IInv'
<1>1. PICK k : k = Requesting(op)
  OBVIOUS
<1>2. 0 \in 0..MaxSource /\ 0 \in 0..MaxAttempt /\ NoPlan \in Plan
  BY CorrectionAssumption DEF NoPlan, Plan, Kind
<1>3. k \in Task
  BY <1>1, <1>2 DEF Requesting, Task, Pc, Op
<1>4. k.op = op /\ k.pc = (IF op = "seize" THEN "write" ELSE "own")
  BY <1>1 DEF Requesting
<1>5. GoodTask(k)
  BY <1>4 DEF GoodTask, Applying, Serving
<1>6. \A t \in Session \ {s} : Alone(k, task[t]) /\ Alone(task[t], k)
  BY <1>4 DEF Alone, HasLoan, HasBalance, HasReview, HasTables, HasWritten
<1>7. task' = [task EXCEPT ![s] = k] /\ UNCHANGED <<books, reviews, runs>>
  BY <1>1 DEF Enter
<1> QED
  BY <1>3, <1>5, <1>6, <1>7, QuietStep

\* A request that moves on to pc, and has what nobody else has.
LEMMA ServeStep ==
  ASSUME IInv, NEW s \in Session, NEW pc \in Serving \ {"own"}, Goto(s, pc),
         UNCHANGED <<books, reviews, runs>>,
         task[s].pc \in Serving,
         pc = "close" => task[s].op = "seize",
         pc = "write" => task[s].op # "seize" /\ LoanFree(s),
         pc = "save" /\ task[s].op = "seize" => task[s].pc = "close" /\ LoanFree(s),
         pc = "save" /\ task[s].op # "seize" =>
           /\ task[s].pc = "write" /\ WritesAllowed(s)
           /\ task[s].op = "settle" => BalanceFree(s),
         pc = "close" => WritesAllowed(s) /\ BalanceFree(s)
  PROVE  IInv'
<1>1. PICK k : k = [task[s] EXCEPT !.pc = pc]
  OBVIOUS
<1>2. task[s] \in Task /\ pc \in Pc
  BY DEF IInv, TypeOK, Pc, Serving
<1>3. k.pc = pc /\ k.op = task[s].op
  BY <1>1, <1>2, Moved
<1>4. task[s].op \in {"settle", "amend", "seize"}
  BY DEF IInv, Tasks, GoodTask, Serving
<1>5. GoodTask(k)
  BY <1>3, <1>4 DEF GoodTask, Applying, Serving
<1>6. ASSUME NEW t \in Session \ {s} PROVE Alone(k, task[t]) /\ Alone(task[t], k)
  <2>1. Alone(task[s], task[t]) /\ Alone(task[t], task[s])
    BY DEF IInv, LocksExclude
  <2>2. ~HasReview(k) /\ ~HasTables(k)
    BY <1>3, <1>4 DEF HasReview, HasTables
  <2>3. HasLoan(k) => ~HasLoan(task[t])
    BY <1>3, <1>4, <2>1 DEF Alone, HasLoan, LoanFree, Serving
  <2>4. HasBalance(k) => ~HasBalance(task[t])
    BY <1>3, <1>4, <2>1 DEF Alone, HasBalance, BalanceFree, Serving
  <2>5. HasWritten(k) => ~HasTables(task[t])
    BY <1>3, <1>4, <2>1 DEF Alone, HasWritten, WritesAllowed, Serving
  <2> QED
    BY <2>2, <2>3, <2>4, <2>5 DEF Alone
<1> QED
  BY <1>1, <1>2, <1>5, <1>6, GotoStep

LEMMA OwnStep == ASSUME IInv, NEW s \in Session, Own(s) PROVE IInv'
<1>1. task[s].op # "seize"
  BY DEF Own, IInv, Tasks, GoodTask
<1> QED
  BY <1>1, ServeStep DEF Own, Serving

LEMMA WriteStep == ASSUME IInv, NEW s \in Session, Write(s) PROVE IInv'
<1>1. CASE task[s].op = "seize"
  BY <1>1, ServeStep DEF Write, Serving
<1>2. CASE task[s].op # "seize"
  BY <1>2, ServeStep DEF Write, Serving
<1> QED
  BY <1>1, <1>2

LEMMA CloseStep == ASSUME IInv, NEW s \in Session, Close(s) PROVE IInv'
<1>1. task[s].op = "seize"
  BY DEF Close, IInv, Tasks, GoodTask
<1> QED
  BY <1>1, ServeStep DEF Close, Serving

LEMMA SaveStep == ASSUME IInv, NEW s \in Session, Save(s) PROVE IInv'
<1>1. task[s].op \in {"settle", "amend", "seize"} /\ task[s].pc = "save"
  BY DEF Save, IInv, Tasks, GoodTask, Serving
<1>2. HasLoan(task[s])
  BY <1>1 DEF HasLoan
<1>3. /\ End(s) /\ source' = source + 1 /\ source < MaxSource
      /\ loanRow' \in {loanRow, source'} /\ balanceRow' \in {balanceRow, source'}
      /\ source' \in {loanRow', balanceRow'}
      /\ reviews' = reviews /\ runs' = runs
  BY <1>1 DEF Save
<1>4. RunsArePast'
  <2>1. source \in Nat /\ \A run \in runs : run.plan.version \in Nat
    BY DEF IInv, TypeOK, Plan
  <2> QED
    BY <1>3, <2>1 DEF IInv, RunsArePast
<1>5. reviews' \in Seq(Review) /\ Len(reviews') = Len(reviews)
  BY <1>3 DEF IInv, TypeOK
<1>6. runs' \subseteq [plan : Plan, review : DOMAIN reviews', executor : Agent]
  BY <1>3 DEF IInv, TypeOK
<1>7. \A i \in DOMAIN reviews : reviews'[i].plan = reviews[i].plan /\ reviews'[i] = reviews[i]
  BY <1>3
<1> QED
  BY <1>2, <1>3, <1>4, <1>5, <1>6, <1>7, ChangeStep

-----------------------------------------------------------------------------
(* The invariant.                                                          *)

LEMMA IInvStep == IInv /\ [Next]_vars => IInv'
<1> SUFFICES ASSUME IInv, [Next]_vars PROVE IInv'
  OBVIOUS
<1>1. ASSUME NEW s \in Tool, Tools(s) PROVE IInv'
  <2>1. s \in Session
    BY DEF Session
  <2> QED
    BY <1>1, <2>1, VerifyStep, RecordReviewStep, ReadReviewStep, BeginSnapshotStep,
       LockTablesStep, LockReviewStep, LockLoanStep, PostStep, CommitStep DEF Tools
<1>2. ASSUME NEW s \in Clerk, Application(s) PROVE IInv'
  <2>1. s \in Session
    BY DEF Session
  <2> QED
    BY <1>2, <2>1, EnterStep, OwnStep, WriteStep, CloseStep, SaveStep DEF Application
<1>3. ASSUME NEW s \in Session, Rollback(s) PROVE IInv'
  BY <1>3, EndStep DEF Rollback
<1>4. CASE UNCHANGED vars
  <2>1. UNCHANGED <<source, loanRow, balanceRow, reviews, runs, task>>
    BY <1>4 DEF vars, books
  <2> QED
    BY <2>1 DEF IInv, TypeOK, RowsTell, RunsArePast, Tasks, GoodTask, LocksExclude, Matching,
                IsLatest, Concerns
<1> QED
  BY <1>1, <1>2, <1>3, <1>4 DEF Next

THEOREM Invariance == Spec => []IInv
BY InitIInv, IInvStep, PTL DEF Spec

\* Types, for every set of sessions and agents and every bound.
THEOREM TypeCorrect == Spec => []TypeOK
<1>1. IInv => TypeOK
  BY DEF IInv
<1> QED
  BY <1>1, Invariance, PTL

\* Two transactions never have the same loan, balance row or review, and
\* nobody has written to tables another one has.
THEOREM LocksAreExclusive == Spec => []LocksExclude
<1>1. IInv => LocksExclude
  BY DEF IInv
<1> QED
  BY <1>1, Invariance, PTL

-----------------------------------------------------------------------------
(* Refinement.                                                             *)

LEMMA CommitCorrects ==
  ASSUME IInv, NEW s \in Session, Commit(s)
  PROVE  Atomic!Correct
<1>1. PICK i \in DOMAIN reviews : i = task[s].review
  BY Committing
<1>2. PICK a \in Agent : a = task[s].agent
  BY Committing
<1>3. reviews[i].plan = task[s].plan /\ task[s].plan.version = source
  BY <1>1, Committing
<1>4. reviews[i].verdict = "pass" /\ reviews[i].consumedBy = None /\ reviews[i].reviewer # a
  BY <1>1, <1>2, Committing DEF Matching
<1>5. \A done \in runs : done.plan # reviews[i].plan
  <2>1. source \in Nat
    BY DEF IInv, TypeOK
  <2> QED
    BY <1>3, <2>1 DEF IInv, RunsArePast
<1>6. /\ source' = source + 1
      /\ reviews' = [reviews EXCEPT ![i].consumedBy = a]
      /\ runs' = runs \cup {[plan |-> reviews[i].plan, review |-> i, executor |-> a]}
  BY <1>1, <1>2, <1>3 DEF Commit
<1> QED
  BY <1>3, <1>4, <1>5, <1>6 DEF Atomic!Correct, Atomic!SourceChanges

LEMMA RecordRecords ==
  ASSUME IInv, NEW s \in Session, RecordReview(s), ~UNCHANGED reviews
  PROVE  Atomic!Record
<1>1. PICK r : r = [plan |-> task[s].plan, reviewer |-> task[s].agent,
                    attempt |-> task[s].attempt, verdict |-> task[s].verdict,
                    consumedBy |-> None]
  OBVIOUS
<1>2. GoodTask(task[s]) /\ task[s] \in Task /\ task[s].pc = "record"
  BY DEF IInv, TypeOK, Tasks, RecordReview
<1>3. r \in Review /\ r.consumedBy = None /\ r.plan.version <= source
  BY <1>1, <1>2 DEF GoodTask, Task, Review
<1>4. reviews' = Append(reviews, r) /\ UNCHANGED <<source, runs>>
  BY <1>1 DEF RecordReview, books
<1> QED
  BY <1>3, <1>4 DEF Atomic!Record

LEMMA AtomicStep == IInv /\ [Next]_vars => [Atomic!Next]_<<source, reviews, runs>>
<1> SUFFICES ASSUME IInv, [Next]_vars
             PROVE  Atomic!Next \/ UNCHANGED <<source, reviews, runs>>
  OBVIOUS
<1>1. ASSUME NEW s \in Tool, Tools(s)
      PROVE  Atomic!Next \/ UNCHANGED <<source, reviews, runs>>
  <2>1. s \in Session
    BY DEF Session
  <2>2. CASE Commit(s)
    BY <2>1, <2>2, CommitCorrects DEF Atomic!Next
  <2>3. CASE RecordReview(s)
    BY <2>1, <2>3, RecordRecords DEF Atomic!Next, RecordReview, books
  <2>4. CASE ~Commit(s) /\ ~RecordReview(s)
    BY <1>1, <2>4 DEF Tools, Verify, ReadReview, BeginSnapshot, LockTables, LockReview,
                      LockLoan, Post, books
  <2> QED
    BY <2>2, <2>3, <2>4
<1>2. ASSUME NEW s \in Clerk, Application(s)
      PROVE  Atomic!Next \/ UNCHANGED <<source, reviews, runs>>
  <2>1. CASE Save(s)
    BY <2>1 DEF Save, Atomic!Next, Atomic!Change, Atomic!SourceChanges
  <2>2. CASE ~Save(s)
    BY <1>2, <2>2 DEF Application, Enter, Own, Write, Close, books
  <2> QED
    BY <2>1, <2>2
<1>3. ASSUME NEW s \in Session, Rollback(s) PROVE UNCHANGED <<source, reviews, runs>>
  BY <1>3 DEF Rollback, books
<1>4. CASE UNCHANGED vars
  BY <1>4 DEF vars, books
<1> QED
  BY <1>1, <1>2, <1>3, <1>4 DEF Next

\* Whatever else settles, amends or corrects the loan meanwhile, a correction
\* is one step on exactly the reviewed source.
THEOREM CorrectionsApplyAtomically == Spec => AppliesAtomically
<1>1. Init => Atomic!Init
  BY DEF Init, Atomic!Init
<1> QED
  BY <1>1, AtomicStep, Invariance, PTL DEF Spec, AppliesAtomically, Atomic!Spec, Atomic!vars

\* A rollover correction is posted only while its review is the last of the
\* chain.
THEOREM LatestReviewDecides == Spec => LatestReviewStands
<1>1. IInv /\ [Next]_vars =>
        [\A run \in runs' \ runs : run.plan.kind = "rollover" => IsLatest(run.review, run.plan)]_vars
  <2> SUFFICES ASSUME IInv, Next, NEW run \in runs' \ runs, run.plan.kind = "rollover"
               PROVE  IsLatest(run.review, run.plan)
    BY DEF vars
  <2>1. PICK s \in Session : Commit(s)
    <3>1. ASSUME NEW s \in Tool, Tools(s), ~Commit(s) PROVE UNCHANGED runs
      <4>1. CASE RecordReview(s)
        BY <4>1 DEF RecordReview
      <4>2. CASE ~RecordReview(s)
        BY <3>1, <4>2 DEF Tools, Verify, ReadReview, BeginSnapshot, LockTables, LockReview,
                          LockLoan, Post
      <4> QED
        BY <4>1, <4>2
    <3>2. ASSUME NEW s \in Clerk, Application(s) PROVE UNCHANGED runs
      BY <3>2 DEF Application, Enter, Own, Write, Close, Save
    <3>3. ASSUME NEW s \in Session, Rollback(s) PROVE UNCHANGED runs
      BY <3>3 DEF Rollback
    <3> QED
      BY <3>1, <3>2, <3>3 DEF Next, Session
  <2>2. run = [plan |-> task[s].plan, review |-> task[s].review, executor |-> task[s].agent]
    BY <2>1 DEF Commit
  <2> QED
    BY <2>1, <2>2, Committing
<1> QED
  BY <1>1, Invariance, PTL DEF Spec, LatestReviewStands
=============================================================================
