----------------------------- MODULE CorrectionRun -----------------------------
(***************************************************************************)
(* The maintenance tools that post a reviewed correction to a live loan,   *)
(* among the transactions that settle or amend it meanwhile.               *)
(*                                                                         *)
(* A reviewing agent recomputes the plan, verifies it and records a        *)
(* verdict.  An executing agent reads the last review, verifies a backup   *)
(* (which takes minutes), and posts in one SERIALIZABLE transaction that   *)
(* checks the review and the plan again.  Two protocols:                   *)
(*   "portfolio"  accrual repairs, and in the same steps the historical    *)
(*                rate and payment allocation repairs: the snapshot is     *)
(*                taken first, then the review's and the loan's rows are   *)
(*                locked;                                                  *)
(*   "rollover"   rollover corrections: the tables are locked before       *)
(*                anything is read.                                        *)
(*                                                                         *)
(* One loan; the accounting a plan is computed from is a version number:   *)
(* every committed change makes the plans of earlier versions stale, since *)
(* plan hash and fingerprint cover all rows.                               *)
(***************************************************************************)
EXTENDS Naturals, Sequences, FiniteSets

CONSTANTS
  Tool,         \* concurrent processes of the agents
  Clerk,        \* concurrent requests to the application
  Agent,        \* named reviewing and executing agents
  MaxSource,    \* bound: committed changes of the loan's accounting
  MaxReviews,   \* bound: reviews recorded
  MaxAttempt,   \* bound: review run identifiers
  None

ASSUME CorrectionAssumption ==
  /\ MaxSource \in Nat /\ MaxReviews \in Nat /\ MaxAttempt \in Nat
  /\ None \notin Agent
  /\ Tool \cap Clerk = {}

Session == Tool \cup Clerk
Kind == {"portfolio", "rollover"}
Plan == [kind : Kind, version : 0..MaxSource]
Review == [plan : Plan, reviewer : Agent, attempt : 1..MaxAttempt, verdict : {"pass", "fail"},
           consumedBy : Agent \cup {None}]
Op == {"none", "review", "apply", "settle", "amend", "seize"}
Pc == {"idle", "record", "begin", "review", "loan", "post", "commit",
       "own", "write", "close", "save"}
Task == [pc : Pc, op : Op, plan : Plan, agent : Agent \cup {None}, attempt : 0..MaxAttempt,
         verdict : {"pass", "fail"}, review : Nat, snap : 0..MaxSource]
NoPlan == [kind |-> "portfolio", version |-> 0]
Idle == [pc |-> "idle", op |-> "none", plan |-> NoPlan,
         agent |-> None, attempt |-> 0, verdict |-> "fail", review |-> 0, snap |-> 0]
Reviewing(a, p, n, v) ==
  [pc |-> "record", op |-> "review", plan |-> p,
   agent |-> a, attempt |-> n, verdict |-> v, review |-> 0, snap |-> 0]
Executing(a, p, i) ==
  [pc |-> "begin", op |-> "apply", plan |-> p,
   agent |-> a, attempt |-> 0, verdict |-> "fail", review |-> i, snap |-> 0]
Requesting(op) ==
  [pc |-> IF op = "seize" THEN "write" ELSE "own", op |-> op, plan |-> NoPlan,
   agent |-> None, attempt |-> 0, verdict |-> "fail", review |-> 0, snap |-> 0]

VARIABLES
  source,      \* version of the loan's accounting
  loanRow,     \* the version that last wrote the loans row
  balanceRow,  \* the version that last wrote the loan_balances row
  reviews,     \* financial_correction_agent_reviews, by reviewedAt
  runs,        \* portfolio_accrual_repair_runs and rollover_correction_runs
  task         \* per session: what it is doing

books == <<source, loanRow, balanceRow>>
vars == <<books, reviews, runs, task>>

Init ==
  /\ source = 0 /\ loanRow = 0 /\ balanceRow = 0
  /\ reviews = <<>>
  /\ runs = {}
  /\ task = [s \in Session |-> Idle]

-----------------------------------------------------------------------------
(* What a session k at work holds.                                         *)

HasTables(k) == k.op = "apply" /\ k.plan.kind = "rollover"
                  /\ k.pc \in {"review", "loan", "post", "commit"}
HasReview(k) == k.op = "apply" /\ k.pc \in {"loan", "post", "commit"}
HasLoan(k) == \/ k.op = "apply" /\ k.pc \in {"post", "commit"}
              \/ k.op \in {"settle", "amend"} /\ k.pc \in {"write", "save"}
              \/ k.op = "seize" /\ k.pc = "save"
HasBalance(k) == \/ k.op = "apply" /\ k.pc = "commit"
                 \/ k.op \in {"settle", "seize"} /\ k.pc \in {"close", "save"}
\* Its journal rows refer to the loan: FOR KEY SHARE by the foreign key's check.
Refers(k) == k.op = "seize" /\ k.pc \in {"close", "save"}
\* Has inserted or updated something, and so has tables in ROW EXCLUSIVE mode.
HasWritten(k) == k.pc \in {"commit", "close", "save"}

LoanFree(s) == \A t \in Session \ {s} : ~HasLoan(task[t])
\* FOR UPDATE waits for references too, and they for it; the overdue cron, one
\* of those who amend, only updates the row.
Unreferenced(s) == \A t \in Session \ {s} : ~Refers(task[t])
Referable(s) == \A t \in Session \ {s} : HasLoan(task[t]) => task[t].op \notin {"apply", "settle"}
BalanceFree(s) == \A t \in Session \ {s} : ~HasBalance(task[t])
WritesAllowed(s) == \A t \in Session \ {s} : ~HasTables(task[t])

Goto(s, pc) == task' = [task EXCEPT ![s].pc = pc]
End(s) == task' = [task EXCEPT ![s] = Idle]

\* An error, a lock_timeout of 10 s, a serialization failure at the commit, a
\* deadlock's victim, a plan with nothing to correct or with something left to
\* correct after posting, a crash: nothing of it stays.
Rollback(s) ==
  /\ task[s].pc # "idle"
  /\ End(s)
  /\ UNCHANGED <<books, reviews, runs>>

-----------------------------------------------------------------------------
(* Reviews.                                                                *)

\* Of a plan that is not blocked; the verifier may find fault with it.
Verify(s, a, k, n) ==
  /\ task[s].pc = "idle"
  /\ source < MaxSource
  /\ \E v \in {"pass", "fail"} :
       task' = [task EXCEPT ![s] = Reviewing(a, [kind |-> k, version |-> source], n, v)]
  /\ UNCHANGED <<books, reviews, runs>>

\* onConflictDoNothing on kind, plan and attempt; a retry gets the first row.
RecordReview(s) ==
  /\ task[s].pc = "record"
  /\ WritesAllowed(s)
  /\ LET t == task[s]
     IN IF \E i \in DOMAIN reviews : reviews[i].plan = t.plan /\ reviews[i].attempt = t.attempt
        THEN UNCHANGED reviews
        ELSE /\ Len(reviews) < MaxReviews
             /\ reviews' = Append(reviews, [plan |-> t.plan, reviewer |-> t.agent,
                             attempt |-> t.attempt, verdict |-> t.verdict, consumedBy |-> None])
  /\ End(s)
  /\ UNCHANGED <<books, runs>>

\* assertMatchingPassingAgentReview.
Matching(r, p, a) ==
  r.plan = p /\ r.reviewer # a /\ r.consumedBy = None /\ r.verdict = "pass"

\* The last review of this very plan; for rollovers, of the chain.
Concerns(r, p) == IF p.kind = "rollover" THEN r.plan.kind = p.kind ELSE r.plan = p
IsLatest(i, p) == /\ i \in DOMAIN reviews /\ Concerns(reviews[i], p)
                  /\ \A j \in DOMAIN reviews : Concerns(reviews[j], p) => j <= i

Done(p) == \E run \in runs : run.plan = p

-----------------------------------------------------------------------------
(* Applying a reviewed plan.                                               *)

\* Outside the transaction; a plan that was applied is answered at once.
ReadReview(s, a, i) ==
  /\ task[s].pc = "idle"
  /\ source < MaxSource
  /\ LET p == reviews[i].plan
     IN /\ ~Done(p)
        /\ IsLatest(i, p)
        /\ Matching(reviews[i], p, a)
        /\ task' = [task EXCEPT ![s] = Executing(a, p, i)]
  /\ UNCHANGED <<books, reviews, runs>>

\* After the backup: the portfolio tools' first query takes the snapshot.
BeginSnapshot(s) ==
  /\ task[s].pc = "begin"
  /\ task[s].plan.kind = "portfolio"
  /\ IF Done(task[s].plan) THEN End(s)
     ELSE task' = [task EXCEPT ![s].pc = "review", ![s].snap = source]
  /\ UNCHANGED <<books, reviews, runs>>

\* Mutant of Superseded: the review is read once.
SupersededBefore(s) == FALSE
Superseded(s) == ~IsLatest(task[s].review, task[s].plan)

\* LOCK TABLE waits for everyone who has written, and takes no snapshot.
LockTables(s) ==
  /\ task[s].pc = "begin"
  /\ task[s].plan.kind = "rollover"
  /\ \A t \in Session \ {s} : ~HasWritten(task[t]) /\ ~HasTables(task[t])
  /\ IF Done(task[s].plan) \/ Superseded(s) THEN End(s)
     ELSE task' = [task EXCEPT ![s].pc = "review", ![s].snap = source]
  /\ UNCHANGED <<books, reviews, runs>>

\* FOR UPDATE; a review another run consumed meanwhile ends this one.
LockReview(s) ==
  /\ task[s].pc = "review"
  /\ \A t \in Session \ {s} : HasReview(task[t]) => task[t].review # task[s].review
  /\ IF Matching(reviews[task[s].review], task[s].plan, task[s].agent)
     THEN Goto(s, "loan") ELSE End(s)
  /\ UNCHANGED <<books, reviews, runs>>

\* FOR UPDATE fails if the loans row is newer than the snapshot; the plan is
\* computed anew, from the snapshot, and must be the reviewed one.
LockLoan(s) ==
  /\ task[s].pc = "loan"
  /\ LoanFree(s) /\ Unreferenced(s)
  /\ IF loanRow <= task[s].snap /\ task[s].snap = task[s].plan.version
     THEN Goto(s, "post") ELSE End(s)
  /\ UNCHANGED <<books, reviews, runs>>

\* Mutant of RowNewer: a journal without the trigger that writes loan_balances.
RowUnwritten(s) == FALSE
RowNewer(s) == balanceRow > task[s].snap

\* The journal entries; the trigger writes the balance row, which fails if
\* that is newer than the snapshot.
Post(s) ==
  /\ task[s].pc = "post"
  /\ WritesAllowed(s)
  /\ BalanceFree(s)
  /\ IF RowNewer(s) THEN End(s) ELSE Goto(s, "commit")
  /\ UNCHANGED <<books, reviews, runs>>

\* Entries, consumed review and run become visible together.
Commit(s) ==
  /\ task[s].pc = "commit"
  /\ source < MaxSource
  /\ LET t == task[s]
     IN /\ source' = source + 1
        /\ balanceRow' = source + 1
        /\ loanRow' = IF t.plan.kind = "rollover" THEN source + 1 ELSE loanRow
        /\ reviews' = [reviews EXCEPT ![t.review].consumedBy = t.agent]
        /\ runs' = runs \cup {[plan |-> t.plan, review |-> t.review, executor |-> t.agent]}
  /\ End(s)

-----------------------------------------------------------------------------
(* Everyone else: payments, waivers and their corrections ("settle") and   *)
(* changes of rate or penalty ("amend") own the loans row first; the       *)
(* seizure of collateral posts first and updates the loans row last.       *)

Enter(s, op) ==
  /\ task[s].pc = "idle"
  /\ source < MaxSource
  /\ task' = [task EXCEPT ![s] = Requesting(op)]
  /\ UNCHANGED <<books, reviews, runs>>

Own(s) ==
  /\ task[s].pc = "own"
  /\ LoanFree(s)
  /\ task[s].op = "settle" => Unreferenced(s)
  /\ Goto(s, "write")
  /\ UNCHANGED <<books, reviews, runs>>

Write(s) ==
  /\ task[s].pc = "write"
  /\ WritesAllowed(s)
  /\ task[s].op # "amend" => BalanceFree(s)
  /\ task[s].op = "seize" => Referable(s)
  /\ Goto(s, IF task[s].op = "seize" THEN "close" ELSE "save")
  /\ UNCHANGED <<books, reviews, runs>>

Close(s) ==
  /\ task[s].pc = "close"
  /\ LoanFree(s)
  /\ Goto(s, "save")
  /\ UNCHANGED <<books, reviews, runs>>

Save(s) ==
  /\ task[s].pc = "save"
  /\ source < MaxSource
  /\ source' = source + 1
  /\ balanceRow' = IF task[s].op = "amend" THEN balanceRow ELSE source + 1
  /\ loanRow' = IF task[s].op = "settle" THEN loanRow ELSE source + 1
  /\ End(s)
  /\ UNCHANGED <<reviews, runs>>

Tools(s) ==
  \/ \E a \in Agent, k \in Kind, n \in 1..MaxAttempt : Verify(s, a, k, n)
  \/ RecordReview(s)
  \/ \E a \in Agent, i \in DOMAIN reviews : ReadReview(s, a, i)
  \/ BeginSnapshot(s) \/ LockTables(s) \/ LockReview(s) \/ LockLoan(s) \/ Post(s) \/ Commit(s)

Application(s) ==
  \/ \E op \in {"settle", "amend", "seize"} : Enter(s, op)
  \/ Own(s) \/ Write(s) \/ Close(s) \/ Save(s)

Next ==
  \/ \E s \in Tool : Tools(s)
  \/ \E s \in Clerk : Application(s)
  \/ \E s \in Session : Rollback(s)

Spec == Init /\ [][Next]_vars

-----------------------------------------------------------------------------
(* Properties.                                                             *)

\* Every variable keeps its type; nobody holds what another one holds.
TypeOK ==
  /\ source \in 0..MaxSource /\ loanRow \in 0..MaxSource /\ balanceRow \in 0..MaxSource
  /\ reviews \in Seq(Review) /\ Len(reviews) <= MaxReviews
  /\ runs \subseteq [plan : Plan, review : DOMAIN reviews, executor : Agent]
  /\ task \in [Session -> Task]

Atomic == INSTANCE AppliedCorrections

\* A correction that takes many steps among concurrent payments, changes of
\* terms, seizures and other corrections is one step on the very source that
\* was reviewed, with a passing review of another agent that no run has used.
AppliesAtomically == Atomic!Spec

\* A rollover correction is never posted once a later review of its chain is
\* recorded, whatever that review found.
LatestReviewStands ==
  [][\A run \in runs' \ runs : run.plan.kind = "rollover" => IsLatest(run.review, run.plan)]_vars
=============================================================================
