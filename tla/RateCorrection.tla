---------------------------- MODULE RateCorrection ----------------------------
(***************************************************************************)
(* The rate of one loan and the requests to correct it:                    *)
(* rate-change-request.service.ts and the actions that call it             *)
(* (rate-change-request.actions.ts), among the operations that record a    *)
(* settlement or close the loan.                                           *)
(*                                                                         *)
(* A correction replaces the rate from the loan's first day, so it is      *)
(* allowed only until something was settled against the loan.  Whoever     *)
(* lacks the permission a low rate needs leaves a request to be reviewed.  *)
(* A transaction locks the loan row before a request row; only a rejection *)
(* locks the request alone.  Permissions and the rate the form was shown   *)
(* are read before the transaction.                                        *)
(*                                                                         *)
(* Interest is rate * days: no payment exists while corrections are        *)
(* allowed.  Which permissions a check finds is any part of those the      *)
(* person was ever given: they may be revoked, and checks are cached.      *)
(***************************************************************************)
EXTENDS Integers, FiniteSets

CONSTANTS
  Session,       \* concurrent requests to the server
  User,
  UserOf,        \* the user of each session
  Rate,          \* rates a user may ask for
  Issued,        \* loans.interest_rate
  StandardFrom,  \* a rate from here up needs "approve-standard"
  FreeFrom,      \* a rate from here up needs no approval
  MaxRequests,   \* bound: rate_change_requests rows
  Grantable,     \* bound: the permissions each user may be given
  MaxDays,       \* bound: days that pass
  None

Permission == {"approve-standard", "approve-low", "rate-adjust"}

ASSUME RateAssumption ==
  /\ UserOf \in [Session -> User]
  /\ Rate \subseteq Nat \ {0}
  /\ Issued \in Nat \ {0}
  /\ StandardFrom \in Nat
  /\ FreeFrom \in Nat
  /\ Grantable \in [User -> SUBSET Permission]
  /\ MaxRequests \in Nat
  /\ MaxDays \in Nat
  /\ None \notin Session \cup User \cup Int \cup Permission

Request == 1..MaxRequests
RequestRow == [status : {"none", "pending", "approved", "rejected"},
               rate : Nat, by : User \cup {None}]
NoRequest == [status |-> "none", rate |-> 0, by |-> None]

\* seen is the current rate the form was shown.
Op == {"create", "correct", "approve", "reject", "settle", "seize"}
Task == [pc : {"idle", "loan", "request", "check", "write"}, op : Op,
         rate : Nat, seen : Nat, req : Request \cup {None}]
Idle == [pc |-> "idle", op |-> "create", rate |-> 0, seen |-> 0, req |-> None]

VARIABLES
  status,       \* loans.status
  rate,         \* getBaseRate of the loan row
  corrected,    \* the loan has an override or an approved request
  settled,      \* a payment, waiver or successor row was ever recorded
  terms,        \* the audit rows' last actor, and who had asked
  day,          \* days since the loan was issued
  posted,       \* net of the interest accrual journals
  postedTo,     \* history: the day they were last brought up to
  request,      \* the rate_change_requests rows
  timesApplied, \* history: how often each request was applied
  held,         \* permissions each user was ever given
  loanLock,     \* the session that holds the loan row FOR UPDATE
  requestLock,  \* the session that holds each request row
  task          \* per session: the operation under way

loan == <<status, rate, corrected, settled, terms>>
books == <<day, posted, postedTo>>
rows == <<request, timesApplied>>
locks == <<loanLock, requestLock>>
vars == <<loan, books, rows, held, locks, task>>

Init ==
  /\ status = "active"
  /\ rate = Issued
  /\ corrected = FALSE
  /\ settled = FALSE
  /\ terms = [by |-> None, asked |-> None]
  /\ day = 0 /\ posted = 0 /\ postedTo = 0
  /\ request = [q \in Request |-> NoRequest]
  /\ timesApplied = [q \in Request |-> 0]
  /\ held = [u \in User |-> {}]
  /\ loanLock = None
  /\ requestLock = [q \in Request |-> None]
  /\ task = [s \in Session |-> Idle]

-----------------------------------------------------------------------------
(* Who may do what.                                                        *)

\* requestRateChangeAction: the permission that setting a rate alone needs
Needs(r) == IF r >= FreeFrom THEN None
            ELSE IF r >= StandardFrom THEN "approve-standard" ELSE "approve-low"

\* Permissions come from roles and delegations.
Give(u) ==
  /\ \E p \in Grantable[u] \ held[u] : held' = [held EXCEPT ![u] = @ \cup {p}]
  /\ UNCHANGED <<loan, books, rows, locks, task>>

-----------------------------------------------------------------------------
(* Entering an operation: what is checked before its transaction.          *)

\* Mutant of FirstLock: an approval locks its request first.
FirstLockRequest(op) == IF op \in {"reject", "approve"} THEN "request" ELSE "loan"
\* reviewRequest locks the loan first unless it rejects; the others lock no
\* request row before the loan.
FirstLock(op) == IF op = "reject" THEN "request" ELSE "loan"

Enter(s, op, r, q) ==
  /\ task[s].pc = "idle"
  /\ task' = [task EXCEPT ![s] = [pc |-> FirstLock(op), op |-> op,
                                  rate |-> r, seen |-> rate, req |-> q]]
  /\ UNCHANGED <<loan, books, rows, held, locks>>

\* requestRateChangeAction: at once with the permission, else by a request.
EnterCorrection(s) ==
  \E r \in Rate :
    /\ r # rate
    /\ \/ /\ Needs(r) \in held[UserOf[s]] \cup {None}
          /\ Enter(s, "correct", r, None)
       \/ /\ Needs(r) # None
          /\ Enter(s, "create", r, None)

\* adjustLoanInterestRateAction
EnterAdjustment(s) ==
  /\ "rate-adjust" \in held[UserOf[s]]
  /\ \E r \in Rate : Enter(s, "correct", r, None)

\* reviewRateChangeRequestAction: nobody reviews their own request.
MayReview(u, q) == /\ request[q].by # u
                   /\ {"approve-standard", Needs(request[q].rate)} \subseteq held[u]

EnterReview(s) ==
  \E q \in Request, op \in {"approve", "reject"} :
    /\ request[q].status # "none"
    /\ MayReview(UserOf[s], q)
    /\ Enter(s, op, request[q].rate, q)

\* A payment, a waiver, a rollover: each locks the loan before it looks.
EnterSettlement(s) == Enter(s, "settle", 0, None)

\* settleWithCollateral looks at the status before its transaction only.
EnterSeizure(s) == status = "active" /\ Enter(s, "seize", 0, None)

-----------------------------------------------------------------------------
(* The transaction.                                                        *)

\* A rejected request row waits for its reviewer.
RowsFree == \A q \in Request : request[q].status = "pending" => requestLock[q] = None

Locked(s) == /\ task[s].op = "reject" \/ loanLock = s
             /\ task[s].req # None => requestLock[task[s].req] = s

\* Mutant of LockLoan: the row is read without FOR UPDATE.
ReadLoan(s) ==
  /\ task[s].pc = "loan"
  /\ loanLock' = s
  /\ task' = [task EXCEPT ![s].pc = IF task[s].op = "approve" THEN "request" ELSE "check"]
  /\ UNCHANGED <<loan, books, rows, held, requestLock>>
LockLoan(s) ==
  /\ task[s].pc = "loan"
  /\ loanLock = None
  /\ loanLock' = s
  /\ task' = [task EXCEPT ![s].pc =
                IF task[s].op = "approve" /\ requestLock[task[s].req] # s
                THEN "request" ELSE "check"]
  /\ UNCHANGED <<loan, books, rows, held, requestLock>>

LockRequest(s) ==
  /\ task[s].pc = "request"
  /\ requestLock[task[s].req] = None
  /\ requestLock' = [requestLock EXCEPT ![task[s].req] = s]
  /\ task' = [task EXCEPT ![s].pc =
                IF task[s].op = "approve" /\ loanLock # s THEN "loan" ELSE "check"]
  /\ UNCHANGED <<loan, books, rows, held, loanLock>>

\* Mutant of Release: the request row stays locked.
ReleaseLoan(s) ==
  /\ loanLock' = IF loanLock = s THEN None ELSE loanLock
  /\ task' = [task EXCEPT ![s] = Idle]
  /\ UNCHANGED requestLock
Release(s) ==
  /\ loanLock' = IF loanLock = s THEN None ELSE loanLock
  /\ requestLock' = [q \in Request |-> IF requestLock[q] = s THEN None ELSE requestLock[q]]
  /\ task' = [task EXCEPT ![s] = Idle]

\* assertLoanOperational, assertRateCorrectionEligible, normalizeCorrectedRate
Eligible(r) == status = "active" /\ ~settled /\ r # rate

\* Mutant of Passes: a request already reviewed may be approved.
PassesReviewed(s) ==
  /\ task[s].op \in {"create", "correct", "approve"} => Eligible(task[s].rate)
  /\ task[s].op = "create" => rate = task[s].seen
  /\ task[s].op = "reject" => request[task[s].req].status = "pending"
  /\ task[s].op = "settle" => status = "active"
\* What a transaction checks under its locks.
Passes(s) ==
  /\ task[s].op \in {"create", "correct", "approve"} => Eligible(task[s].rate)
  /\ task[s].op = "create" => rate = task[s].seen
  /\ task[s].op \in {"approve", "reject"} => request[task[s].req].status = "pending"
  /\ task[s].op = "settle" => status = "active"

Check(s) ==
  /\ task[s].pc = "check"
  /\ IF Passes(s)
     THEN task' = [task EXCEPT ![s].pc = "write"] /\ UNCHANGED locks
     ELSE Release(s)
  /\ UNCHANGED <<loan, books, rows, held>>

\* An error or a lost connection.
Rollback(s) ==
  /\ task[s].pc \notin {"idle", "loan"}
  /\ Release(s)
  /\ UNCHANGED <<loan, books, rows, held>>

\* Mutant of Target: interest from the day of the correction only.
TargetFromNow(r) == posted
\* autoPostRateChangeAdjustment: the statement at the new rate from day one
Target(r) == r * day

\* applyLoanRateChangeTransaction, at somebody's request
Apply(s, asked) ==
  /\ rate' = task[s].rate
  /\ corrected' = TRUE
  /\ terms' = [by |-> UserOf[s], asked |-> asked]
  /\ posted' = posted + (Target(task[s].rate) - posted)
  /\ postedTo' = day
  /\ UNCHANGED <<status, settled, day>>

Writing(s, op) == task[s].pc = "write" /\ task[s].op = op

CorrectNow(s) ==
  /\ Writing(s, "correct")
  /\ Apply(s, UserOf[s])
  /\ Release(s)
  /\ UNCHANGED <<rows, held>>

Approve(s) ==
  /\ Writing(s, "approve")
  /\ LET q == task[s].req
     IN /\ Apply(s, request[q].by)
        /\ request' = [request EXCEPT ![q].status = "approved"]
        /\ timesApplied' = [timesApplied EXCEPT ![q] = @ + 1]
  /\ Release(s)
  /\ UNCHANGED held

Reject(s) ==
  /\ Writing(s, "reject")
  /\ request' = [request EXCEPT ![task[s].req].status = "rejected"]
  /\ Release(s)
  /\ UNCHANGED <<loan, books, timesApplied, held>>

NextRequest(q) == \A p \in Request : request[p].status = "none" <=> p >= q
Room == \E q \in Request : request[q].status = "none"

\* Mutant of MayInsert: nobody looks for a pending request.
MayInsertAny == TRUE
\* createPendingRateChangeRequest: the pending rows FOR UPDATE
MayInsert == \A q \in Request : request[q].status # "pending"

CreateRequest(s) ==
  /\ Writing(s, "create")
  /\ RowsFree
  /\ IF MayInsert /\ Room
     THEN \E q \in Request :
            /\ NextRequest(q)
            /\ request' = [request EXCEPT ![q] = [status |-> "pending", rate |-> task[s].rate,
                                                  by |-> UserOf[s]]]
     ELSE UNCHANGED request
  /\ Release(s)
  /\ UNCHANGED <<loan, books, timesApplied, held>>

\* Mutant of CancelPending: a closed loan keeps its request.
KeepPending == UNCHANGED request
\* cancelPendingRateChangeRequestsForLoan
CancelPending ==
  /\ RowsFree
  /\ request' = [q \in Request |-> IF request[q].status = "pending"
                                   THEN [request[q] EXCEPT !.status = "rejected"]
                                   ELSE request[q]]

\* A payment or waiver that leaves something due; one that pays the loan off;
\* a rollover.
Settle(s) ==
  /\ Writing(s, "settle")
  /\ settled' = TRUE
  /\ \/ status' = status /\ UNCHANGED request
     \/ status' \in {"fully_paid", "closed"} /\ CancelPending
  /\ Release(s)
  /\ UNCHANGED <<rate, corrected, terms, books, timesApplied, held>>

Seize(s) ==
  /\ Writing(s, "seize")
  /\ status' = "closed"
  /\ CancelPending
  /\ Release(s)
  /\ UNCHANGED <<rate, corrected, settled, terms, books, timesApplied, held>>

-----------------------------------------------------------------------------
(* Transactions that update or hold the loan row and no request row.       *)

\* Deleting or editing a payment reopens a loan.
Reopen ==
  /\ loanLock = None
  /\ status = "fully_paid"
  /\ status' = "active"
  /\ UNCHANGED <<rate, corrected, settled, terms, books, rows, held, locks, task>>

\* The month-end batch, which refuses a loan with a rate history.
Accrue ==
  /\ loanLock = None
  /\ status = "active" /\ ~corrected /\ ~settled
  /\ posted' = Target(rate)
  /\ postedTo' = day
  /\ UNCHANGED <<loan, day, rows, held, locks, task>>

DayPasses ==
  /\ day < MaxDays
  /\ day' = day + 1
  /\ UNCHANGED <<loan, posted, postedTo, rows, held, locks, task>>

EnterSome(s) == EnterCorrection(s) \/ EnterAdjustment(s) \/ EnterReview(s)
                  \/ EnterSettlement(s) \/ EnterSeizure(s)
Lock(s) == LockLoan(s) \/ LockRequest(s)
Write(s) == CorrectNow(s) \/ Approve(s) \/ Reject(s) \/ CreateRequest(s) \/ Settle(s) \/ Seize(s)
Step(s) == Lock(s) \/ Check(s) \/ Write(s)

Next ==
  \/ \E s \in Session : EnterSome(s) \/ Step(s) \/ Rollback(s)
  \/ Reopen \/ Accrue \/ DayPasses
  \/ \E u \in User : Give(u)

Spec == Init /\ [][Next]_vars

\* Postgres runs a transaction on to its end, and grants a row lock to its
\* waiters in turn.
Fairness == \A s \in Session : SF_vars(Step(s))

FairSpec == Spec /\ Fairness

-----------------------------------------------------------------------------
(* Properties.                                                             *)

\* A transaction that got past its locks holds them until its end.
LocksHeld ==
  /\ \A s \in Session : task[s].pc \in {"check", "write"} => Locked(s)
  /\ \A s \in Session : loanLock = s => task[s].pc # "idle" /\ task[s].op # "reject"
  /\ \A s \in Session, q \in Request :
       requestLock[q] = s => task[s].req = q /\ task[s].pc # "idle"

\* Every variable keeps its type, and locks belong to transactions under way.
TypeOK ==
  /\ status \in {"active", "fully_paid", "closed"}
  /\ rate \in Nat /\ corrected \in BOOLEAN /\ settled \in BOOLEAN
  /\ terms \in [by : User \cup {None}, asked : User \cup {None}]
  /\ day \in Nat /\ posted \in Int /\ postedTo \in Nat
  /\ request \in [Request -> RequestRow]
  /\ timesApplied \in [Request -> Nat]
  /\ held \in [User -> SUBSET Permission]
  /\ loanLock \in Session \cup {None}
  /\ requestLock \in [Request -> Session \cup {None}]
  /\ task \in [Session -> Task]
  /\ LocksHeld

\* However many requests are sent at once, at most one is pending ("guards
\* against duplicate pending requests for the same loan").
OnePending ==
  \A p, q \in Request :
    request[p].status = "pending" /\ request[q].status = "pending" => p = q

\* Reviews that race with each other, with a cancellation and with corrections
\* leave a request approved exactly if it was applied, and applied once.
AppliedOnce ==
  \A q \in Request : timesApplied[q] = IF request[q].status = "approved" THEN 1 ELSE 0

\* A loan that left the operational set by a payment, a rollover or a seizure
\* has no request pending, whoever was asking or reviewing at the time.
ClosedHasNoPendingRequest ==
  status \in {"fully_paid", "closed"} => \A q \in Request : request[q].status # "pending"

\* Until something is settled, the interest posted is that of the present rate
\* from the first day, whatever corrections and month ends came before.
PostedAtPresentRate == ~settled => posted = rate * postedTo

\* The rate is that of RateTerms: frozen by the first settlement, even one that
\* was recorded while a correction was under way, and set with authority.
NeedsApproval(r) == Needs(r) # None
Terms == INSTANCE RateTerms WITH Person <- User, Approval <- Needs
CorrectionsKeepTerms == Terms!Spec

\* No two transactions wait for each other: each one ends.
RequestsEnd == \A s \in Session : task[s].pc # "idle" ~> task[s].pc = "idle"
=============================================================================
