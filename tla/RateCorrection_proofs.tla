------------------------- MODULE RateCorrection_proofs -------------------------
(***************************************************************************)
(* RateCorrection for every set of sessions, users, rates and requests:    *)
(* its invariants, and that it implements RateTerms.                       *)
(*                                                                         *)
(* The argument: what a transaction checked under its locks (Passes) is    *)
(* still so when it writes, because whoever changes the loan holds the     *)
(* loan row, and whoever changes a request's status holds that request's   *)
(* row or waits until nobody does.  And what a person was allowed when the *)
(* operation was entered was given to them for good.                       *)
(***************************************************************************)
EXTENDS RateCorrection, TLAPS

\* The operations that name a request, and the lock each waits for.
Shape ==
  \A s \in Session : task[s].pc # "idle" =>
    /\ task[s].op \in {"approve", "reject"} => task[s].req \in Request
    /\ task[s].op \notin {"approve", "reject"} => task[s].req = None
    /\ task[s].pc = "loan" => task[s].op # "reject"
    /\ task[s].pc = "request" => task[s].op \in {"approve", "reject"}

\* What was checked under the locks is still so.
StillGood == \A s \in Session : task[s].pc = "write" => Passes(s)

\* A request row has its author.
Authored == \A q \in Request : request[q].status # "none" => request[q].by \in User

\* Whoever corrects or approves was given the permission for it.
Authorised ==
  \A s \in Session : task[s].pc # "idle" =>
    /\ task[s].op = "correct" => Terms!MaySet(UserOf[s], task[s].rate)
    /\ task[s].op = "approve" =>
         /\ task[s].rate = request[task[s].req].rate
         /\ request[task[s].req].by # UserOf[s]
         /\ Terms!MayApprove(UserOf[s], task[s].rate)
    /\ task[s].op \in {"approve", "reject"} => request[task[s].req].status # "none"

IInv == /\ TypeOK /\ Shape /\ StillGood /\ Authored /\ Authorised
        /\ OnePending /\ AppliedOnce /\ ClosedHasNoPendingRequest /\ PostedAtPresentRate

Types ==
  /\ status \in {"active", "fully_paid", "closed"}
  /\ rate \in Nat /\ corrected \in BOOLEAN /\ settled \in BOOLEAN
  /\ terms \in [by : User \cup {None}, asked : User \cup {None}]
  /\ day \in Nat /\ posted \in Int /\ postedTo \in Nat
  /\ request \in [Request -> RequestRow]
  /\ timesApplied \in [Request -> Nat]
  /\ held \in [User -> SUBSET Permission]
  /\ loanLock \in Session \cup {None}
  /\ requestLock \in [Request -> Session \cup {None}]
  /\ task \in [Session -> Task]

LEMMA TypeParts == TypeOK <=> Types /\ LocksHeld
BY DEF TypeOK, Types

LEMMA IdleTyped == Idle \in Task /\ Idle.pc = "idle"
BY DEF Idle, Task, Op

LEMMA InitIInv == Init => IInv
<1> SUFFICES ASSUME Init PROVE IInv
  OBVIOUS
<1> USE RateAssumption
<1>1. NoRequest \in RequestRow /\ NoRequest.status = "none"
  BY DEF NoRequest, RequestRow
<1>2. Types
  <2>1. /\ task \in [Session -> Task] /\ request \in [Request -> RequestRow]
        /\ terms \in [by : User \cup {None}, asked : User \cup {None}]
    BY <1>1, IdleTyped DEF Init
  <2>2. held \in [User -> SUBSET Permission] /\ timesApplied \in [Request -> Nat]
    BY DEF Init
  <2>3. status = "active" /\ rate \in Nat /\ day \in Nat /\ posted \in Int /\ postedTo \in Nat
    BY DEF Init
  <2>5. corrected \in BOOLEAN /\ settled \in BOOLEAN
    BY Zenon DEF Init
  <2>4. loanLock \in Session \cup {None} /\ requestLock \in [Request -> Session \cup {None}]
    BY DEF Init
  <2> QED
    BY <2>1, <2>2, <2>3, <2>4, <2>5 DEF Types
<1>3. LocksHeld /\ Shape /\ StillGood /\ Authorised
  BY IdleTyped DEF Init, LocksHeld, Shape, StillGood, Authorised
<1>4. Authored /\ OnePending /\ AppliedOnce /\ ClosedHasNoPendingRequest
  BY <1>1 DEF Init, Authored, OnePending, AppliedOnce, ClosedHasNoPendingRequest
<1>5. PostedAtPresentRate
  BY DEF Init, PostedAtPresentRate
<1> QED
  BY <1>2, <1>3, <1>4, <1>5, TypeParts DEF IInv

-----------------------------------------------------------------------------
(* What the end of a transaction does.                                     *)

\* The parts of the invariant about transactions under way.
Tasks == LocksHeld /\ Shape /\ Authorised

\* Rows keep their author and rate once inserted, permissions only grow.
RowsKept ==
  /\ \A q \in Request : request[q].status # "none" =>
       /\ request'[q].status # "none"
       /\ request'[q].by = request[q].by
       /\ request'[q].rate = request[q].rate
  /\ \A u \in User : held[u] \subseteq held'[u]

LEMMA ReleaseFacts ==
  ASSUME Types, NEW s \in Session, Release(s)
  PROVE  /\ loanLock' \in Session \cup {None}
         /\ requestLock' \in [Request -> Session \cup {None}]
         /\ task' \in [Session -> Task]
         /\ task'[s] = Idle
         /\ \A t \in Session : t # s => task'[t] = task[t]
         /\ \A t \in Session : t # s => (loanLock' = t <=> loanLock = t)
         /\ \A t \in Session, q \in Request : t # s => (requestLock'[q] = t <=> requestLock[q] = t)
         /\ loanLock' # s
         /\ \A q \in Request : requestLock'[q] # s
BY IdleTyped, RateAssumption DEF Release, Types

\* It keeps the tasks of the others.
LEMMA ReleaseTasks ==
  ASSUME Types, Tasks, NEW s \in Session, Release(s), RowsKept
  PROVE  Tasks'
<1>1. ASSUME NEW t \in Session
      PROVE  /\ task'[t].pc # "idle" => t # s /\ task'[t] = task[t]
             /\ loanLock' = t => t # s /\ loanLock = t
             /\ \A q \in Request : requestLock'[q] = t => t # s /\ requestLock[q] = t
  BY ReleaseFacts, IdleTyped
<1>2. LocksHeld'
  <2>1. ASSUME NEW t \in Session, task'[t].pc \in {"check", "write"}
        PROVE  Locked(t)'
    <3>1. t # s /\ task'[t] = task[t] /\ Locked(t)
      BY <1>1, <2>1 DEF Tasks, LocksHeld
    <3>2. task[t].op \in {"approve", "reject"} => task[t].req \in Request
      BY <1>1, <2>1 DEF Tasks, Shape
    <3>3. task[t].op \notin {"approve", "reject"} => task[t].req = None
      BY <1>1, <2>1 DEF Tasks, Shape
    <3> QED
      BY <3>1, <3>2, <3>3, ReleaseFacts DEF Locked
  <2>2. ASSUME NEW t \in Session, loanLock' = t
        PROVE  task'[t].pc # "idle" /\ task'[t].op # "reject"
    <3>1. t # s /\ loanLock = t
      BY <1>1, <2>2
    <3>2. task'[t] = task[t]
      BY <3>1, ReleaseFacts
    <3> QED
      BY <3>1, <3>2 DEF Tasks, LocksHeld
  <2>3. ASSUME NEW t \in Session, NEW q \in Request, requestLock'[q] = t
        PROVE  task'[t].req = q /\ task'[t].pc # "idle"
    <3>1. t # s /\ requestLock[q] = t
      BY <1>1, <2>3
    <3>2. task'[t] = task[t]
      BY <3>1, ReleaseFacts
    <3> QED
      BY <3>1, <3>2 DEF Tasks, LocksHeld
  <2> QED
    BY <2>1, <2>2, <2>3 DEF LocksHeld
<1>3. Shape'
  BY <1>1 DEF Tasks, Shape
<1>4. Authorised'
  <2> SUFFICES ASSUME NEW t \in Session, task'[t].pc # "idle"
               PROVE /\ task'[t].op = "correct" => Terms!MaySet(UserOf[t], task[t].rate)'
                     /\ task'[t].op = "approve" =>
                          /\ task'[t].rate = request'[task'[t].req].rate
                          /\ request'[task'[t].req].by # UserOf[t]
                          /\ Terms!MayApprove(UserOf[t], task[t].rate)'
                     /\ task'[t].op \in {"approve", "reject"} =>
                          request'[task'[t].req].status # "none"
    BY DEF Authorised
  <2>1. task'[t] = task[t]
    BY ReleaseFacts, IdleTyped
  <2>2. UserOf[t] \in User /\ held[UserOf[t]] \subseteq held'[UserOf[t]]
    BY RateAssumption DEF RowsKept
  <2>3. task[t].op \in {"approve", "reject"} => task[t].req \in Request
    BY <2>1 DEF Tasks, Shape
  <2>4. /\ task[t].op = "correct" => Terms!MaySet(UserOf[t], task[t].rate)
        /\ task[t].op = "approve" =>
             /\ task[t].rate = request[task[t].req].rate
             /\ request[task[t].req].by # UserOf[t]
             /\ Terms!MayApprove(UserOf[t], task[t].rate)
        /\ task[t].op \in {"approve", "reject"} => request[task[t].req].status # "none"
    BY <2>1 DEF Tasks, Authorised
  <2>5. Terms!MaySet(UserOf[t], task[t].rate) => Terms!MaySet(UserOf[t], task[t].rate)'
    BY <2>1, <2>2 DEF Terms!MaySet, NeedsApproval, Needs
  <2>6. Terms!MayApprove(UserOf[t], task[t].rate) => Terms!MayApprove(UserOf[t], task[t].rate)'
    BY <2>1, <2>2 DEF Terms!MayApprove, Needs
  <2> QED
    BY <2>1, <2>3, <2>4, <2>5, <2>6 DEF RowsKept
<1> QED
  BY <1>2, <1>3, <1>4 DEF Tasks

-----------------------------------------------------------------------------
(* Parts of the invariant about the rows and the loan, and their frames.   *)

Data == Authored /\ OnePending /\ AppliedOnce /\ ClosedHasNoPendingRequest /\ PostedAtPresentRate

LEMMA IInvParts == IInv <=> Types /\ Tasks /\ StillGood /\ Data
BY TypeParts DEF IInv, Tasks, Data

LEMMA IInvNext == Types' /\ Tasks' /\ StillGood' /\ Data' => IInv'
BY DEF IInv, TypeOK, Types, Tasks, Data

LEMMA DataFrame == ASSUME Data, UNCHANGED <<loan, books, rows>> PROVE Data'
<1>1. request' = request /\ timesApplied' = timesApplied /\ status' = status
  BY DEF rows, loan
<1>2. settled' = settled /\ rate' = rate /\ posted' = posted /\ postedTo' = postedTo
  BY DEF books, loan
<1>3. Authored' /\ OnePending' /\ AppliedOnce' /\ ClosedHasNoPendingRequest'
  BY <1>1 DEF Data, Authored, OnePending, AppliedOnce, ClosedHasNoPendingRequest
<1>4. PostedAtPresentRate'
  BY <1>2 DEF Data, PostedAtPresentRate
<1> QED
  BY <1>3, <1>4 DEF Data

\* A transaction about to write keeps what it checked as long as no other
\* changes what it depends on.
LEMMA StillGoodFrame ==
  ASSUME Types, Tasks, StillGood,
         \A t \in Session : task'[t].pc = "write" =>
           /\ task'[t] = task[t]
           /\ task[t].op # "reject" => UNCHANGED <<status, rate, settled>>
           /\ task[t].op \in {"approve", "reject"} =>
                request'[task[t].req].status = request[task[t].req].status
  PROVE  StillGood'
<1> SUFFICES ASSUME NEW t \in Session, task'[t].pc = "write" PROVE Passes(t)'
  BY DEF StillGood
<1>1. task'[t] = task[t] /\ Passes(t)
  BY DEF StillGood
<1>2. task[t].op \in Op
  BY DEF Types, Task
<1>3. /\ task[t].op # "reject" => status' = status /\ rate' = rate /\ settled' = settled
      /\ task[t].op \in {"approve", "reject"} =>
           request'[task[t].req].status = request[task[t].req].status
  BY <1>1
<1>4. task[t].op # "reject" /\ Eligible(task[t].rate) => Eligible(task[t].rate)'
  BY <1>1, <1>3 DEF Eligible
<1>5. /\ task[t].op \in {"create", "correct", "approve"} => Eligible(task[t].rate)
      /\ task[t].op = "create" => rate = task[t].seen
      /\ task[t].op \in {"approve", "reject"} => request[task[t].req].status = "pending"
      /\ task[t].op = "settle" => status = "active"
  BY <1>1 DEF Passes
<1>6. task[t].op \in {"create", "correct", "approve"} => Eligible(task[t].rate)'
  BY <1>1, <1>4, <1>5
<1>7. /\ task[t].op = "create" => rate' = task[t].seen
      /\ task[t].op \in {"approve", "reject"} => request'[task[t].req].status = "pending"
      /\ task[t].op = "settle" => status' = "active"
  BY <1>3, <1>5
<1> QED
  BY <1>1, <1>6, <1>7 DEF Passes

\* While one transaction holds the loan row, the others about to write are
\* rejections.
LEMMA OthersReject ==
  ASSUME Types, Tasks, NEW s \in Session, loanLock \in {s, None},
         NEW t \in Session, t # s, task[t].pc = "write"
  PROVE  /\ task[t].op = "reject"
         /\ task[t].req \in Request
         /\ requestLock[task[t].req] = t
<1>1. Locked(t)
  BY DEF Tasks, LocksHeld
<1>2. t # None
  BY RateAssumption
<1>3. task[t].op = "reject"
  BY <1>1, <1>2 DEF Locked
<1>4. task[t].req \in Request
  BY <1>3 DEF Tasks, Shape
<1>5. task[t].req # None
  BY <1>4, RateAssumption DEF Request
<1> QED
  BY <1>1, <1>3, <1>4, <1>5 DEF Locked

\* So a writer that holds the loan row leaves the others what they checked, if
\* it changes the status only of requests it holds or that nobody does.
LEMMA WriterKeepsOthers ==
  ASSUME Types, Tasks, StillGood, NEW s \in Session, loanLock \in {s, None},
         task'[s].pc # "write",
         \A t \in Session : t # s => task'[t] = task[t],
         \A q \in Request : requestLock[q] \notin {s, None} => request'[q] = request[q]
  PROVE  StillGood'
<1>1. ASSUME NEW t \in Session, task'[t].pc = "write"
      PROVE  /\ task'[t] = task[t]
             /\ task[t].op = "reject"
             /\ request'[task[t].req] = request[task[t].req]
  <2>1. t # s /\ task'[t] = task[t]
    BY <1>1
  <2>2. task[t].op = "reject" /\ task[t].req \in Request /\ requestLock[task[t].req] = t
    BY <1>1, <2>1, OthersReject
  <2>3. t # None
    BY RateAssumption
  <2> QED
    BY <2>1, <2>2, <2>3
<1> QED
  BY <1>1, StillGoodFrame

-----------------------------------------------------------------------------
(* Steps that move one task and change no data.                            *)

LEMMA EnterStep ==
  ASSUME IInv, NEW s \in Session, NEW op \in Op, NEW r \in Nat, NEW q \in Request \cup {None},
         Enter(s, op, r, q),
         op \in {"approve", "reject"} => q \in Request,
         op \notin {"approve", "reject"} => q = None,
         op = "correct" => Terms!MaySet(UserOf[s], r),
         op = "approve" => /\ r = request[q].rate
                           /\ request[q].by # UserOf[s]
                           /\ Terms!MayApprove(UserOf[s], r),
         op \in {"approve", "reject"} => request[q].status # "none"
  PROVE  IInv'
<1> USE IInvParts
<1>1. PICK k : k = [pc |-> FirstLock(op), op |-> op, rate |-> r, seen |-> rate, req |-> q]
  OBVIOUS
<1>2. /\ k \in Task /\ k.op = op /\ k.rate = r /\ k.req = q
      /\ k.pc = (IF op = "reject" THEN "request" ELSE "loan")
  BY <1>1 DEF Task, FirstLock, Types
<1>3. /\ task[s].pc = "idle"
      /\ task' = [task EXCEPT ![s] = k]
      /\ UNCHANGED <<loan, books, rows, held, locks>>
  BY <1>1 DEF Enter
<1>4. /\ task'[s] = k
      /\ \A t \in Session : t # s => task'[t] = task[t]
      /\ task' \in [Session -> Task]
  BY <1>2, <1>3 DEF Types
<1>5. Types'
  BY <1>3, <1>4 DEF Types, loan, books, rows, locks
<1>6. LocksHeld'
  <2>1. loanLock # s /\ \A p \in Request : requestLock[p] # s
    BY <1>3 DEF Tasks, LocksHeld
  <2>2. loanLock' = loanLock /\ requestLock' = requestLock
    BY <1>3 DEF locks
  <2>3. ASSUME NEW t \in Session, task'[t].pc \in {"check", "write"} PROVE Locked(t)'
    <3>1. t # s /\ task'[t] = task[t]
      BY <1>2, <1>4, <2>3
    <3>2. Locked(t)
      BY <2>3, <3>1 DEF Tasks, LocksHeld
    <3> QED
      BY <2>2, <3>1, <3>2 DEF Locked
  <2> QED
    BY <1>2, <1>4, <2>1, <2>2, <2>3 DEF Tasks, LocksHeld
<1>7. Shape'
  BY <1>2, <1>4 DEF Tasks, Shape
<1>8. Authorised'
  <2>1. request' = request /\ held' = held
    BY <1>3 DEF rows
  <2>2. ASSUME NEW t \in Session, task'[t].pc # "idle"
        PROVE /\ task'[t].op = "correct" => Terms!MaySet(UserOf[t], task'[t].rate)
              /\ task'[t].op = "approve" =>
                   /\ task'[t].rate = request[task'[t].req].rate
                   /\ request[task'[t].req].by # UserOf[t]
                   /\ Terms!MayApprove(UserOf[t], task'[t].rate)
              /\ task'[t].op \in {"approve", "reject"} =>
                   request[task'[t].req].status # "none"
    <3>1. CASE t = s
      BY <1>2, <1>4, <3>1
    <3>2. CASE t # s
      BY <1>4, <2>2, <3>2 DEF Tasks, Authorised
    <3> QED
      BY <3>1, <3>2
  <2> QED
    BY <2>1, <2>2 DEF Authorised, Terms!MaySet, Terms!MayApprove, NeedsApproval, Needs
<1>9. StillGood'
  <2>1. \A t \in Session : task'[t].pc = "write" => task'[t] = task[t]
    BY <1>2, <1>4
  <2> QED
    BY <1>3, <2>1, StillGoodFrame DEF loan, rows
<1> QED
  BY <1>3, <1>5, <1>6, <1>7, <1>8, <1>9, DataFrame, IInvNext DEF Tasks

LEMMA MoveFacts ==
  ASSUME Types, NEW s \in Session, NEW p \in {"loan", "request", "check", "write"},
         task' = [task EXCEPT ![s].pc = p]
  PROVE  /\ task' \in [Session -> Task]
         /\ task'[s].pc = p
         /\ task'[s].op = task[s].op
         /\ task'[s].rate = task[s].rate
         /\ task'[s].seen = task[s].seen
         /\ task'[s].req = task[s].req
         /\ \A t \in Session : t # s => task'[t] = task[t]
<1>1. task[s] \in Task
  BY DEF Types
<1>2. PICK k : k = [task[s] EXCEPT !.pc = p]
  OBVIOUS
<1>3. /\ k \in Task /\ k.pc = p /\ k.op = task[s].op /\ k.rate = task[s].rate
      /\ k.seen = task[s].seen /\ k.req = task[s].req
  BY <1>1, <1>2 DEF Task
<1>4. task' = [task EXCEPT ![s] = k]
  BY <1>2
<1> QED
  BY <1>3, <1>4 DEF Types

\* A transaction gets a lock, or gets past its checks.
LEMMA MoveStep ==
  ASSUME IInv, NEW s \in Session, NEW p \in {"loan", "request", "check", "write"},
         task' = [task EXCEPT ![s].pc = p], task[s].pc # "idle",
         UNCHANGED <<loan, books, rows, held>>,
         loanLock' \in Session \cup {None},
         requestLock' \in [Request -> Session \cup {None}],
         LocksHeld',
         p = "loan" => task[s].op # "reject",
         p = "request" => task[s].op \in {"approve", "reject"},
         p = "write" => Passes(s)
  PROVE  IInv'
<1> USE IInvParts
<1>1. Types'
  BY MoveFacts DEF Types, loan, books, rows
<1>2. Shape'
  BY MoveFacts DEF Tasks, Shape
<1>3. request' = request /\ held' = held
  BY DEF rows
<1>4. Authorised'
  <2>1. ASSUME NEW t \in Session, task'[t].pc # "idle"
        PROVE /\ task'[t].op = "correct" => Terms!MaySet(UserOf[t], task'[t].rate)
              /\ task'[t].op = "approve" =>
                   /\ task'[t].rate = request[task'[t].req].rate
                   /\ request[task'[t].req].by # UserOf[t]
                   /\ Terms!MayApprove(UserOf[t], task'[t].rate)
              /\ task'[t].op \in {"approve", "reject"} =>
                   request[task'[t].req].status # "none"
    <3>1. /\ task'[t].op = task[t].op /\ task'[t].rate = task[t].rate
          /\ task'[t].req = task[t].req /\ task[t].pc # "idle"
      BY <2>1, MoveFacts
    <3> QED
      BY <3>1 DEF Tasks, Authorised
  <2> QED
    BY <1>3, <2>1 DEF Authorised, Terms!MaySet, Terms!MayApprove, NeedsApproval, Needs
<1>5. StillGood'
  <2> SUFFICES ASSUME NEW t \in Session, task'[t].pc = "write" PROVE Passes(t)'
    BY DEF StillGood
  <2>1. /\ task'[t].op = task[t].op /\ task'[t].rate = task[t].rate
        /\ task'[t].req = task[t].req /\ task'[t].seen = task[t].seen
    BY MoveFacts
  <2>2. Passes(t)
    <3>1. CASE t = s
      BY <3>1, MoveFacts
    <3>2. CASE t # s
      BY <3>2, MoveFacts DEF StillGood
    <3> QED
      BY <3>1, <3>2
  <2>3. status' = status /\ rate' = rate /\ settled' = settled
    BY DEF loan
  <2>4. Eligible(task[t].rate) => Eligible(task[t].rate)'
    BY <2>1, <2>3 DEF Eligible
  <2> QED
    BY <1>3, <2>1, <2>2, <2>3, <2>4 DEF Passes
<1> QED
  BY <1>1, <1>2, <1>4, <1>5, DataFrame, IInvNext DEF Tasks

LEMMA LockLoanStep ==
  ASSUME IInv, NEW s \in Session, LockLoan(s)
  PROVE  IInv'
<1> USE IInvParts
<1>1. PICK p : p = IF task[s].op = "approve" /\ requestLock[task[s].req] # s
                   THEN "request" ELSE "check"
  OBVIOUS
<1>2. /\ task[s].pc = "loan" /\ loanLock = None /\ loanLock' = s
      /\ task' = [task EXCEPT ![s].pc = p]
      /\ UNCHANGED <<loan, books, rows, held>>
      /\ requestLock' = requestLock
      /\ p \in {"request", "check"}
  BY <1>1 DEF LockLoan
<1>3. /\ task[s].op # "reject"
      /\ task[s].op # "approve" => task[s].req = None
      /\ task[s].req # None => task[s].op = "approve"
  BY <1>2 DEF Tasks, Shape
<1>4. LocksHeld'
  <2>1. ASSUME NEW t \in Session, task'[t].pc \in {"check", "write"}
        PROVE  /\ task'[t].op = "reject" \/ loanLock' = t
               /\ task'[t].req # None => requestLock'[task'[t].req] = t
    <3>1. CASE t = s
      BY <1>1, <1>2, <1>3, <2>1, <3>1, MoveFacts
    <3>2. CASE t # s
      <4>1. task'[t] = task[t]
        BY <1>2, <3>2, MoveFacts
      <4>2. Locked(t) /\ t # None
        BY <2>1, <4>1, RateAssumption DEF Tasks, LocksHeld
      <4> QED
        BY <1>2, <4>1, <4>2 DEF Locked
    <3> QED
      BY <3>1, <3>2
  <2>2. ASSUME NEW t \in Session, loanLock' = t
        PROVE  task'[t].pc # "idle" /\ task'[t].op # "reject"
    BY <1>2, <1>3, <2>2, MoveFacts
  <2>3. ASSUME NEW t \in Session, NEW q \in Request, requestLock'[q] = t
        PROVE  task'[t].req = q /\ task'[t].pc # "idle"
    BY <1>2, <2>3, MoveFacts DEF Tasks, LocksHeld
  <2> QED
    BY <2>1, <2>2, <2>3 DEF LocksHeld, Locked
<1> QED
  BY <1>1, <1>2, <1>3, <1>4, MoveStep DEF Types, Tasks, Shape

LEMMA LockRequestStep ==
  ASSUME IInv, NEW s \in Session, LockRequest(s)
  PROVE  IInv'
<1> USE IInvParts
<1>1. PICK p : p = IF task[s].op = "approve" /\ loanLock # s THEN "loan" ELSE "check"
  OBVIOUS
<1>2. /\ task[s].pc = "request" /\ requestLock[task[s].req] = None
      /\ requestLock' = [requestLock EXCEPT ![task[s].req] = s]
      /\ task' = [task EXCEPT ![s].pc = p]
      /\ UNCHANGED <<loan, books, rows, held>>
      /\ loanLock' = loanLock
      /\ p \in {"loan", "check"}
  BY <1>1 DEF LockRequest
<1>3. task[s].op \in {"approve", "reject"} /\ task[s].req \in Request
  BY <1>2 DEF Tasks, Shape
<1>4. LocksHeld'
  <2>0. \A q \in Request : requestLock'[q] = IF q = task[s].req THEN s ELSE requestLock[q]
    BY <1>2 DEF Types
  <2>1. ASSUME NEW t \in Session, task'[t].pc \in {"check", "write"}
        PROVE  /\ task'[t].op = "reject" \/ loanLock' = t
               /\ task'[t].req # None => requestLock'[task'[t].req] = t
    <3>1. CASE t = s
      BY <1>1, <1>2, <1>3, <2>0, <2>1, <3>1, MoveFacts
    <3>2. CASE t # s
      <4>1. task'[t] = task[t]
        BY <1>2, <3>2, MoveFacts
      <4>2. Locked(t) /\ t # None
        BY <2>1, <4>1, RateAssumption DEF Tasks, LocksHeld
      <4>3. task[t].req # None => task[t].req \in Request
        BY DEF Types, Task
      <4> QED
        BY <1>2, <2>0, <4>1, <4>2, <4>3 DEF Locked
    <3> QED
      BY <3>1, <3>2
  <2>2. ASSUME NEW t \in Session, loanLock' = t
        PROVE  task'[t].pc # "idle" /\ task'[t].op # "reject"
    BY <1>2, <2>2, MoveFacts DEF Tasks, LocksHeld
  <2>3. ASSUME NEW t \in Session, NEW q \in Request, requestLock'[q] = t
        PROVE  task'[t].req = q /\ task'[t].pc # "idle"
    <3>1. CASE q = task[s].req
      BY <1>2, <2>0, <2>3, <3>1, MoveFacts
    <3>2. CASE q # task[s].req
      <4>1. task[t].req = q /\ task[t].pc # "idle"
        BY <2>0, <2>3, <3>2 DEF Tasks, LocksHeld
      <4> QED
        BY <1>2, <3>2, <4>1, MoveFacts
    <3> QED
      BY <3>1, <3>2
  <2> QED
    BY <2>1, <2>2, <2>3 DEF LocksHeld, Locked
<1>5. requestLock' \in [Request -> Session \cup {None}]
  BY <1>2 DEF Types
<1> QED
  BY <1>1, <1>2, <1>3, <1>4, <1>5, MoveStep DEF Types, Tasks, LocksHeld

LEMMA RollbackStep ==
  ASSUME IInv, NEW s \in Session, Release(s), UNCHANGED <<loan, books, rows, held>>
  PROVE  IInv'
<1> USE IInvParts
<1>1. Types'
  BY ReleaseFacts DEF Types, loan, books, rows
<1>2. RowsKept
  BY DEF RowsKept, rows
<1>3. Tasks'
  BY <1>2, ReleaseTasks
<1>4. \A t \in Session : task'[t].pc = "write" => task'[t] = task[t]
  BY ReleaseFacts, IdleTyped
<1>5. StillGood'
  BY <1>4, StillGoodFrame DEF loan, rows
<1> QED
  BY <1>1, <1>3, <1>5, DataFrame, IInvNext

LEMMA CheckStep ==
  ASSUME IInv, NEW s \in Session, Check(s)
  PROVE  IInv'
<1> USE IInvParts
<1>1. CASE Passes(s)
  <2>1. /\ task' = [task EXCEPT ![s].pc = "write"] /\ task[s].pc = "check"
        /\ UNCHANGED <<loan, books, rows, held>>
        /\ loanLock' = loanLock /\ requestLock' = requestLock
    BY <1>1 DEF Check, locks
  <2>2. LocksHeld'
    <3>1. ASSUME NEW t \in Session
          PROVE  /\ task'[t].op = task[t].op /\ task'[t].req = task[t].req
                 /\ task'[t].pc \in {"check", "write"} => task[t].pc \in {"check", "write"}
                 /\ task[t].pc # "idle" => task'[t].pc # "idle"
      BY <2>1, MoveFacts
    <3> QED
      BY <2>1, <3>1 DEF Tasks, LocksHeld, Locked
  <2> QED
    BY <1>1, <2>1, <2>2, MoveStep DEF Types
<1>2. CASE ~Passes(s)
  BY <1>2, RollbackStep DEF Check
<1> QED
  BY <1>1, <1>2

-----------------------------------------------------------------------------
(* Steps that change data.                                                 *)

\* A transaction that holds the loan row writes and ends.
LEMMA FinishStep ==
  ASSUME IInv, NEW s \in Session, Release(s), loanLock = s, RowsKept, Data',
         \A q \in Request : requestLock[q] \notin {s, None} => request'[q] = request[q],
         status' \in {"active", "fully_paid", "closed"},
         rate' \in Nat, corrected' \in BOOLEAN, settled' \in BOOLEAN,
         terms' \in [by : User \cup {None}, asked : User \cup {None}],
         day' \in Nat, posted' \in Int, postedTo' \in Nat,
         request' \in [Request -> RequestRow],
         timesApplied' \in [Request -> Nat],
         held' = held
  PROVE  IInv'
<1> USE IInvParts
<1>1. Types'
  <2>1. /\ loanLock' \in Session \cup {None}
        /\ requestLock' \in [Request -> Session \cup {None}]
        /\ task' \in [Session -> Task]
    BY ReleaseFacts
  <2>2. held' \in [User -> SUBSET Permission]
    BY DEF Types
  <2> QED
    BY <2>1, <2>2 DEF Types
<1>2. Tasks'
  BY ReleaseTasks
<1>3. /\ task'[s].pc # "write"
      /\ \A t \in Session : t # s => task'[t] = task[t]
  BY ReleaseFacts, IdleTyped
<1>4. StillGood'
  BY <1>3, WriterKeepsOthers
<1> QED
  BY <1>1, <1>2, <1>4, IInvNext

LEMMA WriteFacts ==
  ASSUME IInv, NEW s \in Session, NEW op \in Op, Writing(s, op)
  PROVE  /\ Passes(s) /\ task[s].op = op /\ task[s].pc = "write"
         /\ op # "reject" => loanLock = s
         /\ op \in {"approve", "reject"} =>
              task[s].req \in Request /\ requestLock[task[s].req] = s
<1> USE IInvParts
<1>1. task[s].pc = "write" /\ task[s].op = op
  BY DEF Writing
<1>2. Locked(s)
  BY <1>1 DEF Tasks, LocksHeld
<1>3. op \in {"approve", "reject"} => task[s].req \in Request /\ task[s].req # None
  BY <1>1, RateAssumption DEF Tasks, Shape, Request
<1> QED
  BY <1>1, <1>2, <1>3 DEF Locked, StillGood

LEMMA ApplyFacts ==
  ASSUME Types, NEW s \in Session, NEW u \in User, Apply(s, u)
  PROVE  /\ rate' = task[s].rate /\ rate' \in Nat
         /\ posted' = rate' * postedTo' /\ posted' \in Int
         /\ postedTo' = day /\ day' = day
         /\ corrected' \in BOOLEAN /\ settled' = settled /\ status' = status
         /\ terms' \in [by : User \cup {None}, asked : User \cup {None}]
<1>1. rate' = task[s].rate /\ task[s].rate \in Nat
  BY DEF Apply, Types, Task
<1>2. /\ posted' = posted + (task[s].rate * day - posted)
      /\ postedTo' = day /\ posted \in Int /\ day \in Nat
  BY DEF Apply, Target, Types
<1>3. task[s].rate * day \in Int
  BY <1>1, <1>2
<1>4. posted' = task[s].rate * day
  BY <1>2, <1>3
<1>5. terms' \in [by : User \cup {None}, asked : User \cup {None}]
  BY RateAssumption DEF Apply
<1>6. corrected' \in BOOLEAN
  BY Zenon DEF Apply
<1> QED
  BY <1>1, <1>2, <1>3, <1>4, <1>5, <1>6 DEF Apply

LEMMA CorrectNowStep ==
  ASSUME IInv, NEW s \in Session, CorrectNow(s)
  PROVE  IInv'
<1> USE IInvParts
<1>1. /\ loanLock = s /\ Release(s) /\ UNCHANGED <<rows, held>>
      /\ Apply(s, UserOf[s]) /\ UserOf[s] \in User
  BY WriteFacts, RateAssumption DEF CorrectNow, Op
<1>2. request' = request /\ timesApplied' = timesApplied
  BY <1>1 DEF rows
<1>3. RowsKept
  BY <1>1, <1>2 DEF RowsKept
<1>4. Data'
  BY <1>1, <1>2, ApplyFacts DEF Data, Authored, OnePending, AppliedOnce,
     ClosedHasNoPendingRequest, PostedAtPresentRate
<1> QED
  BY <1>1, <1>2, <1>3, <1>4, ApplyFacts, FinishStep DEF Types

LEMMA ApproveStep ==
  ASSUME IInv, NEW s \in Session, Approve(s)
  PROVE  IInv'
<1> USE IInvParts
<1> DEFINE q == task[s].req
<1>1. /\ loanLock = s /\ q \in Request /\ requestLock[q] = s
      /\ task[s].op = "approve" /\ Passes(s)
  BY WriteFacts DEF Approve, Op
<1>2. request[q].status = "pending" /\ request[q] \in RequestRow
  BY <1>1 DEF Passes, Types
<1>3. request[q].by \in User
  BY <1>1, <1>2 DEF Data, Authored
<1>4. /\ Apply(s, request[q].by) /\ Release(s) /\ held' = held
      /\ request' = [request EXCEPT ![q].status = "approved"]
      /\ timesApplied' = [timesApplied EXCEPT ![q] = @ + 1]
  BY DEF Approve
<1>5. PICK k : k = [request[q] EXCEPT !.status = "approved"]
  OBVIOUS
<1>6. k \in RequestRow /\ k.status = "approved" /\ k.by = request[q].by /\ k.rate = request[q].rate
  BY <1>2, <1>5 DEF RequestRow
<1>7. /\ request' \in [Request -> RequestRow]
      /\ request'[q] = k
      /\ \A p \in Request : p # q => request'[p] = request[p]
  BY <1>1, <1>4, <1>5, <1>6 DEF Types
<1>8. /\ timesApplied' \in [Request -> Nat]
      /\ timesApplied'[q] = timesApplied[q] + 1
      /\ \A p \in Request : p # q => timesApplied'[p] = timesApplied[p]
  BY <1>1, <1>4 DEF Types
<1> HIDE DEF q
<1>9. timesApplied[q] = 0
  BY <1>1, <1>2 DEF Data, AppliedOnce
<1>10. RowsKept
  BY <1>4, <1>6, <1>7 DEF RowsKept
<1>11. Data'
  <2>1. Authored'
    BY <1>3, <1>6, <1>7 DEF Data, Authored
  <2>2. OnePending'
    BY <1>6, <1>7 DEF Data, OnePending
  <2>3. AppliedOnce'
    <3> SUFFICES ASSUME NEW p \in Request
                 PROVE timesApplied'[p] = IF request'[p].status = "approved" THEN 1 ELSE 0
      BY DEF AppliedOnce
    <3>1. CASE p = q
      BY <1>6, <1>7, <1>8, <1>9, <3>1
    <3>2. CASE p # q
      BY <1>7, <1>8, <3>2 DEF Data, AppliedOnce
    <3> QED
      BY <3>1, <3>2
  <2>4. ClosedHasNoPendingRequest'
    BY <1>3, <1>4, <1>6, <1>7, ApplyFacts DEF Data, ClosedHasNoPendingRequest
  <2>5. PostedAtPresentRate'
    BY <1>3, <1>4, ApplyFacts DEF PostedAtPresentRate
  <2> QED
    BY <2>1, <2>2, <2>3, <2>4, <2>5 DEF Data
<1>12. \A p \in Request : requestLock[p] \notin {s, None} => request'[p] = request[p]
  BY <1>1, <1>7
<1> QED
  BY <1>1, <1>3, <1>4, <1>7, <1>8, <1>10, <1>11, <1>12, ApplyFacts, FinishStep DEF Types

LEMMA RejectStep ==
  ASSUME IInv, NEW s \in Session, Reject(s)
  PROVE  IInv'
<1> USE IInvParts
<1> DEFINE q == task[s].req
<1>1. /\ q \in Request /\ requestLock[q] = s
      /\ task[s].op = "reject" /\ task[s].pc = "write" /\ Passes(s)
  BY WriteFacts DEF Reject, Op
<1>2. request[q].status = "pending" /\ request[q] \in RequestRow
  BY <1>1 DEF Passes, Types
<1>3. /\ Release(s) /\ UNCHANGED <<loan, books, timesApplied, held>>
      /\ request' = [request EXCEPT ![q].status = "rejected"]
  BY DEF Reject
<1>4. PICK k : k = [request[q] EXCEPT !.status = "rejected"]
  OBVIOUS
<1>5. k \in RequestRow /\ k.status = "rejected" /\ k.by = request[q].by /\ k.rate = request[q].rate
  BY <1>2, <1>4 DEF RequestRow
<1>6. /\ request' \in [Request -> RequestRow]
      /\ request'[q] = k
      /\ \A p \in Request : p # q => request'[p] = request[p]
  BY <1>1, <1>3, <1>4, <1>5 DEF Types
<1> HIDE DEF q
<1>7. Types'
  BY <1>3, <1>6, ReleaseFacts DEF Types, loan, books
<1>8. RowsKept
  BY <1>3, <1>5, <1>6 DEF RowsKept
<1>9. Tasks'
  BY <1>3, <1>8, ReleaseTasks
<1>10. StillGood'
  <2>1. ASSUME NEW t \in Session, task'[t].pc = "write"
        PROVE  /\ task'[t] = task[t]
               /\ task[t].op # "reject" => UNCHANGED <<status, rate, settled>>
               /\ task[t].op \in {"approve", "reject"} =>
                    request'[task[t].req].status = request[task[t].req].status
    <3>1. t # s /\ task'[t] = task[t]
      BY <1>3, <2>1, ReleaseFacts, IdleTyped
    <3>2. Locked(t)
      BY <2>1, <3>1 DEF Tasks, LocksHeld
    <3>3. task[t].op \in {"approve", "reject"} => task[t].req \in Request /\ task[t].req # None
      BY <2>1, <3>1, RateAssumption DEF Tasks, Shape, Request
    <3>4. task[t].op \in {"approve", "reject"} => task[t].req # q
      BY <1>1, <3>1, <3>2, <3>3 DEF Locked
    <3> QED
      BY <1>3, <1>6, <3>1, <3>3, <3>4 DEF loan
  <2> QED
    BY <2>1, StillGoodFrame
<1>11. Data'
  <2>1. timesApplied' = timesApplied /\ status' = status /\ request[q].status # "approved"
    BY <1>2, <1>3 DEF loan
  <2>2. Authored' /\ OnePending' /\ ClosedHasNoPendingRequest'
    BY <1>2, <1>5, <1>6, <2>1 DEF Data, Authored, OnePending, ClosedHasNoPendingRequest
  <2>3. AppliedOnce'
    <3> SUFFICES ASSUME NEW p \in Request
                 PROVE timesApplied[p] = IF request'[p].status = "approved" THEN 1 ELSE 0
      BY <2>1 DEF AppliedOnce
    <3>1. CASE p = q
      BY <1>1, <1>5, <1>6, <2>1, <3>1 DEF Data, AppliedOnce
    <3>2. CASE p # q
      BY <1>6, <3>2 DEF Data, AppliedOnce
    <3> QED
      BY <3>1, <3>2
  <2>4. PostedAtPresentRate'
    BY <1>3 DEF Data, PostedAtPresentRate, loan, books
  <2> QED
    BY <2>2, <2>3, <2>4 DEF Data
<1> QED
  BY <1>7, <1>9, <1>10, <1>11, IInvNext

LEMMA CreateRequestStep ==
  ASSUME IInv, NEW s \in Session, CreateRequest(s)
  PROVE  IInv'
<1> USE IInvParts
<1>1. /\ loanLock = s /\ task[s].op = "create" /\ Passes(s)
      /\ Release(s) /\ UNCHANGED <<loan, books, timesApplied, held>>
  BY WriteFacts DEF CreateRequest, Op
<1>2. status = "active"
  BY <1>1 DEF Passes, Eligible
<1>3. CASE UNCHANGED request
  <2>1. UNCHANGED <<loan, books, rows, held>>
    BY <1>1, <1>3 DEF rows
  <2> QED
    BY <1>1, <2>1, RollbackStep
<1>4. ASSUME MayInsert, NEW q \in Request, NextRequest(q),
             request' = [request EXCEPT ![q] = [status |-> "pending", rate |-> task[s].rate,
                                                by |-> UserOf[s]]]
      PROVE  IInv'
  <2>1. PICK k : k = [status |-> "pending", rate |-> task[s].rate, by |-> UserOf[s]]
    OBVIOUS
  <2>2. task[s].rate \in Nat /\ UserOf[s] \in User
    BY RateAssumption DEF Types, Task
  <2>3. k \in RequestRow /\ k.status = "pending" /\ k.by \in User
    BY <2>1, <2>2 DEF RequestRow
  <2>4. request[q].status = "none"
    BY <1>4 DEF NextRequest, Request
  <2>5. /\ request' \in [Request -> RequestRow]
        /\ request'[q] = k
        /\ \A p \in Request : p # q => request'[p] = request[p]
    BY <1>4, <2>1, <2>3 DEF Types
  <2>6. Types'
    BY <1>1, <2>5, ReleaseFacts DEF Types, loan, books
  <2>7. RowsKept
    BY <1>1, <2>4, <2>5 DEF RowsKept
  <2>8. Tasks'
    BY <1>1, <2>7, ReleaseTasks
  <2>9. StillGood'
    <3>1. ASSUME NEW t \in Session, task'[t].pc = "write"
          PROVE  /\ task'[t] = task[t]
                 /\ task[t].op \in {"approve", "reject"} =>
                      request'[task[t].req].status = request[task[t].req].status
      <4>1. t # s /\ task'[t] = task[t]
        BY <1>1, <3>1, ReleaseFacts, IdleTyped
      <4>2. task[t].op \in {"approve", "reject"} =>
              task[t].req \in Request /\ request[task[t].req].status # "none"
        BY <3>1, <4>1 DEF Tasks, Shape, Authorised
      <4> QED
        BY <2>4, <2>5, <4>1, <4>2
    <3> QED
      BY <1>1, <3>1, StillGoodFrame DEF loan
  <2>10. Data'
    <3>1. timesApplied' = timesApplied /\ status' = "active"
      BY <1>1, <1>2 DEF loan
    <3>2. Authored' /\ OnePending' /\ ClosedHasNoPendingRequest'
      BY <1>4, <2>3, <2>5, <3>1 DEF MayInsert, Data, Authored, OnePending, ClosedHasNoPendingRequest
    <3>3. AppliedOnce'
      <4> SUFFICES ASSUME NEW p \in Request
                   PROVE timesApplied[p] = IF request'[p].status = "approved" THEN 1 ELSE 0
        BY <3>1 DEF AppliedOnce
      <4>1. CASE p = q
        BY <2>3, <2>4, <2>5, <4>1 DEF Data, AppliedOnce
      <4>2. CASE p # q
        BY <2>5, <4>2 DEF Data, AppliedOnce
      <4> QED
        BY <4>1, <4>2
    <3>4. PostedAtPresentRate'
      BY <1>1 DEF Data, PostedAtPresentRate, loan, books
    <3> QED
      BY <3>2, <3>3, <3>4 DEF Data
  <2> QED
    BY <2>6, <2>8, <2>9, <2>10, IInvNext
<1> QED
  BY <1>3, <1>4 DEF CreateRequest

\* Cancelling leaves nothing pending and touches no row somebody holds.
LEMMA CancelFacts ==
  ASSUME Types, Data, CancelPending
  PROVE  /\ request' \in [Request -> RequestRow]
         /\ \A q \in Request :
              /\ request'[q].status # "pending"
              /\ request'[q].by = request[q].by /\ request'[q].rate = request[q].rate
              /\ request[q].status # "none" <=> request'[q].status # "none"
              /\ request'[q].status = "approved" <=> request[q].status = "approved"
              /\ requestLock[q] # None => request'[q] = request[q]
<1>1. ASSUME NEW q \in Request
      PROVE  /\ request'[q] \in RequestRow
             /\ request'[q].status # "pending"
             /\ request'[q].by = request[q].by /\ request'[q].rate = request[q].rate
             /\ request[q].status # "none" <=> request'[q].status # "none"
             /\ request'[q].status = "approved" <=> request[q].status = "approved"
             /\ requestLock[q] # None => request'[q] = request[q]
  <2>1. request[q] \in RequestRow
    BY DEF Types
  <2>2. PICK k : k = [request[q] EXCEPT !.status = "rejected"]
    OBVIOUS
  <2>3. k \in RequestRow /\ k.status = "rejected" /\ k.by = request[q].by /\ k.rate = request[q].rate
    BY <2>1, <2>2 DEF RequestRow
  <2>4. request'[q] = IF request[q].status = "pending" THEN k ELSE request[q]
    BY <2>2 DEF CancelPending
  <2>5. request[q].status = "pending" => requestLock[q] = None
    BY DEF CancelPending, RowsFree
  <2> QED
    BY <2>1, <2>3, <2>4, <2>5
<1>2. request' \in [Request -> RequestRow]
  <2>1. request' = [q \in Request |-> request'[q]]
    BY DEF CancelPending
  <2> QED
    BY <1>1, <2>1
<1> QED
  BY <1>1, <1>2

\* A transaction that closes the loan, or leaves it active.
LEMMA CloseStep ==
  ASSUME IInv, NEW s \in Session, Release(s), loanLock = s,
         \/ UNCHANGED request /\ status' = "active"
         \/ CancelPending /\ status' \in {"fully_paid", "closed"},
         settled' \in {TRUE, settled},
         UNCHANGED <<rate, corrected, terms, books, timesApplied, held>>
  PROVE  IInv'
<1> USE IInvParts
<1>1. /\ request' \in [Request -> RequestRow]
      /\ \A q \in Request :
           /\ request'[q].by = request[q].by /\ request'[q].rate = request[q].rate
           /\ request'[q].status # "none" <=> request[q].status # "none"
           /\ request'[q].status = "approved" <=> request[q].status = "approved"
           /\ request'[q].status = "pending" =>
                request[q].status = "pending" /\ status' = "active"
           /\ requestLock[q] \notin {s, None} => request'[q] = request[q]
  BY CancelFacts DEF Types
<1>2. RowsKept
  BY <1>1 DEF RowsKept
<1>3. Data'
  <2>1. Authored' /\ OnePending' /\ ClosedHasNoPendingRequest'
    BY <1>1 DEF Data, Authored, OnePending, ClosedHasNoPendingRequest
  <2>2. AppliedOnce'
    BY <1>1 DEF Data, AppliedOnce
  <2>3. PostedAtPresentRate'
    BY DEF Data, PostedAtPresentRate, books
  <2> QED
    BY <2>1, <2>2, <2>3 DEF Data
<1>4. settled' \in BOOLEAN
  BY Zenon DEF Types
<1>5. status' \in {"active", "fully_paid", "closed"}
  OBVIOUS
<1>6. /\ rate' \in Nat /\ corrected' \in BOOLEAN
      /\ terms' \in [by : User \cup {None}, asked : User \cup {None}]
      /\ timesApplied' \in [Request -> Nat] /\ held' = held
  BY DEF Types
<1>7. day' \in Nat /\ posted' \in Int /\ postedTo' \in Nat
  BY DEF Types, books
<1> QED
  BY <1>1, <1>2, <1>3, <1>4, <1>5, <1>6, <1>7, FinishStep

LEMMA SettleStep ==
  ASSUME IInv, NEW s \in Session, Settle(s)
  PROVE  IInv'
<1>1. loanLock = s /\ task[s].op = "settle" /\ Passes(s)
  BY WriteFacts DEF Settle, Op
<1>2. status = "active"
  BY <1>1 DEF Passes
<1> QED
  BY <1>1, <1>2, CloseStep DEF Settle

LEMMA SeizeStep ==
  ASSUME IInv, NEW s \in Session, Seize(s)
  PROVE  IInv'
<1>1. loanLock = s
  BY WriteFacts DEF Seize, Op
<1> QED
  BY <1>1, CloseStep DEF Seize

\* Steps outside the tasks that change the loan while nobody holds its row, or
\* change nothing a task depends on.
LEMMA FreeStep ==
  ASSUME IInv, UNCHANGED <<rows, locks, task>>,
         \A u \in User : held[u] \subseteq held'[u],
         loanLock = None \/ UNCHANGED <<status, rate, settled>>,
         Types', Data'
  PROVE  IInv'
<1> USE IInvParts
<1>1. /\ request' = request /\ task' = task
      /\ loanLock' = loanLock /\ requestLock' = requestLock
  BY DEF rows, locks
<1>2. LocksHeld' /\ Shape'
  BY <1>1 DEF Tasks, LocksHeld, Shape, Locked
<1>3. Authorised'
  <2> SUFFICES ASSUME NEW t \in Session, task[t].pc # "idle"
               PROVE /\ task[t].op = "correct" => Terms!MaySet(UserOf[t], task[t].rate)'
                     /\ task[t].op = "approve" =>
                          /\ task[t].rate = request[task[t].req].rate
                          /\ request[task[t].req].by # UserOf[t]
                          /\ Terms!MayApprove(UserOf[t], task[t].rate)'
                     /\ task[t].op \in {"approve", "reject"} => request[task[t].req].status # "none"
    BY <1>1 DEF Authorised
  <2>1. UserOf[t] \in User /\ held[UserOf[t]] \subseteq held'[UserOf[t]]
    BY RateAssumption
  <2>2. Terms!MaySet(UserOf[t], task[t].rate) => Terms!MaySet(UserOf[t], task[t].rate)'
    BY <1>1, <2>1 DEF Terms!MaySet, NeedsApproval, Needs
  <2>3. Terms!MayApprove(UserOf[t], task[t].rate) => Terms!MayApprove(UserOf[t], task[t].rate)'
    BY <1>1, <2>1 DEF Terms!MayApprove, Needs
  <2> QED
    BY <2>2, <2>3 DEF Tasks, Authorised
<1>4. StillGood'
  <2>1. ASSUME NEW t \in Session, task'[t].pc = "write"
        PROVE  task[t].op # "reject" => UNCHANGED <<status, rate, settled>>
    <3>1. loanLock = None => task[t].op = "reject"
      BY <1>1, <2>1, RateAssumption DEF Tasks, LocksHeld, Locked
    <3> QED
      BY <3>1
  <2> QED
    BY <1>1, <2>1, StillGoodFrame
<1> QED
  BY <1>2, <1>3, <1>4, IInvNext DEF Tasks

LEMMA FreeSteps ==
  ASSUME IInv, Reopen \/ Accrue \/ DayPasses \/ \E u \in User : Give(u)
  PROVE  IInv'
<1> USE IInvParts
<1>1. CASE Reopen
  <2>1. Types'
    BY <1>1 DEF Reopen, Types, books, rows, locks
  <2>2. Data'
    BY <1>1 DEF Reopen, Data, Authored, OnePending, AppliedOnce, ClosedHasNoPendingRequest,
       PostedAtPresentRate, books, rows
  <2> QED
    BY <1>1, <2>1, <2>2, FreeStep DEF Reopen
<1>3. CASE Accrue
  <2>1. /\ posted' = rate * day /\ postedTo' = day /\ day' = day
        /\ UNCHANGED <<status, rate, corrected, settled, terms, held, request, timesApplied>>
        /\ UNCHANGED <<loanLock, requestLock, task>>
    BY <1>3 DEF Accrue, Target, loan, rows, locks
  <2>2. posted' \in Int /\ postedTo' \in Nat /\ day' \in Nat
    BY <2>1 DEF Types
  <2>3. Types'
    BY <2>1, <2>2 DEF Types
  <2>4. Data'
    BY <2>1 DEF Data, Authored, OnePending, AppliedOnce, ClosedHasNoPendingRequest,
       PostedAtPresentRate
  <2> QED
    BY <1>3, <2>1, <2>3, <2>4, FreeStep DEF Accrue
<1>4. CASE DayPasses
  <2>1. /\ day' \in Nat /\ UNCHANGED <<posted, postedTo, held>>
        /\ UNCHANGED <<status, rate, corrected, settled, terms, request, timesApplied>>
        /\ UNCHANGED <<loanLock, requestLock, task>>
    BY <1>4 DEF DayPasses, loan, rows, locks, Types
  <2>2. Types'
    BY <2>1 DEF Types
  <2>3. Data'
    BY <2>1 DEF Data, Authored, OnePending, AppliedOnce, ClosedHasNoPendingRequest,
       PostedAtPresentRate
  <2> QED
    BY <1>4, <2>1, <2>2, <2>3, FreeStep DEF DayPasses
<1>5. ASSUME NEW u \in User, Give(u) PROVE IInv'
  <2>1. PICK p \in Grantable[u] \ held[u] : held' = [held EXCEPT ![u] = @ \cup {p}]
    BY <1>5 DEF Give
  <2>2. p \in Permission /\ held \in [User -> SUBSET Permission]
    BY <2>1, RateAssumption DEF Types
  <2>3. /\ held' \in [User -> SUBSET Permission]
        /\ \A v \in User : held[v] \subseteq held'[v]
    BY <2>1, <2>2
  <2>4. UNCHANGED <<loan, books, rows, locks, task>>
    BY <1>5 DEF Give
  <2>5. Types'
    BY <2>3, <2>4 DEF Types, loan, books, rows, locks
  <2>6. Data'
    BY <2>4, DataFrame
  <2> QED
    BY <2>3, <2>4, <2>5, <2>6, FreeStep DEF loan
<1> QED
  BY <1>1, <1>3, <1>4, <1>5

LEMMA EnterSteps ==
  ASSUME IInv, NEW s \in Session, EnterSome(s)
  PROVE  IInv'
<1> USE IInvParts, RateAssumption
<1>1. CASE EnterCorrection(s)
  <2>1. PICK r \in Rate :
          \/ Needs(r) \in held[UserOf[s]] \cup {None} /\ Enter(s, "correct", r, None)
          \/ Enter(s, "create", r, None)
    BY <1>1 DEF EnterCorrection
  <2>2. r \in Nat
    OBVIOUS
  <2>3. ASSUME Needs(r) \in held[UserOf[s]] \cup {None} PROVE Terms!MaySet(UserOf[s], r)
    BY <2>3 DEF Terms!MaySet, NeedsApproval
  <2> QED
    BY <2>1, <2>2, <2>3, EnterStep DEF Op
<1>2. CASE EnterAdjustment(s)
  <2>1. PICK r \in Rate : Enter(s, "correct", r, None)
    BY <1>2 DEF EnterAdjustment
  <2>2. Terms!MaySet(UserOf[s], r)
    BY <1>2 DEF EnterAdjustment, Terms!MaySet
  <2> QED
    BY <2>1, <2>2, EnterStep DEF Op
<1>3. CASE EnterReview(s)
  <2>1. PICK q \in Request, op \in {"approve", "reject"} :
          /\ request[q].status # "none"
          /\ MayReview(UserOf[s], q)
          /\ Enter(s, op, request[q].rate, q)
    BY <1>3 DEF EnterReview
  <2>2. request[q].rate \in Nat /\ op \in Op
    BY DEF Types, RequestRow, Op
  <2>3. request[q].by # UserOf[s] /\ Terms!MayApprove(UserOf[s], request[q].rate)
    BY <2>1 DEF MayReview, Terms!MayApprove
  <2> QED
    BY <2>1, <2>2, <2>3, EnterStep
<1>4. CASE EnterSettlement(s)
  BY <1>4, EnterStep DEF EnterSettlement, Op
<1>5. CASE EnterSeizure(s)
  BY <1>5, EnterStep DEF EnterSeizure, Op
<1> QED
  BY <1>1, <1>2, <1>3, <1>4, <1>5 DEF EnterSome

LEMMA IInvStep == IInv /\ [Next]_vars => IInv'
<1> SUFFICES ASSUME IInv, [Next]_vars PROVE IInv'
  OBVIOUS
<1>1. ASSUME NEW s \in Session, EnterSome(s) \/ Step(s) \/ Rollback(s) PROVE IInv'
  <2>1. CASE EnterSome(s)
    BY <2>1, EnterSteps
  <2>2. CASE Lock(s)
    BY <2>2, LockLoanStep, LockRequestStep DEF Lock
  <2>3. CASE Check(s)
    BY <2>3, CheckStep
  <2>4. CASE Write(s)
    BY <2>4, CorrectNowStep, ApproveStep, RejectStep, CreateRequestStep, SettleStep, SeizeStep
       DEF Write
  <2>5. CASE Rollback(s)
    BY <2>5, RollbackStep DEF Rollback
  <2> QED
    BY <1>1, <2>1, <2>2, <2>3, <2>4, <2>5 DEF Step
<1>2. CASE UNCHANGED vars
  <2>1. UNCHANGED <<loan, books, rows, locks, task>> /\ held' = held
    BY <1>2 DEF vars
  <2>2. Types'
    BY <2>1, IInvParts DEF Types, loan, books, rows, locks
  <2>3. Data'
    BY <2>1, IInvParts, DataFrame
  <2> QED
    BY <2>1, <2>2, <2>3, FreeStep DEF loan
<1> QED
  BY <1>1, <1>2, FreeSteps DEF Next

-----------------------------------------------------------------------------
(* Theorems.                                                               *)

\* The inductive invariant holds throughout.
THEOREM Invariance == Spec => []IInv
BY InitIInv, IInvStep, PTL DEF Spec

\* Every variable keeps its type, and a lock belongs to a transaction under
\* way that named the row it locks.
THEOREM TypeCorrect == Spec => []TypeOK
<1>1. IInv => TypeOK
  BY DEF IInv
<1> QED
  BY <1>1, Invariance, PTL

\* However many officers ask at once, at most one request is pending.
THEOREM AtMostOnePending == Spec => []OnePending
<1>1. IInv => OnePending
  BY DEF IInv
<1> QED
  BY <1>1, Invariance, PTL

\* A request is applied exactly once if approved, and never otherwise.
THEOREM RequestsAppliedOnce == Spec => []AppliedOnce
<1>1. IInv => AppliedOnce
  BY DEF IInv
<1> QED
  BY <1>1, Invariance, PTL

\* A loan that was paid off, rolled over or seized has no request pending.
THEOREM ClosingEndsRequests == Spec => []ClosedHasNoPendingRequest
<1>1. IInv => ClosedHasNoPendingRequest
  BY DEF IInv
<1> QED
  BY <1>1, Invariance, PTL

\* Until something is settled, the interest posted is that of the present rate.
THEOREM InterestFollowsRate == Spec => []PostedAtPresentRate
<1>1. IInv => PostedAtPresentRate
  BY DEF IInv
<1> QED
  BY <1>1, Invariance, PTL

\* Every step of the code is a step RateTerms allows, or changes none of its
\* variables.
LEMMA TermsStep == IInv /\ [Next]_vars => [Terms!Next]_<<rate, settled, terms, held>>
<1> SUFFICES ASSUME IInv, [Next]_vars PROVE [Terms!Next]_<<rate, settled, terms, held>>
  OBVIOUS
<1> USE IInvParts
<1> DEFINE Same == UNCHANGED <<rate, settled, terms, held>>
<1>1. ASSUME NEW s \in Session, CorrectNow(s) PROVE Terms!Correct
  <2>1. /\ Passes(s) /\ task[s].op = "correct" /\ task[s].pc = "write"
        /\ Apply(s, UserOf[s]) /\ held' = held
    BY <1>1, WriteFacts DEF CorrectNow, Op
  <2>2. /\ ~settled /\ rate' # rate /\ rate' = task[s].rate /\ settled' = settled
        /\ terms' = [by |-> UserOf[s], asked |-> UserOf[s]]
    BY <2>1 DEF Passes, Eligible, Apply
  <2>3. Terms!MaySet(UserOf[s], rate')
    BY <2>1, <2>2 DEF Tasks, Authorised, Terms!MaySet
  <2> QED
    BY <2>1, <2>2, <2>3, RateAssumption DEF Terms!Correct
<1>2. ASSUME NEW s \in Session, Approve(s) PROVE Terms!Correct
  <2>1. /\ Passes(s) /\ task[s].op = "approve" /\ task[s].pc = "write"
        /\ task[s].req \in Request
    BY <1>2, WriteFacts DEF Approve, Op
  <2> DEFINE asked == request[task[s].req].by
  <2>2. Apply(s, asked) /\ held' = held
    BY <1>2 DEF Approve
  <2>3. asked \in User /\ asked # UserOf[s]
    BY <2>1 DEF Passes, Data, Authored, Tasks, Authorised
  <2>4. /\ ~settled /\ rate' # rate /\ rate' = task[s].rate /\ settled' = settled
        /\ terms' = [by |-> UserOf[s], asked |-> asked]
    BY <2>1, <2>2 DEF Passes, Eligible, Apply
  <2>5. Terms!MayApprove(UserOf[s], rate')
    BY <2>1, <2>4 DEF Tasks, Authorised, Terms!MayApprove
  <2> QED
    BY <2>2, <2>3, <2>4, <2>5, RateAssumption DEF Terms!Correct
<1>3. ASSUME NEW s \in Session, Settle(s) PROVE Terms!Settle
  BY <1>3 DEF Settle, Terms!Settle
<1>4. ASSUME NEW u \in User, Give(u) PROVE Terms!Give(u)
  <2>1. PICK p \in Grantable[u] \ held[u] : held' = [held EXCEPT ![u] = @ \cup {p}]
    BY <1>4 DEF Give
  <2>2. held \in [User -> SUBSET Permission]
    BY DEF Types
  <2>3. held'[u] = held[u] \cup {p}
    BY <2>1, <2>2
  <2>4. held' = [held EXCEPT ![u] = held'[u]] /\ held[u] \subseteq held'[u]
    BY <2>1, <2>3
  <2>5. UNCHANGED <<rate, settled, terms>>
    BY <1>4 DEF Give, loan
  <2> QED
    BY <2>4, <2>5 DEF Terms!Give
<1>5. ASSUME NEW s \in Session,
             \/ EnterSome(s) \/ Lock(s) \/ Check(s) \/ Rollback(s)
             \/ Reject(s) \/ CreateRequest(s) \/ Seize(s)
      PROVE  Same
  <2>1. ASSUME UNCHANGED <<loan, held>> PROVE Same
    BY <2>1 DEF loan
  <2>2. EnterSome(s) => UNCHANGED <<loan, held>>
    BY DEF EnterSome, EnterCorrection, EnterAdjustment, EnterReview, EnterSettlement,
       EnterSeizure, Enter
  <2>3. Lock(s) \/ Check(s) \/ Rollback(s) => UNCHANGED <<loan, held>>
    BY DEF Lock, LockLoan, LockRequest, Check, Rollback
  <2>4. Reject(s) \/ CreateRequest(s) => UNCHANGED <<loan, held>>
    BY DEF Reject, CreateRequest
  <2>5. Seize(s) => Same
    BY DEF Seize
  <2> QED
    BY <1>5, <2>1, <2>2, <2>3, <2>4, <2>5
<1>6. ASSUME Reopen \/ Accrue \/ DayPasses \/ UNCHANGED vars
      PROVE  Same
  BY <1>6 DEF Reopen, Accrue, DayPasses, vars, loan
<1> HIDE DEF Same
<1>7. Terms!Correct \/ Terms!Settle \/ (\E u \in User : Terms!Give(u)) \/ Same
  BY <1>1, <1>2, <1>3, <1>4, <1>5, <1>6 DEF Next, Step, Write
<1> QED
  BY <1>7 DEF Terms!Next, Same

\* Corrections implement RateTerms: the rate changes only before the first
\* settlement, each time by a person given the permission for it, and an
\* approval is never by the person who asked.
THEOREM CorrectionsImplementRateTerms == Spec => CorrectionsKeepTerms
<1>1. Init => Terms!Init
  BY DEF Init, Terms!Init
<1> QED
  BY <1>1, TermsStep, Invariance, PTL DEF Spec, CorrectionsKeepTerms, Terms!Spec
=============================================================================
