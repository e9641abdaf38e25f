------------------------- MODULE LoanLifecycle_proofs -------------------------
(***************************************************************************)
(* The loans: their life (LoanLifecycle) and what they are said to owe     *)
(* (LoanStatement, after the books).  The two share no variable, only the  *)
(* lemmas on sums.                                                         *)
(*                                                                         *)
(* LoanLifecycle for any number of loans, payments and clerks: a loan is   *)
(* rolled over into one successor only, a loan that left the operational   *)
(* set has no rate request pending, rolling over is final, and the books   *)
(* follow: a rollover carries exactly what the old loan owed, and every    *)
(* ledger that may still be corrected is its terms less its payments.      *)
(*                                                                         *)
(* The argument: a createLoan holds the rows it found, and nothing closes a *)
(* row somebody else holds; so what it found is still active when it       *)
(* commits.  A loan with a successor is not active, so no second createLoan *)
(* can hold it.  For the books: the carry was computed under the lock, and *)
(* everything that changes a loan's ledger or its payments needs the lock  *)
(* free, so the carry is still what the loan owes.                         *)
(*                                                                         *)
(* Payments are summed by a fold.  What a fold of a finite set returns is  *)
(* proved from a subset that is minimal among those where it goes wrong.   *)
(***************************************************************************)
EXTENDS LoanLifecycle, LoanStatement, FiniteSetTheorems, WellFoundedInduction, TLAPS

\* A payment row belongs to a loan, and so does a settlement under way.
PaymentsHaveLoans == \A p \in Payment : payment[p].state # "none" => payment[p].loan \in Loan
SettlementsHaveLoans == \A c \in Clerk : req[c].pc \in {"checked", "read"} => req[c].loan \in Loan

\* What a createLoan holds is active.
HeldAreActive == \A c \in Clerk : req[c].pc = "locked" => req[c].found \subseteq Active

\* A loan that was rolled over is out of operation.
SourcesClosed ==
  \A s \in Loan : from[s] # None => status[from[s]] \in {"rolled_over", "settled_with_collateral"}

\* The loans' side of the invariant.
LoansOK ==
  /\ status \in [Loan -> Status]
  /\ from \in [Loan -> Loan \cup {None}]
  /\ principal \in [Loan -> Nat]
  /\ rolloverAmount \in [Loan -> Nat]
  /\ receivable \in [Loan -> Int]
  /\ pending \in [Loan -> BOOLEAN]
  /\ payment \in [Payment -> PaymentRow]
  /\ \A l \in Loan : status[l] = "none" => from[l] = None /\ receivable[l] = 0
  /\ PaymentsHaveLoans
  /\ SourcesClosed
  /\ OneSuccessor
  /\ ClosedHasNoPendingRequest

\* The requests' side.
LocksHeld ==
  \A l \in Loan, c \in Clerk : lock[l] = c <=> req[c].pc = "locked" /\ l \in req[c].found
RequestsOK ==
  /\ lock \in [Loan -> Clerk \cup {None}]
  /\ req \in [Clerk -> Request]
  /\ LocksHeld
  /\ SettlementsHaveLoans

IInv == LoansOK /\ RequestsOK /\ HeldAreActive

LEMMA IInvIsTyped == IInv => TypeOK
BY DEF IInv, LoansOK, RequestsOK, LocksHeld, TypeOK

LEMMA Names == None \notin Clerk /\ None \notin Loan /\ None \notin Nat
BY LifecycleAssumption DEF Loan

LEMMA IdleTyped == Idle \in Request /\ Idle.pc = "idle"
BY DEF Idle, Request

LEMMA InitIInv == Init => IInv
<1> SUFFICES ASSUME Init PROVE IInv
  OBVIOUS
<1>1. Idle \in Request /\ NoPayment \in PaymentRow
  BY DEF Idle, Request, NoPayment, PaymentRow
<1>2. RequestsOK
  BY <1>1, Names DEF Init, RequestsOK, LocksHeld, SettlementsHaveLoans, Idle
<1>3. LoansOK
  BY <1>1 DEF Init, LoansOK, PaymentsHaveLoans, SourcesClosed, OneSuccessor,
              ClosedHasNoPendingRequest, Status, NoPayment
<1>4. HeldAreActive
  BY DEF Init, HeldAreActive, Idle
<1> QED
  BY <1>2, <1>3, <1>4 DEF IInv

-----------------------------------------------------------------------------
(* What the pieces of a step keep.                                         *)

LEMMA LoansUnchanged ==
  ASSUME LoansOK, UNCHANGED <<status, from, principal, rolloverAmount, receivable, pending,
         payment>>
  PROVE  LoansOK'
BY DEF LoansOK, PaymentsHaveLoans, SourcesClosed, OneSuccessor, ClosedHasNoPendingRequest, Active

\* A step of a request that holds nothing before and after.
LEMMA RequestMoves ==
  ASSUME IInv, NEW c \in Clerk, NEW r \in Request,
         req[c].pc # "locked", r.pc # "locked",
         r.pc \in {"checked", "read"} => r.loan \in Loan,
         req' = [req EXCEPT ![c] = r], UNCHANGED lock,
         UNCHANGED <<status, from, principal, rolloverAmount, receivable, pending, payment>>
  PROVE  IInv'
<1>1. req' \in [Clerk -> Request] /\ \A d \in Clerk : req'[d] = IF d = c THEN r ELSE req[d]
  BY DEF IInv, RequestsOK
<1>2. RequestsOK'
  BY <1>1 DEF IInv, RequestsOK, LocksHeld, SettlementsHaveLoans
<1>3. HeldAreActive'
  BY <1>1 DEF IInv, HeldAreActive, Active
<1> QED
  BY <1>2, <1>3, LoansUnchanged DEF IInv

\* The end of a transaction lets go of its rows and nobody else's.
LEMMA ReleaseKeeps ==
  ASSUME RequestsOK, NEW c \in Clerk, Release(c)
  PROVE  /\ RequestsOK'
         /\ \A d \in Clerk : req'[d].pc = "locked" => d # c /\ req'[d] = req[d]
<1>1. Idle \in Request
  BY DEF Idle, Request
<1>2. /\ lock' \in [Loan -> Clerk \cup {None}]
      /\ \A l \in Loan : lock'[l] = IF lock[l] = c THEN None ELSE lock[l]
  BY DEF Release, RequestsOK
<1>3. /\ req' \in [Clerk -> Request]
      /\ \A d \in Clerk : req'[d] = IF d = c THEN Idle ELSE req[d]
  BY <1>1 DEF Release, RequestsOK
<1>4. LocksHeld'
  BY <1>2, <1>3, Names DEF RequestsOK, LocksHeld, Idle
<1>5. SettlementsHaveLoans'
  BY <1>3 DEF RequestsOK, SettlementsHaveLoans, Idle
<1> QED
  BY <1>2, <1>3, <1>4, <1>5 DEF RequestsOK, Idle

\* Nothing somebody else holds changes its status.
LEMMA HeldStayActive ==
  ASSUME IInv, NEW c \in Clerk, Release(c), NEW S \in SUBSET Loan,
         \A l \in S : lock[l] \in {None, c},
         \A l \in Loan \ S : status'[l] = status[l]
  PROVE  HeldAreActive'
<1> SUFFICES ASSUME NEW d \in Clerk, req'[d].pc = "locked", NEW l \in req'[d].found
             PROVE  l \in Loan /\ status'[l] = "active"
  BY DEF HeldAreActive, Active
<1>1. d # c /\ req'[d] = req[d]
  BY ReleaseKeeps DEF IInv
<1>2. l \in Loan /\ status[l] = "active"
  BY <1>1 DEF IInv, HeldAreActive, Active
<1>3. lock[l] = d
  BY <1>1, <1>2 DEF IInv, RequestsOK, LocksHeld
<1>4. l \notin S
  BY <1>1, <1>3, Names
<1> QED
  BY <1>2, <1>4

\* The same for a step that is no request's.
LEMMA FreeRowChanges ==
  ASSUME IInv, NEW k \in Loan, RowFree(k), UNCHANGED <<lock, req>>,
         \A l \in Loan \ {k} : status'[l] = status[l]
  PROVE  RequestsOK' /\ HeldAreActive'
<1>1. RequestsOK'
  BY DEF IInv, RequestsOK, LocksHeld, SettlementsHaveLoans
<1>2. ASSUME NEW d \in Clerk, req[d].pc = "locked", NEW l \in req[d].found
      PROVE  l \in Loan /\ status'[l] = "active"
  <2>1. l \in Loan /\ status[l] = "active"
    BY <1>2 DEF IInv, HeldAreActive, Active
  <2>2. lock[l] = d
    BY <1>2, <2>1 DEF IInv, RequestsOK, LocksHeld
  <2>3. l # k
    BY <2>2, Names DEF RowFree
  <2> QED
    BY <2>1, <2>3
<1> QED
  BY <1>1, <1>2 DEF HeldAreActive, Active

\* Closing or reopening a loan that may be corrected cancels what it must.
LEMMA Closing ==
  ASSUME LoansOK, NEW l \in Loan, CorrectionAllowed(l), CloseOrReopen(l, "active")
  PROVE  /\ status' \in [Loan -> Status] /\ pending' \in [Loan -> BOOLEAN]
         /\ status'[l] \in {"active", "fully_paid"}
         /\ \A k \in Loan \ {l} : status'[k] = status[k] /\ pending'[k] = pending[k]
         /\ pending'[l] => status'[l] = "active"
<1>1. PICK due \in BOOLEAN :
        /\ status[l] = "fully_paid" => ~due
        /\ IF receivable'[l] <= 0 /\ ~due
           THEN /\ status' = [status EXCEPT ![l] = "fully_paid"]
                /\ IF status[l] = "fully_paid" THEN UNCHANGED pending ELSE CancelPending(l)
           ELSE status' = [status EXCEPT ![l] = "active"] /\ UNCHANGED pending
  BY DEF CloseOrReopen
<1>2. status \in [Loan -> Status] /\ pending \in [Loan -> BOOLEAN]
      /\ (pending[l] => status[l] = "active")
  BY DEF LoansOK, ClosedHasNoPendingRequest
<1>3. CASE receivable'[l] <= 0 /\ ~due
  <2>1. status' = [status EXCEPT ![l] = "fully_paid"]
    BY <1>1, <1>3
  <2>2. CASE status[l] = "fully_paid"
    BY <1>1, <1>2, <1>3, <2>1, <2>2 DEF Status
  <2>3. CASE status[l] # "fully_paid"
    <3>1. pending' = [pending EXCEPT ![l] = FALSE]
      BY <1>1, <1>3, <2>3 DEF CancelPending
    <3> QED
      BY <1>2, <2>1, <3>1 DEF Status
  <2> QED
    BY <2>2, <2>3
<1>4. CASE ~(receivable'[l] <= 0 /\ ~due)
  <2>1. status' = [status EXCEPT ![l] = "active"] /\ pending' = pending
    BY <1>1, <1>4
  <2> QED
    BY <1>2, <2>1 DEF Status
<1> QED
  BY <1>3, <1>4

-----------------------------------------------------------------------------
(* Requests.                                                               *)

LEMMA EnterCreateStep == ASSUME IInv, NEW c \in Clerk, EnterCreate(c) PROVE IInv'
<1>1. req[c] \in Request
  BY DEF IInv, RequestsOK
<1> DEFINE r == [req[c] EXCEPT !.pc = "entered"]
<1>2. r \in Request /\ r.pc = "entered" /\ req' = [req EXCEPT ![c] = r]
  BY <1>1 DEF EnterCreate, Request
<1>3. req[c].pc = "idle"
  BY DEF EnterCreate, Idle
<1> HIDE DEF r
<1> QED
  BY <1>2, <1>3, RequestMoves DEF EnterCreate

\* A quote is a natural number: it is what the ledger carries.
LEMMA QuotesAreNatural ==
  ASSUME LoansOK, NEW l \in Loan
  PROVE  /\ Quotable(l) => CarriedPrincipal(l) \in Nat
         /\ Quote(l) \in Nat \cup {None}
<1>1. receivable[l] \in Int
  BY DEF LoansOK
<1>2. Quotable(l) => receivable[l] = CarriedPrincipal(l) /\ CarriedPrincipal(l) >= 0
  BY DEF Quotable
<1> QED
  BY <1>1, <1>2 DEF Quote

LEMMA EnterRolloverStep == ASSUME IInv, NEW c \in Clerk, EnterRollover(c) PROVE IInv'
<1>1. PICK l \in Active :
        /\ Quotable(l)
        /\ req' = [req EXCEPT ![c] = [Idle EXCEPT !.pc = "entered", !.loan = l,
                                                  !.quoted = CarriedPrincipal(l)]]
  BY DEF EnterRollover
<1>2. l \in Loan /\ CarriedPrincipal(l) \in Nat
  BY <1>1, QuotesAreNatural DEF Active, IInv
<1>3. PICK r : r = [Idle EXCEPT !.pc = "entered", !.loan = l, !.quoted = CarriedPrincipal(l)]
  OBVIOUS
<1>4. r \in Request /\ r.pc = "entered"
  BY <1>2, <1>3, IdleTyped DEF Request
<1>5. req[c].pc = "idle" /\ req' = [req EXCEPT ![c] = r]
  BY <1>1, <1>3, IdleTyped DEF EnterRollover
<1> QED
  BY <1>4, <1>5, RequestMoves DEF EnterRollover

LEMMA FindActiveStep == ASSUME IInv, NEW c \in Clerk, FindActive(c) PROVE IInv'
<1>1. req[c] \in Request /\ Active \in SUBSET Loan
  BY DEF IInv, RequestsOK, Active
<1>2. PICK r : r = [req[c] EXCEPT !.pc = "waiting", !.found = Active]
  OBVIOUS
<1>3. r \in Request /\ r.pc = "waiting" /\ req' = [req EXCEPT ![c] = r]
  BY <1>1, <1>2 DEF FindActive, Request, IInv, RequestsOK
<1> QED
  BY <1>3, RequestMoves DEF FindActive

LEMMA CheckSettlementStep == ASSUME IInv, NEW c \in Clerk, CheckSettlement(c) PROVE IInv'
<1>1. PICK l \in Loan : req' = [req EXCEPT ![c] = [Idle EXCEPT !.pc = "checked", !.loan = l]]
  BY DEF CheckSettlement
<1>2. PICK r : r = [Idle EXCEPT !.pc = "checked", !.loan = l]
  OBVIOUS
<1>3. r \in Request /\ r.pc = "checked" /\ r.loan = l
  BY <1>2, IdleTyped DEF Request
<1>4. req[c].pc = "idle" /\ req' = [req EXCEPT ![c] = r]
  BY <1>1, <1>2, IdleTyped DEF CheckSettlement
<1> QED
  BY <1>3, <1>4, RequestMoves DEF CheckSettlement

LEMMA ReadBalanceStep == ASSUME IInv, NEW c \in Clerk, ReadBalance(c) PROVE IInv'
<1>1. req[c] \in Request /\ req[c].pc = "checked" /\ req[c].loan \in Loan
  BY DEF IInv, RequestsOK, SettlementsHaveLoans, ReadBalance
<1>2. receivable[req[c].loan] \in Int
  BY <1>1 DEF IInv, LoansOK
<1>3. PICK r : r = [req[c] EXCEPT !.pc = "read", !.seen = receivable[req[c].loan]]
  OBVIOUS
<1>4. r \in Request /\ r.pc = "read" /\ r.loan = req[c].loan
  BY <1>1, <1>2, <1>3 DEF Request
<1>5. req' = [req EXCEPT ![c] = r]
  BY <1>3 DEF ReadBalance, IInv, RequestsOK
<1> QED
  BY <1>1, <1>4, <1>5, RequestMoves DEF ReadBalance

\* Taking the rows: they were free, and are active now.
LEMMA LockActiveStep == ASSUME IInv, NEW c \in Clerk, LockActive(c) PROVE IInv'
<1>1. PICK still : still = req[c].found \cap Active
  OBVIOUS
<1>2. req[c] \in Request /\ req[c].pc = "waiting"
  BY DEF LockActive, IInv, RequestsOK
<1>3. still \subseteq Loan /\ still \subseteq Active /\ still \subseteq req[c].found
  BY <1>1 DEF Active
<1>4. PICK carry : carry = IF req[c].loan \in still THEN Quote(req[c].loan) ELSE None
  OBVIOUS
<1>5. carry \in Nat \cup {None}
  BY <1>3, <1>4, QuotesAreNatural DEF IInv
<1>6. PICK r : r = [req[c] EXCEPT !.pc = "locked", !.found = still, !.carry = carry]
  OBVIOUS
<1>7. r \in Request /\ r.pc = "locked" /\ r.found = still
  BY <1>2, <1>3, <1>5, <1>6 DEF Request
<1>8. req' = [req EXCEPT ![c] = r]
  BY <1>1, <1>4, <1>6 DEF LockActive, IInv, RequestsOK
<1>9. /\ req' \in [Clerk -> Request]
      /\ \A d \in Clerk : req'[d] = IF d = c THEN r ELSE req[d]
  BY <1>7, <1>8 DEF IInv, RequestsOK
<1>10. /\ lock' \in [Loan -> Clerk \cup {None}]
       /\ \A l \in Loan : lock'[l] = IF l \in still THEN c ELSE lock[l]
  BY <1>1, <1>3 DEF LockActive, IInv, RequestsOK
<1>11. \A l \in still : lock[l] = None
  BY <1>3 DEF LockActive, RowFree
<1>12. ASSUME NEW l \in Loan, NEW d \in Clerk
       PROVE  lock'[l] = d <=> req'[d].pc = "locked" /\ l \in req'[d].found
  <2>1. lock[l] = d <=> req[d].pc = "locked" /\ l \in req[d].found
    BY DEF IInv, RequestsOK, LocksHeld
  <2>2. CASE d = c
    BY <1>2, <1>7, <1>9, <1>10, <2>1, <2>2
  <2>3. CASE d # c
    BY <1>9, <1>10, <1>11, <2>1, <2>3, Names
  <2> QED
    BY <2>2, <2>3
<1>13. SettlementsHaveLoans'
  BY <1>7, <1>9 DEF SettlementsHaveLoans, IInv, RequestsOK
<1>14. HeldAreActive'
  BY <1>3, <1>7, <1>9 DEF LockActive, HeldAreActive, Active, IInv
<1>15. LoansOK'
  BY LoansUnchanged DEF LockActive, IInv
<1> QED
  BY <1>9, <1>10, <1>12, <1>13, <1>14, <1>15 DEF IInv, RequestsOK, LocksHeld

LEMMA RollbackStep == ASSUME IInv, NEW c \in Clerk, Rollback(c) PROVE IInv'
<1>1. Release(c) /\ UNCHANGED <<status, from, principal, rolloverAmount, receivable, pending,
        payment>>
  BY DEF Rollback
<1>2. RequestsOK'
  BY <1>1, ReleaseKeeps DEF IInv
<1>3. HeldAreActive'
  BY <1>1, HeldStayActive, {} \in SUBSET Loan
<1> QED
  BY <1>1, <1>2, <1>3, LoansUnchanged DEF IInv

-----------------------------------------------------------------------------
(* Loans.                                                                  *)

\* A row that is the next one is not inserted yet.
LEMMA NextIsBlank ==
  ASSUME LoansOK, NEW n \in Loan, NextLoan(n)
  PROVE  /\ status[n] = "none" /\ from[n] = None
         /\ \A s \in Loan : from[s] # n
<1>1. n >= n
  BY DEF Loan
<1>2. status[n] = "none"
  BY <1>1 DEF NextLoan
<1> QED
  BY <1>2, Names DEF LoansOK, SourcesClosed

LEMMA IssueLoanStep == ASSUME IInv, NEW c \in Clerk, IssueLoan(c) PROVE IInv'
<1>1. PICK n \in Loan, a \in Fresh :
        /\ NextLoan(n)
        /\ status' = [status EXCEPT ![n] = "active"]
        /\ principal' = [principal EXCEPT ![n] = a]
        /\ receivable' = [receivable EXCEPT ![n] = a]
  BY DEF IssueLoan
<1>2. a \in Nat /\ a \in Int
  BY LifecycleAssumption
<1>3. status[n] = "none" /\ from[n] = None /\ \A s \in Loan : from[s] # n
  BY <1>1, NextIsBlank DEF IInv
<1>4. UNCHANGED <<from, rolloverAmount, pending, payment>> /\ Release(c)
  BY DEF IssueLoan
<1>5. /\ status' \in [Loan -> Status] /\ principal' \in [Loan -> Nat]
           /\ receivable' \in [Loan -> Int]
      /\ \A l \in Loan : /\ status'[l] = IF l = n THEN "active" ELSE status[l]
                         /\ l # n => receivable'[l] = receivable[l]
  BY <1>1, <1>2 DEF IInv, LoansOK, Status
<1>6. LoansOK'
  <2>1. PaymentsHaveLoans' /\ OneSuccessor' /\ ClosedHasNoPendingRequest'
    BY <1>4, <1>5 DEF IInv, LoansOK, PaymentsHaveLoans, OneSuccessor, ClosedHasNoPendingRequest
  <2>2. SourcesClosed'
    BY <1>3, <1>4, <1>5 DEF IInv, LoansOK, SourcesClosed
  <2>3. \A l \in Loan : status'[l] = "none" => from'[l] = None /\ receivable'[l] = 0
    BY <1>4, <1>5 DEF IInv, LoansOK
  <2> QED
    BY <1>4, <1>5, <2>1, <2>2, <2>3 DEF IInv, LoansOK
<1>7. RequestsOK'
  BY <1>4, ReleaseKeeps DEF IInv
<1>8. ASSUME NEW d \in Clerk
      PROVE  lock[n] # d
  BY <1>3 DEF IInv, RequestsOK, LocksHeld, HeldAreActive, Active
<1>9. HeldAreActive'
  <2>1. \A l \in {n} : lock[l] \in {None, c}
    BY <1>8 DEF IInv, RequestsOK
  <2>2. {n} \in SUBSET Loan /\ \A l \in Loan \ {n} : status'[l] = status[l]
    BY <1>5
  <2> QED
    BY <1>4, <2>1, <2>2, HeldStayActive
<1> QED
  BY <1>6, <1>7, <1>9 DEF IInv

\* The predecessor is held and active, so it has no successor yet.
LEMMA RollOverStep == ASSUME IInv, NEW c \in Clerk, RollOver(c) PROVE IInv'
<1>1. PICK old \in req[c].found : old = req[c].loan
  BY DEF RollOver
<1>2. PICK carry : carry = req[c].carry
  OBVIOUS
<1>3. PICK n \in Loan, a \in Fresh, i \in CarriedInterest :
        /\ NextLoan(n)
        /\ status' = [status EXCEPT ![n] = "active", ![old] = "rolled_over"]
        /\ from' = [from EXCEPT ![n] = old]
        /\ principal' = [principal EXCEPT ![n] = a + carry + i]
        /\ rolloverAmount' = [rolloverAmount EXCEPT ![n] = carry + i]
        /\ receivable' = [receivable EXCEPT ![n] = a + carry + i, ![old] = @ - carry]
        /\ CancelPending(old)
  BY <1>1, <1>2 DEF RollOver
<1>4. Release(c) /\ UNCHANGED payment
  BY DEF RollOver
<1>5. req[c].pc = "locked" /\ req[c] \in Request
  BY DEF RollOver, IInv, RequestsOK
<1>6. old \in Loan /\ status[old] = "active" /\ lock[old] = c
  BY <1>1, <1>5 DEF IInv, HeldAreActive, Active, RequestsOK, LocksHeld
<1>7. carry \in Nat
  BY <1>2, <1>5 DEF RollOver, Request
<1>8. a \in Nat /\ i \in Nat
  BY LifecycleAssumption
<1>9. status[n] = "none" /\ from[n] = None /\ (\A s \in Loan : from[s] # n)
  BY <1>3, NextIsBlank DEF IInv
<1>10. n # old /\ (\A s \in Loan : from[s] # old)
  BY <1>6, <1>9, Names DEF IInv, LoansOK, SourcesClosed
<1>11. a + carry + i \in Nat /\ carry + i \in Nat /\ a + carry + i \in Int
  BY <1>7, <1>8
<1>12. principal' \in [Loan -> Nat] /\ rolloverAmount' \in [Loan -> Nat]
  BY <1>3, <1>11 DEF IInv, LoansOK
<1>13. /\ receivable' \in [Loan -> Int]
       /\ \A l \in Loan \ {n, old} : receivable'[l] = receivable[l]
  <2>1. receivable[old] - carry \in Int
    BY <1>6, <1>7 DEF IInv, LoansOK
  <2>2. receivable' = [receivable EXCEPT ![n] = a + carry + i, ![old] = receivable[old] - carry]
    BY <1>3, <1>10 DEF IInv, LoansOK
  <2> QED
    BY <1>11, <2>1, <2>2 DEF IInv, LoansOK
<1>14. /\ status' \in [Loan -> Status]
       /\ \A l \in Loan : status'[l] = IF l = old THEN "rolled_over"
                                       ELSE IF l = n THEN "active" ELSE status[l]
  BY <1>3, <1>6, <1>10 DEF IInv, LoansOK, Status
<1>15. /\ from' \in [Loan -> Loan \cup {None}]
       /\ \A l \in Loan : from'[l] = IF l = n THEN old ELSE from[l]
  BY <1>3, <1>6 DEF IInv, LoansOK
<1>16. /\ pending' \in [Loan -> BOOLEAN]
       /\ \A l \in Loan : pending'[l] => l # old /\ pending[l]
  BY <1>3, <1>6 DEF CancelPending, IInv, LoansOK
<1>17. LoansOK'
  <2>1. PaymentsHaveLoans'
    BY <1>4 DEF IInv, LoansOK, PaymentsHaveLoans
  <2>2. SourcesClosed'
    BY <1>9, <1>10, <1>14, <1>15 DEF IInv, LoansOK, SourcesClosed
  <2>3. OneSuccessor'
    BY <1>10, <1>15 DEF IInv, LoansOK, OneSuccessor
  <2>4. ClosedHasNoPendingRequest'
    BY <1>14, <1>16 DEF IInv, LoansOK, ClosedHasNoPendingRequest
  <2>5. \A l \in Loan : status'[l] = "none" => from'[l] = None /\ receivable'[l] = 0
    BY <1>13, <1>14, <1>15 DEF IInv, LoansOK
  <2> QED
    BY <1>4, <1>12, <1>13, <1>14, <1>15, <1>16, <2>1, <2>2, <2>3, <2>4, <2>5 DEF IInv, LoansOK
<1>18. RequestsOK'
  BY <1>4, ReleaseKeeps DEF IInv
<1>19. HeldAreActive'
  <2>1. \A d \in Clerk : lock[n] # d
    BY <1>9 DEF IInv, RequestsOK, LocksHeld, HeldAreActive, Active
  <2>2. \A l \in {n, old} : lock[l] \in {None, c}
    BY <1>6, <2>1 DEF IInv, RequestsOK
  <2>3. {n, old} \in SUBSET Loan /\ \A l \in Loan \ {n, old} : status'[l] = status[l]
    BY <1>6, <1>14
  <2> QED
    BY <1>4, <2>2, <2>3, HeldStayActive
<1> QED
  BY <1>17, <1>18, <1>19 DEF IInv

LEMMA SettleStep == ASSUME IInv, NEW c \in Clerk, SettleWithCollateral(c) PROVE IInv'
<1>1. PICK l \in Loan : l = req[c].loan
  BY DEF SettleWithCollateral, IInv, RequestsOK, SettlementsHaveLoans
<1>2. req[c].seen \in Int
  BY DEF IInv, RequestsOK, Request
<1>3. /\ Release(c) /\ RowFree(l)
      /\ status' = [status EXCEPT ![l] = "settled_with_collateral"]
      /\ receivable' = [receivable EXCEPT ![l] = IF req[c].seen > 0 THEN @ - req[c].seen ELSE @]
      /\ CancelPending(l)
      /\ UNCHANGED <<from, principal, rolloverAmount, payment>>
  BY <1>1 DEF SettleWithCollateral
<1>4. /\ status' \in [Loan -> Status]
      /\ \A k \in Loan : status'[k] = IF k = l THEN "settled_with_collateral" ELSE status[k]
  BY <1>3 DEF IInv, LoansOK, Status
<1>5. receivable' \in [Loan -> Int] /\ \A k \in Loan \ {l} : receivable'[k] = receivable[k]
  BY <1>2, <1>3 DEF IInv, LoansOK
<1>6. pending' \in [Loan -> BOOLEAN] /\ \A k \in Loan : pending'[k] => k # l /\ pending[k]
  BY <1>3 DEF CancelPending, IInv, LoansOK
<1>7. LoansOK'
  <2>1. PaymentsHaveLoans' /\ OneSuccessor'
    BY <1>3 DEF IInv, LoansOK, PaymentsHaveLoans, OneSuccessor
  <2>2. SourcesClosed' /\ ClosedHasNoPendingRequest'
    BY <1>3, <1>4, <1>6, Names DEF IInv, LoansOK, SourcesClosed, ClosedHasNoPendingRequest
  <2>3. \A k \in Loan : status'[k] = "none" => from'[k] = None /\ receivable'[k] = 0
    BY <1>3, <1>4, <1>5 DEF IInv, LoansOK
  <2> QED
    BY <1>3, <1>4, <1>5, <1>6, <2>1, <2>2, <2>3 DEF IInv, LoansOK
<1>8. RequestsOK'
  BY <1>3, ReleaseKeeps DEF IInv
<1>9. HeldAreActive'
  <2>1. \A k \in {l} : lock[k] \in {None, c}
    BY <1>3 DEF RowFree
  <2>2. {l} \in SUBSET Loan /\ \A k \in Loan \ {l} : status'[k] = status[k]
    BY <1>4
  <2> QED
    BY <1>3, <2>1, <2>2, HeldStayActive
<1> QED
  BY <1>7, <1>8, <1>9 DEF IInv

\* A payment, its deletion: one loan that may be corrected changes, and ends
\* active or paid.
LEMMA PaymentStep ==
  ASSUME IInv, NEW l \in Loan, RowFree(l), CorrectionAllowed(l), CloseOrReopen(l, "active"),
         NEW x \in Int, receivable' = [receivable EXCEPT ![l] = x],
         payment' \in [Payment -> PaymentRow], PaymentsHaveLoans',
         UNCHANGED <<from, principal, rolloverAmount, lock, req>>
  PROVE  IInv'
<1>1. /\ status' \in [Loan -> Status] /\ pending' \in [Loan -> BOOLEAN]
      /\ status'[l] \in {"active", "fully_paid"}
      /\ \A k \in Loan \ {l} : status'[k] = status[k] /\ pending'[k] = pending[k]
      /\ pending'[l] => status'[l] = "active"
  BY Closing DEF IInv
<1>2. status[l] \in {"active", "fully_paid"}
  BY DEF CorrectionAllowed
<1>3. receivable' \in [Loan -> Int] /\ \A k \in Loan \ {l} : receivable'[k] = receivable[k]
  BY DEF IInv, LoansOK
<1>4. SourcesClosed'
  BY <1>1, <1>2 DEF IInv, LoansOK, SourcesClosed
<1>5. OneSuccessor' /\ ClosedHasNoPendingRequest'
  BY <1>1 DEF IInv, LoansOK, OneSuccessor, ClosedHasNoPendingRequest
<1>6. \A k \in Loan : status'[k] = "none" => from'[k] = None /\ receivable'[k] = 0
  BY <1>1, <1>3 DEF IInv, LoansOK
<1>7. LoansOK'
  BY <1>1, <1>3, <1>4, <1>5, <1>6 DEF IInv, LoansOK
<1>8. RequestsOK' /\ HeldAreActive'
  BY <1>1, FreeRowChanges
<1> QED
  BY <1>7, <1>8 DEF IInv

LEMMA RecordPaymentStep == ASSUME IInv, NEW l \in Loan, RecordPayment(l) PROVE IInv'
<1>1. PICK p \in Payment, x \in 0..receivable[l] :
        /\ payment' = [payment EXCEPT ![p] = [state |-> "live", loan |-> l, principal |-> x]]
        /\ receivable' = [receivable EXCEPT ![l] = @ - x]
  BY DEF RecordPayment
<1>2. receivable[l] \in Int
  BY DEF IInv, LoansOK
<1>3. x \in Nat /\ receivable[l] - x \in Int
  BY <1>1, <1>2
<1>4. payment' \in [Payment -> PaymentRow] /\ PaymentsHaveLoans'
  BY <1>1, <1>3 DEF IInv, LoansOK, PaymentRow, PaymentsHaveLoans
<1>5. CorrectionAllowed(l)
  BY DEF RecordPayment, Operational, CorrectionAllowed
<1> QED
  BY <1>1, <1>3, <1>4, <1>5, PaymentStep DEF RecordPayment

LEMMA DeletePaymentStep == ASSUME IInv, NEW p \in Payment, DeletePayment(p) PROVE IInv'
<1>1. PICK l \in Loan : l = payment[p].loan
  BY DEF DeletePayment, IInv, LoansOK, PaymentsHaveLoans
<1>2. /\ RowFree(l) /\ CorrectionAllowed(l) /\ CloseOrReopen(l, "active")
      /\ receivable' = [receivable EXCEPT ![l] = @ + PrincipalToReverse(p)]
      /\ payment' = [payment EXCEPT ![p].state = "deleted", ![p].principal = 0]
      /\ UNCHANGED <<from, principal, rolloverAmount, lock, req>>
  BY <1>1 DEF DeletePayment
<1>3. payment[p] \in PaymentRow /\ receivable[l] + PrincipalToReverse(p) \in Int
  BY DEF IInv, LoansOK, PaymentRow, PrincipalToReverse
<1>4. PICK r : r = [payment[p] EXCEPT !.state = "deleted", !.principal = 0]
  OBVIOUS
<1>5. r \in PaymentRow /\ r.loan = payment[p].loan
  BY <1>3, <1>4 DEF PaymentRow
<1>6. payment' = [payment EXCEPT ![p] = r]
  BY <1>2, <1>4 DEF IInv, LoansOK
<1>7. payment' \in [Payment -> PaymentRow] /\ PaymentsHaveLoans'
  BY <1>1, <1>5, <1>6 DEF IInv, LoansOK, PaymentsHaveLoans
<1> QED
  BY <1>2, <1>3, <1>7, PaymentStep

\* A step on pending requests alone.
LEMMA PendingStep ==
  ASSUME IInv, pending' \in [Loan -> BOOLEAN],
         \A l \in Loan : pending'[l] => status[l] = "active",
         UNCHANGED <<status, from, principal, rolloverAmount, receivable, payment, lock, req>>
  PROVE  IInv'
<1>1. LoansOK'
  BY DEF IInv, LoansOK, PaymentsHaveLoans, SourcesClosed, OneSuccessor, ClosedHasNoPendingRequest
<1>2. RequestsOK' /\ HeldAreActive'
  BY DEF IInv, RequestsOK, LocksHeld, SettlementsHaveLoans, HeldAreActive, Active
<1> QED
  BY <1>1, <1>2 DEF IInv

LEMMA RequestRateChangeStep == ASSUME IInv, NEW l \in Loan, RequestRateChange(l) PROVE IInv'
<1>1. pending' = [pending EXCEPT ![l] = TRUE] /\ status[l] = "active"
  BY DEF RequestRateChange, Operational
<1>2. pending' \in [Loan -> BOOLEAN] /\ \A k \in Loan : pending'[k] => status[k] = "active"
  BY <1>1 DEF IInv, LoansOK, ClosedHasNoPendingRequest
<1> QED
  BY <1>2, PendingStep DEF RequestRateChange

LEMMA ReviewRateChangeStep == ASSUME IInv, NEW l \in Loan, ReviewRateChange(l) PROVE IInv'
<1>1. pending' \in [Loan -> BOOLEAN] /\ \A k \in Loan : pending'[k] => status[k] = "active"
  BY DEF ReviewRateChange, CancelPending, IInv, LoansOK, ClosedHasNoPendingRequest
<1> QED
  BY <1>1, PendingStep DEF ReviewRateChange

LEMMA IInvStep == ASSUME IInv, [Next]_vars PROVE IInv'
<1>1. ASSUME NEW c \in Clerk, Create(c) PROVE IInv'
  BY <1>1, EnterCreateStep, EnterRolloverStep, FindActiveStep, LockActiveStep, IssueLoanStep,
     RollOverStep DEF Create
<1>2. ASSUME NEW c \in Clerk, Settle(c) PROVE IInv'
  BY <1>2, CheckSettlementStep, ReadBalanceStep, SettleStep DEF Settle
<1>3. CASE UNCHANGED vars
  BY <1>3 DEF vars, IInv, LoansOK, PaymentsHaveLoans, SourcesClosed, OneSuccessor,
     ClosedHasNoPendingRequest, RequestsOK, LocksHeld, SettlementsHaveLoans, HeldAreActive, Active
<1> QED
  BY <1>1, <1>2, <1>3, RollbackStep, RecordPaymentStep, DeletePaymentStep,
     RequestRateChangeStep, ReviewRateChangeStep DEF Next

LEMMA IInvAlways == Spec => []IInv
<1>1. IInv /\ [Next]_vars => IInv'
  BY IInvStep
<1> QED
  BY InitIInv, <1>1, PTL DEF Spec

-----------------------------------------------------------------------------
(* The theorems.                                                           *)

\* Every variable keeps its type, and a row is locked by exactly the createLoan
\* that found it.
THEOREM TypeCorrect == Spec => []TypeOK
BY IInvAlways, IInvIsTyped, PTL

\* However many rollovers of a loan race (createLoan's FOR UPDATE and its second
\* look), the loan gets one successor.
THEOREM RolledOverOnce == Spec => []OneSuccessor
<1>1. IInv => OneSuccessor
  BY DEF IInv, LoansOK
<1> QED
  BY IInvAlways, <1>1, PTL

\* Every path that takes a loan out of operation cancels its pending request
\* (cancelPendingRateChangeRequestsForLoan), whatever else is under way.
THEOREM NoRequestOutlivesItsLoan == Spec => []ClosedHasNoPendingRequest
<1>1. IInv => ClosedHasNoPendingRequest
  BY DEF IInv, LoansOK
<1> QED
  BY IInvAlways, <1>1, PTL

\* No step brings back a loan that was rolled over or settled with collateral.
LEMMA ClosedStaysClosed ==
  ASSUME IInv, [Next]_vars, NEW l \in Loan,
         status[l] \in {"rolled_over", "settled_with_collateral"}
  PROVE  status'[l] \in {"rolled_over", "settled_with_collateral"}
<1>1. ASSUME NEW c \in Clerk, Create(c)
      PROVE  status'[l] \in {"rolled_over", "settled_with_collateral"}
  <2>1. ASSUME IssueLoan(c) PROVE status'[l] = status[l]
    <3>1. PICK n \in Loan : NextLoan(n) /\ status' = [status EXCEPT ![n] = "active"]
      BY <2>1 DEF IssueLoan
    <3>2. status[n] = "none"
      BY <3>1, NextIsBlank DEF IInv
    <3> QED
      BY <3>1, <3>2 DEF IInv, LoansOK
  <2>2. ASSUME RollOver(c) PROVE status'[l] \in {status[l], "rolled_over"}
    <3>1. PICK n \in Loan : NextLoan(n) /\ status' = [status EXCEPT ![n] = "active",
                                                          ![req[c].loan] = "rolled_over"]
      BY <2>2 DEF RollOver
    <3>2. status[n] = "none"
      BY <3>1, NextIsBlank DEF IInv
    <3> QED
      BY <3>1, <3>2 DEF IInv, LoansOK
  <2> QED
    BY <1>1, <2>1, <2>2 DEF Create, EnterCreate, EnterRollover, FindActive, LockActive
<1>2. ASSUME NEW c \in Clerk, Settle(c)
      PROVE  status'[l] \in {"rolled_over", "settled_with_collateral"}
  BY <1>2 DEF Settle, CheckSettlement, ReadBalance, SettleWithCollateral, IInv, LoansOK
<1>3. ASSUME NEW k \in Loan, CorrectionAllowed(k), CloseOrReopen(k, "active")
      PROVE  status'[l] = status[l]
  BY <1>3, Closing DEF IInv, CorrectionAllowed
<1>4. ASSUME NEW k \in Loan, RecordPayment(k) PROVE status'[l] = status[l]
  BY <1>3, <1>4 DEF RecordPayment, Operational, CorrectionAllowed
<1>5. ASSUME NEW p \in Payment, DeletePayment(p) PROVE status'[l] = status[l]
  BY <1>3, <1>5 DEF DeletePayment, IInv, LoansOK, PaymentsHaveLoans
<1> QED
  BY <1>1, <1>2, <1>4, <1>5 DEF Next, Rollback, RequestRateChange, ReviewRateChange, vars

\* Rolling over and seizing collateral are final: no interleaving of payments,
\* corrections and settlements makes such a loan operational or paid again.
THEOREM ClosingIsFinal == Spec => ClosedForGood
<1>1. IInv /\ [Next]_vars =>
        [\A l \in Loan : status[l] \in {"rolled_over", "settled_with_collateral"}
                           => status'[l] \notin {"none", "active", "fully_paid"}]_vars
  BY ClosedStaysClosed
<1> QED
  BY IInvAlways, <1>1, PTL DEF Spec, ClosedForGood

-----------------------------------------------------------------------------
(* Sums over a finite set.                                                 *)

\* A non-empty set of naturals has a least element.
LEMMA LeastNatural ==
  ASSUME NEW T \in SUBSET Nat, T # {}
  PROVE  \E n \in T : \A m \in T : n <= m
<1>1. PICK n \in T : \A m \in T : ~ (<<m, n>> \in OpToRel(<, Nat))
  BY NatLessThanWellFounded, WFMin
<1>2. ASSUME NEW m \in T PROVE n <= m
  <2>1. ~ (m < n)
    BY <1>1 DEF OpToRel
  <2> QED
    BY <2>1
<1> QED
  BY <1>2

\* Induction on finite sets, first order: of the subsets of a finite set that
\* violate something, one has no proper subset that does.
LEMMA LeastSubset ==
  ASSUME NEW S, IsFiniteSet(S), NEW B \in SUBSET (SUBSET S), B # {}
  PROVE  \E s \in B : \A t \in SUBSET s : t \in B => t = s
<1> DEFINE N == {Cardinality(s) : s \in B}
<1>1. \A s \in SUBSET S : IsFiniteSet(s) /\ Cardinality(s) \in Nat
  BY FS_Subset, FS_CardinalityType
<1>2. N \in SUBSET Nat /\ N # {}
  BY <1>1
<1> HIDE DEF N
<1>3. PICK n \in N : \A m \in N : n <= m
  BY <1>2, LeastNatural
<1>4. PICK s \in B : n = Cardinality(s)
  BY DEF N
<1>5. ASSUME NEW t \in SUBSET s, t \in B PROVE t = s
  <2>1. Cardinality(t) \in N
    BY <1>5 DEF N
  <2>2. n <= Cardinality(t)
    BY <2>1, <1>3
  <2>3. IsFiniteSet(s) /\ Cardinality(t) <= Cardinality(s)
    BY <1>1, FS_Subset
  <2>4. Cardinality(t) = Cardinality(s)
    BY <2>2, <2>3, <1>4, <1>1
  <2> QED
    BY <2>3, <2>4, FS_Subset
<1> QED
  BY <1>5

-----------------------------------------------------------------------------

Pick(s) == CHOOSE x \in s : TRUE
\* g gives the sum of f over every subset of S, taking elements out by Pick.
Summing(g, f, S) ==
  g = [s \in SUBSET S |-> IF s = {} THEN 0 ELSE f[Pick(s)] + g[s \ {Pick(s)}]]
Summed(f, S) == CHOOSE g : Summing(g, f, S)

LEMMA PickIn == ASSUME NEW s, s # {} PROVE Pick(s) \in s
BY DEF Pick

LEMMA SumUnfolds == ASSUME NEW f, NEW S PROVE SumFunctionOnSet(f, S) = Summed(f, S)[S]
BY DEF SumFunctionOnSet, FoldFunctionOnSet, MapThenFoldSet, Summed, Summing, Pick

\* g sums f over S, k sums h over U, and on T they sum the same.
Agreeing(g, f, S, k, h, U, T) ==
  /\ Summing(g, f, S) /\ Summing(k, h, U)
  /\ T \subseteq S /\ T \subseteq U
  /\ \A x \in T : f[x] = h[x]

\* Then they agree on T.
LEMMA SumsAgree ==
  ASSUME NEW g, NEW f, NEW S, NEW k, NEW h, NEW U, NEW T, IsFiniteSet(T),
         Agreeing(g, f, S, k, h, U, T)
  PROVE  g[T] = k[T]
<1> DEFINE B == {t \in SUBSET T : g[t] # k[t]}
<1>1. SUFFICES ASSUME B # {} PROVE FALSE
  OBVIOUS
<1>2. PICK s \in B : \A t \in SUBSET s : t \in B => t = s
  <2>1. B \in SUBSET (SUBSET T)
    OBVIOUS
  <2> HIDE DEF B
  <2> QED
    BY <1>1, <2>1, LeastSubset
<1>3. /\ g[s] = IF s = {} THEN 0 ELSE f[Pick(s)] + g[s \ {Pick(s)}]
      /\ k[s] = IF s = {} THEN 0 ELSE h[Pick(s)] + k[s \ {Pick(s)}]
  <2>1. s \in SUBSET S /\ s \in SUBSET U
    BY DEF Agreeing
  <2> QED
    BY <2>1 DEF Summing, Agreeing
<1>4. CASE s = {}
  BY <1>3, <1>4
<1>5. CASE s # {}
  <2>1. Pick(s) \in s
    BY <1>5, PickIn
  <2>2. s \ {Pick(s)} \notin B
    BY <1>2, <2>1
  <2>3. g[s \ {Pick(s)}] = k[s \ {Pick(s)}] /\ f[Pick(s)] = h[Pick(s)]
    BY <2>1, <2>2 DEF Agreeing
  <2> QED
    BY <1>3, <1>5, <2>3
<1> QED
  BY <1>4, <1>5

\* Every finite set has a summation.
LEMMA SumsExist ==
  ASSUME NEW f, NEW S, IsFiniteSet(S)
  PROVE  Summing(Summed(f, S), f, S)
<1> DEFINE Has(s) == \E g : Summing(g, f, s)
           B == {s \in SUBSET S : ~Has(s)}
<1>1. SUFFICES ASSUME B # {} PROVE FALSE
  <2>1. Has(S)
    BY <1>1
  <2> QED
    BY <2>1 DEF Summed
<1>2. PICK s \in B : \A t \in SUBSET s : t \in B => t = s
  <2>1. B \in SUBSET (SUBSET S)
    OBVIOUS
  <2> HIDE DEF B
  <2> QED
    BY <1>1, <2>1, LeastSubset
<1>3. \A t \in SUBSET s : t # s => Summing(Summed(f, t), f, t)
  BY <1>2 DEF Summed
<1>4. \A t \in SUBSET s : IsFiniteSet(t)
  BY FS_Subset
<1> DEFINE Value(t) == Summed(f, t)[t]
           Rest(t) == t \ {Pick(t)}
<1>5. ASSUME NEW t \in SUBSET s, t # s
      PROVE  Value(t) = IF t = {} THEN 0 ELSE f[Pick(t)] + Value(Rest(t))
  <2>1. Summed(f, t)[t] = IF t = {} THEN 0 ELSE f[Pick(t)] + Summed(f, t)[Rest(t)]
    BY <1>3, <1>5 DEF Summing
  <2>2. Summing(Summed(f, t), f, t) /\ Summing(Summed(f, Rest(t)), f, Rest(t))
    <3>1. Rest(t) # s
      BY <1>5
    <3> QED
      BY <1>3, <1>5, <3>1
  <2>3. Summed(f, t)[Rest(t)] = Summed(f, Rest(t))[Rest(t)]
    <3>1. Rest(t) \subseteq t /\ IsFiniteSet(Rest(t))
      BY <1>4
    <3> HIDE DEF Rest
    <3>2. Agreeing(Summed(f, t), f, t, Summed(f, Rest(t)), f, Rest(t), Rest(t))
      BY <2>2, <3>1 DEF Agreeing
    <3> QED
      BY <3>1, <3>2, SumsAgree
  <2> QED
    BY <2>1, <2>3
<1> HIDE DEF Value
<1> DEFINE g == [t \in SUBSET s |->
                   IF t = s THEN (IF s = {} THEN 0 ELSE f[Pick(s)] + Value(Rest(s)))
                            ELSE Value(t)]
<1>6. \A t \in SUBSET s : t # {} => Rest(t) \in SUBSET s /\ Rest(t) # s
  BY PickIn
<1>7. ASSUME NEW t \in SUBSET s
      PROVE  g[t] = IF t = {} THEN 0 ELSE f[Pick(t)] + g[Rest(t)]
  <2>1. CASE t = {}
    BY <1>5, <2>1
  <2>2. CASE t # {}
    <3>1. g[Rest(t)] = Value(Rest(t))
      BY <1>6, <2>2
    <3>2. g[t] = f[Pick(t)] + Value(Rest(t))
      BY <1>5, <2>2
    <3> QED
      BY <2>2, <3>1, <3>2
  <2> QED
    BY <2>1, <2>2
<1>8. Summing(g, f, s)
  <2>1. g = [t \in SUBSET s |-> IF t = {} THEN 0 ELSE f[Pick(t)] + g[Rest(t)]]
    <3>1. g = [t \in SUBSET s |-> g[t]]
      OBVIOUS
    <3> HIDE DEF g
    <3> QED
      BY <1>7, <3>1
  <2> QED
    BY <2>1 DEF Summing
<1> QED
  BY <1>2, <1>8

\* A sum is its chosen element and the sum of the rest.
LEMMA SumPicks ==
  ASSUME NEW f, NEW S, IsFiniteSet(S)
  PROVE  Summed(f, S)[S] = IF S = {} THEN 0
                           ELSE f[Pick(S)] + Summed(f, S \ {Pick(S)})[S \ {Pick(S)}]
<1> DEFINE R == S \ {Pick(S)}
<1>1. IsFiniteSet(R) /\ R \in SUBSET S
  BY FS_Subset
<1>2. Summing(Summed(f, S), f, S) /\ Summing(Summed(f, R), f, R)
  BY <1>1, SumsExist
<1>3. Summed(f, S)[S] = IF S = {} THEN 0 ELSE f[Pick(S)] + Summed(f, S)[R]
  BY <1>2 DEF Summing
<1>4. Summed(f, S)[R] = Summed(f, R)[R]
  <2>1. Agreeing(Summed(f, S), f, S, Summed(f, R), f, R, R)
    BY <1>1, <1>2 DEF Agreeing
  <2> QED
    BY <1>1, <2>1, SumsAgree
<1> QED
  BY <1>3, <1>4

\* Any summation of the set gives its sum.
LEMMA SumIs ==
  ASSUME NEW f, NEW S, IsFiniteSet(S), NEW g, Summing(g, f, S)
  PROVE  SumFunctionOnSet(f, S) = g[S]
<1>1. Summing(Summed(f, S), f, S)
  BY SumsExist
<1>2. Agreeing(Summed(f, S), f, S, g, f, S, S)
  BY <1>1 DEF Agreeing
<1> QED
  BY <1>2, SumsAgree, SumUnfolds

LEMMA SumOfNone == ASSUME NEW f PROVE SumFunctionOnSet(f, {}) = 0
BY SumPicks, SumUnfolds, FS_EmptySet

LEMMA SumCongruent ==
  ASSUME NEW f, NEW h, NEW S, IsFiniteSet(S), \A x \in S : f[x] = h[x]
  PROVE  SumFunctionOnSet(f, S) = SumFunctionOnSet(h, S)
<1>1. Summing(Summed(f, S), f, S) /\ Summing(Summed(h, S), h, S)
  BY SumsExist
<1>2. Agreeing(Summed(f, S), f, S, Summed(h, S), h, S, S)
  BY <1>1 DEF Agreeing
<1> QED
  BY <1>2, SumsAgree, SumUnfolds

LEMMA SumTyped ==
  ASSUME NEW f, NEW S, IsFiniteSet(S), \A x \in S : f[x] \in Int
  PROVE  SumFunctionOnSet(f, S) \in Int
<1> DEFINE Value(s) == SumFunctionOnSet(f, s)
           B == {s \in SUBSET S : Value(s) \notin Int}
<1>1. SUFFICES ASSUME B # {} PROVE FALSE
  OBVIOUS
<1>2. PICK s \in B : \A t \in SUBSET s : t \in B => t = s
  <2>1. B \in SUBSET (SUBSET S)
    OBVIOUS
  <2> HIDE DEF B
  <2> QED
    BY <1>1, <2>1, LeastSubset
<1>3. Value(s) = IF s = {} THEN 0 ELSE f[Pick(s)] + Value(s \ {Pick(s)})
  BY SumPicks, SumUnfolds, FS_Subset
<1>4. CASE s # {}
  <2>1. Pick(s) \in s
    BY <1>4, PickIn
  <2>2. Value(s \ {Pick(s)}) \in Int /\ f[Pick(s)] \in Int
    BY <1>2, <2>1
  <2> QED
    BY <1>3, <1>4, <2>2
<1> QED
  BY <1>3, <1>4

\* Any element may be taken out of a sum.
LEMMA SumRemove ==
  ASSUME NEW f, NEW S, IsFiniteSet(S), \A x \in S : f[x] \in Int, NEW x \in S
  PROVE  SumFunctionOnSet(f, S) = f[x] + SumFunctionOnSet(f, S \ {x})
<1> DEFINE Value(s) == SumFunctionOnSet(f, s)
           B == {s \in SUBSET S : \E y \in s : Value(s) # f[y] + Value(s \ {y})}
<1>1. SUFFICES ASSUME B # {} PROVE FALSE
  OBVIOUS
<1>2. PICK s \in B : \A t \in SUBSET s : t \in B => t = s
  <2>1. B \in SUBSET (SUBSET S)
    OBVIOUS
  <2> HIDE DEF B
  <2> QED
    BY <1>1, <2>1, LeastSubset
<1>3. PICK y \in s : Value(s) # f[y] + Value(s \ {y})
  BY <1>2
<1>4. \A t \in SUBSET s : IsFiniteSet(t) /\ Value(t) \in Int
  BY FS_Subset, SumTyped
<1> DEFINE p == Pick(s)
<1>5. Value(s) = f[p] + Value(s \ {p}) /\ p \in s
  BY <1>3, <1>4, SumPicks, SumUnfolds, PickIn
<1>6. p # y
  BY <1>3, <1>5
<1> HIDE DEF Value, p
<1>7. Value(s \ {p}) = f[y] + Value((s \ {p}) \ {y})
  <2>1. s \ {p} \in SUBSET s /\ s \ {p} # s /\ y \in s \ {p}
    BY <1>5, <1>6
  <2>2. s \ {p} \notin B
    BY <1>2, <2>1
  <2> QED
    BY <2>1, <2>2
<1>8. Value(s \ {y}) = f[p] + Value((s \ {y}) \ {p})
  <2>1. s \ {y} \in SUBSET s /\ s \ {y} # s /\ p \in s \ {y}
    BY <1>5, <1>6
  <2>2. s \ {y} \notin B
    BY <1>2, <2>1
  <2> QED
    BY <2>1, <2>2
<1>9. (s \ {p}) \ {y} = (s \ {y}) \ {p}
  OBVIOUS
<1>10. f[p] \in Int /\ f[y] \in Int /\ Value((s \ {y}) \ {p}) \in Int
  BY <1>4, <1>5
<1>11. Value(s) = f[p] + (f[y] + Value((s \ {y}) \ {p}))
  BY <1>5, <1>7, <1>9
<1>12. Value(s) = f[y] + (f[p] + Value((s \ {y}) \ {p}))
  BY <1>10, <1>11
<1> QED
  BY <1>3, <1>8, <1>12

-----------------------------------------------------------------------------
(* What a loan has repaid.                                                 *)

Paid(pay, l) == {p \in Payment : pay[p].state = "live" /\ pay[p].loan = l}
Repayments(pay) == [p \in Payment |-> pay[p].principal]
Total(pay, l) == SumFunctionOnSet(Repayments(pay), Paid(pay, l))

Adding(g, pay, S) ==
  g = [s \in SUBSET S |-> IF s = {} THEN 0 ELSE pay[Pick(s)].principal + g[s \ {Pick(s)}]]

LEMMA PaymentsFinite == IsFiniteSet(Payment) /\ \A S \in SUBSET Payment : IsFiniteSet(S)
<1>1. IsFiniteSet(Payment)
  BY LifecycleAssumption, FS_Interval DEF Payment
<1> QED
  BY <1>1, FS_Subset

LEMMA AddingIsSumming ==
  ASSUME NEW pay, NEW S \in SUBSET Payment
  PROVE  (CHOOSE g : Adding(g, pay, S))[S] = SumFunctionOnSet(Repayments(pay), S)
<1>1. IsFiniteSet(S)
  BY PaymentsFinite
<1>2. ASSUME NEW s \in SUBSET S, s # {} PROVE Repayments(pay)[Pick(s)] = pay[Pick(s)].principal
  BY <1>2, PickIn DEF Repayments
<1>3. Adding(Summed(Repayments(pay), S), pay, S)
  <2> DEFINE h == Summed(Repayments(pay), S)
  <2>1. Summing(h, Repayments(pay), S)
    BY <1>1, SumsExist
  <2> HIDE DEF h
  <2>2. h = [s \in SUBSET S |-> IF s = {} THEN 0 ELSE pay[Pick(s)].principal + h[s \ {Pick(s)}]]
    BY <1>2, <2>1 DEF Summing
  <2> QED
    BY <2>2 DEF Adding, h
<1> DEFINE k == CHOOSE g : Adding(g, pay, S)
<1>4. Adding(k, pay, S)
  BY <1>3
<1> HIDE DEF k
<1>5. Summing(k, Repayments(pay), S)
  BY <1>2, <1>4 DEF Adding, Summing
<1>6. k[S] = SumFunctionOnSet(Repayments(pay), S)
  BY <1>1, <1>5, SumIs
<1> QED
  BY <1>6 DEF k

LEMMA RepaidIsTotal ==
  ASSUME NEW l
  PROVE  Repaid(l) = Total(payment, l) /\ Repaid(l)' = Total(payment', l)
<1>1. Paid(payment, l) \in SUBSET Payment /\ Paid(payment', l) \in SUBSET Payment
  BY DEF Paid
<1>2. Repaid(l) = (CHOOSE g : Adding(g, payment, Paid(payment, l)))[Paid(payment, l)]
  BY DEF Repaid, MapThenSumSet, MapThenFoldSet, Adding, Paid, Pick
<1>3. Repaid(l)' = (CHOOSE g : Adding(g, payment', Paid(payment', l)))[Paid(payment', l)]
  BY DEF Repaid, MapThenSumSet, MapThenFoldSet, Adding, Paid, Pick
<1> QED
  BY <1>1, <1>2, <1>3, AddingIsSumming DEF Total

LEMMA TotalTyped ==
  ASSUME NEW pay \in [Payment -> PaymentRow], NEW l
  PROVE  Total(pay, l) \in Int
<1>1. IsFiniteSet(Paid(pay, l)) /\ \A p \in Paid(pay, l) : Repayments(pay)[p] \in Int
  BY PaymentsFinite DEF Paid, Repayments, PaymentRow
<1> QED
  BY <1>1, SumTyped DEF Total

\* A loan whose payments are the same has repaid the same.
LEMMA TotalSame ==
  ASSUME NEW pay, NEW new, NEW l, Paid(new, l) = Paid(pay, l),
         \A p \in Paid(pay, l) : new[p].principal = pay[p].principal
  PROVE  Total(new, l) = Total(pay, l)
<1>1. IsFiniteSet(Paid(pay, l)) /\ \A p \in Paid(pay, l) : Repayments(new)[p] = Repayments(pay)[p]
  BY PaymentsFinite DEF Paid, Repayments
<1> QED
  BY <1>1, SumCongruent DEF Total

\* One more payment adds its principal.
LEMMA TotalMore ==
  ASSUME NEW pay \in [Payment -> PaymentRow], NEW new \in [Payment -> PaymentRow], NEW l,
         NEW p \in Payment, p \notin Paid(pay, l), Paid(new, l) = Paid(pay, l) \cup {p},
         \A q \in Paid(pay, l) : new[q].principal = pay[q].principal
  PROVE  Total(new, l) = Total(pay, l) + new[p].principal
<1>1. IsFiniteSet(Paid(new, l)) /\ \A q \in Paid(new, l) : Repayments(new)[q] \in Int
  BY PaymentsFinite DEF Paid, Repayments, PaymentRow
<1>2. Paid(new, l) \ {p} = Paid(pay, l) /\ p \in Paid(new, l)
  OBVIOUS
<1>3. SumFunctionOnSet(Repayments(new), Paid(new, l))
        = new[p].principal + SumFunctionOnSet(Repayments(new), Paid(pay, l))
  <2>1. Repayments(new)[p] = new[p].principal
    BY DEF Repayments
  <2> QED
    BY <1>1, <1>2, <2>1, SumRemove
<1>4. SumFunctionOnSet(Repayments(new), Paid(pay, l)) = Total(pay, l)
  <2>1. IsFiniteSet(Paid(pay, l)) /\ \A q \in Paid(pay, l) : Repayments(new)[q] = Repayments(pay)[q]
    BY PaymentsFinite DEF Paid, Repayments
  <2> QED
    BY <2>1, SumCongruent DEF Total
<1>5. Total(pay, l) \in Int /\ new[p].principal \in Int
  BY TotalTyped DEF PaymentRow
<1> QED
  BY <1>3, <1>4, <1>5 DEF Total

\* What the statement derives of a loan, now and after a step.
LEMMA CarriedIs ==
  ASSUME NEW l
  PROVE  /\ CarriedPrincipal(l) = principal[l] - Total(payment, l)
         /\ CarriedPrincipal(l)' = principal'[l] - Total(payment', l)
BY RepaidIsTotal DEF CarriedPrincipal

LEMMA CarriedTyped ==
  ASSUME LoansOK, NEW l \in Loan
  PROVE  CarriedPrincipal(l) \in Int /\ receivable[l] \in Int /\ principal[l] \in Int
BY CarriedIs, TotalTyped DEF LoansOK

-----------------------------------------------------------------------------
(* The books.                                                              *)

\* A payment is of a loan that was issued.
PaymentsOfIssued == \A p \in Payment : payment[p].state # "none" => status[payment[p].loan] # "none"

\* What a rollover computed under the lock is still what the loan owes.
QuoteStands(r) ==
  r.pc = "locked" /\ r.loan \in r.found /\ r.carry # None =>
    r.carry = CarriedPrincipal(r.loan) /\ receivable[r.loan] = r.carry
QuotesStand == \A c \in Clerk : QuoteStands(req[c])

Books == IInv /\ PaymentsOfIssued /\ QuotesStand /\ LedgerFollowsTerms /\ RolloverCarriesWhatWasOwed

\* Loans that are not in S keep their books.
BooksKept(S) ==
  \A k \in Loan \ S : /\ receivable'[k] = receivable[k]
                      /\ CarriedPrincipal(k)' = CarriedPrincipal(k)

\* Whoever holds a row keeps its quote through the steps of the others.
LEMMA QuotesKept ==
  ASSUME Books, NEW S \in SUBSET Loan, BooksKept(S), NEW c \in Clerk,
         \A l \in S : lock[l] # c, req'[c] = req[c]
  PROVE  QuoteStands(req[c])'
<1> DEFINE r == req[c]
<1>1. CASE r.pc = "locked" /\ r.loan \in r.found /\ r.carry # None
  <2>1. r.loan \in Loan /\ lock[r.loan] = c
    BY <1>1 DEF Books, IInv, HeldAreActive, Active, RequestsOK, LocksHeld
  <2>2. r.loan \notin S
    BY <2>1
  <2>3. r.carry = CarriedPrincipal(r.loan) /\ receivable[r.loan] = r.carry
    BY <1>1 DEF Books, QuotesStand, QuoteStands
  <2>4. receivable'[r.loan] = receivable[r.loan]
          /\ CarriedPrincipal(r.loan)' = CarriedPrincipal(r.loan)
    BY <2>1, <2>2 DEF BooksKept
  <2> QED
    BY <2>3, <2>4 DEF QuoteStands
<1>2. CASE ~(r.pc = "locked" /\ r.loan \in r.found /\ r.carry # None)
  BY <1>2 DEF QuoteStands
<1> QED
  BY <1>1, <1>2

\* A step that leaves the tables alone leaves their books alone.
LEMMA TablesUnchanged ==
  ASSUME Books, UNCHANGED <<status, from, principal, rolloverAmount, receivable, payment>>
  PROVE  /\ BooksKept({}) /\ PaymentsOfIssued'
         /\ LedgerFollowsTerms' /\ RolloverCarriesWhatWasOwed'
<1>1. \A k \in Loan : CarriedPrincipal(k)' = CarriedPrincipal(k)
  BY CarriedIs
<1>2. PaymentsOfIssued'
  BY DEF Books, PaymentsOfIssued
<1>3. LedgerFollowsTerms'
  BY <1>1 DEF Books, LedgerFollowsTerms, CorrectionAllowed
<1>4. RolloverCarriesWhatWasOwed'
  BY <1>1 DEF Books, RolloverCarriesWhatWasOwed, Successors
<1> QED
  BY <1>1, <1>2, <1>3, <1>4 DEF BooksKept

\* A step of one request that is not about to commit afterwards.
LEMMA RequestKeepsBooks ==
  ASSUME Books, IInv', NEW c \in Clerk,
         UNCHANGED <<status, from, principal, rolloverAmount, receivable, payment>>,
         \A d \in Clerk \ {c} : req'[d] = req[d],
         QuoteStands(req[c])'
  PROVE  Books'
<1>1. \A d \in Clerk \ {c} : QuoteStands(req[d])'
  BY TablesUnchanged, QuotesKept
<1> QED
  BY <1>1, TablesUnchanged DEF Books, QuotesStand

\* The carry is computed under the lock: it is what the loan owes.
LEMMA LockActiveBooks == ASSUME Books, NEW c \in Clerk, LockActive(c) PROVE Books'
<1>1. IInv'
  BY LockActiveStep DEF Books
<1>2. req[c] \in Request /\ \A d \in Clerk \ {c} : req'[d] = req[d]
  BY DEF Books, IInv, RequestsOK, LockActive
<1>3. PICK still : still = req[c].found \cap Active
  OBVIOUS
<1>4. /\ req'[c].loan = req[c].loan /\ req'[c].found = still
      /\ req'[c].carry = IF req[c].loan \in still THEN Quote(req[c].loan) ELSE None
  BY <1>2, <1>3 DEF LockActive, Books, IInv, RequestsOK, Request
<1>5. UNCHANGED <<status, from, principal, rolloverAmount, receivable, payment>>
  BY DEF LockActive
<1>6. QuoteStands(req[c])'
  <2> DEFINE l == req[c].loan
  <2>1. CASE l \in still /\ Quotable(l)
    <3>1. PICK k \in Loan : k = l
      BY <1>3, <2>1 DEF Active
    <3>2. CarriedPrincipal(k)' = CarriedPrincipal(k)
      BY <1>5, CarriedIs
    <3>3. req'[c].carry = CarriedPrincipal(k) /\ receivable'[k] = CarriedPrincipal(k)
      BY <1>4, <1>5, <2>1, <3>1 DEF Quote, Quotable
    <3>4. req'[c].loan = k
      BY <1>4, <3>1
    <3> QED
      BY <3>2, <3>3, <3>4 DEF QuoteStands
  <2>2. CASE ~(l \in still /\ Quotable(l))
    BY <1>4, <2>2 DEF QuoteStands, Quote
  <2> QED
    BY <2>1, <2>2
<1> QED
  BY <1>1, <1>2, <1>5, <1>6, RequestKeepsBooks

LEMMA OtherRequestsBooks ==
  ASSUME Books, NEW c \in Clerk,
         \/ EnterCreate(c) \/ EnterRollover(c) \/ FindActive(c)
         \/ CheckSettlement(c) \/ ReadBalance(c) \/ Rollback(c)
  PROVE  Books'
<1>1. IInv'
  BY EnterCreateStep, EnterRolloverStep, FindActiveStep, CheckSettlementStep, ReadBalanceStep,
     RollbackStep DEF Books
<1>2. req \in [Clerk -> Request]
  BY DEF Books, IInv, RequestsOK
<1>3. /\ UNCHANGED <<status, from, principal, rolloverAmount, receivable, payment>>
      /\ \A d \in Clerk \ {c} : req'[d] = req[d]
  BY <1>2 DEF EnterCreate, EnterRollover, FindActive, CheckSettlement, ReadBalance, Rollback,
     Release
<1>4. req'[c].pc # "locked"
  <2>1. req \in [Clerk -> Request]
    BY DEF Books, IInv, RequestsOK
  <2>2. CASE EnterCreate(c) \/ EnterRollover(c)
    BY <2>1, <2>2, IdleTyped DEF EnterCreate, EnterRollover, Request
  <2>3. CASE FindActive(c) \/ ReadBalance(c)
    BY <2>1, <2>3 DEF FindActive, ReadBalance, Request
  <2>4. CASE CheckSettlement(c)
    BY <2>1, <2>4, IdleTyped DEF CheckSettlement, Request
  <2>5. CASE Rollback(c)
    BY <2>1, <2>5, IdleTyped DEF Rollback, Release
  <2> QED
    BY <1>2, <2>2, <2>3, <2>4, <2>5
<1>5. QuoteStands(req[c])'
  BY <1>4 DEF QuoteStands
<1> QED
  BY <1>1, <1>3, <1>5, RequestKeepsBooks

LEMMA PendingBooks ==
  ASSUME Books, NEW l \in Loan, RequestRateChange(l) \/ ReviewRateChange(l)
  PROVE  Books'
<1>1. IInv'
  BY RequestRateChangeStep, ReviewRateChangeStep DEF Books
<1>2. UNCHANGED <<status, from, principal, rolloverAmount, receivable, payment, req>>
  BY DEF RequestRateChange, ReviewRateChange
<1>3. \A d \in Clerk : QuoteStands(req[d])'
  BY <1>2, TablesUnchanged, QuotesKept
<1> QED
  BY <1>1, <1>2, <1>3, TablesUnchanged DEF Books, QuotesStand

\* The commit of a request that holds whatever it changes.
LEMMA ReleasedQuotes ==
  ASSUME Books, NEW c \in Clerk, Release(c), NEW S \in SUBSET Loan, BooksKept(S),
         \A l \in S : lock[l] \in {None, c}
  PROVE  QuotesStand'
<1>1. ASSUME NEW d \in Clerk, d # c PROVE QuoteStands(req[d])'
  <2>1. req'[d] = req[d] /\ \A l \in S : lock[l] # d
    BY <1>1, Names DEF Release, Books, IInv, RequestsOK
  <2> QED
    BY <2>1, QuotesKept
<1>2. QuoteStands(req[c])'
  BY DEF Release, Books, IInv, RequestsOK, QuoteStands, Idle
<1> QED
  BY <1>1, <1>2 DEF QuotesStand

\* A new loan has no payments yet.
LEMMA NewLoanUnpaid ==
  ASSUME Books, NEW n \in Loan, status[n] = "none", principal'[n] \in Int, UNCHANGED payment
  PROVE  /\ CarriedPrincipal(n)' = principal'[n]
         /\ \A k \in Loan : principal'[k] = principal[k]
              => CarriedPrincipal(k)' = CarriedPrincipal(k)
<1>1. Paid(payment, n) = {}
  BY DEF Paid, Books, PaymentsOfIssued
<1>2. Total(payment', n) = 0
  BY <1>1, SumOfNone DEF Total
<1> QED
  BY <1>2, CarriedIs

LEMMA IssueLoanBooks == ASSUME Books, NEW c \in Clerk, IssueLoan(c) PROVE Books'
<1>1. PICK n \in Loan, a \in Fresh :
        /\ NextLoan(n)
        /\ status' = [status EXCEPT ![n] = "active"]
        /\ principal' = [principal EXCEPT ![n] = a]
        /\ receivable' = [receivable EXCEPT ![n] = a]
  BY DEF IssueLoan
<1>2. /\ status[n] = "none" /\ from[n] = None /\ \A s \in Loan : from[s] # n
      /\ a \in Nat /\ LoansOK /\ RequestsOK /\ HeldAreActive
  BY <1>1, NextIsBlank, LifecycleAssumption DEF Books, IInv
<1>3. UNCHANGED <<from, rolloverAmount, payment>> /\ Release(c)
  BY DEF IssueLoan
<1>4. \A l \in Loan : /\ status'[l] = IF l = n THEN "active" ELSE status[l]
                      /\ principal'[l] = IF l = n THEN a ELSE principal[l]
                      /\ receivable'[l] = IF l = n THEN a ELSE receivable[l]
  BY <1>1, <1>2 DEF LoansOK
<1>5. /\ CarriedPrincipal(n)' = principal'[n]
      /\ \A k \in Loan \ {n} : CarriedPrincipal(k)' = CarriedPrincipal(k)
  BY <1>2, <1>3, <1>4, NewLoanUnpaid
<1>6. LedgerFollowsTerms'
  <2>1. ASSUME NEW k \in Loan \ {n}, CorrectionAllowed(k)'
        PROVE  receivable'[k] = CarriedPrincipal(k)'
    BY <1>4, <1>5, <2>1 DEF Books, LedgerFollowsTerms, CorrectionAllowed
  <2>2. receivable'[n] = CarriedPrincipal(n)'
    BY <1>4, <1>5
  <2> QED
    BY <2>1, <2>2 DEF LedgerFollowsTerms
<1>7. RolloverCarriesWhatWasOwed'
  BY <1>3, <1>4, <1>5 DEF Books, RolloverCarriesWhatWasOwed, Successors
<1>8. PaymentsOfIssued'
  BY <1>1, <1>2, <1>3 DEF Books, PaymentsOfIssued, LoansOK, PaymentsHaveLoans
<1>9. QuotesStand'
  <2>1. BooksKept({n})
    BY <1>4, <1>5 DEF BooksKept
  <2>2. lock[n] \in {None, c}
    BY <1>2 DEF RequestsOK, LocksHeld, HeldAreActive, Active
  <2> QED
    BY <1>3, <2>1, <2>2, ReleasedQuotes
<1> QED
  BY <1>6, <1>7, <1>8, <1>9, IssueLoanStep DEF Books

\* The new loan carries what the old one owed and i interest, and so does its
\* ledger; the old one's is empty.
LEMMA RollOverBooks == ASSUME Books, NEW c \in Clerk, RollOver(c) PROVE Books'
<1>1. PICK old \in req[c].found : old = req[c].loan
  BY DEF RollOver
<1>2. PICK carry : carry = req[c].carry
  OBVIOUS
<1>3. PICK n \in Loan, a \in Fresh, i \in CarriedInterest :
        /\ NextLoan(n)
        /\ status' = [status EXCEPT ![n] = "active", ![old] = "rolled_over"]
        /\ from' = [from EXCEPT ![n] = old]
        /\ principal' = [principal EXCEPT ![n] = a + carry + i]
        /\ rolloverAmount' = [rolloverAmount EXCEPT ![n] = carry + i]
        /\ receivable' = [receivable EXCEPT ![n] = a + carry + i, ![old] = @ - carry]
        /\ CancelPending(old)
  BY <1>1, <1>2 DEF RollOver
<1>4. /\ Release(c) /\ UNCHANGED payment /\ req[c].pc = "locked" /\ carry # None
      /\ req[c] \in Request /\ LoansOK /\ RequestsOK /\ HeldAreActive
  BY <1>2 DEF RollOver, Books, IInv, RequestsOK
<1>5. old \in Loan /\ status[old] = "active" /\ lock[old] = c
  BY <1>1, <1>4 DEF HeldAreActive, Active, RequestsOK, LocksHeld
<1>6. carry \in Int /\ a \in Int /\ i \in Int
  BY <1>2, <1>4, LifecycleAssumption DEF Request
<1>7. carry = CarriedPrincipal(old) /\ receivable[old] = carry
  BY <1>1, <1>2, <1>4 DEF Books, QuotesStand, QuoteStands
<1>8. status[n] = "none" /\ from[n] = None /\ (\A s \in Loan : from[s] # n)
  BY <1>3, <1>4, NextIsBlank
<1>9. n # old /\ (\A s \in Loan : from[s] # old)
  BY <1>4, <1>5, <1>8, Names DEF LoansOK, SourcesClosed
<1>10. \A l \in Loan :
         /\ status'[l] = IF l = old THEN "rolled_over" ELSE IF l = n THEN "active" ELSE status[l]
         /\ from'[l] = IF l = n THEN old ELSE from[l]
         /\ principal'[l] = IF l = n THEN a + carry + i ELSE principal[l]
         /\ rolloverAmount'[l] = IF l = n THEN carry + i ELSE rolloverAmount[l]
  BY <1>3, <1>4, <1>5, <1>9 DEF LoansOK
<1>11. \A l \in Loan :
         receivable'[l] = IF l = n THEN a + carry + i ELSE IF l = old THEN 0 ELSE receivable[l]
  <2>1. receivable' = [receivable EXCEPT ![n] = a + carry + i, ![old] = receivable[old] - carry]
    BY <1>3, <1>4, <1>5, <1>9 DEF LoansOK
  <2>2. receivable[old] - carry = 0
    BY <1>6, <1>7
  <2> QED
    BY <1>4, <1>5, <1>9, <2>1, <2>2 DEF LoansOK
<1>12. /\ CarriedPrincipal(n)' = a + carry + i
       /\ \A k \in Loan \ {n} : CarriedPrincipal(k)' = CarriedPrincipal(k)
  BY <1>4, <1>6, <1>8, <1>10, NewLoanUnpaid
<1>13. LedgerFollowsTerms'
  <2>1. ASSUME NEW k \in Loan \ {n}, CorrectionAllowed(k)'
        PROVE  receivable'[k] = CarriedPrincipal(k)'
    <3>1. k # old /\ CorrectionAllowed(k)
      BY <1>10, <2>1 DEF CorrectionAllowed
    <3> QED
      BY <1>11, <1>12, <3>1 DEF Books, LedgerFollowsTerms
  <2>2. receivable'[n] = CarriedPrincipal(n)'
    BY <1>11, <1>12
  <2> QED
    BY <2>1, <2>2 DEF LedgerFollowsTerms
<1>14. RolloverCarriesWhatWasOwed'
  <2>1. ASSUME NEW l \in Loan, status'[l] = "rolled_over"
        PROVE  /\ receivable'[l] = 0
               /\ \E s \in Loan : /\ from'[s] = l
                                 /\ rolloverAmount'[s] - CarriedPrincipal(l)' \in CarriedInterest
    <3>1. CASE l = old
      <4>1. CarriedPrincipal(l)' = carry
        BY <1>5, <1>7, <1>9, <1>12, <3>1
      <4>2. from'[n] = l /\ rolloverAmount'[n] = carry + i
        BY <1>10, <3>1
      <4>3. (carry + i) - carry = i
        BY <1>6
      <4>4. rolloverAmount'[n] - CarriedPrincipal(l)' \in CarriedInterest
        <5>1. rolloverAmount'[n] - CarriedPrincipal(l)' = (carry + i) - carry
          BY <4>1, <4>2, Zenon
        <5> QED
          BY <4>3, <5>1, Zenon
      <4>5. receivable'[l] = 0
        BY <1>9, <1>11, <3>1
      <4> QED
        BY <4>2, <4>4, <4>5
    <3>2. CASE l # old
      <4>1. status[l] = "rolled_over" /\ l # n
        BY <1>10, <2>1, <3>2
      <4>2. /\ receivable[l] = 0
            /\ \E s \in Loan : /\ from[s] = l
                              /\ rolloverAmount[s] - CarriedPrincipal(l) \in CarriedInterest
        BY <4>1 DEF Books, RolloverCarriesWhatWasOwed, Successors
      <4>3. PICK s \in Loan : /\ from[s] = l
                              /\ rolloverAmount[s] - CarriedPrincipal(l) \in CarriedInterest
        BY <4>2
      <4>4. s # n
        BY <1>8, <4>3, Names
      <4>5. from'[s] = l /\ rolloverAmount'[s] = rolloverAmount[s]
        BY <1>10, <4>3, <4>4
      <4>6. CarriedPrincipal(l)' = CarriedPrincipal(l) /\ receivable'[l] = 0
        BY <1>11, <1>12, <3>2, <4>1, <4>2
      <4> QED
        BY <4>3, <4>5, <4>6
    <3> QED
      BY <3>1, <3>2
  <2> QED
    BY <2>1 DEF RolloverCarriesWhatWasOwed, Successors
<1>15. PaymentsOfIssued'
  BY <1>4, <1>10 DEF Books, PaymentsOfIssued, LoansOK, PaymentsHaveLoans
<1>16. QuotesStand'
  <2>1. BooksKept({n, old})
    BY <1>11, <1>12 DEF BooksKept
  <2>2. \A l \in {n, old} : lock[l] \in {None, c}
    BY <1>4, <1>5, <1>8 DEF RequestsOK, LocksHeld, HeldAreActive, Active
  <2>3. {n, old} \in SUBSET Loan
    BY <1>5
  <2> QED
    BY <1>4, <2>1, <2>2, <2>3, ReleasedQuotes
<1> QED
  BY <1>13, <1>14, <1>15, <1>16, RollOverStep DEF Books

LEMMA SettleBooks == ASSUME Books, NEW c \in Clerk, SettleWithCollateral(c) PROVE Books'
<1>1. PICK l \in Loan : l = req[c].loan
  BY DEF SettleWithCollateral, Books, IInv, RequestsOK, SettlementsHaveLoans
<1>2. /\ Release(c) /\ RowFree(l)
      /\ status' = [status EXCEPT ![l] = "settled_with_collateral"]
      /\ receivable' = [receivable EXCEPT ![l] = IF req[c].seen > 0 THEN @ - req[c].seen ELSE @]
      /\ UNCHANGED <<from, principal, rolloverAmount, payment>>
      /\ LoansOK
  BY <1>1 DEF SettleWithCollateral, Books, IInv
<1>3. \A k \in Loan : /\ status'[k] = IF k = l THEN "settled_with_collateral" ELSE status[k]
                      /\ k # l => receivable'[k] = receivable[k]
  BY <1>2 DEF LoansOK
<1>4. \A k \in Loan : CarriedPrincipal(k)' = CarriedPrincipal(k)
  BY <1>2, CarriedIs
<1>5. LedgerFollowsTerms'
  BY <1>3, <1>4 DEF Books, LedgerFollowsTerms, CorrectionAllowed
<1>6. RolloverCarriesWhatWasOwed'
  <2>1. \A k \in Loan : status'[k] = "rolled_over" => k # l /\ status[k] = "rolled_over"
    BY <1>3
  <2> QED
    BY <1>2, <1>3, <1>4, <2>1 DEF Books, RolloverCarriesWhatWasOwed, Successors
<1>7. PaymentsOfIssued'
  BY <1>2, <1>3 DEF Books, PaymentsOfIssued, LoansOK, PaymentsHaveLoans
<1>8. QuotesStand'
  <2>1. BooksKept({l})
    BY <1>3, <1>4 DEF BooksKept
  <2> QED
    BY <1>2, <2>1, ReleasedQuotes DEF RowFree
<1> QED
  BY <1>5, <1>6, <1>7, <1>8, SettleStep DEF Books

\* A payment or its deletion moves the ledger as it moves what was repaid.
LEMMA PaymentBooks ==
  ASSUME Books, IInv', NEW l \in Loan, RowFree(l), CorrectionAllowed(l),
         CloseOrReopen(l, "active"),
         NEW x \in Int, receivable' = [receivable EXCEPT ![l] = @ - x],
         Total(payment', l) = Total(payment, l) + x,
         \A k \in Loan \ {l} : Total(payment', k) = Total(payment, k),
         PaymentsOfIssued',
         UNCHANGED <<from, principal, rolloverAmount, lock, req>>
  PROVE  Books'
<1>1. LoansOK /\ LoansOK'
  BY DEF Books, IInv
<1>2. /\ status'[l] \in {"active", "fully_paid"}
      /\ \A k \in Loan \ {l} : status'[k] = status[k]
  BY <1>1, Closing
<1>3. /\ receivable'[l] = receivable[l] - x
      /\ \A k \in Loan \ {l} : receivable'[k] = receivable[k]
  BY <1>1 DEF LoansOK
<1>4. CarriedPrincipal(l)' = CarriedPrincipal(l) - x
  <2>1. Total(payment, l) \in Int /\ principal[l] \in Int
    BY <1>1, TotalTyped DEF LoansOK
  <2> QED
    BY <2>1, CarriedIs
<1>5. \A k \in Loan \ {l} : CarriedPrincipal(k)' = CarriedPrincipal(k)
  BY CarriedIs
<1>6. LedgerFollowsTerms'
  <2>1. ASSUME NEW k \in Loan \ {l}, CorrectionAllowed(k)'
        PROVE  receivable'[k] = CarriedPrincipal(k)'
    BY <1>2, <1>3, <1>5, <2>1 DEF Books, LedgerFollowsTerms, CorrectionAllowed
  <2>2. receivable[l] = CarriedPrincipal(l)
    BY DEF Books, LedgerFollowsTerms
  <2>3. receivable'[l] = CarriedPrincipal(l)'
    BY <1>3, <1>4, <2>2
  <2> QED
    BY <2>1, <2>3 DEF LedgerFollowsTerms
<1>7. RolloverCarriesWhatWasOwed'
  <2>1. \A k \in Loan : status'[k] = "rolled_over" => k # l /\ status[k] = "rolled_over"
    BY <1>2
  <2> QED
    BY <1>3, <1>5, <2>1 DEF Books, RolloverCarriesWhatWasOwed, Successors
<1>8. QuotesStand'
  <2>1. BooksKept({l})
    BY <1>3, <1>5 DEF BooksKept
  <2>2. \A d \in Clerk : \A k \in {l} : lock[k] # d
    BY Names DEF RowFree
  <2> QED
    BY <2>1, <2>2, QuotesKept DEF QuotesStand
<1> QED
  BY <1>6, <1>7, <1>8 DEF Books

LEMMA RecordPaymentBooks == ASSUME Books, NEW l \in Loan, RecordPayment(l) PROVE Books'
<1>1. PICK p \in Payment, x \in 0..receivable[l] :
        /\ NextPayment(p)
        /\ payment' = [payment EXCEPT ![p] = [state |-> "live", loan |-> l, principal |-> x]]
        /\ receivable' = [receivable EXCEPT ![l] = @ - x]
  BY DEF RecordPayment
<1>2. IInv' /\ LoansOK /\ LoansOK'
  BY RecordPaymentStep DEF Books, IInv
<1>3. /\ RowFree(l) /\ status[l] = "active" /\ CloseOrReopen(l, "active")
      /\ UNCHANGED <<from, principal, rolloverAmount, lock, req>>
  BY DEF RecordPayment, Operational
<1>4. x \in Int
  BY <1>1, <1>2 DEF LoansOK
<1>5. /\ payment \in [Payment -> PaymentRow] /\ payment' \in [Payment -> PaymentRow]
      /\ payment[p].state = "none"
      /\ payment'[p] = [state |-> "live", loan |-> l, principal |-> x]
      /\ \A q \in Payment \ {p} : payment'[q] = payment[q]
  <2>1. p >= p
    BY DEF Payment
  <2> QED
    BY <1>1, <1>2, <2>1 DEF LoansOK, NextPayment
<1>6. Total(payment', l) = Total(payment, l) + x
  <2>1. p \notin Paid(payment, l) /\ Paid(payment', l) = Paid(payment, l) \cup {p}
    BY <1>5 DEF Paid
  <2>2. \A q \in Paid(payment, l) : payment'[q].principal = payment[q].principal
    BY <1>5 DEF Paid
  <2>3. payment'[p].principal = x
    BY <1>5
  <2> QED
    BY <1>5, <2>1, <2>2, <2>3, TotalMore
<1>7. ASSUME NEW k \in Loan \ {l} PROVE Total(payment', k) = Total(payment, k)
  <2>1. Paid(payment', k) = Paid(payment, k)
    BY <1>5 DEF Paid
  <2>2. \A q \in Paid(payment, k) : payment'[q].principal = payment[q].principal
    BY <1>5 DEF Paid
  <2> QED
    BY <2>1, <2>2, TotalSame
<1>8. PaymentsOfIssued'
  <2>1. \A k \in Loan : status'[k] = "none" => status[k] = "none" /\ k # l
    BY <1>2, <1>3, Closing DEF CorrectionAllowed
  <2> QED
    BY <1>2, <1>5, <2>1 DEF Books, PaymentsOfIssued, LoansOK, PaymentsHaveLoans
<1> QED
  BY <1>1, <1>2, <1>3, <1>4, <1>6, <1>7, <1>8, PaymentBooks DEF CorrectionAllowed

LEMMA DeletePaymentBooks == ASSUME Books, NEW p \in Payment, DeletePayment(p) PROVE Books'
<1>1. IInv' /\ LoansOK /\ LoansOK'
  BY DeletePaymentStep DEF Books, IInv
<1>2. PICK l \in Loan : l = payment[p].loan
  BY <1>1 DEF DeletePayment, LoansOK, PaymentsHaveLoans
<1>3. /\ payment[p].state = "live"
      /\ RowFree(l) /\ CorrectionAllowed(l) /\ CloseOrReopen(l, "active")
      /\ receivable' = [receivable EXCEPT ![l] = @ + payment[p].principal]
      /\ payment' = [payment EXCEPT ![p].state = "deleted", ![p].principal = 0]
      /\ UNCHANGED <<from, principal, rolloverAmount, lock, req>>
  BY <1>2 DEF DeletePayment, PrincipalToReverse
<1>4. /\ payment \in [Payment -> PaymentRow] /\ payment' \in [Payment -> PaymentRow]
      /\ payment'[p].state = "deleted" /\ payment'[p].loan = l
      /\ \A q \in Payment \ {p} : payment'[q] = payment[q]
  BY <1>1, <1>2, <1>3 DEF LoansOK, PaymentRow
<1> DEFINE x == 0 - payment[p].principal
<1>5. payment[p].principal \in Int /\ x \in Int
  BY <1>4 DEF PaymentRow
<1>6. receivable' = [receivable EXCEPT ![l] = @ - x]
  <2>1. receivable[l] + payment[p].principal = receivable[l] - x
    BY <1>1, <1>5 DEF LoansOK
  <2> QED
    BY <1>1, <1>3, <2>1 DEF LoansOK
<1>7. Total(payment', l) = Total(payment, l) + x
  <2>1. p \notin Paid(payment', l) /\ Paid(payment, l) = Paid(payment', l) \cup {p}
    BY <1>2, <1>3, <1>4 DEF Paid
  <2>2. \A q \in Paid(payment', l) : payment[q].principal = payment'[q].principal
    BY <1>4 DEF Paid
  <2>3. Total(payment, l) = Total(payment', l) + payment[p].principal
    BY <1>4, <2>1, <2>2, TotalMore
  <2>4. Total(payment', l) \in Int
    BY <1>4, TotalTyped
  <2> QED
    BY <1>5, <2>3, <2>4
<1>8. ASSUME NEW k \in Loan \ {l} PROVE Total(payment', k) = Total(payment, k)
  <2>1. Paid(payment', k) = Paid(payment, k)
    BY <1>2, <1>4 DEF Paid
  <2>2. \A q \in Paid(payment, k) : payment'[q].principal = payment[q].principal
    BY <1>2, <1>4 DEF Paid
  <2> QED
    BY <2>1, <2>2, TotalSame
<1>9. PaymentsOfIssued'
  <2>1. \A k \in Loan : status'[k] = "none" => status[k] = "none" /\ k # l
    BY <1>1, <1>3, Closing
  <2> QED
    BY <1>1, <1>2, <1>3, <1>4, <2>1 DEF Books, PaymentsOfIssued, LoansOK, PaymentsHaveLoans
<1> HIDE DEF x
<1> QED
  BY <1>1, <1>3, <1>5, <1>6, <1>7, <1>8, <1>9, PaymentBooks

LEMMA BooksInit == Init => Books
<1> SUFFICES ASSUME Init PROVE Books
  OBVIOUS
<1>1. IInv
  BY InitIInv
<1>2. PaymentsOfIssued /\ QuotesStand
  BY DEF Init, PaymentsOfIssued, NoPayment, QuotesStand, QuoteStands, Idle
<1>3. LedgerFollowsTerms /\ RolloverCarriesWhatWasOwed
  BY DEF Init, LedgerFollowsTerms, CorrectionAllowed, RolloverCarriesWhatWasOwed
<1> QED
  BY <1>1, <1>2, <1>3 DEF Books

LEMMA BooksStep == ASSUME Books, [Next]_vars PROVE Books'
<1>1. ASSUME NEW c \in Clerk, Create(c) PROVE Books'
  BY <1>1, OtherRequestsBooks, LockActiveBooks, IssueLoanBooks, RollOverBooks DEF Create
<1>2. ASSUME NEW c \in Clerk, Settle(c) PROVE Books'
  BY <1>2, OtherRequestsBooks, SettleBooks DEF Settle
<1>3. CASE UNCHANGED vars
  <2>1. IInv'
    BY <1>3, IInvStep DEF Books
  <2>2. \A d \in Clerk : QuoteStands(req[d])'
    BY <1>3, TablesUnchanged, QuotesKept DEF vars
  <2> QED
    BY <1>3, <2>1, <2>2, TablesUnchanged DEF vars, Books, QuotesStand
<1> QED
  BY <1>1, <1>2, <1>3, OtherRequestsBooks, RecordPaymentBooks, DeletePaymentBooks, PendingBooks
     DEF Next

LEMMA BooksAlways == Spec => []Books
<1>1. Books /\ [Next]_vars => Books'
  BY BooksStep
<1> QED
  BY BooksInit, <1>1, PTL DEF Spec

\* What createLoan carried over is what the loan owed and the interest due on
\* it; the old ledger is empty, and nothing that was under way (payments,
\* deletions, settlements, other requests) touches the loan's books afterwards.
THEOREM RolloverCarriesAll == Spec => []RolloverCarriesWhatWasOwed
<1>1. Books => RolloverCarriesWhatWasOwed
  BY DEF Books
<1> QED
  BY BooksAlways, <1>1, PTL

\* The ledger of a loan that may still be corrected carries its principal, with
\* what createLoan's rollover carried into it, less its live payments.
THEOREM LedgersFollowTerms == Spec => []LedgerFollowsTerms
<1>1. Books => LedgerFollowsTerms
  BY DEF Books
<1> QED
  BY BooksAlways, <1>1, PTL

-----------------------------------------------------------------------------
(***************************************************************************)
(* What the statement shows (LoanStatement): for any principal and rate,   *)
(* any amounts, month ends, multipliers and any number of days.            *)
(*                                                                         *)
(* The argument: the statement of a day is worked out from the day before  *)
(* and what was settled on it, so what is recorded later changes nothing   *)
(* behind it.  Whoever pays principal settled all interest of the day, up  *)
(* to half a shilling, which is rounded off.  The journal is compared at   *)
(* checkpoints, month ends and settlements; from one to the next it stands *)
(* still and the statement only grows.  A day lengthens the last segment   *)
(* by one and accrues on its balance.                                      *)
(***************************************************************************)

\* The fields of a settlement that are added up.
Field == {"principal", "interest", "reversed"}

\* A settlement is either of these.
Kind == {"payment", "waiver"}

\* The constants, as numbers.
StatementNumbers ==
  /\ Unit \in Nat \ {0} /\ MaxDay \in Nat /\ Rate \in Nat /\ Principal \in Nat /\ MinDays \in Nat
  /\ Day = 0..MaxDay /\ MonthEnds \subseteq 1..MaxDay /\ Amounts \subseteq Nat

LEMMA StatementNumbersAre == StatementNumbers
BY LoanStatementAssumption DEF StatementNumbers, Unit, Day

\* Rounding is to the nearest shilling, half up.
LEMMA RoundIs ==
  ASSUME NEW x \in Int
  PROVE  Round(x) \in Int /\ 2 * Unit * Round(x) <= 2 * x + Unit
         /\ 2 * x + Unit < 2 * Unit * Round(x) + 2 * Unit
<1>1. Unit \in Nat \ {0}
  BY LoanStatementAssumption DEF Unit
<1> QED
  BY <1>1 DEF Round

LEMMA RoundNatural == \A x \in Nat : Round(x) \in Nat
<1>1. Unit \in Nat \ {0}
  BY LoanStatementAssumption DEF Unit
<1>2. SUFFICES ASSUME NEW x \in Nat PROVE Round(x) \in Nat
  OBVIOUS
<1> DEFINE r == Round(x)
<1>3. r \in Int /\ 2 * x + Unit < 2 * Unit * r + 2 * Unit
  BY RoundIs
<1> HIDE DEF r
<1>4. ~ r <= -1
  BY <1>1, <1>2, <1>3
<1> QED
  BY <1>3, <1>4 DEF r

\* Less than half a shilling is nothing.
LEMMA RoundOfWhole == \A x \in Int : x >= 0 /\ 2 * x < Unit => Round(x) = 0
<1>1. Unit \in Nat \ {0}
  BY LoanStatementAssumption DEF Unit
<1>2. SUFFICES ASSUME NEW x \in Int, x >= 0, 2 * x < Unit PROVE Round(x) = 0
  OBVIOUS
<1> DEFINE r == Round(x)
<1>3. r \in Int /\ 2 * Unit * r <= 2 * x + Unit /\ 2 * x + Unit < 2 * Unit * r + 2 * Unit
  BY RoundIs
<1> HIDE DEF r
<1>4. ~ r >= 1
  BY <1>1, <1>2, <1>3
<1>5. ~ r <= -1
  BY <1>1, <1>2, <1>3
<1> QED
  BY <1>3, <1>4, <1>5 DEF r

\* More is not rounded to less.
LEMMA RoundMonotone == ASSUME NEW x \in Int, NEW y \in Int, x <= y PROVE Round(x) <= Round(y)
<1>1. Unit \in Nat \ {0}
  BY StatementNumbersAre DEF StatementNumbers
<1> DEFINE r == Round(x)
           s == Round(y)
<1>2. r \in Int /\ 2 * Unit * r <= 2 * x + Unit
  BY RoundIs
<1>3. s \in Int /\ 2 * y + Unit < 2 * Unit * s + 2 * Unit
  BY RoundIs
<1> HIDE DEF r, s
<1>4. SUFFICES ASSUME ~ r <= s PROVE FALSE
  BY DEF r, s
<1>5. r >= s + 1
  BY <1>2, <1>3, <1>4
<1>6. 2 * Unit * r >= 2 * Unit * (s + 1)
  BY <1>1, <1>2, <1>3, <1>5
<1>7. 2 * Unit * (s + 1) = 2 * Unit * s + 2 * Unit
  BY <1>1, <1>3
<1>8. 2 * Unit * r \in Int /\ 2 * Unit * s \in Int
  BY <1>1, <1>2, <1>3
<1> QED
  BY <1>1, <1>2, <1>3, <1>6, <1>7, <1>8

\* Whole shillings stand.
LEMMA RoundWhole == ASSUME NEW k \in Int PROVE Round(Unit * k) = k
<1>1. Unit \in Nat \ {0}
  BY StatementNumbersAre DEF StatementNumbers
<1> DEFINE r == Round(Unit * k)
<1>2. Unit * k \in Int
  BY <1>1
<1>3. r \in Int /\ 2 * Unit * r <= 2 * (Unit * k) + Unit
        /\ 2 * (Unit * k) + Unit < 2 * Unit * r + 2 * Unit
  BY <1>2, RoundIs
<1> HIDE DEF r
<1>4. 2 * Unit * r = 2 * (Unit * r) /\ Unit * r \in Int
  BY <1>1, <1>3
<1>5. ~ r >= k + 1
  <2>1. SUFFICES ASSUME r >= k + 1 PROVE FALSE
    OBVIOUS
  <2>2. Unit * r >= Unit * (k + 1)
    BY <1>1, <1>3, <2>1
  <2>3. Unit * (k + 1) = Unit * k + Unit
    BY <1>1
  <2> QED
    BY <1>1, <1>2, <1>3, <1>4, <2>2, <2>3
<1>6. ~ k >= r + 1
  <2>1. SUFFICES ASSUME k >= r + 1 PROVE FALSE
    OBVIOUS
  <2>2. Unit * k >= Unit * (r + 1)
    BY <1>1, <1>3, <2>1
  <2>3. Unit * (r + 1) = Unit * r + Unit
    BY <1>1, <1>3
  <2> QED
    BY <1>1, <1>2, <1>3, <1>4, <2>2, <2>3
<1> QED
  BY <1>3, <1>5, <1>6 DEF r

LEMMA Product == \A a, b, c \in Nat : a * b * c \in Nat
OBVIOUS

\* A non-empty set of naturals with a bound has a greatest element.
LEMMA LatestNatural ==
  ASSUME NEW T \in SUBSET Nat, T # {}, NEW n \in Nat, \A k \in T : k <= n
  PROVE  \E x \in T : \A k \in T : x >= k
<1> DEFINE Above == {u \in Nat : \A k \in T : k <= u}
<1>1. Above \in SUBSET Nat /\ Above # {}
  OBVIOUS
<1>2. PICK u \in Above : \A v \in Above : u <= v
  <2> HIDE DEF Above
  <2> QED
    BY <1>1, LeastNatural
<1>3. SUFFICES ASSUME u \notin T PROVE FALSE
  BY <1>2
<1>4. PICK k \in T : TRUE
  OBVIOUS
<1>5. u - 1 \in Nat /\ ~(u <= u - 1)
  BY <1>2, <1>3, <1>4
<1>6. u - 1 \in Above
  BY <1>2, <1>3, <1>5
<1> QED
  BY <1>2, <1>5, <1>6

\* A least element is the minimum.
LEMMA MinIs == ASSUME NEW S \in SUBSET Int, NEW x \in S, \A y \in S : x <= y PROVE Min(S) = x
<1>1. \E z \in S : \A y \in S : z <= y
  OBVIOUS
<1>2. Min(S) \in S /\ \A y \in S : Min(S) <= y
  BY <1>1 DEF Min
<1>3. Min(S) \in Int /\ x \in Int /\ x <= Min(S) /\ Min(S) <= x
  BY <1>2
<1> QED
  BY <1>3

-----------------------------------------------------------------------------
(* The statement, day by day.                                              *)

\* The statement of d days is a walk: it begins as issued, and every day adds
\* its interval.
Walks(f, n, S, waived, mult) ==
  f = [d \in 0..n |-> IF d = 0 THEN Issued ELSE Interval(f[d - 1], S, d, waived, mult)]

\* The recursion Walk is defined by.
Walking(g, S, waived, mult) ==
  g = [d \in Day |-> IF d = 0 THEN Issued
                     ELSE CHOOSE next \in {Interval(w, S, d, waived, mult) : w \in {g[d - 1]}} :
                            TRUE]

\* Walk is what its recursion describes,
LEMMA WalkingIs ==
  ASSUME NEW S, NEW waived, NEW mult
  PROVE  Walk(S, waived, mult) = CHOOSE g : Walking(g, S, waived, mult)
BY DEF Walk, Walking

\* and the recursion describes the walks of all the days.
LEMMA OnlyInterval ==
  ASSUME NEW g, NEW S, NEW waived, NEW mult
  PROVE  Walking(g, S, waived, mult) <=> Walks(g, MaxDay, S, waived, mult)
<1>1. \A d \in Day : (CHOOSE next \in {Interval(w, S, d, waived, mult) : w \in {g[d - 1]}} : TRUE)
                        = Interval(g[d - 1], S, d, waived, mult)
  OBVIOUS
<1> QED
  BY <1>1 DEF Walking, Walks, Day

\* There is a walk of any number of days: of those there were none of, one
\* would be the least.
LEMMA WalksExist ==
  ASSUME NEW S, NEW waived, NEW mult, NEW n \in Nat
  PROVE  \E f : Walks(f, n, S, waived, mult)
<1> DEFINE Bad == {m \in Nat : ~ \E f : Walks(f, m, S, waived, mult)}
<1>1. SUFFICES ASSUME Bad # {} PROVE FALSE
  OBVIOUS
<1>2. PICK m \in Bad : \A k \in Bad : m <= k
  <2>1. Bad \in SUBSET Nat
    OBVIOUS
  <2> HIDE DEF Bad
  <2> QED
    BY <1>1, <2>1, LeastNatural
<1>3. m # 0
  <2>1. Walks([d \in 0..0 |-> Issued], 0, S, waived, mult)
    BY DEF Walks
  <2> QED
    BY <2>1
<1>4. PICK f : Walks(f, m - 1, S, waived, mult)
  BY <1>2, <1>3
<1> DEFINE g == [d \in 0..m |-> IF d = m THEN Interval(f[m - 1], S, m, waived, mult) ELSE f[d]]
<1>5. \A d \in 0..m : g[d] = IF d = 0 THEN Issued ELSE Interval(g[d - 1], S, d, waived, mult)
  <2> SUFFICES ASSUME NEW d \in 0..m
               PROVE  g[d] = IF d = 0 THEN Issued ELSE Interval(g[d - 1], S, d, waived, mult)
    OBVIOUS
  <2>1. CASE d = m
    <3>1. g[d - 1] = f[m - 1] /\ g[d] = Interval(f[m - 1], S, m, waived, mult)
      BY <1>3, <2>1
    <3> QED
      BY <1>3, <2>1, <3>1
  <2>2. CASE d # m
    <3>1. d \in 0..(m - 1) /\ g[d] = f[d] /\ (d # 0 => g[d - 1] = f[d - 1])
      BY <1>3, <2>2
    <3>2. f[d] = IF d = 0 THEN Issued ELSE Interval(f[d - 1], S, d, waived, mult)
      BY <1>4, <3>1 DEF Walks
    <3> QED
      BY <3>1, <3>2
  <2> QED
    BY <2>1, <2>2
<1>6. Walks(g, m, S, waived, mult)
  <2>1. g = [d \in 0..m |-> g[d]]
    OBVIOUS
  <2> HIDE DEF g
  <2> QED
    BY <1>5, <2>1 DEF Walks
<1> QED
  BY <1>2, <1>6

\* What the statement says of a day follows from what it says of the day before.
LEMMA WalkIs ==
  ASSUME NEW S, NEW waived, NEW mult
  PROVE  /\ Walk(S, waived, mult)[0] = Issued
         /\ \A d \in 1..MaxDay :
              Walk(S, waived, mult)[d] = Interval(Walk(S, waived, mult)[d - 1], S, d, waived, mult)
<1>1. MaxDay \in Nat
  BY LoanStatementAssumption
<1> DEFINE f == CHOOSE g : Walking(g, S, waived, mult)
<1>2. Walking(f, S, waived, mult)
  <2>1. \E g : Walking(g, S, waived, mult)
    BY <1>1, WalksExist, OnlyInterval
  <2> QED
    BY <2>1
<1> HIDE DEF f
<1>3. Walks(f, MaxDay, S, waived, mult)
  BY <1>2, OnlyInterval
<1>4. f[0] = Issued /\ \A d \in 1..MaxDay : f[d] = Interval(f[d - 1], S, d, waived, mult)
  BY <1>1, <1>3 DEF Walks
<1> QED
  BY <1>4, WalkingIs DEF f

\* What an interval changes.
LEMMA IntervalIs ==
  ASSUME NEW w, NEW S, NEW d, NEW waived, NEW mult
  PROVE  LET x == Interval(w, S, d, waived, mult)
         IN /\ x.balance = Positive(w.balance - Of(S, "principal", d))
            /\ x.settled = w.settled + Of(S, "interest", d)
            /\ x.accrued = w.accrued + w.balance * Rate * (100 + IF x.penalized THEN mult ELSE 0)
BY DEF Interval, AccruingBalance

\* Up to day n, S and T settle the same and the penalty is waived alike.
SameUntil(n, S, T, waived, since) ==
  \A d \in 1..n : /\ Of(S, "principal", d) = Of(T, "principal", d)
                  /\ Of(S, "interest", d) = Of(T, "interest", d)
                  /\ WaivedOn(waived, d) <=> WaivedOn(since, d)

\* What comes later changes nothing of the statement of a day.
LEMMA StatementLooksBack ==
  ASSUME NEW S, NEW T, NEW waived, NEW since, NEW mult, NEW n \in Day,
         SameUntil(n, S, T, waived, since)
  PROVE  \A d \in 0..n : Walk(S, waived, mult)[d] = Walk(T, since, mult)[d]
<1> DEFINE V == Walk(S, waived, mult)
           W == Walk(T, since, mult)
           Bad == {d \in 0..n : V[d] # W[d]}
<1>1. SUFFICES ASSUME Bad # {} PROVE FALSE
  OBVIOUS
<1>2. MaxDay \in Nat /\ n \in Nat /\ n <= MaxDay
  BY LoanStatementAssumption DEF Day
<1>3. /\ V[0] = Issued /\ \A d \in 1..MaxDay : V[d] = Interval(V[d - 1], S, d, waived, mult)
      /\ W[0] = Issued /\ \A d \in 1..MaxDay : W[d] = Interval(W[d - 1], T, d, since, mult)
  BY WalkIs
<1> HIDE DEF V, W
<1>4. PICK m \in Bad : \A k \in Bad : m <= k
  <2>1. Bad \in SUBSET Nat
    BY <1>2
  <2> HIDE DEF Bad
  <2> QED
    BY <1>1, <2>1, LeastNatural
<1>5. m \in 1..MaxDay /\ m \in 1..n /\ m - 1 \in 0..n /\ m - 1 \notin Bad
  BY <1>2, <1>3, <1>4
<1>6. V[m - 1] = W[m - 1]
  BY <1>5
<1>7. Interval(V[m - 1], S, m, waived, mult) = Interval(W[m - 1], T, m, since, mult)
  BY <1>5, <1>6 DEF Interval, SameUntil, AccruingBalance
<1> QED
  BY <1>3, <1>4, <1>5, <1>7

\* Nor does what is settled on the day itself change what accrued by it.
LEMMA AccruedBefore ==
  ASSUME NEW S, NEW T, NEW waived, NEW since, NEW mult, NEW n \in Day \ {0},
         SameUntil(n - 1, S, T, waived, since), WaivedOn(waived, n) <=> WaivedOn(since, n)
  PROVE  LET V == Walk(S, waived, mult)
             W == Walk(T, since, mult)
         IN /\ V[n].accrued = W[n].accrued /\ V[n].penalized = W[n].penalized
            /\ V[n].settled = V[n - 1].settled + Of(S, "interest", n)
            /\ W[n].settled = V[n - 1].settled + Of(T, "interest", n)
<1> DEFINE V == Walk(S, waived, mult)
           W == Walk(T, since, mult)
<1>1. n \in 1..MaxDay /\ n - 1 \in Day /\ n - 1 \in 0..(n - 1)
  BY LoanStatementAssumption DEF Day
<1>2. V[n - 1] = W[n - 1]
  BY <1>1, StatementLooksBack
<1>3. /\ V[n] = Interval(V[n - 1], S, n, waived, mult)
      /\ W[n] = Interval(W[n - 1], T, n, since, mult)
  BY <1>1, WalkIs
<1> HIDE DEF V, W
<1>4. V[n].accrued = W[n].accrued /\ V[n].penalized = W[n].penalized
  BY <1>2, <1>3 DEF Interval, AccruingBalance
<1>5. V[n].settled = V[n - 1].settled + Of(S, "interest", n)
        /\ W[n].settled = V[n - 1].settled + Of(T, "interest", n)
  BY <1>2, <1>3 DEF Interval
<1> QED
  BY <1>4, <1>5 DEF V, W

-----------------------------------------------------------------------------
(* The types.                                                              *)

\* Settlements and postings, waiver and multiplier are of their types, and what
\* is posted was posted by a batch.
StatementTypes ==
  /\ day \in Day
  /\ DOMAIN settlements \subseteq 1..day
  /\ \A c \in DOMAIN settlements : /\ \A field \in Field : settlements[c][field] \in Int
                                   /\ settlements[c]["principal"] >= 0
                                   /\ settlements[c]["kind"] \in Kind
  /\ posted \in [MonthEnds -> Nat]
  /\ done \subseteq {m \in MonthEnds : m < day}
  /\ \A m \in MonthEnds \ done : posted[m] = 0
  /\ waivedFrom \in Nat \cup {Never}
  /\ multiplier \in Nat

\* Every day of a statement is of integers, and a balance is not negative.
LEMMA StatementTyped ==
  ASSUME StatementTypes
  PROVE  \A d \in Day : /\ Statement(settlements)[d].balance \in Nat
                        /\ Statement(settlements)[d].settled \in Int
                        /\ Statement(settlements)[d].accrued \in Int
<1> DEFINE V == Walk(settlements, waivedFrom, multiplier)
           Ints(w) == w.balance \in Nat /\ w.settled \in Int /\ w.accrued \in Int
           Bad == {d \in Day : ~Ints(V[d])}
<1>1. SUFFICES ASSUME Bad # {} PROVE FALSE
  BY DEF Statement
<1>2. MaxDay \in Nat /\ Rate \in Nat /\ Principal \in Nat
  BY LoanStatementAssumption
<1>3. V[0] = Issued
        /\ \A d \in 1..MaxDay : V[d] = Interval(V[d - 1], settlements, d, waivedFrom, multiplier)
  BY WalkIs
<1> HIDE DEF V
<1>4. PICK m \in Bad : \A k \in Bad : m <= k
  <2>1. Bad \in SUBSET Nat
    BY <1>2 DEF Day
  <2> HIDE DEF Bad
  <2> QED
    BY <1>1, <2>1, LeastNatural
<1>5. m # 0
  BY <1>2, <1>3, <1>4 DEF Issued
<1>6. m \in 1..MaxDay /\ m - 1 \in Day /\ Ints(V[m - 1])
  <2>1. m \in 1..MaxDay /\ m - 1 \in Day /\ ~(m <= m - 1)
    BY <1>2, <1>5, <1>4 DEF Day
  <2> QED
    BY <2>1, <1>4
<1>7. Of(settlements, "principal", m) \in Int /\ Of(settlements, "interest", m) \in Int
  BY DEF StatementTypes, Of, Field
<1>8. Ints(Interval(V[m - 1], settlements, m, waivedFrom, multiplier))
  <2> DEFINE w == V[m - 1]
             penal == DaysOverdue(w) >= Threshold /\ ~WaivedOn(waivedFrom, m)
  <2>1. w.balance \in Nat /\ w.settled \in Int /\ w.accrued \in Int
    BY <1>6
  <2>2. 100 + (IF penal THEN multiplier ELSE 0) \in Int
    BY DEF StatementTypes
  <2> HIDE DEF w, penal
  <2>3. w.accrued + w.balance * Rate * (100 + (IF penal THEN multiplier ELSE 0)) \in Int
    BY <2>1, <2>2, <1>2
  <2>4. Positive(w.balance - Of(settlements, "principal", m)) \in Nat
          /\ w.settled + Of(settlements, "interest", m) \in Int
    BY <2>1, <1>7 DEF Positive
  <2> QED
    BY <2>3, <2>4 DEF w, penal, Interval, AccruingBalance
<1> QED
  BY <1>3, <1>4, <1>6, <1>8

\* While nothing is settled, interest accrues and nothing else changes.
LEMMA StatementGrows ==
  ASSUME StatementTypes, NEW e \in Day, NEW n \in Day, e <= n,
         \A c \in DOMAIN settlements : ~(e < c /\ c <= n)
  PROVE  LET V == Statement(settlements)
         IN V[n].settled = V[e].settled /\ V[n].accrued >= V[e].accrued
<1> DEFINE V == Walk(settlements, waivedFrom, multiplier)
           Grown(w) == w.settled = V[e].settled /\ w.accrued >= V[e].accrued
           Bad == {d \in e..n : ~Grown(V[d])}
<1>1. SUFFICES ASSUME Bad # {} PROVE FALSE
  BY StatementNumbersAre DEF Statement, StatementNumbers
<1>2. MaxDay \in Nat /\ Rate \in Nat /\ e \in Nat /\ n \in 0..MaxDay /\ Day = 0..MaxDay
  BY StatementNumbersAre DEF StatementNumbers
<1>3. \A d \in 1..MaxDay : V[d] = Interval(V[d - 1], settlements, d, waivedFrom, multiplier)
  BY WalkIs
<1>4. \A d \in Day : V[d].balance \in Nat /\ V[d].settled \in Int /\ V[d].accrued \in Int
  BY StatementTyped DEF Statement
<1> HIDE DEF V
<1>5. PICK m \in Bad : \A k \in Bad : m <= k
  <2>1. Bad \in SUBSET Nat
    BY <1>2
  <2> HIDE DEF Bad
  <2> QED
    BY <1>1, <2>1, LeastNatural
<1>6. m # e
  BY <1>4, <1>5
<1>7. m \in (e + 1)..n /\ m \in 1..MaxDay /\ m - 1 \in Day /\ Grown(V[m - 1])
        /\ m \notin DOMAIN settlements
  <2>1. m \in (e + 1)..n /\ m \in 1..MaxDay /\ m - 1 \in Day /\ ~(m <= m - 1) /\ m - 1 \in e..n
    BY <1>2, <1>5, <1>6
  <2> QED
    BY <2>1, <1>2, <1>5
<1>8. V[m].settled = V[m - 1].settled /\ V[m].accrued >= V[m - 1].accrued
  <2> DEFINE w == V[m - 1]
             mult == IF DaysOverdue(w) >= Threshold /\ ~WaivedOn(waivedFrom, m)
                       THEN multiplier ELSE 0
  <2>1. V[m].settled = w.settled + 0 /\ V[m].accrued = w.accrued + w.balance * Rate * (100 + mult)
    <3>1. V[m] = Interval(w, settlements, m, waivedFrom, multiplier)
            /\ Of(settlements, "interest", m) = 0
      BY <1>3, <1>7 DEF Of
    <3> HIDE DEF w
    <3> QED
      BY <3>1 DEF Interval, AccruingBalance
  <2>2. mult \in Nat
    BY DEF StatementTypes
  <2>3. w.balance \in Nat /\ w.settled \in Int /\ w.accrued \in Int
    BY <1>4, <1>7
  <2> HIDE DEF w, mult
  <2>4. w.balance * Rate * (100 + mult) \in Nat
    <3>1. 100 + mult \in Nat
      BY <2>2
    <3> QED
      BY <3>1, <2>3, <1>2, Product
  <2>5. V[m].settled = w.settled /\ V[m].accrued >= w.accrued
    BY <2>1, <2>3, <2>4
  <2> QED
    BY <2>5 DEF w
<1>9. V[m].accrued \in Int /\ V[m - 1].accrued \in Int /\ V[e].accrued \in Int
  BY <1>2, <1>4, <1>7
<1> QED
  BY <1>5, <1>7, <1>8, <1>9

\* Sums of settlements, and of postings, are integers.
LEMMA ByTyped ==
  ASSUME StatementTypes, NEW field \in Field, NEW d
  PROVE  By(settlements, field, d) \in Int /\ IsFiniteSet({c \in DOMAIN settlements : c <= d})
<1> DEFINE f == [c \in DOMAIN settlements |-> settlements[c][field]]
           D == {c \in DOMAIN settlements : c <= d}
<1>1. IsFiniteSet(D)
  <2>1. IsFiniteSet(1..day)
    <3>1. 1 \in Int /\ day \in Int
      BY StatementNumbersAre DEF StatementTypes, StatementNumbers
    <3> QED
      BY <3>1, FS_Interval
  <2>2. D \subseteq 1..day
    BY DEF StatementTypes
  <2> QED
    BY <2>1, <2>2, FS_Subset
<1>2. \A x \in D : f[x] \in Int
  BY DEF StatementTypes
<1> HIDE DEF f, D
<1>3. SumFunctionOnSet(f, D) \in Int
  BY <1>1, <1>2, SumTyped
<1> QED
  BY <1>1, <1>3 DEF By, f, D

LEMMA MonthsFinite == ASSUME NEW d PROVE IsFiniteSet({e \in MonthEnds : e < d})
<1>1. 1 \in Int /\ MaxDay \in Int
  BY StatementNumbersAre DEF StatementNumbers
<1>2. {e \in MonthEnds : e < d} \subseteq 1..MaxDay
  BY StatementNumbersAre DEF StatementNumbers
<1>3. IsFiniteSet(1..MaxDay)
  BY <1>1, FS_Interval
<1> QED
  BY <1>2, <1>3, FS_Subset

LEMMA PostedTyped ==
  ASSUME StatementTypes, NEW d
  PROVE  PostedBefore(d) \in Int /\ IsFiniteSet({e \in MonthEnds : e < d})
<1> DEFINE D == {e \in MonthEnds : e < d}
<1>1. IsFiniteSet(D)
  BY MonthsFinite
<1>2. \A x \in D : posted[x] \in Int
  BY DEF StatementTypes
<1> HIDE DEF D
<1>3. SumFunctionOnSet(posted, D) \in Int
  BY <1>1, <1>2, SumTyped
<1> QED
  BY <1>1, <1>3 DEF PostedBefore, D

LEMMA RecordedTyped ==
  ASSUME StatementTypes, NEW d
  PROVE  RecordedAt(d) \in Int /\ RecordedBy(d) \in Int
<1>1. "reversed" \in Field
  BY DEF Field
<1>2. By(settlements, "reversed", d) \in Int
  BY <1>1, ByTyped
<1>3. PostedBefore(d) \in Int /\ PostedBefore(d + 1) \in Int
  BY PostedTyped
<1> QED
  BY <1>2, <1>3 DEF RecordedAt, RecordedBy

\* In the evening of a month end what is posted for it joins what was recorded.
LEMMA SumThrough ==
  ASSUME NEW P, NEW m \in MonthEnds, \A e \in MonthEnds : P[e] \in Int
  PROVE  SumFunctionOnSet(P, {e \in MonthEnds : e < m + 1})
           = P[m] + SumFunctionOnSet(P, {e \in MonthEnds : e < m})
<1>1. m \in Nat /\ \A e \in MonthEnds : e \in Nat
  BY StatementNumbersAre DEF StatementNumbers
<1> DEFINE D == {e \in MonthEnds : e < m + 1}
<1>2. SumFunctionOnSet(P, D) = P[m] + SumFunctionOnSet(P, D \ {m})
  <2>1. IsFiniteSet(D)
    BY MonthsFinite
  <2>2. m \in D /\ \A x \in D : P[x] \in Int
    BY <1>1
  <2> HIDE DEF D
  <2> QED
    BY <2>1, <2>2, SumRemove
<1>3. D \ {m} = {e \in MonthEnds : e < m}
  <2>1. ASSUME NEW e \in MonthEnds PROVE e < m <=> e < m + 1 /\ e # m
    BY <1>1
  <2> QED
    BY <2>1
<1> QED
  BY <1>2, <1>3

LEMMA PostedThrough ==
  ASSUME StatementTypes, NEW m \in MonthEnds
  PROVE  RecordedBy(m) = posted[m] + RecordedAt(m)
<1>1. PostedBefore(m + 1) = posted[m] + PostedBefore(m)
  <2>1. \A e \in MonthEnds : posted[e] \in Int
    BY DEF StatementTypes
  <2> QED
    BY <2>1, SumThrough DEF PostedBefore
<1>2. PostedBefore(m) \in Int /\ By(settlements, "reversed", m) \in Int /\ posted[m] \in Nat
  <2>1. "reversed" \in Field
    BY DEF Field
  <2>2. By(settlements, "reversed", m) \in Int
    BY <2>1, ByTyped
  <2>3. PostedBefore(m) \in Int
    BY PostedTyped
  <2> QED
    BY <2>2, <2>3 DEF StatementTypes
<1> QED
  BY <1>1, <1>2 DEF RecordedBy, RecordedAt

LEMMA OwedTyped ==
  ASSUME StatementTypes, NEW d \in Day
  PROVE  LET w == Statement(settlements)[d]
         IN Unpaid(w) \in Nat /\ Receivable(w) \in Nat /\ Net(w) \in Nat
<1> DEFINE w == Statement(settlements)[d]
           m == Principal * Rate * (100 + IF w.penalized THEN multiplier ELSE 0) * MinDays
<1>1. w.accrued \in Int /\ w.settled \in Int
  BY StatementTyped
<1> HIDE DEF w
<1>2. Unit \in Nat \ {0} /\ Rate \in Int /\ Principal \in Int /\ MinDays \in Int
  BY StatementNumbersAre DEF StatementNumbers
<1>3. m \in Int
  BY <1>2 DEF StatementTypes
<1> HIDE DEF m
<1>4. Unit * w.settled \in Int
  BY <1>1, <1>2
<1>5. Most(Net(w), Positive(m - Unit * w.settled)) \in Nat /\ Net(w) \in Nat
  BY <1>1, <1>3, <1>4 DEF Most, Net, Positive
<1> QED
  BY <1>5, RoundNatural DEF Unpaid, Receivable, m, w

\* What is settled lies within what is unpaid and what principal is left.
LEMMA PartsTyped ==
  ASSUME StatementTypes, NEW amount \in Amounts, NEW d \in Day \ {0}
  PROVE  LET i == InterestPart(amount, d)
             p == PrincipalPart(amount, d)
             unpaid == Unpaid(Statement(settlements)[d])
         IN /\ i \in Nat /\ p \in Nat /\ (p > 0 => i = unpaid) /\ i <= unpaid
            /\ \A kind : Reversal(kind, i, d) = Least(Positive(RecordedAt(d)), i)
                 /\ Reversal(kind, i, d) \in Int
<1>1. Unpaid(Statement(settlements)[d]) \in Nat
  BY OwedTyped
<1>2. Principal \in Int /\ amount \in Nat
  BY StatementNumbersAre DEF StatementNumbers
<1>3. LedgerPrincipal(settlements, d) \in Int
  <2>1. "principal" \in Field
    BY DEF Field
  <2>2. By(settlements, "principal", d) \in Int
    BY <2>1, ByTyped
  <2> QED
    BY <1>2, <2>2 DEF LedgerPrincipal
<1>4. RecordedAt(d) \in Int
  BY RecordedTyped
<1> QED
  BY <1>1, <1>2, <1>3, <1>4 DEF InterestPart, PrincipalPart, Least, Positive, Reversal

\* What a payment or waiver writes.
LEMMA SettleTyped ==
  ASSUME StatementTypes, NEW kind \in Kind, NEW amount \in Amounts, NEW d \in Day \ {0}, d <= day,
         RecordSettlement(kind, amount, d)
  PROVE  /\ StatementTypes'
         /\ DOMAIN settlements' = DOMAIN settlements \cup {d} /\ d \notin DOMAIN settlements
         /\ \A c \in DOMAIN settlements : settlements'[c] = settlements[c]
         /\ settlements'[d].interest = InterestPart(amount, d)
         /\ settlements'[d].principal = PrincipalPart(amount, d)
         /\ settlements'[d].reversed = Reversal(kind, InterestPart(amount, d), d)
         /\ waivedFrom' = waivedFrom /\ multiplier' = multiplier /\ day' = day /\ posted' = posted
              /\ done' = done
<1> DEFINE s == [kind |-> kind, interest |-> InterestPart(amount, d),
                 principal |-> PrincipalPart(amount, d),
                 reversed |-> Reversal(kind, InterestPart(amount, d), d)]
<1>1. /\ d \notin DOMAIN settlements
      /\ settlements' = [c \in {d} \cup DOMAIN settlements |-> IF c = d THEN s ELSE settlements[c]]
      /\ waivedFrom' = waivedFrom /\ multiplier' = multiplier /\ day' = day /\ posted' = posted
           /\ done' = done
  BY DEF RecordSettlement
<1>2. /\ s["interest"] = InterestPart(amount, d) /\ s["principal"] = PrincipalPart(amount, d)
      /\ s["reversed"] = Reversal(kind, InterestPart(amount, d), d) /\ s["kind"] = kind
  OBVIOUS
<1> HIDE DEF s
<1>3. /\ DOMAIN settlements' = DOMAIN settlements \cup {d}
      /\ \A c \in DOMAIN settlements : settlements'[c] = settlements[c]
      /\ settlements'[d] = s
  BY <1>1
<1>4. InterestPart(amount, d) \in Int /\ PrincipalPart(amount, d) \in Nat
        /\ Reversal(kind, InterestPart(amount, d), d) \in Int
  BY PartsTyped
<1>5. d \in 1..day
  BY LoanStatementAssumption DEF Day, StatementTypes
<1>6. StatementTypes'
  <2>1. \A c \in DOMAIN settlements' : (\A field \in Field : settlements'[c][field] \in Int)
          /\ settlements'[c]["principal"] >= 0 /\ settlements'[c]["kind"] \in Kind
    BY <1>2, <1>3, <1>4 DEF StatementTypes, Field
  <2> QED
    BY <1>1, <1>3, <1>5, <2>1 DEF StatementTypes
<1> QED
  BY <1>1, <1>2, <1>3, <1>6

\* The last month that ended.
LEMMA MonthEndedIs ==
  ASSUME StatementTypes, MonthEnded > 0
  PROVE  /\ MonthEnded \in MonthEnds /\ MonthEnded < day
         /\ \A e \in MonthEnds : e < day => e <= MonthEnded
<1> DEFINE E == {0} \cup {m \in MonthEnds : m < day}
<1>1. E \in SUBSET Nat /\ E # {} /\ \A k \in E : k <= MaxDay
  <2>1. \A k \in E : k \in Nat /\ k <= MaxDay
    BY StatementNumbersAre DEF StatementNumbers
  <2>2. 0 \in E
    OBVIOUS
  <2> HIDE DEF E
  <2> QED
    BY <2>1, <2>2
<1>2. MaxDay \in Nat
  BY StatementNumbersAre DEF StatementNumbers
<1>3. MonthEnded = Max(E)
  BY DEF MonthEnded
<1>4. MonthEnded \in E /\ \A k \in E : MonthEnded >= k
  <2> HIDE DEF E
  <2>1. \E x \in E : \A k \in E : x >= k
    BY <1>1, <1>2, LatestNatural
  <2> QED
    BY <1>3, <2>1 DEF Max
<1>5. MonthEnded \in MonthEnds /\ MonthEnded < day
  BY <1>4
<1>6. \A e \in MonthEnds : e < day => e <= MonthEnded
  <2>1. \A e \in MonthEnds : e < day => MonthEnded >= e
    BY <1>4
  <2>2. MonthEnded \in Int /\ \A e \in MonthEnds : e \in Int
    BY <1>5, StatementNumbersAre DEF StatementNumbers
  <2> QED
    BY <2>1, <2>2
<1> QED
  BY <1>5, <1>6

\* What the batch writes, and when.
LEMMA PostTyped ==
  ASSUME StatementTypes, PostMonth
  PROVE  LET m == MonthEnded
         IN /\ StatementTypes' /\ Delta(m) \in Nat /\ m \in MonthEnds /\ m < day
            /\ posted' = [posted EXCEPT ![m] = @ + Delta(m)] /\ done' = done \cup {m}
            /\ (\A e \in MonthEnds : e < day => e <= m)
            /\ UNCHANGED <<day, settlements, waivedFrom, multiplier, untouched>>
            /\ ~Blocked(m)
<1> DEFINE m == MonthEnded
<1>1. /\ MonthEnded > 0 /\ ~Blocked(m)
      /\ posted' = [posted EXCEPT ![m] = @ + Delta(m)] /\ done' = done \cup {m}
      /\ UNCHANGED <<day, settlements, waivedFrom, multiplier, untouched>>
  BY DEF PostMonth
<1>2. m \in MonthEnds /\ m < day /\ \A e \in MonthEnds : e < day => e <= m
  BY <1>1, MonthEndedIs
<1> HIDE DEF m
<1>3. m \in Day
  BY <1>2, StatementNumbersAre DEF StatementNumbers
<1>4. Receivable(Statement(settlements)[m]) \in Int /\ RecordedBy(m) \in Int
  BY <1>3, OwedTyped, RecordedTyped
<1>5. Delta(m) \in Nat
  BY <1>1, <1>4 DEF Delta, Blocked
<1>6. posted' \in [MonthEnds -> Nat] /\ \A e \in MonthEnds \ {m} : posted'[e] = posted[e]
  BY <1>1, <1>2, <1>5 DEF StatementTypes
<1>7. StatementTypes'
  BY <1>1, <1>2, <1>6 DEF StatementTypes
<1> QED
  BY <1>1, <1>2, <1>5, <1>7 DEF m

LEMMA StatementTypesStep ==
  ASSUME StatementTypes, [StatementNext]_statementVars
  PROVE  StatementTypes'
<1> USE LoanStatementAssumption
<1>1. CASE NextDay
  BY <1>1 DEF NextDay, StatementTypes, Day
<1>2. ASSUME NEW a \in Amounts, NEW d \in Day, Pay(a, d) PROVE StatementTypes'
  <2>1. d \in Day \ {0} /\ d <= day /\ RecordSettlement("payment", a, d) /\ "payment" \in Kind
    BY <1>2 DEF Pay, Kind
  <2> QED
    BY <2>1, SettleTyped
<1>3. ASSUME NEW a \in Amounts, Waive(a) PROVE StatementTypes'
  <2>1. day \in Day \ {0} /\ day <= day /\ RecordSettlement("waiver", a, day) /\ "waiver" \in Kind
    BY <1>3 DEF Waive, StatementTypes, Day, Kind
  <2> QED
    BY <2>1, SettleTyped
<1>4. CASE WaivePenalty
  BY <1>4 DEF WaivePenalty, StatementTypes, Day
<1>5. ASSUME NEW v \in Multipliers, AdjustPenaltyMultiplier(v) PROVE StatementTypes'
  BY <1>5 DEF AdjustPenaltyMultiplier, StatementTypes
<1>6. CASE ResetWaiver
  BY <1>6 DEF ResetWaiver, StatementTypes
<1>7. CASE PostMonth
  BY <1>7, PostTyped
<1>8. CASE UNCHANGED statementVars
  BY <1>8 DEF statementVars, StatementTypes
<1> QED
  BY <1>1, <1>2, <1>3, <1>4, <1>5, <1>6, <1>7, <1>8 DEF StatementNext

-----------------------------------------------------------------------------
(* Interest comes first, and the past stands.                              *)

\* Who settles what is unpaid leaves nothing unpaid.
LEMMA SettledIsPaid ==
  ASSUME NEW v, NEW w, multiplier \in Nat,
         v.accrued \in Int, v.settled \in Int,
         w.accrued = v.accrued, w.penalized = v.penalized, w.settled = v.settled + Unpaid(v)
  PROVE  Unpaid(w) = 0
<1>1. Unit \in Nat \ {0} /\ Rate \in Int /\ Principal \in Int /\ MinDays \in Int
  BY LoanStatementAssumption DEF Unit
<1> DEFINE m == Principal * Rate * (100 + IF v.penalized THEN multiplier ELSE 0) * MinDays
           X == Most(Net(v), Positive(m - Unit * v.settled))
           Y == Most(Net(w), Positive(m - Unit * w.settled))
           i == Round(X)
<1>2. m \in Int
  BY <1>1
<1>3. Unpaid(v) = i /\ Unpaid(w) = Round(Y)
  BY DEF Unpaid
<1> HIDE DEF m
<1>4. Unit * v.settled \in Int
  BY <1>1
<1>5. X \in Int /\ X >= 0 /\ X >= v.accrued - Unit * v.settled /\ X >= m - Unit * v.settled
  BY <1>2, <1>4 DEF Most, Net, Positive
<1>6. i \in Int /\ 2 * X + Unit < 2 * Unit * i + 2 * Unit
  BY <1>5, RoundIs
<1> HIDE DEF X, i
<1>7. w.settled = v.settled + i /\ w.settled \in Int
  BY <1>3, <1>6
<1>8. Unit * w.settled = Unit * v.settled + Unit * i /\ Unit * i \in Int
  BY <1>1, <1>6, <1>7
<1>9. Y \in Int /\ Y >= 0 /\ (Y = 0 \/ Y = v.accrued - Unit * w.settled \/ Y = m - Unit * w.settled)
  BY <1>2, <1>4, <1>8 DEF Most, Net, Positive
<1> HIDE DEF Y
<1>10. 2 * Unit * i = 2 * (Unit * i)
  BY <1>1, <1>6
<1>11. 2 * Y < Unit
  <2>1. Y = 0 \/ Y <= X - Unit * i
    BY <1>2, <1>4, <1>5, <1>8, <1>9
  <2>2. 2 * (X - Unit * i) < Unit
    BY <1>1, <1>5, <1>6, <1>8, <1>10
  <2> QED
    BY <2>1, <2>2, <1>1, <1>5, <1>8, <1>9
<1> QED
  BY <1>3, <1>9, <1>11, RoundOfWhole

\* Until the day before it, the statement stands.
LEMMA SettleLater ==
  ASSUME StatementTypes, NEW kind \in Kind, NEW amount \in Amounts, NEW d \in Day \ {0}, d <= day,
         RecordSettlement(kind, amount, d)
  PROVE  SameUntil(d - 1, settlements, settlements', waivedFrom, waivedFrom')
<1>1. /\ DOMAIN settlements' = DOMAIN settlements \cup {d}
      /\ \A c \in DOMAIN settlements : settlements'[c] = settlements[c]
      /\ waivedFrom' = waivedFrom
  BY SettleTyped
<1>2. d \in Int
  BY LoanStatementAssumption DEF Day
<1> QED
  BY <1>1, <1>2 DEF SameUntil, Of

\* A waiver of the penalty holds from tomorrow on.
LEMMA WaivedLater ==
  ASSUME StatementTypes, WaivePenalty
  PROVE  \A S : SameUntil(day, S, S, waivedFrom, waivedFrom')
<1>1. waivedFrom = Never /\ waivedFrom' = day /\ day \in Int /\ Never \notin Nat
  BY LoanStatementAssumption DEF WaivePenalty, PenaltyActive, StatementTypes, Day
<1> QED
  BY <1>1 DEF SameUntil, WaivedOn

\* What PastStands says of a step.
PastStep ==
  /\ \A c \in (DOMAIN settlements)' \ DOMAIN settlements, d \in Day :
       d <= c => Statement(settlements)[d].accrued' = Statement(settlements)[d].accrued
  /\ WaivePenalty \/ NextDay => Unpaid(Statement(settlements)[day])
                                  = Unpaid(Walk(settlements', waivedFrom', multiplier')[day])

\* What accrued until a payment or waiver stands.
LEMMA SettlePast ==
  ASSUME StatementTypes, NEW kind \in Kind, NEW amount \in Amounts, NEW c \in Day \ {0}, c <= day,
         RecordSettlement(kind, amount, c)
  PROVE  /\ DOMAIN settlements' \ DOMAIN settlements = {c}
         /\ \A d \in Day : d <= c
              => Statement(settlements)[d].accrued' = Statement(settlements)[d].accrued
<1>1. SameUntil(c - 1, settlements, settlements', waivedFrom, waivedFrom')
        /\ multiplier' = multiplier /\ waivedFrom' = waivedFrom
      /\ DOMAIN settlements' \ DOMAIN settlements = {c}
  BY SettleLater, SettleTyped
<1>2. SUFFICES ASSUME NEW d \in Day, d <= c
               PROVE  Walk(settlements', waivedFrom', multiplier)[d].accrued
                      = Walk(settlements, waivedFrom, multiplier)[d].accrued
  BY <1>1 DEF Statement
<1>3. CASE d = 0
  BY <1>3, WalkIs
<1>4. CASE d # 0
  <2>1. SameUntil(d - 1, settlements, settlements', waivedFrom, waivedFrom')
    BY <1>1, <1>2, LoanStatementAssumption DEF SameUntil, Day
  <2>2. WaivedOn(waivedFrom, d) <=> WaivedOn(waivedFrom', d)
    BY <1>1
  <2> QED
    BY <1>4, <2>1, <2>2, AccruedBefore
<1> QED
  BY <1>3, <1>4

\* No step changes what was.
LEMMA PastStepHolds == ASSUME StatementTypes, [StatementNext]_statementVars PROVE PastStep
<1>1. CASE NextDay
  BY <1>1 DEF NextDay, PastStep, WaivePenalty, Statement
<1>2. ASSUME NEW a \in Amounts, NEW d \in Day, Pay(a, d) PROVE PastStep
  <2>1. d \in Day \ {0} /\ d <= day /\ RecordSettlement("payment", a, d) /\ "payment" \in Kind
    BY <1>2 DEF Pay, Kind
  <2>2. ~WaivePenalty /\ ~NextDay
    <3>1. day' = day /\ waivedFrom' = waivedFrom
      BY <2>1 DEF RecordSettlement
    <3>2. day \in Int /\ Never \notin Nat /\ day \in Nat
      BY LoanStatementAssumption DEF StatementTypes, Day
    <3> QED
      BY <3>1, <3>2 DEF WaivePenalty, NextDay, PenaltyActive
  <2> QED
    BY <2>1, <2>2, SettlePast DEF PastStep
<1>3. ASSUME NEW a \in Amounts, Waive(a) PROVE PastStep
  <2>1. day \in Day \ {0} /\ day <= day /\ RecordSettlement("waiver", a, day) /\ "waiver" \in Kind
    BY <1>3, LoanStatementAssumption DEF Waive, StatementTypes, Day, Kind
  <2>2. ~WaivePenalty /\ ~NextDay
    <3>1. day' = day /\ waivedFrom' = waivedFrom
      BY <2>1 DEF RecordSettlement
    <3>2. day \in Int /\ Never \notin Nat /\ day \in Nat
      BY LoanStatementAssumption DEF StatementTypes, Day
    <3> QED
      BY <3>1, <3>2 DEF WaivePenalty, NextDay, PenaltyActive
  <2> QED
    BY <2>1, <2>2, SettlePast DEF PastStep
<1>4. CASE WaivePenalty
  <2>1. SameUntil(day, settlements, settlements, waivedFrom, waivedFrom') /\ day \in Day
          /\ day \in 0..day
    BY <1>4, WaivedLater, LoanStatementAssumption DEF StatementTypes, Day
  <2>2. settlements' = settlements /\ multiplier' = multiplier
    BY <1>4 DEF WaivePenalty
  <2>3. Walk(settlements, waivedFrom, multiplier)[day]
          = Walk(settlements, waivedFrom', multiplier)[day]
    BY <2>1, StatementLooksBack
  <2> QED
    BY <2>2, <2>3 DEF PastStep, Statement
<1>5. CASE settlements' = settlements /\ ~WaivePenalty /\ ~NextDay
  BY <1>5 DEF PastStep
<1> QED
  <2>1. (\E v \in Multipliers : AdjustPenaltyMultiplier(v)) \/ ResetWaiver \/ PostMonth
        \/ UNCHANGED statementVars => settlements' = settlements
    BY DEF AdjustPenaltyMultiplier, ResetWaiver, PostMonth, statementVars
  <2> QED
    BY <1>1, <1>2, <1>3, <1>4, <1>5, <2>1 DEF StatementNext

\* Who pays principal paid all interest of the day, and no settlement that
\* comes in order touches the days before it.
LEMMA SettleFirst ==
  ASSUME StatementTypes, InterestFirst, NEW kind \in Kind, NEW amount \in Amounts,
         NEW d \in Day \ {0}, d <= day,
         RecordSettlement(kind, amount, d)
  PROVE  InterestFirst'
<1> DEFINE V == Walk(settlements, waivedFrom, multiplier)
           W == Walk(settlements', waivedFrom, multiplier)
<1>1. /\ DOMAIN settlements' = DOMAIN settlements \cup {d} /\ d \notin DOMAIN settlements
      /\ \A c \in DOMAIN settlements : settlements'[c] = settlements[c]
      /\ settlements'[d].interest = InterestPart(amount, d)
      /\ settlements'[d].principal = PrincipalPart(amount, d)
      /\ waivedFrom' = waivedFrom /\ multiplier' = multiplier
  BY SettleTyped
<1>2. SUFFICES ASSUME untouched', NEW c \in DOMAIN settlements', settlements'[c].principal > 0
               PROVE  Unpaid(W[c]) = 0
  BY <1>1 DEF InterestFirst, Statement, Unpaid
<1>3. SameUntil(d - 1, settlements, settlements', waivedFrom, waivedFrom)
  BY SettleLater, <1>1
<1>4. untouched /\ \A e \in DOMAIN settlements : e < d
  BY <1>2 DEF RecordSettlement
<1>5. day \in Int /\ MaxDay \in Nat /\ DOMAIN settlements \subseteq 1..day /\ d - 1 \in Day
  BY LoanStatementAssumption DEF StatementTypes, Day
<1>6. CASE c \in DOMAIN settlements
  <2>1. c \in 0..(d - 1)
    BY <1>4, <1>5, <1>6 DEF Day
  <2>2. W[c] = V[c]
    BY <2>1, <1>3, <1>5, StatementLooksBack
  <2>3. settlements[c].principal > 0
    BY <1>1, <1>2, <1>6
  <2> QED
    BY <1>4, <1>6, <2>2, <2>3 DEF InterestFirst, Statement
<1>7. CASE c = d
  <2>1. InterestPart(amount, d) = Unpaid(V[d])
    BY <1>1, <1>2, <1>7, PartsTyped DEF Statement
  <2>2. /\ V[d].accrued = W[d].accrued /\ V[d].penalized = W[d].penalized
        /\ V[d].settled = V[d - 1].settled + Of(settlements, "interest", d)
        /\ W[d].settled = V[d - 1].settled + Of(settlements', "interest", d)
    BY <1>3, AccruedBefore
  <2>3. Of(settlements, "interest", d) = 0
          /\ Of(settlements', "interest", d) = InterestPart(amount, d)
    BY <1>1 DEF Of
  <2>4. V[d - 1].settled \in Int /\ V[d].settled \in Int /\ V[d].accrued \in Int
    BY <1>5, StatementTyped DEF Statement
  <2>5. InterestPart(amount, d) \in Int
    BY PartsTyped
  <2>6. multiplier \in Nat
    BY DEF StatementTypes
  <2> HIDE DEF V, W
  <2>7. W[d].settled = V[d].settled + Unpaid(V[d])
    BY <2>1, <2>2, <2>3, <2>4, <2>5
  <2> QED
    BY <1>7, <2>2, <2>4, <2>6, <2>7, SettledIsPaid
<1> QED
  BY <1>1, <1>2, <1>6, <1>7

\* InterestFirst is inductive on these types.
LEMMA FirstStep ==
  ASSUME StatementTypes, InterestFirst, [StatementNext]_statementVars
  PROVE  InterestFirst'
<1>1. CASE UNCHANGED <<settlements, waivedFrom, multiplier, untouched>>
  BY <1>1 DEF InterestFirst, Statement, Unpaid
<1>2. ASSUME NEW a \in Amounts, NEW d \in Day, Pay(a, d) PROVE InterestFirst'
  <2>1. d \in Day \ {0} /\ d <= day /\ RecordSettlement("payment", a, d) /\ "payment" \in Kind
    BY <1>2 DEF Pay, Kind
  <2> QED
    BY <2>1, SettleFirst
<1>3. ASSUME NEW a \in Amounts, Waive(a) PROVE InterestFirst'
  <2>1. day \in Day \ {0} /\ day <= day /\ RecordSettlement("waiver", a, day) /\ "waiver" \in Kind
    BY <1>3, LoanStatementAssumption DEF Waive, StatementTypes, Day, Kind
  <2> QED
    BY <2>1, SettleFirst
<1>4. CASE WaivePenalty
  <2>1. SameUntil(day, settlements, settlements, waivedFrom, waivedFrom') /\ day \in Day
    BY <1>4, WaivedLater DEF StatementTypes
  <2>2. settlements' = settlements /\ multiplier' = multiplier /\ untouched' = untouched
    BY <1>4 DEF WaivePenalty
  <2>3. \A d \in 0..day : Walk(settlements, waivedFrom, multiplier)[d]
          = Walk(settlements, waivedFrom', multiplier)[d]
    BY <2>1, StatementLooksBack
  <2>4. \A d \in DOMAIN settlements : d \in 0..day
    BY LoanStatementAssumption DEF StatementTypes, Day
  <2> QED
    BY <2>2, <2>3, <2>4 DEF InterestFirst, Statement, Unpaid
<1>5. ASSUME NEW v \in Multipliers, AdjustPenaltyMultiplier(v) PROVE InterestFirst'
  BY <1>5 DEF AdjustPenaltyMultiplier, InterestFirst
<1>6. CASE ResetWaiver
  BY <1>6 DEF ResetWaiver, InterestFirst
<1> QED
  <2>1. NextDay \/ PostMonth \/ UNCHANGED statementVars
          => UNCHANGED <<settlements, waivedFrom, multiplier, untouched>>
    BY DEF NextDay, PostMonth, statementVars
  <2> QED
    BY <1>1, <1>2, <1>3, <1>4, <1>5, <1>6, <2>1 DEF StatementNext

LEMMA FirstInit == StatementInit => StatementTypes /\ InterestFirst
<1> SUFFICES ASSUME StatementInit PROVE StatementTypes /\ InterestFirst
  OBVIOUS
<1>1. DOMAIN settlements = {}
  BY DEF StatementInit
<1> QED
  BY <1>1, LoanStatementAssumption DEF StatementInit, StatementTypes, InterestFirst, Day

\* InterestFirst: a payment or waiver that repays principal leaves no interest
\* unpaid on its day, in every later statement too, whatever is recorded in order
\* afterwards: allocateLoanPayment with the statement of the day.
THEOREM InterestComesFirst == StatementSpec => []InterestFirst
<1>1. StatementTypes /\ InterestFirst /\ [StatementNext]_statementVars
        => (StatementTypes /\ InterestFirst)'
  BY StatementTypesStep, FirstStep
<1> QED
  BY <1>1, FirstInit, PTL DEF StatementSpec

\* PastStands: no payment or waiver changes the interest accrued by its day, and
\* neither a waiver of the penalty nor a new day changes what is owed today:
\* buildLoanStatement reads the rows of the days behind it only.
THEOREM ThePastStands == StatementSpec => PastStands
<1>1. StatementInit => StatementTypes
  BY FirstInit
<1>2. StatementTypes /\ [StatementNext]_statementVars => StatementTypes' /\ PastStep
  BY StatementTypesStep, PastStepHolds
<1>3. StatementTypes /\ [StatementNext]_statementVars => StatementTypes' /\ [PastStep]_statementVars
  BY <1>2
<1>4. [PastStep]_statementVars
        => [/\ \A c \in (DOMAIN settlements)' \ DOMAIN settlements, d \in Day :
                 d <= c => Statement(settlements)[d].accrued' = Statement(settlements)[d].accrued
            /\ WaivePenalty \/ NextDay =>
                 Unpaid(Statement(settlements)[day])
                   = Unpaid(Walk(settlements', waivedFrom', multiplier')[day])]_statementVars
  BY DEF PastStep
<1> QED
  BY <1>1, <1>3, <1>4, PTL DEF StatementSpec, PastStands

-----------------------------------------------------------------------------
(* The journal at the checkpoints.                                         *)

\* Until day n every month is posted and every settlement left no interest.
PaidUntil(n) ==
  /\ \A e \in MonthEnds : e < n => e \in done
  /\ \A c \in DOMAIN settlements : c <= n => Receivable(Statement(settlements)[c]) = 0

\* The journal shows what the statement does at the month ends posted, and
\* nothing at the settlements that left no interest.
Kept ==
  untouched =>
    /\ \A e \in done : Receivable(Statement(settlements)[e]) = RecordedBy(e)
    /\ \A d \in DOMAIN settlements : PaidUntil(d) => RecordedAt(d) = 0

\* While nothing is settled, what should be receivable grows.
LEMMA ReceivableGrows ==
  ASSUME StatementTypes, NEW e \in Day, NEW n \in Day, e <= n,
         \A c \in DOMAIN settlements : ~(e < c /\ c <= n)
  PROVE  Receivable(Statement(settlements)[e]) <= Receivable(Statement(settlements)[n])
<1> DEFINE v == Statement(settlements)[e]
           w == Statement(settlements)[n]
<1>1. w.settled = v.settled /\ w.accrued >= v.accrued
  BY StatementGrows
<1>2. v.accrued \in Int /\ v.settled \in Int /\ w.accrued \in Int
  BY StatementTyped
<1> HIDE DEF v, w
<1>3. Unit * v.settled \in Int
  BY <1>2, StatementNumbersAre DEF StatementNumbers
<1>4. Net(v) \in Int /\ Net(w) \in Int /\ Net(v) <= Net(w)
  BY <1>1, <1>2, <1>3 DEF Net, Positive
<1> QED
  BY <1>4, RoundMonotone DEF Receivable, v, w

\* What the journal shows on a day it showed at the last checkpoint before.
Checkpoint(q, n) ==
  /\ q \in Day /\ q <= n
  /\ \A c \in DOMAIN settlements : ~(q < c /\ c <= n)
  /\ \/ q \in MonthEnds /\ q < n /\ RecordedAt(n) = RecordedBy(q)
     \/ /\ q \in DOMAIN settlements /\ RecordedAt(n) = RecordedAt(q)
        /\ \A e \in MonthEnds : ~(q <= e /\ e < n)

LEMMA CheckpointIs ==
  ASSUME StatementTypes, NEW n \in Day, \A c \in DOMAIN settlements : c <= n
  PROVE  RecordedAt(n) = 0 \/ \E q : Checkpoint(q, n)
<1> DEFINE Q == {e \in MonthEnds : e < n} \cup DOMAIN settlements
<1>1. n \in Nat /\ n <= MaxDay /\ MaxDay \in Nat /\ Day = 0..MaxDay /\ MonthEnds \subseteq 1..MaxDay
  BY StatementNumbersAre DEF StatementNumbers
<1>2. \A x \in Q : x \in Nat /\ x <= n
  BY <1>1 DEF StatementTypes
<1>3. CASE Q = {}
  <2>1. {e \in MonthEnds : e < n} = {} /\ {c \in DOMAIN settlements : c <= n} = {}
    BY <1>3
  <2>2. PostedBefore(n) = 0 /\ By(settlements, "reversed", n) = 0
    BY <2>1, SumOfNone DEF PostedBefore, By
  <2> QED
    BY <2>2 DEF RecordedAt
<1>4. CASE Q # {}
  <2>1. PICK q \in Q : \A x \in Q : q >= x
    <3>1. Q \in SUBSET Nat /\ \A x \in Q : x <= n
      BY <1>2
    <3> HIDE DEF Q
    <3> QED
      BY <1>1, <1>4, <3>1, LatestNatural
  <2>2. q \in Nat /\ q <= n /\ q \in Day /\ n \in Nat
    BY <1>1, <1>2
  <2>3. \A c \in DOMAIN settlements : c \in Nat /\ c <= q
    BY <1>2, <2>1, <2>2
  <2>4. \A e \in MonthEnds : e \in Nat /\ (e < n => e <= q)
    BY <1>1, <1>2, <2>1, <2>2
  <2>5. By(settlements, "reversed", n) = By(settlements, "reversed", q)
    <3>1. {c \in DOMAIN settlements : c <= n} = {c \in DOMAIN settlements : c <= q}
      BY <2>2, <2>3
    <3> QED
      BY <3>1 DEF By
  <2>6. \A c \in DOMAIN settlements : ~(q < c /\ c <= n)
    BY <2>2, <2>3
  <2>7. CASE q \in MonthEnds /\ q < n
    <3>1. ASSUME NEW e \in MonthEnds PROVE e < n <=> e < q + 1
      BY <2>2, <2>4, <2>7
    <3>2. {e \in MonthEnds : e < n} = {e \in MonthEnds : e < q + 1}
      BY <3>1
    <3>3. RecordedAt(n) = RecordedBy(q)
      BY <2>5, <3>2 DEF RecordedAt, RecordedBy, PostedBefore
    <3> QED
      BY <2>2, <2>6, <2>7, <3>3 DEF Checkpoint
  <2>8. CASE ~(q \in MonthEnds /\ q < n)
    <3>1. ASSUME NEW e \in MonthEnds PROVE (e < n <=> e < q) /\ ~(q <= e /\ e < n)
      BY <2>2, <2>4, <2>8
    <3>2. {e \in MonthEnds : e < n} = {e \in MonthEnds : e < q}
      BY <3>1
    <3>3. RecordedAt(n) = RecordedAt(q)
      BY <2>5, <3>2 DEF RecordedAt, PostedBefore
    <3>4. q \in DOMAIN settlements
      BY <2>8
    <3> QED
      BY <2>2, <2>6, <3>1, <3>3, <3>4 DEF Checkpoint
  <2> QED
    BY <2>7, <2>8
<1> QED
  BY <1>3, <1>4

\* Between one checkpoint and the next the journal shows no more than the
\* statement.
LEMMA Carried ==
  ASSUME StatementTypes, Kept, untouched, NEW n \in Day, PaidUntil(n),
         \A c \in DOMAIN settlements : c <= n
  PROVE  0 <= RecordedAt(n) /\ RecordedAt(n) <= Receivable(Statement(settlements)[n])
<1>1. Receivable(Statement(settlements)[n]) \in Nat
  BY OwedTyped
<1>2. CASE RecordedAt(n) = 0
  BY <1>1, <1>2
<1>3. ASSUME NEW q, Checkpoint(q, n)
      PROVE  0 <= RecordedAt(n) /\ RecordedAt(n) <= Receivable(Statement(settlements)[n])
  <2>1. q \in Day /\ q <= n /\ \A c \in DOMAIN settlements : ~(q < c /\ c <= n)
    BY <1>3 DEF Checkpoint
  <2>2. CASE q \in MonthEnds /\ q < n /\ RecordedAt(n) = RecordedBy(q)
    <3>1. RecordedAt(n) = Receivable(Statement(settlements)[q])
      BY <2>2 DEF Kept, PaidUntil
    <3>2. Receivable(Statement(settlements)[q]) \in Nat
      BY <2>1, OwedTyped
    <3>3. Receivable(Statement(settlements)[q]) <= Receivable(Statement(settlements)[n])
      BY <2>1, ReceivableGrows
    <3> QED
      BY <3>1, <3>2, <3>3
  <2>3. CASE q \in DOMAIN settlements /\ RecordedAt(n) = RecordedAt(q)
             /\ \A e \in MonthEnds : ~(q <= e /\ e < n)
    <3>1. n \in Nat /\ q \in Nat /\ MonthEnds \subseteq Nat
      BY <2>1, StatementNumbersAre DEF StatementNumbers
    <3>2. \A c \in DOMAIN settlements : c \in Nat
      BY StatementNumbersAre DEF StatementTypes, StatementNumbers
    <3>3. PaidUntil(q)
      BY <2>1, <3>1, <3>2 DEF PaidUntil
    <3> QED
      BY <1>1, <2>3, <3>3 DEF Kept
  <2> QED
    BY <1>3, <2>2, <2>3 DEF Checkpoint
<1> QED
  BY <1>2, <1>3, CheckpointIs

\* Who settles so much that nothing is receivable settles what was.
LEMMA SettledAll ==
  ASSUME NEW v, NEW w, NEW i \in Nat, v.accrued \in Int, v.settled \in Int,
         w.accrued = v.accrued, w.settled = v.settled + i, Receivable(w) = 0
  PROVE  Receivable(v) <= i
<1>1. Unit \in Nat \ {0}
  BY StatementNumbersAre DEF StatementNumbers
<1> DEFINE A == v.accrued - Unit * v.settled
           r == Round(Net(v))
<1>2. A \in Int /\ Unit * i \in Int
  BY <1>1
<1>3. w.accrued - Unit * w.settled = A - Unit * i
  BY <1>1
<1> HIDE DEF A
<1>4. Net(w) \in Int /\ Net(w) >= A - Unit * i
  BY <1>2, <1>3 DEF Net, Positive
<1>5. 2 * Net(w) + Unit < 2 * Unit
  <2>1. 2 * Net(w) + Unit < 2 * Unit * 0 + 2 * Unit
    BY <1>4, RoundIs DEF Receivable
  <2> QED
    BY <1>1, <2>1
<1>6. Net(v) \in Int /\ (Net(v) = A \/ Net(v) = 0)
  BY <1>2 DEF Net, Positive, A
<1>7. r \in Int /\ 2 * Unit * r <= 2 * Net(v) + Unit
  BY <1>6, RoundIs
<1> HIDE DEF r
<1>8. SUFFICES ASSUME ~ r <= i PROVE FALSE
  BY DEF r, Receivable
<1>9. 2 * Unit * r >= 2 * (Unit * i) + 2 * Unit
  <2>1. r >= i + 1
    BY <1>7, <1>8
  <2>2. 2 * Unit * r >= 2 * Unit * (i + 1)
    BY <1>1, <1>7, <2>1
  <2>3. 2 * Unit * (i + 1) = 2 * (Unit * i) + 2 * Unit
    BY <1>1
  <2> QED
    BY <2>2, <2>3
<1>10. 2 * Unit * r \in Int
  BY <1>1, <1>7
<1>11. Unit * i >= 0
  BY <1>1
<1> QED
  BY <1>1, <1>2, <1>4, <1>5, <1>6, <1>7, <1>9, <1>10, <1>11

\* What a settlement adds to the accruals reversed.
LEMMA SettleReverses ==
  ASSUME StatementTypes, NEW kind \in Kind, NEW amount \in Amounts, NEW d \in Day \ {0}, d <= day,
         RecordSettlement(kind, amount, d)
  PROVE  /\ \A e \in Day : e < d => By(settlements', "reversed", e) = By(settlements, "reversed", e)
         /\ By(settlements', "reversed", d) = By(settlements, "reversed", d)
              + Reversal(kind, InterestPart(amount, d), d)
<1> DEFINE f == [c \in DOMAIN settlements |-> settlements[c]["reversed"]]
           g == [c \in DOMAIN settlements' |-> settlements'[c]["reversed"]]
           D(e) == {c \in DOMAIN settlements : c <= e}
<1>1. /\ StatementTypes' /\ DOMAIN settlements' = DOMAIN settlements \cup {d}
           /\ d \notin DOMAIN settlements
      /\ \A c \in DOMAIN settlements : settlements'[c] = settlements[c]
      /\ settlements'[d]["reversed"] = Reversal(kind, InterestPart(amount, d), d)
  BY SettleTyped
<1>2. d \in Nat /\ \A e \in Day : e \in Nat
  BY StatementNumbersAre DEF StatementNumbers
<1>3. "reversed" \in Field
  BY DEF Field
<1>4. \A e : IsFiniteSet(D(e))
  BY <1>3, ByTyped
<1>5. \A e : \A x \in D(e) : f[x] = g[x] /\ f[x] \in Int
  BY <1>1, <1>3 DEF StatementTypes
<1>6. g[d] = Reversal(kind, InterestPart(amount, d), d) /\ g[d] \in Int
  <2>1. d \in DOMAIN settlements' /\ settlements'[d]["reversed"] \in Int
    BY <1>1, <1>3 DEF StatementTypes
  <2> QED
    BY <1>1, <2>1
<1>7. /\ \A e : By(settlements, "reversed", e) = SumFunctionOnSet(f, D(e))
      /\ \A e \in Day : e < d => By(settlements', "reversed", e) = SumFunctionOnSet(g, D(e))
      /\ By(settlements', "reversed", d) = SumFunctionOnSet(g, D(d) \cup {d})
  <2>1. ASSUME NEW e \in Day, e < d PROVE {c \in DOMAIN settlements' : c <= e} = D(e)
    <3>1. ~(d <= e)
      BY <1>2, <2>1
    <3> QED
      BY <1>1, <3>1
  <2>2. {c \in DOMAIN settlements' : c <= d} = D(d) \cup {d}
    BY <1>1, <1>2
  <2> QED
    BY <2>1, <2>2 DEF By
<1>8. d \notin D(d)
  BY <1>1
<1> HIDE DEF f, g, D
<1>9. \A e : SumFunctionOnSet(f, D(e)) = SumFunctionOnSet(g, D(e))
        /\ SumFunctionOnSet(g, D(e)) \in Int
  BY <1>4, <1>5, SumCongruent, SumTyped
<1>10. SumFunctionOnSet(g, D(d) \cup {d}) = g[d] + SumFunctionOnSet(g, D(d))
  <2>1. IsFiniteSet(D(d) \cup {d}) /\ \A x \in D(d) \cup {d} : g[x] \in Int
    BY <1>4, <1>5, <1>6, FS_AddElement
  <2>2. SumFunctionOnSet(g, D(d) \cup {d}) = g[d] + SumFunctionOnSet(g, (D(d) \cup {d}) \ {d})
    BY <2>1, SumRemove
  <2>3. (D(d) \cup {d}) \ {d} = D(d)
    BY <1>8
  <2> QED
    BY <2>2, <2>3
<1> QED
  BY <1>6, <1>7, <1>9, <1>10

\* A settlement in order that leaves no interest reverses all that was
\* recorded.
LEMMA SettleKept ==
  ASSUME StatementTypes, Kept, NEW kind \in Kind, NEW amount \in Amounts, NEW d \in Day \ {0},
         d <= day, RecordSettlement(kind, amount, d)
  PROVE  Kept'
<1> DEFINE V == Walk(settlements, waivedFrom, multiplier)
           W == Walk(settlements', waivedFrom, multiplier)
           i == InterestPart(amount, d)
<1>1. SUFFICES ASSUME untouched' PROVE Kept'
  BY DEF Kept
<1>2. /\ DOMAIN settlements' = DOMAIN settlements \cup {d} /\ d \notin DOMAIN settlements
      /\ \A c \in DOMAIN settlements : settlements'[c] = settlements[c]
      /\ settlements'[d].interest = i
      /\ waivedFrom' = waivedFrom /\ multiplier' = multiplier /\ posted' = posted /\ done' = done
  BY SettleTyped
<1>3. untouched /\ \A e \in done \cup DOMAIN settlements : e < d
  BY <1>1 DEF RecordSettlement
<1>4. /\ d \in Nat /\ d - 1 \in Day /\ \A e \in Day : e \in Nat
      /\ \A e \in done \cup DOMAIN settlements : e \in Day /\ e \in 0..(d - 1) /\ e <= day
  <2>1. d \in Nat /\ d - 1 \in Day /\ day \in Day /\ \A e \in Day : e \in Nat
    BY StatementNumbersAre DEF StatementNumbers, StatementTypes
  <2>2. \A e \in done \cup DOMAIN settlements : e \in Day
    BY StatementNumbersAre DEF StatementNumbers, StatementTypes
  <2>3. \A e \in done \cup DOMAIN settlements : e \in Nat /\ e < d
    BY <1>3, <2>1, <2>2
  <2> QED
    BY <2>1, <2>2, <2>3
<1>5. \A e \in 0..(d - 1) : V[e] = W[e]
  <2>1. SameUntil(d - 1, settlements, settlements', waivedFrom, waivedFrom)
    BY SettleLater, <1>2
  <2> QED
    BY <1>4, <2>1, StatementLooksBack
<1>6. \A e \in Day : e < d => RecordedAt(e)' = RecordedAt(e) /\ RecordedBy(e)' = RecordedBy(e)
  BY <1>2, SettleReverses DEF RecordedAt, RecordedBy, PostedBefore
<1>7. ASSUME NEW e \in done PROVE Receivable(W[e]) = RecordedBy(e)'
  <2>1. Receivable(V[e]) = RecordedBy(e)
    BY <1>3 DEF Kept, Statement
  <2> QED
    BY <1>3, <1>4, <1>5, <1>6, <2>1
<1>8. ASSUME NEW c \in DOMAIN settlements, PaidUntil(c)' PROVE RecordedAt(c)' = 0
  <2>1. \A e \in MonthEnds : e < c => e \in done
    BY <1>2, <1>8 DEF PaidUntil
  <2>2. ASSUME NEW b \in DOMAIN settlements, b <= c PROVE Receivable(V[b]) = 0
    <3>1. Receivable(W[b]) = 0
      BY <1>2, <1>8, <2>2 DEF PaidUntil, Statement
    <3> QED
      BY <1>4, <1>5, <3>1
  <2>3. PaidUntil(c)
    BY <2>1, <2>2 DEF PaidUntil, Statement
  <2>4. RecordedAt(c) = 0
    BY <1>3, <2>3 DEF Kept
  <2> QED
    BY <1>3, <1>4, <1>6, <2>4
<1>9. ASSUME PaidUntil(d)' PROVE RecordedAt(d)' = 0
  <2>1. \A e \in MonthEnds : e < d => e \in done
    BY <1>2, <1>9 DEF PaidUntil
  <2>2. ASSUME NEW b \in DOMAIN settlements, b <= d PROVE Receivable(V[b]) = 0
    <3>1. Receivable(W[b]) = 0
      BY <1>2, <1>9, <2>2 DEF PaidUntil, Statement
    <3> QED
      BY <1>4, <1>5, <3>1
  <2>3. PaidUntil(d)
    BY <2>1, <2>2 DEF PaidUntil, Statement
  <2>4. 0 <= RecordedAt(d) /\ RecordedAt(d) <= Receivable(V[d])
    <3>1. \A c \in DOMAIN settlements : c <= d
      BY <1>3, <1>4
    <3> QED
      BY <1>3, <2>3, <3>1, Carried DEF Statement
  <2>5. Receivable(V[d]) <= i
    <3>1. V[d].accrued = W[d].accrued
      <4>1. SameUntil(d - 1, settlements, settlements', waivedFrom, waivedFrom)
        BY SettleLater, <1>2
      <4> QED
        BY <4>1, AccruedBefore
    <3>2. V[d].settled = V[d - 1].settled + 0 /\ W[d].settled = V[d - 1].settled + i
      <4>1. SameUntil(d - 1, settlements, settlements', waivedFrom, waivedFrom)
        BY SettleLater, <1>2
      <4>2. Of(settlements, "interest", d) = 0 /\ Of(settlements', "interest", d) = i
        BY <1>2 DEF Of
      <4>3. /\ V[d].settled = V[d - 1].settled + Of(settlements, "interest", d)
            /\ W[d].settled = V[d - 1].settled + Of(settlements', "interest", d)
        BY <4>1, AccruedBefore
      <4> QED
        BY <4>2, <4>3
    <3>3. V[d].settled \in Int /\ V[d - 1].settled \in Int /\ V[d].accrued \in Int
      BY <1>4, StatementTyped DEF Statement
    <3>4. i \in Nat
      BY PartsTyped
    <3>5. Receivable(W[d]) = 0
      <4>1. d \in DOMAIN settlements' /\ d <= d
        BY <1>2, <1>4
      <4> QED
        BY <1>2, <1>9, <4>1 DEF PaidUntil, Statement
    <3> HIDE DEF V, W, i
    <3>6. W[d].settled = V[d].settled + i
      BY <3>2, <3>3, <3>4
    <3> QED
      BY <3>1, <3>3, <3>4, <3>5, <3>6, SettledAll
  <2>6. RecordedAt(d)' = PostedBefore(d) - (By(settlements, "reversed", d) + Reversal(kind, i, d)) 
    BY <1>2, SettleReverses DEF RecordedAt, PostedBefore
  <2>7. \A k : Reversal(k, i, d) = Least(Positive(RecordedAt(d)), i)
    BY PartsTyped
  <2>8. RecordedAt(d) \in Int /\ i \in Nat /\ Receivable(V[d]) \in Nat
    BY RecordedTyped, PartsTyped, OwedTyped DEF Statement
  <2>9. PostedBefore(d) \in Int /\ By(settlements, "reversed", d) \in Int
    <3>1. "reversed" \in Field
      BY DEF Field
    <3> QED
      BY <3>1, PostedTyped, ByTyped
  <2> HIDE DEF V, i
  <2>10. Reversal(kind, i, d) = RecordedAt(d)
    BY <2>4, <2>5, <2>7, <2>8 DEF Least, Positive
  <2> QED
    BY <2>6, <2>8, <2>9, <2>10 DEF RecordedAt
<1> QED
  BY <1>2, <1>7, <1>8, <1>9 DEF Kept, Statement

\* The batch posts what was missing.
LEMMA PostKept == ASSUME StatementTypes, Kept, PostMonth PROVE Kept'
<1>1. PICK m : /\ StatementTypes' /\ Delta(m) \in Nat /\ m \in MonthEnds /\ m < day
               /\ posted' = [posted EXCEPT ![m] = @ + Delta(m)] /\ done' = done \cup {m}
               /\ (\A e \in MonthEnds : e < day => e <= m)
               /\ UNCHANGED <<day, settlements, waivedFrom, multiplier, untouched>>
               /\ ~Blocked(m)
           BY PostTyped
<1>2. \A e \in MonthEnds : e \in Nat /\ e \in Day
  BY StatementNumbersAre DEF StatementNumbers
<1>3. \A e \in MonthEnds \ {m} : posted'[e] = posted[e]
  BY <1>1 DEF StatementTypes
<1>4. m \in Nat /\ day \in Nat /\ DOMAIN settlements \subseteq 1..day
        /\ \A d \in DOMAIN settlements : d <= m
  <2>1. \A d \in DOMAIN settlements : d \in Nat /\ ~(d > m)
    BY <1>1, StatementNumbersAre DEF Blocked, StatementTypes, StatementNumbers
  <2> QED
    BY <1>1, <1>2, <2>1, StatementNumbersAre DEF StatementTypes, StatementNumbers
<1>5. \A d \in Nat : d <= m => PostedBefore(d)' = PostedBefore(d)
  <2>1. SUFFICES ASSUME NEW d \in Nat, d <= m PROVE PostedBefore(d)' = PostedBefore(d)
    OBVIOUS
  <2>2. \A e \in {e \in MonthEnds : e < d} : posted'[e] = posted[e]
    BY <1>2, <1>3, <1>4, <2>1
  <2>3. IsFiniteSet({e \in MonthEnds : e < d})
    BY PostedTyped
  <2> QED
    BY <2>2, <2>3, SumCongruent DEF PostedBefore
<1>6. \A d \in DOMAIN settlements : RecordedAt(d)' = RecordedAt(d)
  <2>1. \A d \in DOMAIN settlements : d \in Nat /\ d <= m
    BY <1>4
  <2> QED
    BY <1>1, <1>5, <2>1 DEF RecordedAt
<1>7. \A e \in done : e \in Nat /\ (e # m => e + 1 <= m)
  <2>1. \A e \in done : e \in MonthEnds /\ e < day
    BY DEF StatementTypes
  <2>2. \A e \in done : e \in Nat /\ e <= m
    BY <1>1, <1>2, <2>1
  <2> QED
    BY <1>4, <2>2
<1>8. \A e \in done \ {m} : RecordedBy(e)' = RecordedBy(e)
  <2>1. \A e \in done \ {m} : e + 1 \in Nat /\ e + 1 <= m
    BY <1>7
  <2> QED
    BY <1>1, <1>5, <2>1 DEF RecordedBy
<1>9. RecordedBy(m)' = posted'[m] + RecordedAt(m)'
  <2>1. \A e \in MonthEnds : posted'[e] \in Int
    BY <1>1 DEF StatementTypes
  <2>2. PostedBefore(m + 1)' = posted'[m] + PostedBefore(m)'
    BY <1>1, <2>1, SumThrough DEF PostedBefore
  <2>3. PostedBefore(m)' \in Int /\ By(settlements, "reversed", m) \in Int /\ posted'[m] \in Int
    <3>1. "reversed" \in Field
      BY DEF Field
    <3>2. By(settlements, "reversed", m) \in Int
      BY <3>1, ByTyped
    <3>3. PostedBefore(m)' \in Int
      BY <1>2, <1>4, <1>1, <1>5, PostedTyped
    <3> QED
      BY <1>1, <2>1, <3>2, <3>3
  <2> QED
    BY <1>1, <2>2, <2>3 DEF RecordedBy, RecordedAt
<1>10. RecordedBy(m)' = Receivable(Statement(settlements)[m])
  <2>1. RecordedBy(m) = posted[m] + RecordedAt(m)
    BY <1>1, PostedThrough
  <2>2. RecordedAt(m)' = RecordedAt(m)
    BY <1>1, <1>4, <1>5 DEF RecordedAt
  <2>3. posted'[m] = posted[m] + Delta(m) /\ posted[m] \in Int /\ Delta(m) \in Int
    BY <1>1 DEF StatementTypes
  <2>4. m \in Day
    BY <1>1, <1>2
  <2>5. Receivable(Statement(settlements)[m]) \in Int /\ RecordedBy(m) \in Int
          /\ RecordedAt(m) \in Int
    BY <2>4, OwedTyped, RecordedTyped
  <2> QED
    BY <1>9, <2>1, <2>2, <2>3, <2>5 DEF Delta
<1>11. Statement(settlements)' = Statement(settlements)
  BY <1>1 DEF Statement
<1>12. ASSUME NEW d \in DOMAIN settlements, PaidUntil(d)' PROVE PaidUntil(d)
  <2>1. \A e \in MonthEnds : e < d => e \in done
    BY <1>1, <1>2, <1>4, <1>12 DEF PaidUntil
  <2>2. \A c \in DOMAIN settlements : c <= d => Receivable(Statement(settlements)[c]) = 0
    BY <1>1, <1>11, <1>12 DEF PaidUntil
  <2> QED
    BY <2>1, <2>2 DEF PaidUntil
<1>13. SUFFICES ASSUME untouched' PROVE Kept'
  BY DEF Kept
<1>14. ASSUME NEW e \in done' PROVE Receivable(Statement(settlements)'[e]) = RecordedBy(e)'
  <2>1. CASE e = m
    BY <1>10, <1>11, <2>1
  <2>2. CASE e # m
    <3>1. e \in done /\ untouched
      BY <1>1, <1>13, <1>14, <2>2
    <3> QED
      BY <1>8, <1>11, <2>2, <3>1 DEF Kept
  <2> QED
    BY <2>1, <2>2
<1>15. ASSUME NEW d \in DOMAIN settlements', PaidUntil(d)' PROVE RecordedAt(d)' = 0
  BY <1>1, <1>6, <1>12, <1>13, <1>15 DEF Kept
<1> QED
  BY <1>14, <1>15 DEF Kept

\* Waiving the penalty changes no checkpoint.
LEMMA WaivedKept == ASSUME StatementTypes, Kept, WaivePenalty PROVE Kept'
<1> DEFINE V == Walk(settlements, waivedFrom, multiplier)
           W == Walk(settlements, waivedFrom', multiplier)
<1>1. UNCHANGED <<day, settlements, posted, done, multiplier, untouched>>
  BY DEF WaivePenalty
<1>2. \A d \in 0..day : V[d] = W[d]
  <2>1. SameUntil(day, settlements, settlements, waivedFrom, waivedFrom') /\ day \in Day
    BY WaivedLater DEF StatementTypes
  <2> QED
    BY <2>1, StatementLooksBack
<1>3. \A d \in done \cup DOMAIN settlements : d \in 0..day
  <2>1. day \in Nat /\ MonthEnds \subseteq Nat
    BY StatementNumbersAre DEF StatementNumbers, StatementTypes
  <2>2. \A d \in done : d \in Nat /\ d <= day
    <3>1. \A d \in done : d \in MonthEnds /\ d < day
      BY DEF StatementTypes
    <3>2. \A e \in MonthEnds : e < day => e \in Nat /\ e <= day
      BY <2>1
    <3> QED
      BY <3>1, <3>2
  <2>3. \A d \in DOMAIN settlements : d \in 1..day
    BY DEF StatementTypes
  <2> QED
    BY <2>1, <2>2, <2>3
<1>4. \A d \in done \cup DOMAIN settlements : Statement(settlements)[d]' = Statement(settlements)[d]
  BY <1>1, <1>2, <1>3 DEF Statement
<1>5. \A d : RecordedAt(d)' = RecordedAt(d) /\ RecordedBy(d)' = RecordedBy(d)
  BY <1>1 DEF RecordedAt, RecordedBy, PostedBefore
<1>6. \A d : PaidUntil(d)' <=> PaidUntil(d)
  BY <1>1, <1>4 DEF PaidUntil
<1> QED
  BY <1>1, <1>4, <1>5, <1>6 DEF Kept

LEMMA KeptInit == StatementInit => Kept
BY DEF StatementInit, Kept

LEMMA KeptStep == ASSUME StatementTypes, Kept, [StatementNext]_statementVars PROVE Kept'
<1>1. CASE UNCHANGED <<settlements, posted, done, waivedFrom, multiplier, untouched>>
  BY <1>1 DEF Kept, PaidUntil, Statement, RecordedAt, RecordedBy, PostedBefore
<1>2. ASSUME NEW a \in Amounts, NEW d \in Day, Pay(a, d) PROVE Kept'
  <2>1. d \in Day \ {0} /\ d <= day /\ RecordSettlement("payment", a, d) /\ "payment" \in Kind
    BY <1>2 DEF Pay, Kind
  <2> QED
    BY <2>1, SettleKept
<1>3. ASSUME NEW a \in Amounts, Waive(a) PROVE Kept'
  <2>1. day \in Day \ {0} /\ day <= day /\ RecordSettlement("waiver", a, day) /\ "waiver" \in Kind
    BY <1>3, LoanStatementAssumption DEF Waive, StatementTypes, Day, Kind
  <2> QED
    BY <2>1, SettleKept
<1>4. CASE WaivePenalty
  BY <1>4, WaivedKept
<1>5. ASSUME NEW v \in Multipliers, AdjustPenaltyMultiplier(v) PROVE Kept'
  BY <1>5 DEF AdjustPenaltyMultiplier, Kept
<1>6. CASE ResetWaiver
  BY <1>6 DEF ResetWaiver, Kept
<1>7. CASE PostMonth
  BY <1>7, PostKept
<1> QED
  <2>1. NextDay \/ UNCHANGED statementVars
          => UNCHANGED <<settlements, posted, done, waivedFrom, multiplier, untouched>>
    BY DEF NextDay, statementVars
  <2> QED
    BY <1>1, <1>2, <1>3, <1>4, <1>5, <1>6, <1>7, <2>1 DEF StatementNext

\* Nothing is missing, and nothing too much, where everything was paid.
LEMMA OnlyPartialsIf == ASSUME StatementTypes, Kept PROVE OnlyPartialBlocks
<1> DEFINE st == Statement(settlements)
<1>1. SUFFICES ASSUME NEW m \in MonthEnds, m < day, untouched,
                      \A e \in MonthEnds : e < m => e \in done,
                      \A d \in DOMAIN settlements : d <= m /\ Receivable(st[d]) = 0
               PROVE  ~Blocked(m)
  BY DEF OnlyPartialBlocks
<1>2. /\ m \in Nat /\ m \in Day /\ MonthEnds \subseteq Nat /\ DOMAIN settlements \subseteq Nat
  BY StatementNumbersAre DEF StatementNumbers, StatementTypes
<1>3. PaidUntil(m)
  BY <1>1 DEF PaidUntil
<1>4. \A e \in MonthEnds : e < m => Receivable(st[e]) = RecordedBy(e)
  BY <1>1 DEF Kept
<1>5. ASSUME NEW d \in DOMAIN settlements PROVE Receivable(st[d]) = RecordedAt(d)
  <2>1. d \in Nat /\ d <= m /\ \A e \in MonthEnds : e \in Nat
    BY <1>1, <1>2
  <2>2. PaidUntil(d)
    BY <1>1, <1>2, <2>1 DEF PaidUntil
  <2> QED
    BY <1>1, <2>2 DEF Kept
<1>6. NothingMissingBefore(m)
  BY <1>4, <1>5 DEF NothingMissingBefore
<1>7. Receivable(st[m]) \in Nat /\ RecordedBy(m) \in Int /\ RecordedAt(m) \in Int
  BY <1>2, OwedTyped, RecordedTyped
<1>8. ~(Delta(m) < 0)
  <2>1. CASE m \in done
    BY <1>1, <1>7, <2>1 DEF Kept, Delta
  <2>2. CASE m \notin done
    <3>1. posted[m] = 0
      BY <2>2 DEF StatementTypes
    <3>2. RecordedBy(m) = RecordedAt(m)
      BY <1>7, <3>1, PostedThrough
    <3>3. RecordedAt(m) <= Receivable(st[m])
      BY <1>1, <1>2, <1>3, Carried
    <3> QED
      BY <1>7, <3>2, <3>3 DEF Delta
  <2> QED
    BY <2>1, <2>2
<1>9. ~ \E d \in DOMAIN settlements : d > m
  BY <1>1, <1>2
<1> QED
  BY <1>6, <1>8, <1>9 DEF Blocked

\* OnlyPartialBlocks: while settlements come in order, leave no interest unpaid
\* and no month is missed, planPortfolioAccrualRepair finds no reason to block
\* the month: reverseInterestAccrual and the batch keep journal and statement
\* together.
THEOREM OnlyPartialsBlock == StatementSpec => []OnlyPartialBlocks
<1>1. StatementInit => StatementTypes /\ Kept
  BY FirstInit, KeptInit
<1>2. StatementTypes /\ Kept /\ [StatementNext]_statementVars => (StatementTypes /\ Kept)'
  BY StatementTypesStep, KeptStep
<1>3. StatementTypes /\ Kept => OnlyPartialBlocks
  BY OnlyPartialsIf
<1> QED
  BY <1>1, <1>2, <1>3, PTL DEF StatementSpec

-----------------------------------------------------------------------------
(* Planner and batch.                                                      *)

\* The settlements S have the field as an integer.
Summable(S, field) ==
  IsFiniteSet(DOMAIN S) /\ DOMAIN S \subseteq Nat \ {0} /\ \A c \in DOMAIN S : S[c][field] \in Int

\* What is settled by a day is what was by the day before, and that day's.
LEMMA ByStep ==
  ASSUME NEW S, NEW field, Summable(S, field)
  PROVE  /\ By(S, field, 0) = 0
         /\ \A d \in Nat \ {0} : By(S, field, d) = By(S, field, d - 1) + Of(S, field, d)
         /\ \A d \in Nat : By(S, field, d) \in Int /\ Of(S, field, d) \in Int
<1> DEFINE f == [c \in DOMAIN S |-> S[c][field]]
           D(d) == {c \in DOMAIN S : c <= d}
<1>1. \A d : IsFiniteSet(D(d)) /\ \A x \in D(d) : f[x] \in Int
  <2>1. \A d : D(d) \subseteq DOMAIN S
    OBVIOUS
  <2>2. \A d : \A x \in D(d) : f[x] \in Int
    BY DEF Summable
  <2> HIDE DEF D
  <2> QED
    BY <2>1, <2>2, FS_Subset DEF Summable
<1>2. \A d : By(S, field, d) = SumFunctionOnSet(f, D(d))
  BY DEF By
<1>3. D(0) = {}
  BY DEF Summable
<1>4. \A d \in Nat \ {0} : /\ d \in DOMAIN S => /\ D(d) = D(d - 1) \cup {d} /\ d \notin D(d - 1)
                                               /\ f[d] = Of(S, field, d)
                           /\ d \notin DOMAIN S => D(d) = D(d - 1) /\ Of(S, field, d) = 0
  <2>1. SUFFICES ASSUME NEW d \in Nat \ {0}
                 PROVE  /\ d \in DOMAIN S => /\ D(d) = D(d - 1) \cup {d} /\ d \notin D(d - 1)
                                            /\ f[d] = Of(S, field, d)
                        /\ d \notin DOMAIN S => D(d) = D(d - 1) /\ Of(S, field, d) = 0
    OBVIOUS
  <2>2. ASSUME NEW c \in DOMAIN S PROVE c <= d <=> c <= d - 1 \/ c = d
    BY DEF Summable
  <2>3. ~(d <= d - 1)
    OBVIOUS
  <2> QED
    BY <2>2, <2>3 DEF Of
<1> HIDE DEF f, D
<1>5. \A d : SumFunctionOnSet(f, D(d)) \in Int
  BY <1>1, SumTyped
<1>6. ASSUME NEW d \in Nat \ {0} PROVE By(S, field, d) = By(S, field, d - 1) + Of(S, field, d)
  <2>1. CASE d \in DOMAIN S
    <3>1. d \in D(d) /\ D(d) \ {d} = D(d - 1)
      BY <1>4, <2>1
    <3>2. SumFunctionOnSet(f, D(d)) = f[d] + SumFunctionOnSet(f, D(d - 1))
      BY <1>1, <3>1, SumRemove
    <3>3. f[d] \in Int
      BY <1>1, <3>1
    <3> QED
      BY <1>2, <1>4, <1>5, <2>1, <3>2, <3>3
  <2>2. CASE d \notin DOMAIN S
    BY <1>2, <1>4, <1>5, <2>2
  <2> QED
    BY <2>1, <2>2
<1>7. By(S, field, 0) = 0
  BY <1>2, <1>3, SumOfNone
<1>8. \A d \in Nat : By(S, field, d) \in Int /\ Of(S, field, d) \in Int
  BY <1>2, <1>5 DEF Of, Summable
<1> QED
  BY <1>6, <1>7, <1>8

LEMMA SettlementsSummable ==
  ASSUME StatementTypes, NEW field \in Field
  PROVE  Summable(settlements, field)
<1>1. IsFiniteSet(1..day)
  <2>1. 1 \in Int /\ day \in Int
    BY StatementNumbersAre DEF StatementTypes, StatementNumbers
  <2> QED
    BY <2>1, FS_Interval
<1>2. IsFiniteSet(DOMAIN settlements)
  BY <1>1, FS_Subset DEF StatementTypes
<1>3. DOMAIN settlements \subseteq Nat \ {0}
  BY StatementNumbersAre DEF StatementTypes, StatementNumbers
<1> QED
  BY <1>2, <1>3 DEF Summable, StatementTypes

\* The statement counts the interest settled.
LEMMA SettledIs ==
  ASSUME StatementTypes
  PROVE  \A d \in Day : Statement(settlements)[d].settled = By(settlements, "interest", d)
<1> DEFINE V == Walk(settlements, waivedFrom, multiplier)
           Bad == {d \in Day : V[d].settled # By(settlements, "interest", d)}
<1>1. SUFFICES ASSUME Bad # {} PROVE FALSE
  BY DEF Statement
<1>2. MaxDay \in Nat /\ Day = 0..MaxDay
  BY StatementNumbersAre DEF StatementNumbers
<1>3. V[0] = Issued
        /\ \A d \in 1..MaxDay : V[d] = Interval(V[d - 1], settlements, d, waivedFrom, multiplier)
  BY WalkIs
<1>4. /\ By(settlements, "interest", 0) = 0
      /\ \A d \in Nat \ {0} : By(settlements, "interest", d) = By(settlements, "interest", d - 1)
           + Of(settlements, "interest", d)
  <2>1. Summable(settlements, "interest")
    BY SettlementsSummable DEF Field
  <2> QED
    BY <2>1, ByStep
<1> HIDE DEF V
<1>5. PICK m \in Bad : \A k \in Bad : m <= k
  <2>1. Bad \in SUBSET Nat
    BY <1>2
  <2> HIDE DEF Bad
  <2> QED
    BY <1>1, <2>1, LeastNatural
<1>6. m # 0
  BY <1>3, <1>4, <1>5 DEF Issued
<1>7. m \in 1..MaxDay /\ m \in Nat \ {0} /\ m - 1 \in Day /\ ~(m <= m - 1)
  BY <1>2, <1>5, <1>6
<1>8. V[m - 1].settled = By(settlements, "interest", m - 1)
  BY <1>5, <1>7
<1>9. V[m].settled = V[m - 1].settled + Of(settlements, "interest", m)
  BY <1>3, <1>7, IntervalIs
<1> QED
  BY <1>4, <1>5, <1>7, <1>8, <1>9

\* No waiver took principal.
NoPrincipalWaived ==
  \A d \in DOMAIN settlements : settlements[d].kind = "waiver" => settlements[d].principal = 0

\* What is left of the principal on a day of a segment is the statement's
\* balance.
LEMMA BalanceIs ==
  ASSUME StatementTypes, NoPrincipalWaived, NEW m \in Day
  PROVE  \A d \in 0..m : SegmentBalance(d, m) = Statement(settlements)[d].balance
<1> DEFINE V == Walk(settlements, waivedFrom, multiplier)
           S == Restrict(settlements, PrincipalPayments(m))
           Bad == {d \in 0..m : SegmentBalance(d, m) # V[d].balance}
<1>1. SUFFICES ASSUME Bad # {} PROVE FALSE
  BY DEF Statement
<1>2. m \in Nat /\ m <= MaxDay /\ MaxDay \in Nat /\ Day = 0..MaxDay /\ Principal \in Nat
  BY StatementNumbersAre DEF StatementNumbers
<1>3. V[0] = Issued
        /\ \A d \in 1..MaxDay : V[d] = Interval(V[d - 1], settlements, d, waivedFrom, multiplier)
  BY WalkIs
<1>4. Summable(settlements, "principal")
  BY SettlementsSummable DEF Field
<1>5. DOMAIN S = PrincipalPayments(m) /\ PrincipalPayments(m) \subseteq DOMAIN settlements
      /\ \A c \in PrincipalPayments(m) : S[c] = settlements[c]
  BY DEF Restrict, PrincipalPayments
<1> HIDE DEF S
<1>6. Summable(S, "principal")
  BY <1>4, <1>5, FS_Subset DEF Summable
<1>7. \A d \in 1..m : Of(S, "principal", d) = Of(settlements, "principal", d)
        /\ Of(S, "principal", d) >= 0
  <2>1. SUFFICES ASSUME NEW d \in 1..m
                 PROVE  Of(S, "principal", d) = Of(settlements, "principal", d)
                        /\ Of(S, "principal", d) >= 0
    OBVIOUS
  <2>2. CASE d \in PrincipalPayments(m)
    BY <1>5, <2>2 DEF Of, StatementTypes
  <2>3. CASE d \in DOMAIN settlements /\ d \notin PrincipalPayments(m)
    <3>1. settlements[d].principal \in Int /\ settlements[d].principal >= 0
            /\ settlements[d].kind \in Kind
      BY <2>3 DEF StatementTypes, Field
    <3>2. settlements[d].principal = 0
      BY <1>2, <2>3, <3>1 DEF PrincipalPayments, NoPrincipalWaived, Kind
    <3> QED
      BY <1>5, <2>3, <3>2 DEF Of
  <2>4. CASE d \notin DOMAIN settlements
    BY <1>5, <2>4 DEF Of
  <2> QED
    BY <2>2, <2>3, <2>4
<1>8. \A d : SegmentBalance(d, m) = Positive(Principal - By(S, "principal", d))
  BY DEF SegmentBalance, S
<1>9. /\ By(S, "principal", 0) = 0
      /\ \A d \in Nat \ {0} : By(S, "principal", d) = By(S, "principal", d - 1)
           + Of(S, "principal", d)
      /\ \A d \in Nat : By(S, "principal", d) \in Int /\ Of(S, "principal", d) \in Int
  BY <1>6, ByStep
<1> HIDE DEF V
<1>10. PICK k \in Bad : \A j \in Bad : k <= j
  <2>1. Bad \in SUBSET Nat
    BY <1>2
  <2> HIDE DEF Bad
  <2> QED
    BY <1>1, <2>1, LeastNatural
<1>11. k # 0
  <2>1. V[0].balance = Principal
    BY <1>3 DEF Issued
  <2>2. Positive(Principal - 0) = Principal
    BY <1>2 DEF Positive
  <2>3. SegmentBalance(0, m) = V[0].balance
    BY <1>8, <1>9, <2>1, <2>2
  <2> QED
    BY <1>10, <2>3
<1>12. k \in 1..MaxDay /\ k \in 1..m /\ k \in Nat \ {0} /\ k - 1 \in Nat /\ k - 1 \in 0..m
         /\ ~(k <= k - 1)
  BY <1>2, <1>10, <1>11
<1>13. V[k - 1].balance = Positive(Principal - By(S, "principal", k - 1))
  BY <1>8, <1>10, <1>12
<1>14. V[k].balance = Positive(V[k - 1].balance - Of(S, "principal", k))
  <2>1. V[k] = Interval(V[k - 1], settlements, k, waivedFrom, multiplier)
    BY <1>3, <1>12
  <2>2. V[k].balance = Positive(V[k - 1].balance - Of(settlements, "principal", k))
    BY <2>1, IntervalIs
  <2> QED
    BY <1>7, <1>12, <2>2
<1>15. By(S, "principal", k) = By(S, "principal", k - 1) + Of(S, "principal", k)
       /\ By(S, "principal", k - 1) \in Int /\ Of(S, "principal", k) \in Int
            /\ Of(S, "principal", k) >= 0
  BY <1>7, <1>9, <1>12
<1>16. V[k].balance = Positive(Principal - By(S, "principal", k))
  BY <1>2, <1>13, <1>14, <1>15 DEF Positive
<1> QED
  BY <1>8, <1>10, <1>16

\* The segments by day k are those by the day before, the last of them, from
\* day l, a day longer; a payment of day k begins one of no length.
LEMMA SegmentsAre ==
  ASSUME StatementTypes, NEW k \in Day \ {0}
  PROVE  /\ 0 \in SegmentStarts(k - 1) /\ SegmentStarts(k - 1) \subseteq 0..(k - 1)
         /\ IsFiniteSet(SegmentStarts(k - 1))
         /\ \/ SegmentStarts(k) = SegmentStarts(k - 1)
            \/ SegmentStarts(k) = SegmentStarts(k - 1) \cup {k}
         /\ SegmentEnd(k, k) = k
         /\ \E l \in SegmentStarts(k - 1) :
              /\ \A d \in SegmentStarts(k - 1) : d <= l
              /\ SegmentEnd(l, k - 1) = k - 1 /\ SegmentEnd(l, k) = k
              /\ \A d \in SegmentStarts(k - 1) \ {l} :
                   SegmentEnd(d, k) = SegmentEnd(d, k - 1) /\ SegmentEnd(d, k) \in Int
<1> DEFINE P == SegmentStarts(k - 1)
           T == SegmentStarts(k)
<1>1. /\ k \in Nat \ {0} /\ k - 1 \in Nat
      /\ \A c \in DOMAIN settlements : c \in Nat \ {0} /\ (c <= k <=> c <= k - 1 \/ c = k)
  <2>1. k \in Nat \ {0}
    BY StatementNumbersAre DEF StatementNumbers
  <2>2. \A c \in DOMAIN settlements : c \in Nat \ {0}
    BY StatementNumbersAre DEF StatementNumbers, StatementTypes
  <2> QED
    BY <2>1, <2>2
<1>2. 0 \in P /\ (\A d \in P : d \in Nat /\ d <= k - 1)
  BY <1>1 DEF SegmentStarts, PrincipalPayments
<1>3. T = P \/ T = P \cup {k}
  BY <1>1 DEF SegmentStarts, PrincipalPayments
<1>4. \A d : /\ SegmentEnd(d, k) = Min({e \in T : e > d} \cup {k})
             /\ SegmentEnd(d, k - 1) = Min({e \in P : e > d} \cup {k - 1})
  BY DEF SegmentEnd
<1> HIDE DEF P, T
<1>5. P \subseteq 0..(k - 1) /\ IsFiniteSet(P)
  <2>1. P \subseteq 0..(k - 1)
    BY <1>1, <1>2
  <2>2. 0 \in Int /\ k - 1 \in Int
    BY <1>1
  <2> QED
    BY <2>1, <2>2, FS_Interval, FS_Subset
<1>6. \A e \in T : e \in Nat /\ e <= k
  BY <1>1, <1>2, <1>3
<1>7. PICK l \in P : \A d \in P : l >= d
  <2>1. P \in SUBSET Nat /\ P # {} /\ \A d \in P : d <= k - 1
    BY <1>2
  <2> QED
    BY <1>1, <2>1, LatestNatural
<1>8. \A d \in P : d \in Nat /\ d <= l /\ d <= k - 1
  BY <1>2, <1>7
<1>9. SegmentEnd(k, k) = k
  <2>1. {e \in T : e > k} = {}
    BY <1>1, <1>6
  <2>2. Min({k}) = k
    BY <1>1, MinIs
  <2> QED
    BY <1>4, <2>1, <2>2
<1>10. SegmentEnd(l, k - 1) = k - 1
  <2>1. {e \in P : e > l} = {}
    BY <1>8
  <2>2. Min({k - 1}) = k - 1
    BY <1>1, MinIs
  <2> QED
    BY <1>4, <2>1, <2>2
<1>11. SegmentEnd(l, k) = k
  <2>1. {e \in T : e > l} \cup {k} = {k}
    BY <1>3, <1>8
  <2>2. Min({k}) = k
    BY <1>1, MinIs
  <2> QED
    BY <1>4, <2>1, <2>2
<1>12. ASSUME NEW d \in P \ {l}
       PROVE  SegmentEnd(d, k) = SegmentEnd(d, k - 1) /\ SegmentEnd(d, k) \in Int
  <2> DEFINE N == {e \in P : e > d}
  <2>1. l \in N /\ N \in SUBSET Nat /\ \A e \in N : e <= k - 1
    BY <1>8, <1>12
  <2>2. {e \in T : e > d} = N \/ {e \in T : e > d} = N \cup {k}
    BY <1>1, <1>3, <1>8
  <2> HIDE DEF N
  <2>3. PICK x \in N : \A e \in N : x <= e
    BY <2>1, LeastNatural
  <2>4. x \in Int /\ x <= k - 1 /\ x <= k /\ k \in Int /\ k - 1 \in Int
    BY <1>1, <2>1
  <2>5. Min(N \cup {k}) = x
    <3>1. N \cup {k} \in SUBSET Int /\ x \in N \cup {k} /\ \A y \in N \cup {k} : x <= y
      BY <2>1, <2>3, <2>4
    <3> QED
      BY <3>1, MinIs
  <2>6. Min(N \cup {k - 1}) = x
    <3>1. N \cup {k - 1} \in SUBSET Int /\ x \in N \cup {k - 1} /\ \A y \in N \cup {k - 1} : x <= y
      BY <2>1, <2>3, <2>4
    <3> QED
      BY <3>1, MinIs
  <2>7. SegmentEnd(d, k - 1) = x
    BY <1>4, <2>6 DEF N
  <2>8. SegmentEnd(d, k) = x
    <3>1. {e \in T : e > d} \cup {k} = N \cup {k}
      BY <2>2
    <3> QED
      BY <1>4, <2>5, <3>1
  <2> QED
    BY <2>4, <2>7, <2>8
<1>13. \A d \in P : d <= l
  BY <1>8
<1> QED
  BY <1>2, <1>3, <1>5, <1>9, <1>10, <1>11, <1>12, <1>13 DEF P, T

\* A day adds a day of interest on the balance in force before it.
LEMMA SegmentedGrows ==
  ASSUME StatementTypes, NoPrincipalWaived, NEW k \in Day \ {0}, NEW rate \in Int
  PROVE  Segmented(rate, k) = Segmented(rate, k - 1) + Statement(settlements)[k - 1].balance * rate
<1> DEFINE P == SegmentStarts(k - 1)
           T == SegmentStarts(k)
           B(d) == Statement(settlements)[d].balance
           g == [d \in T |-> SegmentBalance(d, k) * rate * (SegmentEnd(d, k) - d)]
           h == [d \in P |-> SegmentBalance(d, k - 1) * rate * (SegmentEnd(d, k - 1) - d)]
<1>1. k \in Nat \ {0} /\ k - 1 \in Day /\ k \in Day /\ \A d \in 0..k : d \in Day
  BY StatementNumbersAre DEF StatementNumbers
<1>2. P \subseteq 0..(k - 1) /\ IsFiniteSet(P) /\ (T = P \/ T = P \cup {k}) /\ SegmentEnd(k, k) = k
  BY SegmentsAre
<1>3. PICK l \in P : /\ \A d \in P : d <= l
                     /\ SegmentEnd(l, k - 1) = k - 1 /\ SegmentEnd(l, k) = k
                     /\ \A d \in P \ {l} : SegmentEnd(d, k) = SegmentEnd(d, k - 1)
                          /\ SegmentEnd(d, k) \in Int
  BY SegmentsAre
<1>4. \A d \in 0..k : SegmentBalance(d, k) = B(d) /\ B(d) \in Nat
  BY <1>1, BalanceIs, StatementTyped
<1>5. \A d \in 0..(k - 1) : SegmentBalance(d, k - 1) = B(d)
  BY <1>1, BalanceIs
<1>6. B(l) = B(k - 1)
  <2>1. \A c \in PrincipalPayments(k - 1) : c <= l /\ c <= k - 1 /\ c \in P
    BY <1>3 DEF SegmentStarts, PrincipalPayments
  <2>2. DOMAIN Restrict(settlements, PrincipalPayments(k - 1)) = PrincipalPayments(k - 1)
    BY DEF Restrict
  <2>3. \A field : By(Restrict(settlements, PrincipalPayments(k - 1)), field, l)
                     = By(Restrict(settlements, PrincipalPayments(k - 1)), field, k - 1)
    <3>1. {c \in PrincipalPayments(k - 1) : c <= l} = {c \in PrincipalPayments(k - 1) : c <= k - 1}
      BY <2>1
    <3> QED
      BY <2>2, <3>1 DEF By
  <2>4. SegmentBalance(l, k - 1) = SegmentBalance(k - 1, k - 1)
    BY <2>3 DEF SegmentBalance
  <2>5. l \in 0..(k - 1) /\ k - 1 \in 0..(k - 1)
    BY <1>1, <1>2
  <2> QED
    BY <1>5, <2>4, <2>5
<1>7. Segmented(rate, k) = SumFunctionOnSet(g, T) /\ Segmented(rate, k - 1) = SumFunctionOnSet(h, P)
  BY DEF Segmented
<1>8. /\ \A d \in T : g[d] = SegmentBalance(d, k) * rate * (SegmentEnd(d, k) - d)
      /\ \A d \in P : h[d] = SegmentBalance(d, k - 1) * rate * (SegmentEnd(d, k - 1) - d)
  OBVIOUS
<1> HIDE DEF P, T, B, g, h
<1>9. P \subseteq T /\ k \notin P /\ \A d \in P : d \in Nat /\ d \in 0..k /\ d \in 0..(k - 1)
  BY <1>1, <1>2
<1>10. \A d \in P \ {l} : g[d] = h[d] /\ g[d] \in Int
  <2>1. SUFFICES ASSUME NEW d \in P \ {l} PROVE g[d] = h[d] /\ g[d] \in Int
    OBVIOUS
  <2>2. SegmentBalance(d, k) = B(d) /\ SegmentBalance(d, k - 1) = B(d) /\ B(d) \in Nat /\ d \in Int
    BY <1>4, <1>5, <1>9
  <2>3. SegmentEnd(d, k) = SegmentEnd(d, k - 1) /\ SegmentEnd(d, k) \in Int
    BY <1>3
  <2>4. g[d] = B(d) * rate * (SegmentEnd(d, k) - d) /\ h[d] = B(d) * rate * (SegmentEnd(d, k) - d)
    BY <1>8, <1>9, <2>2, <2>3
  <2>5. B(d) * rate * (SegmentEnd(d, k) - d) \in Int
    BY <2>2, <2>3
  <2> QED
    BY <2>4, <2>5
<1>11. B(k - 1) \in Nat /\ l \in Nat
  <2>1. k - 1 \in 0..k
    BY <1>1
  <2> QED
    BY <1>4, <1>9, <2>1
<1> DEFINE p == B(k - 1) * rate
<1>12. p \in Int
  BY <1>11
<1>13. g[l] = p * (k - l) /\ h[l] = p * ((k - 1) - l)
  <2>1. SegmentBalance(l, k) = B(k - 1) /\ SegmentBalance(l, k - 1) = B(k - 1) /\ l \in T
    BY <1>4, <1>5, <1>6, <1>9
  <2> QED
    BY <1>3, <1>8, <2>1
<1> HIDE DEF p
<1>14. g[l] = h[l] + p /\ g[l] \in Int /\ h[l] \in Int
  <2>1. k \in Int /\ l \in Int
    BY <1>1, <1>11
  <2>2. p * (k - l) = p * ((k - 1) - l) + p
    BY <1>12, <2>1
  <2>3. p * (k - l) \in Int /\ p * ((k - 1) - l) \in Int
    BY <1>12, <2>1
  <2> QED
    BY <1>13, <2>2, <2>3
<1>15. \A d \in P : g[d] \in Int /\ h[d] \in Int
  BY <1>10, <1>14
<1>16. SumFunctionOnSet(g, P) = g[l] + SumFunctionOnSet(g, P \ {l})
  <2>1. IsFiniteSet(P) /\ \A d \in P : g[d] \in Int
    BY <1>2, <1>15
  <2> QED
    BY <2>1, SumRemove
<1>17. SumFunctionOnSet(h, P) = h[l] + SumFunctionOnSet(h, P \ {l})
  <2>1. IsFiniteSet(P) /\ \A d \in P : h[d] \in Int
    BY <1>2, <1>15
  <2> QED
    BY <2>1, SumRemove
<1>18. SumFunctionOnSet(g, P \ {l}) = SumFunctionOnSet(h, P \ {l})
         /\ SumFunctionOnSet(h, P \ {l}) \in Int
  <2>1. IsFiniteSet(P \ {l})
    BY <1>2, FS_RemoveElement
  <2>2. \A d \in P \ {l} : g[d] = h[d] /\ h[d] \in Int
    BY <1>10
  <2> QED
    BY <2>1, <2>2, SumCongruent, SumTyped
<1>19. SumFunctionOnSet(g, P) = SumFunctionOnSet(h, P) + p
  BY <1>12, <1>14, <1>16, <1>17, <1>18
<1>20. SumFunctionOnSet(g, T) = SumFunctionOnSet(g, P)
  <2>1. CASE T = P
    BY <2>1
  <2>2. CASE T = P \cup {k}
    <3>1. g[k] = 0
      <4>1. SegmentBalance(k, k) \in Nat
        <5>1. k \in 0..k
          BY <1>1
        <5> QED
          BY <1>4, <5>1
      <4>2. g[k] = SegmentBalance(k, k) * rate * (k - k)
        BY <1>2, <1>8, <2>2
      <4>3. SegmentBalance(k, k) * rate \in Int /\ k - k = 0
        BY <1>1, <4>1
      <4> QED
        BY <4>2, <4>3
    <3>2. IsFiniteSet(T) /\ k \in T /\ T \ {k} = P /\ \A d \in T : g[d] \in Int
      BY <1>2, <1>9, <1>15, <2>2, <3>1, FS_AddElement
    <3>3. SumFunctionOnSet(g, T) = g[k] + SumFunctionOnSet(g, P)
      BY <3>2, SumRemove
    <3>4. SumFunctionOnSet(g, P) \in Int
      BY <1>2, <1>15, SumTyped
    <3> QED
      BY <3>1, <3>3, <3>4
  <2> QED
    BY <1>2, <2>1, <2>2
<1> QED
  BY <1>7, <1>19, <1>20 DEF p, B

\* What accrued by the days, with no penalty, is what accrued by the segments.
LEMMA AccruedIs ==
  ASSUME StatementTypes, NoPrincipalWaived, NEW m \in Day,
         \A d \in 1..m : ~Statement(settlements)[d].penalized
  PROVE  Statement(settlements)[m].accrued = Segmented(Rate * 100, m)
<1> DEFINE V == Walk(settlements, waivedFrom, multiplier)
           Bad == {d \in 0..m : V[d].accrued # Segmented(Rate * 100, d)}
<1>1. m \in Nat /\ m <= MaxDay /\ MaxDay \in Nat /\ Day = 0..MaxDay /\ Rate \in Nat /\ m \in 0..m
  BY StatementNumbersAre DEF StatementNumbers
<1>2. SUFFICES ASSUME Bad # {} PROVE FALSE
  BY <1>1 DEF Statement
<1>3. V[0] = Issued
        /\ \A d \in 1..MaxDay : V[d] = Interval(V[d - 1], settlements, d, waivedFrom, multiplier)
  BY WalkIs
<1>4. /\ \A d \in Day : V[d].balance \in Nat /\ V[d].accrued \in Int
      /\ \A d \in 1..m : ~V[d].penalized
      /\ \A d \in Day \ {0} : Segmented(Rate * 100, d) = Segmented(Rate * 100, d - 1)
           + V[d - 1].balance * (Rate * 100)
  BY <1>1, StatementTyped, SegmentedGrows DEF Statement
<1> HIDE DEF V
<1>5. PICK k \in Bad : \A j \in Bad : k <= j
  <2>1. Bad \in SUBSET Nat
    BY <1>1
  <2> HIDE DEF Bad
  <2> QED
    BY <1>2, <2>1, LeastNatural
<1>6. Segmented(Rate * 100, 0) = 0
  <2> DEFINE f == [d \in {0} |-> SegmentBalance(d, 0) * (Rate * 100) * (SegmentEnd(d, 0) - d)]
  <2>1. SegmentStarts(0) = {0}
    BY StatementNumbersAre DEF SegmentStarts, PrincipalPayments, StatementTypes, StatementNumbers
  <2>2. SegmentEnd(0, 0) = 0
    <3>1. {e \in SegmentStarts(0) : e > 0} = {}
      BY <2>1
    <3>2. Min({0}) = 0
      <4>1. {0} \in SUBSET Int /\ 0 \in {0} /\ \A y \in {0} : 0 <= y
        OBVIOUS
      <4> QED
        BY <4>1, MinIs
    <3> QED
      BY <3>1, <3>2 DEF SegmentEnd
  <2>3. SegmentBalance(0, 0) \in Nat
    <3>1. 0 \in 0..0 /\ 0 \in Day
      BY <1>1
    <3> QED
      BY <1>4, <3>1, BalanceIs DEF Statement, V
  <2>4. f[0] = 0
    <3>1. SegmentBalance(0, 0) * (Rate * 100) \in Int
      BY <1>1, <2>3
    <3> QED
      BY <2>2, <3>1
  <2>5. Segmented(Rate * 100, 0) = SumFunctionOnSet(f, {0})
    BY <2>1 DEF Segmented
  <2> HIDE DEF f
  <2>6. SumFunctionOnSet(f, {0}) = f[0] + SumFunctionOnSet(f, {0} \ {0})
    <3>1. IsFiniteSet({0})
      BY FS_Singleton
    <3>2. \A x \in {0} : f[x] \in Int
      BY <2>4
    <3> QED
      BY <3>1, <3>2, SumRemove
  <2>7. SumFunctionOnSet(f, {0} \ {0}) = 0
    <3>1. {0} \ {0} = {}
      OBVIOUS
    <3> QED
      BY <3>1, SumOfNone
  <2> QED
    BY <2>4, <2>5, <2>6, <2>7
<1>7. k # 0
  <2>1. V[0].accrued = 0
    BY <1>3 DEF Issued
  <2> QED
    BY <1>5, <1>6, <2>1
<1>8. k \in 1..m /\ k \in 1..MaxDay /\ k \in Day \ {0} /\ k - 1 \in Day /\ k - 1 \in 0..m
        /\ ~(k <= k - 1)
  BY <1>1, <1>5, <1>7
<1>9. V[k - 1].accrued = Segmented(Rate * 100, k - 1)
  BY <1>5, <1>8
<1>10. V[k].accrued = V[k - 1].accrued + V[k - 1].balance * Rate * (100 + 0)
  <2>1. V[k] = Interval(V[k - 1], settlements, k, waivedFrom, multiplier)
    BY <1>3, <1>8
  <2>2. V[k].accrued = V[k - 1].accrued
          + V[k - 1].balance * Rate * (100 + IF V[k].penalized THEN multiplier ELSE 0)
    BY <2>1, IntervalIs
  <2> QED
    BY <1>4, <1>8, <2>2
<1>11. V[k - 1].balance * Rate * (100 + 0) = V[k - 1].balance * (Rate * 100)
  BY <1>1, <1>4, <1>8
<1> QED
  BY <1>4, <1>5, <1>8, <1>9, <1>10, <1>11

\* A month that is not blocked has nothing negative in the journal.
LEMMA NothingNegative ==
  ASSUME StatementTypes, NEW m \in MonthEnds, ~Blocked(m)
  PROVE  RecordedBy(m) \in Int /\ RecordedBy(m) >= 0
<1>1. m \in Nat /\ m \in Day /\ \A d \in DOMAIN settlements : d \in Nat
  BY StatementNumbersAre DEF StatementNumbers, StatementTypes
<1>2. \A d \in DOMAIN settlements : d <= m
  BY <1>1 DEF Blocked
<1>3. Receivable(Statement(settlements)[m]) \in Nat /\ RecordedBy(m) \in Int
  BY <1>1, OwedTyped, RecordedTyped
<1>4. NothingMissingBefore(m)
  BY DEF Blocked
<1>5. RecordedAt(m) \in Int /\ RecordedAt(m) >= 0
  <2>1. CASE RecordedAt(m) = 0
    BY <2>1
  <2>2. ASSUME NEW q, Checkpoint(q, m) PROVE RecordedAt(m) \in Int /\ RecordedAt(m) >= 0
    <3>1. RecordedAt(m) = Receivable(Statement(settlements)[q])
      BY <1>4, <2>2 DEF Checkpoint, NothingMissingBefore
    <3>2. q \in Day
      BY <2>2 DEF Checkpoint
    <3>3. Receivable(Statement(settlements)[q]) \in Nat
      BY <3>2, OwedTyped
    <3> QED
      BY <3>1, <3>3
  <2> QED
    BY <1>1, <1>2, <2>1, <2>2, CheckpointIs
<1>6. RecordedBy(m) = posted[m] + RecordedAt(m) /\ posted[m] \in Nat
  BY PostedThrough DEF StatementTypes
<1> QED
  BY <1>3, <1>5, <1>6

\* In whole shillings nothing is rounded, and then both amounts are what accrued
\* less what was earned.
LEMMA AmountsAgreeIf == ASSUME StatementTypes PROVE AmountsAgree
<1> DEFINE st == Statement(settlements)
<1>1. SUFFICES ASSUME NEW m \in MonthEnds, m < day, ~Blocked(m), Ready(m),
                      \A d \in 1..m : ~st[d].penalized,
                      NoPrincipalWaived,
                      st[m].accrued % Unit = 0
               PROVE  BatchAmount(m) = Unit * Delta(m)
  BY DEF AmountsAgree, NoPrincipalWaived
<1>2. m \in Nat \ {0} /\ m \in Day /\ m \in 1..m /\ Unit \in Nat \ {0} /\ Rate \in Nat
  BY StatementNumbersAre DEF StatementNumbers
<1>3. st[m].accrued = Segmented(Rate * 100, m) /\ st[m].accrued \in Int
  BY <1>1, <1>2, AccruedIs, StatementTyped
<1>4. st[m].settled = By(settlements, "interest", m) /\ st[m].settled \in Int
  BY <1>2, SettledIs, StatementTyped
<1>5. RecordedBy(m) \in Int /\ RecordedBy(m) >= 0
  BY <1>1, NothingNegative
<1>6. BatchAmount(m) = st[m].accrued - Unit * (RecordedBy(m) + st[m].settled)
  <2>1. ~st[m].penalized
    BY <1>1, <1>2
  <2>2. BatchAmount(m) = Segmented(Rate * (100 + 0), m) - Unit * Earned(m)
    BY <2>1 DEF BatchAmount
  <2>3. Rate * (100 + 0) = Rate * 100
    BY <1>2
  <2> QED
    BY <1>3, <1>4, <2>2, <2>3 DEF Earned
<1> DEFINE A == st[m].accrued
           S == st[m].settled
           R == RecordedBy(m)
           Owed == Receivable(st[m])
<1>7. Delta(m) = Owed - R /\ Owed - R > 0 /\ Owed \in Nat
  BY <1>1, <1>2, OwedTyped DEF Delta, Ready
<1>8. Owed = Round(Positive(A - Unit * S))
  BY DEF Receivable, Net
<1> HIDE DEF A, S, R, Owed
<1>9. A \in Int /\ S \in Int /\ R \in Int /\ R >= 0 /\ A % Unit = 0
  BY <1>1, <1>3, <1>4, <1>5 DEF A, S, R
<1>10. PICK a \in Int : A = Unit * a
  <2>1. A = Unit * (A \div Unit) + (A % Unit) /\ A \div Unit \in Int
    BY <1>2, <1>9
  <2>2. A = Unit * (A \div Unit)
    <3>1. Unit * (A \div Unit) \in Int
      BY <1>2, <2>1
    <3> QED
      BY <1>9, <2>1, <3>1
  <2> QED
    BY <2>1, <2>2
<1>11. A - Unit * S = Unit * (a - S) /\ Unit * S \in Int
  BY <1>2, <1>9, <1>10
<1>12. A - Unit * S >= 0
  <2>1. SUFFICES ASSUME ~(A - Unit * S >= 0) PROVE FALSE
    OBVIOUS
  <2>2. Owed = Round(0)
    BY <1>8, <1>9, <1>11, <2>1 DEF Positive
  <2>3. Round(0) = 0
    BY <1>2, RoundOfWhole
  <2> QED
    BY <1>7, <1>9, <2>2, <2>3
<1>13. Owed = a - S
  <2>1. Owed = Round(Unit * (a - S))
    <3>1. Positive(A - Unit * S) = A - Unit * S
      BY <1>9, <1>11, <1>12 DEF Positive
    <3> QED
      BY <1>8, <1>11, <3>1
  <2>2. a - S \in Int
    BY <1>9, <1>10
  <2> QED
    BY <2>1, <2>2, RoundWhole
<1>14. Unit * a - Unit * (R + S) = Unit * ((a - S) - R)
  BY <1>2, <1>9, <1>10
<1> QED
  BY <1>6, <1>7, <1>10, <1>13, <1>14 DEF A, S, R

\* AmountsAgree: what planPortfolioAccrualRepair finds missing by days is what
\* accrueInterestForLoans posts by segments (computeSegmentedInterest), for a loan
\* never penalized, with no principal waived, that owes whole shillings.
THEOREM AmountsAlwaysAgree == StatementSpec => []AmountsAgree
<1>1. StatementInit => StatementTypes
  BY FirstInit
<1>2. StatementTypes /\ [StatementNext]_statementVars => StatementTypes'
  BY StatementTypesStep
<1>3. StatementTypes => AmountsAgree
  BY AmountsAgreeIf
<1> QED
  BY <1>1, <1>2, <1>3, PTL DEF StatementSpec

=============================================================================
