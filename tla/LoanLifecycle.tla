---------------------------- MODULE LoanLifecycle ----------------------------
(***************************************************************************)
(* The loans of one customer from issue to closing: createLoan with and    *)
(* without a rollover (loan.service.ts), the rollover quote                *)
(* (rollover-quote.service.ts), settlement by seizing collateral           *)
(* (collateral-settlement.service.ts), and around them payments that close *)
(* or reopen a loan and the rate correction request that must not outlive  *)
(* it.                                                                     *)
(*                                                                         *)
(* Each operation takes the statements of its READ COMMITTED transaction   *)
(* one by one where another transaction may come between.  createLoan asks *)
(* for the active loans FOR UPDATE: the rows are found as of the start of  *)
(* the statement, waited for, and each is then checked again, but a row    *)
(* inserted meanwhile is not found, and no row means no lock.              *)
(* settleWithCollateral checks the status before its transaction and reads *)
(* the balance without a lock; its journals wait for whoever holds the     *)
(* loan row FOR UPDATE.                                                    *)
(*                                                                         *)
(* Principal is a small integer.  Interest is abstract: whether any is due *)
(* when a loan might close, and how much a rollover carries, is any choice.*)
(* LoanSettlement models a loan's payments, waivers and interest in full.  *)
(***************************************************************************)
EXTENDS Integers, FiniteSets, FiniteSetsExt

CONSTANTS
  MaxLoans,         \* bound: loan rows, numbered in order of insertion
  MaxPayments,      \* bound: payment rows
  Clerk,            \* concurrent requests
  Fresh,            \* principal a clerk may ask for
  CarriedInterest,  \* interest a rollover may carry
  None

ASSUME LifecycleAssumption ==
  /\ MaxLoans \in Nat
  /\ MaxPayments \in Nat
  /\ Fresh \subseteq Nat \ {0}
  /\ CarriedInterest \subseteq Nat
  /\ None \notin Clerk \cup Int

Loan == 1..MaxLoans
Payment == 1..MaxPayments

Status == {"none", "active", "fully_paid", "rolled_over", "settled_with_collateral"}

PaymentRow == [state : {"none", "live", "deleted"}, loan : Loan \cup {None}, principal : Nat]
NoPayment == [state |-> "none", loan |-> None, principal |-> 0]

\* quoted is the carry the form was shown, carry the one computed under the
\* lock, seen the balance a settlement read.
Request == [pc : {"idle", "entered", "waiting", "locked", "checked", "read"},
            loan : Loan \cup {None}, found : SUBSET Loan,
            quoted : Nat \cup {None}, carry : Nat \cup {None}, seen : Int]
Idle == [pc |-> "idle", loan |-> None, found |-> {},
         quoted |-> None, carry |-> None, seen |-> 0]

VARIABLES
  status,      \* loans.status, "none" for a row not yet inserted
  from,        \* loans.rolled_over_from
  principal,   \* loans.principal_amount
  rolloverAmount, \* loans.rollover_amount: principal and interest carried
  receivable,  \* net of the loan's Loans Receivable journals
  pending,     \* a rate_change_requests row of the loan is pending
  payment,     \* the payments rows with the net principal they posted
  lock,        \* the createLoan that holds the loan row FOR UPDATE
  req          \* per clerk: the createLoan or settlement under way

vars == <<status, from, principal, rolloverAmount, receivable, pending, payment, lock, req>>

Init ==
  /\ status = [l \in Loan |-> "none"]
  /\ from = [l \in Loan |-> None]
  /\ principal = [l \in Loan |-> 0]
  /\ rolloverAmount = [l \in Loan |-> 0]
  /\ receivable = [l \in Loan |-> 0]
  /\ pending = [l \in Loan |-> FALSE]
  /\ payment = [p \in Payment |-> NoPayment]
  /\ lock = [l \in Loan |-> None]
  /\ req = [c \in Clerk |-> Idle]

-----------------------------------------------------------------------------
(* Reading the tables.                                                     *)

NextLoan(n) == \A l \in Loan : status[l] = "none" <=> l >= n
NextPayment(p) == \A q \in Payment : payment[q].state = "none" <=> q >= p

Active == {l \in Loan : status[l] = "active"}
Successors(l) == {s \in Loan : from[s] = l}

Repaid(l) == MapThenSumSet(LAMBDA p : payment[p].principal,
                           {p \in Payment : payment[p].state = "live" /\ payment[p].loan = l})

\* quoteRecordedRollover: refused once a successor exists or when the
\* statement's principal is not what the ledger carries.
CarriedPrincipal(l) == principal[l] - Repaid(l)
Quotable(l) == /\ Successors(l) = {}
               /\ CarriedPrincipal(l) >= 0
               /\ receivable[l] = CarriedPrincipal(l)
Quote(l) == IF Quotable(l) THEN CarriedPrincipal(l) ELSE None

\* assertLoanOperational, assertLoanPaymentCorrectionAllowed
Operational(l) == status[l] = "active"
\* Mutant of CorrectionAllowed: a rolled-over loan may be corrected.
CorrectionAllowedAfterRollover(l) == status[l] \in {"active", "fully_paid", "rolled_over"}
CorrectionAllowed(l) == status[l] \in {"active", "fully_paid"}

RowFree(l) == lock[l] = None

-----------------------------------------------------------------------------
(* Issuing a loan.                                                         *)

\* The request arrives; a rollover comes with the quote its form was shown.
EnterCreate(c) ==
  /\ req[c] = Idle
  /\ req' = [req EXCEPT ![c].pc = "entered"]
  /\ UNCHANGED <<status, from, principal, rolloverAmount, receivable, pending, payment, lock>>

EnterRollover(c) ==
  /\ req[c] = Idle
  /\ \E l \in Active :
       /\ Quotable(l)
       /\ req' = [req EXCEPT ![c] = [Idle EXCEPT !.pc = "entered", !.loan = l,
                                                 !.quoted = CarriedPrincipal(l)]]
  /\ UNCHANGED <<status, from, principal, rolloverAmount, receivable, pending, payment, lock>>

\* SELECT ... FOR UPDATE begins: the rows it will wait for.
FindActive(c) ==
  /\ req[c].pc = "entered"
  /\ req' = [req EXCEPT ![c].pc = "waiting", ![c].found = Active]
  /\ UNCHANGED <<status, from, principal, rolloverAmount, receivable, pending, payment, lock>>

\* Mutant of LockActive: a plain SELECT.
LockActiveWithoutLock(c) ==
  /\ req[c].pc = "waiting"
  /\ req' = [req EXCEPT ![c].pc = "locked",
                        ![c].carry = IF req[c].loan \in req[c].found
                                     THEN Quote(req[c].loan) ELSE None]
  /\ UNCHANGED <<status, from, principal, rolloverAmount, receivable, pending, payment, lock>>
\* It has waited for them, keeps those that are still active, and computes the
\* carry under the lock.
LockActive(c) ==
  /\ req[c].pc = "waiting"
  /\ \A l \in req[c].found : RowFree(l)
  /\ LET still == req[c].found \cap Active
     IN /\ lock' = [l \in Loan |-> IF l \in still THEN c ELSE lock[l]]
        /\ req' = [req EXCEPT ![c].pc = "locked", ![c].found = still,
                              ![c].carry = IF req[c].loan \in still
                                           THEN Quote(req[c].loan) ELSE None]
  /\ UNCHANGED <<status, from, principal, rolloverAmount, receivable, pending, payment>>

\* Mutant of Release: the rows stay locked.
ReleaseRequest(c) == req' = [req EXCEPT ![c] = Idle] /\ UNCHANGED lock
\* The transaction ends.
Release(c) ==
  /\ lock' = [l \in Loan |-> IF lock[l] = c THEN None ELSE lock[l]]
  /\ req' = [req EXCEPT ![c] = Idle]

\* Mutant of CancelPending: nothing is cancelled.
CancelNone(l) == UNCHANGED pending
\* cancelPendingRateChangeRequestsForLoan
CancelPending(l) == pending' = [pending EXCEPT ![l] = FALSE]

IssueLoan(c) ==
  /\ req[c].pc = "locked"
  /\ req[c].loan = None
  /\ req[c].found = {}
  /\ \E n \in Loan, a \in Fresh :
       /\ NextLoan(n)
       /\ status' = [status EXCEPT ![n] = "active"]
       /\ principal' = [principal EXCEPT ![n] = a]
       /\ receivable' = [receivable EXCEPT ![n] = a]
  /\ Release(c)
  /\ UNCHANGED <<from, rolloverAmount, pending, payment>>

\* The carry must still be the quoted one.  The principal carried moves from the
\* old loan to the new one; the interest carried is earned on the new loan's
\* Loans Receivable (its journal names the old loan only as the reference); the
\* old loan is closed.
RollOver(c) ==
  /\ req[c].pc = "locked"
  /\ req[c].loan \in req[c].found
  /\ req[c].carry # None
  /\ req[c].carry = req[c].quoted
  /\ \E n \in Loan, a \in Fresh, i \in CarriedInterest :
       LET old == req[c].loan
           carry == req[c].carry
       IN /\ NextLoan(n)
          /\ status' = [status EXCEPT ![n] = "active", ![old] = "rolled_over"]
          /\ from' = [from EXCEPT ![n] = old]
          /\ principal' = [principal EXCEPT ![n] = a + carry + i]
          /\ rolloverAmount' = [rolloverAmount EXCEPT ![n] = carry + i]
          /\ receivable' = [receivable EXCEPT ![n] = a + carry + i, ![old] = @ - carry]
          /\ CancelPending(old)
  /\ Release(c)
  /\ UNCHANGED payment

\* A check that fails, insufficient funds, an error: nothing happened.
Rollback(c) ==
  /\ req[c] # Idle
  /\ Release(c)
  /\ UNCHANGED <<status, from, principal, rolloverAmount, receivable, pending, payment>>

-----------------------------------------------------------------------------
(* Settling with collateral.                                               *)

CheckSettlement(c) ==
  /\ req[c] = Idle
  /\ \E l \in Loan :
       /\ Operational(l)
       /\ req' = [req EXCEPT ![c] = [Idle EXCEPT !.pc = "checked", !.loan = l]]
  /\ UNCHANGED <<status, from, principal, rolloverAmount, receivable, pending, payment, lock>>

ReadBalance(c) ==
  /\ req[c].pc = "checked"
  /\ req' = [req EXCEPT ![c].pc = "read", ![c].seen = receivable[req[c].loan]]
  /\ UNCHANGED <<status, from, principal, rolloverAmount, receivable, pending, payment, lock>>

SettleWithCollateral(c) ==
  /\ req[c].pc = "read"
  /\ RowFree(req[c].loan)
  /\ LET l == req[c].loan
     IN /\ receivable' = [receivable EXCEPT ![l] =
                            IF req[c].seen > 0 THEN @ - req[c].seen ELSE @]
        /\ status' = [status EXCEPT ![l] = "settled_with_collateral"]
        /\ CancelPending(l)
  /\ Release(c)
  /\ UNCHANGED <<from, principal, rolloverAmount, payment>>

-----------------------------------------------------------------------------
(* Payments and rate requests: each holds the loan row FOR UPDATE from     *)
(* before it reads the loan to its end, so it is one step here.            *)

\* maybeUpdateLoanStatusAfterPayment, with any answer to whether interest is
\* due; balance data of a closed loan says there is none.
CloseOrReopen(l, otherwise) ==
  \E interestDue \in BOOLEAN :
    /\ status[l] = "fully_paid" => ~interestDue
    /\ IF receivable'[l] <= 0 /\ ~interestDue
       THEN /\ status' = [status EXCEPT ![l] = "fully_paid"]
            /\ IF status[l] = "fully_paid" THEN UNCHANGED pending ELSE CancelPending(l)
       ELSE status' = [status EXCEPT ![l] = otherwise] /\ UNCHANGED pending

RecordPayment(l) ==
  /\ RowFree(l)
  /\ Operational(l)
  /\ \E p \in Payment, x \in 0..receivable[l] :
       /\ NextPayment(p)
       /\ payment' = [payment EXCEPT ![p] = [state |-> "live", loan |-> l, principal |-> x]]
       /\ receivable' = [receivable EXCEPT ![l] = @ - x]
  /\ CloseOrReopen(l, "active")
  /\ UNCHANGED <<from, principal, rolloverAmount, lock, req>>

\* Mutant of PrincipalToReverse: the principal journal is not reversed.
PrincipalNotReversed(p) == 0
PrincipalToReverse(p) == payment[p].principal

DeletePayment(p) ==
  /\ payment[p].state = "live"
  /\ LET l == payment[p].loan
     IN /\ RowFree(l)
        /\ CorrectionAllowed(l)
        /\ receivable' = [receivable EXCEPT ![l] = @ + PrincipalToReverse(p)]
        /\ payment' = [payment EXCEPT ![p].state = "deleted", ![p].principal = 0]
        /\ CloseOrReopen(l, "active")
  /\ UNCHANGED <<from, principal, rolloverAmount, lock, req>>

\* createPendingRateChangeRequest: only before a payment or a rollover was
\* ever recorded.
RequestRateChange(l) ==
  /\ RowFree(l)
  /\ Operational(l)
  /\ Successors(l) = {}
  /\ \A p \in Payment : payment[p].loan # l
  /\ ~pending[l]
  /\ pending' = [pending EXCEPT ![l] = TRUE]
  /\ UNCHANGED <<status, from, principal, rolloverAmount, receivable, payment, lock, req>>

\* reviewRequest with either answer; a rejection does not wait for the loan.
ReviewRateChange(l) ==
  /\ pending[l]
  /\ CancelPending(l)
  /\ UNCHANGED <<status, from, principal, rolloverAmount, receivable, payment, lock, req>>

Create(c) == EnterCreate(c) \/ EnterRollover(c) \/ FindActive(c) \/ LockActive(c)
               \/ IssueLoan(c) \/ RollOver(c)
Settle(c) == CheckSettlement(c) \/ ReadBalance(c) \/ SettleWithCollateral(c)

Next ==
  \/ \E c \in Clerk : Create(c) \/ Settle(c) \/ Rollback(c)
  \/ \E l \in Loan : RecordPayment(l) \/ RequestRateChange(l) \/ ReviewRateChange(l)
  \/ \E p \in Payment : DeletePayment(p)

Spec == Init /\ [][Next]_vars

-----------------------------------------------------------------------------
(* Properties.                                                             *)

\* Every variable keeps its type, a row not yet inserted has no data, and a
\* row is locked by exactly the createLoan that found it.
TypeOK ==
  /\ status \in [Loan -> Status]
  /\ from \in [Loan -> Loan \cup {None}]
  /\ principal \in [Loan -> Nat]
  /\ rolloverAmount \in [Loan -> Nat]
  /\ receivable \in [Loan -> Int]
  /\ pending \in [Loan -> BOOLEAN]
  /\ payment \in [Payment -> PaymentRow]
  /\ lock \in [Loan -> Clerk \cup {None}]
  /\ req \in [Clerk -> Request]
  /\ \A l \in Loan : status[l] = "none" => from[l] = None /\ receivable[l] = 0
  /\ \A l \in Loan, c \in Clerk :
       lock[l] = c <=> req[c].pc = "locked" /\ l \in req[c].found

\* However many rollovers of a loan are submitted at once, one succeeds: its
\* balance is carried into one successor only.
OneSuccessor ==
  \A s, t \in Loan : from[s] # None /\ from[s] = from[t] => s = t

\* What a loan owed when it was rolled over, and the interest due on it, were
\* carried into the successor, no more and no less; the old ledger is empty, and
\* no payment, correction or settlement that was under way touches its books or
\* its payments afterwards.
RolloverCarriesWhatWasOwed ==
  \A l \in Loan : status[l] = "rolled_over" =>
    /\ receivable[l] = 0
    /\ \E s \in Successors(l) : rolloverAmount[s] - CarriedPrincipal(l) \in CarriedInterest

\* Whatever raced, the ledger of an operational or paid loan carries its
\* principal, with what its rollover carried into it, less its live payments.
LedgerFollowsTerms ==
  \A l \in Loan : CorrectionAllowed(l) => receivable[l] = CarriedPrincipal(l)

\* A loan that left the operational set has no rate request pending.
ClosedHasNoPendingRequest ==
  \A l \in Loan : pending[l] => status[l] = "active"

\* Rolling over and seizing collateral are final: no payment correction that
\* was under way brings such a loan back.
ClosedForGood ==
  [][\A l \in Loan : status[l] \in {"rolled_over", "settled_with_collateral"}
                       => status'[l] \notin {"none", "active", "fully_paid"}]_vars
=============================================================================
