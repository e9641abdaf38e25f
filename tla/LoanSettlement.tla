--------------------------- MODULE LoanSettlement ---------------------------
(***************************************************************************)
(* One loan and everything that settles it: payments recorded, edited,     *)
(* deleted, marked wrong and unmarked (payment.service.ts), waivers granted *)
(* and undone (loan-waiver.service.ts), interest accrued by the month-end  *)
(* batch (transaction.service.ts) and the filing and closing of rate       *)
(* correction requests (rate-change-request.service.ts).                   *)
(*                                                                         *)
(* Every operation is one Postgres READ COMMITTED transaction.  What makes *)
(* them hard is where each reads: a correction reads its payment row BEFORE *)
(* it waits for the loan row lock and goes on using that copy, while the   *)
(* portions it reverses are read from the journal after the lock.  So an   *)
(* operation is two or three steps here: Begin (the unlocked reads), Lock  *)
(* (SELECT ... FOR UPDATE on the loan, which waits) and the commit.        *)
(*                                                                         *)
(* The journal is append-only; the code reads it only through aggregates   *)
(* (SUM ... GROUP BY), and the aggregates are the variables.  Money is a   *)
(* small integer.  Days count from the loan's start date; a payment is     *)
(* dated at the midnight that opens its day, everything stamped "now"      *)
(* later the same day.                                                     *)
(***************************************************************************)
EXTENDS Integers, FiniteSets, FiniteSetsExt

CONSTANTS
  MaxPayments,      \* bound: payment rows, numbered in order of created_at
  Waiver,           \* waiver rows
  Clerk,            \* concurrent requests
  Ops,              \* the operations the clerks of this instance perform
  Amounts,          \* amounts a clerk may enter
  Principal,        \* loans.principal_amount
  Rate,             \* interest per unit of principal and day
  MinInterestDays,  \* loans.min_interest_days
  LastDay,          \* bound: the last day of the calendar
  MaxBackdate,      \* bound: how many days back a payment may be dated
  MaxDrift,         \* bound: no correction begins once Loans Receivable is this far from zero
  None

AllOps == {"record", "edit", "delete", "mark", "unmark",
           "waive", "undo", "accrue", "request", "reject"}

CorrectionOps == {"edit", "delete", "mark", "unmark"}

ASSUME LoanAssumption ==
  /\ MaxPayments \in Nat
  /\ Amounts \subseteq Nat \ {0}
  /\ Principal \in Nat \ {0}
  /\ Rate \in Nat
  /\ MinInterestDays \in Nat
  /\ LastDay \in Nat
  /\ MaxBackdate \in Nat
  /\ MaxDrift \in Nat

ASSUME NameAssumption ==
  /\ Ops \subseteq AllOps
  /\ None \notin Clerk \cup Waiver \cup Nat \cup AllOps

\* The loan_waivers table has finitely many rows.
ASSUME WaiverAssumption == IsFiniteSet(Waiver)

Payment == 1..MaxPayments
Day == 0..LastDay

\* An instant of the accrual journal: midnight of a day, and later that day.
Midnight(d) == 2 * d
Evening(d) == 2 * d + 1
Instant == 0..(2 * LastDay + 1)

\* How one receipt is split: interest, principal, and revenue for the excess.
Split == [interest : Int, principal : Int, overpaid : Int]
NoSplit == [interest |-> 0, principal |-> 0, overpaid |-> 0]

Row == [state : {"none", "live", "deleted"}, wrong : BOOLEAN, amount : Nat, date : Day]
NoRow == [state |-> "none", wrong |-> FALSE, amount |-> 0, date |-> 0]

WaiverRow == [state : {"none", "live", "undone"}, date : Day,
              interest : Nat, principal : Nat, accrual : Int]
NoWaiver == [state |-> "none", date |-> 0, interest |-> 0, principal |-> 0, accrual |-> 0]

Request == [pc : {"idle", "waiting", "locked"}, op : AllOps \cup {None},
            item : Payment \cup Waiver \cup {None}, stale : Row, seen : Split]
Idle == [pc |-> "idle", op |-> None, item |-> None, stale |-> NoRow, seen |-> NoSplit]

VARIABLES
  today,        \* the current day
  status,       \* loans.status (the statuses a correction accepts)
  pendingRate,  \* a rate_change_requests row of the loan is pending
  row,          \* the payments rows
  portion,      \* per payment: net of its payment and payment_reversal journals
  waiver,       \* the loan_waivers rows with their loan_waiver journals
  receivable,   \* net of Loans Receivable as of the end of each day
  accrual,      \* net of Interest Receivable as of each instant, as reverseInterestAccrual counts it
  restored,     \* Interest Receivable put back by loan_waiver_reversal, as of each instant
  lock,         \* the transaction that holds the loan row FOR UPDATE
  req           \* per clerk: the transaction under way

vars == <<today, status, pendingRate, row, portion, waiver, receivable,
          accrual, restored, lock, req>>

Init ==
  /\ today = 0
  /\ status = "active"
  /\ pendingRate = FALSE
  /\ row = [p \in Payment |-> NoRow]
  /\ portion = [p \in Payment |-> NoSplit]
  /\ waiver = [w \in Waiver |-> NoWaiver]
  /\ receivable = [d \in Day |-> Principal]
  /\ accrual = [t \in Instant |-> 0]
  /\ restored = [t \in Instant |-> 0]
  /\ lock = None
  /\ req = [c \in Clerk |-> Idle]

-----------------------------------------------------------------------------
(* Reading the books.  Each operator takes the rows and portions as of the *)
(* statement it stands for, because an edit reads them between its writes. *)

Lesser(a, b) == IF a < b THEN a ELSE b
Greater(a, b) == IF a > b THEN a ELSE b

\* A payment the queries count: not deleted and not marked wrong.
Counted(rows, p) == rows[p].state = "live" /\ ~rows[p].wrong

CountedUpTo(rows, d) == {p \in Payment : Counted(rows, p) /\ rows[p].date <= d}
LiveWaiversUpTo(wvs, d) == {w \in Waiver : wvs[w].state = "live" /\ wvs[w].date <= d}

PrincipalSettled(rows, por, wvs, d) ==
    MapThenSumSet(LAMBDA p : por[p].principal, CountedUpTo(rows, d))
  + MapThenSumSet(LAMBDA w : wvs[w].principal, LiveWaiversUpTo(wvs, d))

InterestSettled(rows, por, wvs, d) ==
    MapThenSumSet(LAMBDA p : por[p].interest, CountedUpTo(rows, d))
  + MapThenSumSet(LAMBDA w : wvs[w].interest, LiveWaiversUpTo(wvs, d))

\* The statement walks from day 1: what falls on the start date itself takes
\* effect only after day 1 has accrued.
StatementBalance(rows, por, wvs, d) ==
  IF d = 0 THEN Principal
           ELSE Greater(Principal - PrincipalSettled(rows, por, wvs, d), 0)

StatementSettled(rows, por, wvs, d) ==
  IF d = 0 THEN 0 ELSE InterestSettled(rows, por, wvs, d)

StatementAccrued(rows, por, wvs, d) ==
  MapThenSumSet(LAMBDA k : Rate * StatementBalance(rows, por, wvs, k - 1), 1..d)

\* netAccruedUnpaidInterest: what the accrual journal should carry.
NetAccrued(rows, por, wvs, d) ==
  Greater(StatementAccrued(rows, por, wvs, d) - StatementSettled(rows, por, wvs, d), 0)

\* netUnpaidInterest: with the minimum period charged to an early settlement.
\* Balance data of a loan that is not active is all zeros.
UnpaidInterest(st, rows, por, wvs, d) ==
  IF st # "active" THEN 0
  ELSE Greater(NetAccrued(rows, por, wvs, d),
               Principal * Rate * MinInterestDays - StatementSettled(rows, por, wvs, d))

\* Principal before payment p: the original principal less the payments that
\* sort before it and the waivers of earlier instants.  A payment missing from
\* the list of counted payments (index -1) has no predecessors.
SortsBefore(rows, q, p) ==
  rows[q].date < rows[p].date \/ (rows[q].date = rows[p].date /\ q < p)

BalanceBefore(rows, por, p, d) ==
  LET prior == {q \in Payment : /\ Counted(rows, p)
                                /\ Counted(rows, q)
                                /\ SortsBefore(rows, q, p)}
      waived == {w \in Waiver : waiver[w].state = "live" /\ waiver[w].date < d}
  IN Greater(Principal - MapThenSumSet(LAMBDA q : por[q].principal, prior)
                       - MapThenSumSet(LAMBDA w : waiver[w].principal, waived), 0)

\* Mutant of Allocation.
AllocationUncapped(amount, interest, before) ==
  [interest |-> interest, principal |-> amount - interest, overpaid |-> 0]

\* Interest first, then principal; a negative part is never posted, and the
\* excess over both parts is overpayment revenue.
Allocation(amount, interest, before) ==
  LET toPrincipal == Lesser(amount - interest, before)
  IN [interest  |-> interest,
      principal |-> Greater(toPrincipal, 0),
      overpaid  |-> Greater(amount - interest - toPrincipal, 0)]

Plus(s, t) == [interest |-> s.interest + t.interest, principal |-> s.principal + t.principal,
               overpaid |-> s.overpaid + t.overpaid]
\* Mutant of Reversed: the principal journal is not reversed.
ReversedInterestOnly(s, seen) == [s EXCEPT !.interest = @ - Greater(seen.interest, 0),
                                           !.overpaid = @ - Greater(seen.overpaid, 0)]
\* A reversal posts each part of what it saw that is positive.
Reversed(s, seen) == [interest  |-> s.interest - Greater(seen.interest, 0),
                      principal |-> s.principal - Greater(seen.principal, 0),
                      overpaid  |-> s.overpaid - Greater(seen.overpaid, 0)]

\* A journal amount dated at a point changes every as-of reading from there on.
From(book, point, amount) ==
  [t \in DOMAIN book |-> IF t >= point THEN book[t] + amount ELSE book[t]]

\* Mutant of AccrualToReverse: not limited to the outstanding accrual.
AccrualToReverseAll(t, interest) == Greater(interest, 0)
\* reverseInterestAccrual: how much of the accrual the settled interest reverses.
AccrualToReverse(t, interest) ==
  IF interest > 0 THEN Greater(Lesser(accrual[t], interest), 0) ELSE 0

\* Mutant of FullyPaid: looks at interest only.
FullyPaidInterest(st, books, rows, por, wvs, d) ==
  UnpaidInterest(st, rows, por, wvs, d) <= 0
\* isLoanEconomicallyFullyPaid, over the books this transaction leaves.
FullyPaid(st, books, rows, por, wvs, d) ==
  books[d] <= 0 /\ UnpaidInterest(st, rows, por, wvs, d) <= 0

-----------------------------------------------------------------------------
(* Requests: the unlocked reads, the wait for the loan row, the rollback.  *)

\* SELECT the payment outside the lock, with the guards each handler puts on
\* the copy; edit and delete do not look at marked_wrong.
BeginCorrection(c, op, p) ==
  /\ op \in Ops \cap CorrectionOps
  /\ req[c] = Idle
  /\ \A d \in Day : receivable[d] \in -MaxDrift..MaxDrift
  /\ row[p].state = "live"
  /\ op = "mark" => ~row[p].wrong
  /\ op = "unmark" => row[p].wrong
  /\ req' = [req EXCEPT ![c] = [Idle EXCEPT !.pc = "waiting", !.op = op,
                                            !.item = p, !.stale = row[p]]]
  /\ UNCHANGED <<today, status, pendingRate, row, portion, waiver, receivable,
                 accrual, restored, lock>>

\* These lock the loan row before they read anything of it.
BeginOnLoan(c, op) ==
  /\ op \in Ops \cap {"record", "waive", "accrue", "request"}
  /\ req[c] = Idle
  /\ req' = [req EXCEPT ![c] = [Idle EXCEPT !.pc = "waiting", !.op = op]]
  /\ UNCHANGED <<today, status, pendingRate, row, portion, waiver, receivable,
                 accrual, restored, lock>>

\* An undo takes the waiver row FOR UPDATE first.  A second undo of the same
\* waiver waits for it and then finds the row live or no longer there.
WaiverRowFree(w) == \A c \in Clerk : ~(req[c].op = "undo" /\ req[c].item = w)

BeginUndo(c, w) ==
  /\ "undo" \in Ops
  /\ req[c] = Idle
  /\ WaiverRowFree(w)
  /\ waiver[w].state = "live"
  /\ req' = [req EXCEPT ![c] = [Idle EXCEPT !.pc = "waiting", !.op = "undo", !.item = w]]
  /\ UNCHANGED <<today, status, pendingRate, row, portion, waiver, receivable,
                 accrual, restored, lock>>

\* Mutant of LockLoan: the loan row is read without FOR UPDATE.
LockLoanWithoutWaiting(c) ==
  /\ req[c].pc = "waiting"
  /\ lock' = c
  /\ req' = [req EXCEPT ![c].pc = "locked",
                        ![c].seen = IF req[c].item \in Payment
                                    THEN portion[req[c].item] ELSE NoSplit]
  /\ UNCHANGED <<today, status, pendingRate, row, portion, waiver, receivable,
                 accrual, restored>>

\* The loan row FOR UPDATE; then the handler reads the payment's portions.
LockLoan(c) ==
  /\ req[c].pc = "waiting"
  /\ lock = None
  /\ lock' = c
  /\ req' = [req EXCEPT ![c].pc = "locked",
                        ![c].seen = IF req[c].item \in Payment
                                    THEN portion[req[c].item] ELSE NoSplit]
  /\ UNCHANGED <<today, status, pendingRate, row, portion, waiver, receivable,
                 accrual, restored>>

Holds(c, op) == req[c].pc = "locked" /\ req[c].op = op
\* Mutant of Release: the transaction is left open.
ReleaseNothing(c) == lock' = lock /\ req' = [req EXCEPT ![c] = Idle]
Release(c) == lock' = None /\ req' = [req EXCEPT ![c] = Idle]

\* A failed check, an error or a lost connection: the transaction rolls back.
Rollback(c) ==
  /\ req[c].pc = "locked"
  /\ Release(c)
  /\ UNCHANGED <<today, status, pendingRate, row, portion, waiver, receivable,
                 accrual, restored>>

\* Mutant of SetStatus: closing leaves the pending request.
SetStatusOnly(next) == status' = next /\ UNCHANGED pendingRate
\* Mutant of SetStatus: closing writes another terminal status.
SetStatusSettled(next) ==
  /\ status' = IF next = "fully_paid" THEN "settled_with_collateral" ELSE next
  /\ pendingRate' = (pendingRate /\ ~(next = "fully_paid" /\ status # "fully_paid"))
\* maybeUpdateLoanStatusAfterPayment: closing cancels the pending request.
SetStatus(next) ==
  /\ status' = next
  /\ pendingRate' = (pendingRate /\ ~(next = "fully_paid" /\ status # "fully_paid"))

-----------------------------------------------------------------------------
(* Payments.                                                               *)

\* assertLoanPaymentCorrectionAllowed
CorrectionAllowed == status \in {"active", "fully_paid"}

\* Never after today, never before the start date.
PaymentDates == Greater(today - MaxBackdate, 0)..today

NextPayment(p) == \A q \in Payment : row[q].state = "none" <=> q >= p

RecordPayment(c) ==
  /\ Holds(c, "record")
  /\ status = "active"
  /\ \E p \in Payment, a \in Amounts, d \in PaymentDates :
       /\ NextPayment(p)
       /\ row' = [row EXCEPT ![p] = [state |-> "live", wrong |-> FALSE,
                                     amount |-> a, date |-> d]]
       /\ \E i \in 0..a :
            /\ i = Lesser(a, UnpaidInterest(status, row, portion, waiver, d))
            /\ LET split == Allocation(a, i, receivable[d])
               IN /\ portion' = [portion EXCEPT ![p] = Plus(@, split)]
                  /\ receivable' = From(receivable, d, -split.principal)
                  /\ accrual' = From(accrual, Midnight(d),
                                     -AccrualToReverse(Midnight(d), i))
       /\ SetStatus(IF FullyPaid(status, receivable', row', portion', waiver, d)
                    THEN "fully_paid" ELSE status)
  /\ Release(c)
  /\ UNCHANGED <<today, waiver, restored>>

\* A field of the update is set only when the input gives it.
Written(input, current) == IF input = None THEN current ELSE input

\* editPayment: reverse what the journal carries, dated by the stale row;
\* write the fields the input gives; split again and post.
EditPayment(c) ==
  /\ Holds(c, "edit")
  /\ CorrectionAllowed
  /\ \E newAmount \in Amounts \cup {None}, newDate \in PaymentDates \cup {None} :
       LET p == req[c].item
           stale == req[c].stale
           seen == req[c].seen
           a == IF newAmount = None THEN stale.amount ELSE newAmount
           d == IF newDate = None THEN stale.date ELSE newDate
           undone == [portion EXCEPT ![p] = Reversed(@, seen)]
       IN /\ row' = [row EXCEPT
                       ![p].amount = Written(newAmount, @),
                       ![p].date = Written(newDate, @)]
          /\ \E i \in 0..a, before \in 0..Principal :
               /\ i = Lesser(a, UnpaidInterest(status, row', undone, waiver, d))
               /\ before = BalanceBefore(row', undone, p, d)
               /\ LET split == Allocation(a, i, before)
                  IN /\ portion' = [undone EXCEPT ![p] = Plus(@, split)]
                     /\ receivable' =
                          From(From(receivable, stale.date, Greater(seen.principal, 0)),
                               d, -split.principal)
                     /\ accrual' = From(accrual, Midnight(d),
                                        -AccrualToReverse(Midnight(d), i))
          /\ SetStatus(IF FullyPaid(status, receivable', row', portion', waiver, d)
                       THEN "fully_paid" ELSE "active")
  /\ Release(c)
  /\ UNCHANGED <<today, waiver, restored>>

\* Mutant of ReversePayment: overpayment revenue is not reversed.
ReversePaymentParts(c) ==
  LET p == req[c].item
      seen == req[c].seen
  IN /\ portion' = [portion EXCEPT ![p] = Reversed(@, [seen EXCEPT !.overpaid = 0])]
     /\ receivable' = From(receivable, req[c].stale.date, Greater(seen.principal, 0))
\* The reversal delete and mark-wrong share.
ReversePayment(c) ==
  LET p == req[c].item
      seen == req[c].seen
  IN /\ portion' = [portion EXCEPT ![p] = Reversed(@, seen)]
     /\ receivable' = From(receivable, req[c].stale.date, Greater(seen.principal, 0))

DeletePayment(c) ==
  /\ Holds(c, "delete")
  /\ CorrectionAllowed
  /\ row' = [row EXCEPT ![req[c].item].state = "deleted"]
  /\ ReversePayment(c)
  /\ SetStatus(IF FullyPaid(status, receivable', row', portion', waiver, today)
               THEN "fully_paid" ELSE "active")
  /\ Release(c)
  /\ UNCHANGED <<today, waiver, accrual, restored>>

MarkPaymentWrong(c) ==
  /\ Holds(c, "mark")
  /\ CorrectionAllowed
  /\ row' = [row EXCEPT ![req[c].item].wrong = TRUE]
  /\ ReversePayment(c)
  /\ SetStatus(IF /\ status = "fully_paid"
                  /\ ~FullyPaid(status, receivable', row', portion', waiver, today)
               THEN "active" ELSE status)
  /\ Release(c)
  /\ UNCHANGED <<today, waiver, accrual, restored>>

\* unmarkPaymentWrong: clear the flag, split the stale amount at the stale
\* date again and post it.
UnmarkPaymentWrong(c) ==
  /\ Holds(c, "unmark")
  /\ CorrectionAllowed
  /\ LET p == req[c].item
         a == req[c].stale.amount
         d == req[c].stale.date
     IN /\ row' = [row EXCEPT ![p].wrong = FALSE]
        /\ \E i \in 0..a, before \in 0..Principal :
             /\ i = Lesser(a, UnpaidInterest(status, row', portion, waiver, d))
             /\ before = BalanceBefore(row', portion, p, d)
             /\ LET split == Allocation(a, i, before)
                IN /\ portion' = [portion EXCEPT ![p] = Plus(@, split)]
                   /\ receivable' = From(receivable, d, -split.principal)
                   /\ accrual' = From(accrual, Midnight(d), -AccrualToReverse(Midnight(d), i))
        /\ SetStatus(IF FullyPaid(status, receivable', row', portion', waiver, d)
                     THEN "fully_paid" ELSE status)
  /\ Release(c)
  /\ UNCHANGED <<today, waiver, restored>>

-----------------------------------------------------------------------------
(* Waivers.                                                                *)

\* waiveLoanAmount: dated now, never more than is owed, split like a payment;
\* the accrual it reverses is tagged with the waiver.
WaiveLoanAmount(c) ==
  /\ Holds(c, "waive")
  /\ status = "active"
  /\ \E w \in Waiver, a \in Amounts :
       /\ waiver[w] = NoWaiver
       /\ a <= receivable[today] + UnpaidInterest(status, row, portion, waiver, today)
       /\ \E i \in 0..a :
            /\ i = Lesser(a, UnpaidInterest(status, row, portion, waiver, today))
            /\ LET split == Allocation(a, i, receivable[today])
                   reversal == AccrualToReverse(Evening(today), i)
               IN /\ waiver' = [waiver EXCEPT ![w] =
                        [state |-> "live", date |-> today, interest |-> split.interest,
                         principal |-> split.principal, accrual |-> reversal]]
                  /\ receivable' = From(receivable, today, -split.principal)
                  /\ accrual' = From(accrual, Evening(today), -reversal)
  /\ SetStatus(IF FullyPaid(status, receivable', row, portion, waiver', today)
               THEN "fully_paid" ELSE status)
  /\ Release(c)
  /\ UNCHANGED <<today, row, portion, restored>>

\* undoLoanWaiver: everything is put back dated now, the accrual under a
\* reference type of its own; a closed loan is looked at as if operational.
UndoLoanWaiver(c) ==
  /\ Holds(c, "undo")
  /\ CorrectionAllowed
  /\ LET w == req[c].item
     IN /\ waiver[w].interest + waiver[w].principal # 0
        /\ waiver' = [waiver EXCEPT ![w].state = "undone"]
        /\ receivable' = From(receivable, today, waiver[w].principal)
        /\ restored' = From(restored, Evening(today), waiver[w].accrual)
  /\ SetStatus(IF /\ status = "fully_paid"
                  /\ ~FullyPaid("active", receivable', row, portion, waiver', today)
               THEN "active" ELSE status)
  /\ Release(c)
  /\ UNCHANGED <<today, row, portion, accrual>>

-----------------------------------------------------------------------------
(* Interest accrual, rate requests, the calendar.                          *)

\* What the journal is short of on a day; the month-end batch posts for a
\* loan only when every earlier settlement day reconciles, no settlement falls
\* on the start date and no two share an instant.
AccrualShortfall(d) ==
  NetAccrued(row, portion, waiver, d) - (accrual[Evening(d)] + restored[Evening(d)])

AccrualReady(d) ==
  LET settled == {row[p].date : p \in CountedUpTo(row, d)}
                   \cup {waiver[w].date : w \in LiveWaiversUpTo(waiver, d)}
  IN /\ 0 \notin settled
     /\ \A e \in settled \ {d} : AccrualShortfall(e) = 0
     /\ \A p, q \in CountedUpTo(row, d) : row[p].date = row[q].date => p = q

\* One loan's posting; the batch, with rows read before the loop, is MonthEnd.
AccrueInterest(c) ==
  /\ Holds(c, "accrue")
  /\ status = "active"
  /\ \E d \in 0..(today - 1) :
       /\ AccrualReady(d)
       /\ \E delta \in 1..(Principal * Rate * LastDay) :
            /\ delta = AccrualShortfall(d)
            /\ accrual' = From(accrual, Evening(d), delta)
  /\ Release(c)
  /\ UNCHANGED <<today, status, pendingRate, row, portion, waiver, receivable, restored>>

\* createPendingRateChangeRequest: only before any settlement was recorded.
RequestRateChange(c) ==
  /\ Holds(c, "request")
  /\ status = "active"
  /\ \A p \in Payment : row[p].state = "none"
  /\ \A w \in Waiver : waiver[w].state = "none"
  /\ ~pendingRate
  /\ pendingRate' = TRUE
  /\ Release(c)
  /\ UNCHANGED <<today, status, row, portion, waiver, receivable, accrual, restored>>

\* reviewRequest with "rejected" locks the request row only.
RejectRateChange ==
  /\ "reject" \in Ops
  /\ pendingRate
  /\ pendingRate' = FALSE
  /\ UNCHANGED <<today, status, row, portion, waiver, receivable, accrual,
                 restored, lock, req>>

NextDay ==
  /\ today < LastDay
  /\ today' = today + 1
  /\ UNCHANGED <<status, pendingRate, row, portion, waiver, receivable, accrual,
                 restored, lock, req>>

Begin(c) ==
  \/ \E op \in AllOps, p \in Payment : BeginCorrection(c, op, p)
  \/ \E op \in AllOps : BeginOnLoan(c, op)
  \/ \E w \in Waiver : BeginUndo(c, w)

Commit(c) ==
  \/ RecordPayment(c)
  \/ EditPayment(c)
  \/ DeletePayment(c)
  \/ MarkPaymentWrong(c)
  \/ UnmarkPaymentWrong(c)
  \/ WaiveLoanAmount(c)
  \/ UndoLoanWaiver(c)
  \/ AccrueInterest(c)
  \/ RequestRateChange(c)

Next ==
  \/ \E c \in Clerk : Begin(c) \/ LockLoan(c) \/ Commit(c) \/ Rollback(c)
  \/ RejectRateChange
  \/ NextDay

Spec == Init /\ [][Next]_vars

\* Postgres keeps running a transaction that holds its locks to its end, and
\* grants a row lock to its waiters in turn.
Fairness == \A c \in Clerk : WF_vars(Commit(c) \/ Rollback(c)) /\ SF_vars(LockLoan(c))

FairSpec == Spec /\ Fairness

-----------------------------------------------------------------------------
(* Properties.                                                             *)

\* Every variable keeps its type, and a request carries the row its operation
\* is about.
TypeOK ==
  /\ today \in Day
  /\ status \in {"active", "fully_paid"}
  /\ pendingRate \in BOOLEAN
  /\ row \in [Payment -> Row]
  /\ portion \in [Payment -> Split]
  /\ waiver \in [Waiver -> WaiverRow]
  /\ receivable \in [Day -> Int]
  /\ accrual \in [Instant -> Int]
  /\ restored \in [Instant -> Int]
  /\ lock \in Clerk \cup {None}
  /\ req \in [Clerk -> Request]
  /\ \A c \in Clerk : /\ req[c].op \in CorrectionOps => req[c].item \in Payment
                      /\ req[c].op = "undo" => req[c].item \in Waiver

\* Corrections of a loan are serialized by its row lock: one transaction holds
\* it, and the portions it read are still what the journal carries.
CorrectionsSerialized ==
  \A c \in Clerk :
    /\ req[c].pc = "locked" <=> lock = c
    /\ req[c].pc = "locked" /\ req[c].item \in Payment
         => req[c].seen = portion[req[c].item]

\* No interleaving of corrections reverses a posting twice: the net of a
\* payment's own journals is never negative in any account
\* (getPaymentPortionsFromLedger, getPaymentOverpaymentFromLedger).
NoDoubleReversal ==
  \A p \in Payment : /\ portion[p].interest >= 0
                     /\ portion[p].principal >= 0
                     /\ portion[p].overpaid >= 0

\* The loan's principal account is exactly the original principal less what
\* the payments' and the live waivers' own journals say they repaid: the two
\* ways the code derives principal (by loan, by reference) agree.
BooksAgree ==
  receivable[LastDay] =
    Principal - MapThenSumSet(LAMBDA p : portion[p].principal, Payment)
              - MapThenSumSet(LAMBDA w : waiver[w].principal,
                              {w \in Waiver : waiver[w].state = "live"})

\* Recording and reversing keep the promise of PaymentEffect in every
\* interleaving: a payment counts once, as one split, and leaves nothing once it
\* is deleted or marked wrong ("Marks a payment as wrong and reverses its ledger
\* impact in a single transaction").
Effect == [p \in Payment |-> IF row[p].state = "none" THEN "none"
                             ELSE IF Counted(row, p) THEN "counted" ELSE "void"]
Abstract == INSTANCE PaymentEffect WITH effect <- Effect, posted <- portion
PaymentsTakeEffectOnce == Abstract!Spec

\* A loan that was closed by its payments has no rate request left pending.
ClosedHasNoPendingRequest == status = "fully_paid" => ~pendingRate

\* Principal is never repaid twice: no day shows a negative Loans Receivable
\* ("After each payment, ledger balance should be non-negative").
ReceivableNotNegative == \A d \in Day : receivable[d] >= 0

\* A closed loan owes no principal at the end of the calendar, whatever was
\* corrected before or after it closed.
ClosedOwesNoPrincipal == status = "fully_paid" => receivable[LastDay] <= 0

\* Whoever waits for the loan row gets it and is done with it.
RequestsEnd == \A c \in Clerk : req[c].pc = "waiting" ~> req[c].pc = "idle"
=============================================================================
