-------------------------------- MODULE Creditors --------------------------------
(***************************************************************************)
(* What the business owes one creditor on one investment: the repayments   *)
(* clerks record (recordCreditorRepayment), the interest the month-end cron*)
(* accrues (accrueInterestForCreditors), and how both read first and write *)
(* later without a lock: each read below is a statement of its own.        *)
(*                                                                         *)
(* Interest is Rate for a unit of principal and a day, since the investment*)
(* or the last repayment.  Amounts are whole.                              *)
(***************************************************************************)
EXTENDS Integers

CONSTANTS
  Clerk, Cron,
  Invested,       \* amounts invested
  Repaid,         \* amounts repaid at once
  Rate,
  MaxDay,         \* bound: days that pass
  MaxRepayments,  \* bound
  None

ASSUME CreditorsAssumption ==
  /\ Invested \subseteq Nat \ {0} /\ Repaid \subseteq Nat \ {0}
  /\ {Rate, MaxDay, MaxRepayments} \subseteq Nat
  /\ None \notin Nat
  /\ Clerk \cap Cron = {}

Session == Clerk \cup Cron
Day == 0..MaxDay
Idle == [pc |-> "idle", amount |-> 0, date |-> 0, prev |-> 0, balance |-> 0,
         accrued |-> 0, overlapped |-> FALSE]

VARIABLES
  day,
  creditor,     \* the creditor's row exists
  investment,   \* None or the amount and date of the investment
  last,         \* None or the date of the latest repayment
  repayments,   \* repayments so far
  repaid,       \* principal repaid, on the ledger
  payable,      \* accruals less reversals on Interest Payable
  accruedTo,    \* history: the last day interest was accrued to
  task,
  raced,        \* history: a commit followed reads another commit had outdated
  inOrder       \* history: no repayment was dated before what had been recorded

books == <<last, repayments, repaid, payable, accruedTo, inOrder>>
vars == <<day, creditor, investment, books, task, raced>>

Positive(x) == IF x > 0 THEN x ELSE 0
Least(x, y) == IF x < y THEN x ELSE y
Most(x, y) == IF x > y THEN x ELSE y

Init ==
  /\ day = 0
  /\ creditor = FALSE
  /\ investment = None
  /\ last = None
  /\ repayments = 0 /\ repaid = 0 /\ payable = 0 /\ accruedTo = 0
  /\ task = [s \in Session |-> Idle]
  /\ raced = FALSE /\ inOrder = TRUE

-----------------------------------------------------------------------------

Principal == investment.amount - repaid
PreviousDate == IF last = None THEN investment.date ELSE last
\* calculateInterest, with no minimum of days.
Interest(balance, from, to) == Positive(balance) * Rate * Positive(to - from)

At(s, pc) == task[s].pc = pc
Go(s, pc) == task' = [task EXCEPT ![s].pc = pc]

\* The end of a request that wrote to the books: the others' reads are old now.
Finish(s) ==
  /\ task' = [t \in Session |-> IF t = s THEN Idle
                ELSE [task[t] EXCEPT !.overlapped = ~At(t, "idle")]]
  /\ raced' = (raced \/ task[s].overlapped)

Fail(s) ==
  /\ ~At(s, "idle")
  /\ task' = [task EXCEPT ![s] = Idle]
  /\ UNCHANGED <<day, creditor, investment, books, raced>>

\* createCreditorWithInvestment: the creditor in one transaction ...
CreateCreditor(s) ==
  /\ At(s, "idle")
  /\ ~creditor
  /\ creditor' = TRUE
  /\ Go(s, "invest")
  /\ UNCHANGED <<day, investment, books, raced>>

\* ... the investment in the next, or later by itself.
AddInvestment(s) ==
  /\ creditor
  /\ investment = None
  /\ At(s, "invest") \/ At(s, "idle")
  /\ \E a \in Invested : investment' = [amount |-> a, date |-> day]
  /\ task' = [task EXCEPT ![s] = Idle]
  /\ UNCHANGED <<day, creditor, books, raced>>

-----------------------------------------------------------------------------
(* A repayment, dated by the clerk.                                        *)

BeginRepayment(s) ==
  /\ At(s, "idle")
  /\ investment # None
  /\ repayments < MaxRepayments
  /\ \E a \in Repaid, d \in 0..day :
       task' = [task EXCEPT ![s] = [Idle EXCEPT !.pc = "balance", !.amount = a, !.date = d,
                                                !.prev = PreviousDate]]
  /\ UNCHANGED <<day, creditor, investment, books, raced>>

ReadPrincipal(s) ==
  /\ At(s, "balance")
  /\ task' = [task EXCEPT ![s].pc = "accrual", ![s].balance = Principal]
  /\ UNCHANGED <<day, creditor, investment, books, raced>>

\* reverseCreditorInterestAccrual reads all there is.
ReadAccrual(s) ==
  /\ At(s, "accrual")
  /\ task' = [task EXCEPT ![s].pc = "commit", ![s].accrued = payable]
  /\ UNCHANGED <<day, creditor, investment, books, raced>>

InterestPortion(t) == Least(t.amount, Interest(t.balance, t.prev, t.date))
\* Mutant of PrincipalPortion: all that interest leaves.
PrincipalPortionUncapped(t) == t.amount - InterestPortion(t)
\* The rest of an overpayment is posted nowhere.
PrincipalPortion(t) == Least(t.amount - InterestPortion(t), Positive(t.balance))

\* Everything accrued, as soon as any interest is paid.
AccrualReversed(t) == IF InterestPortion(t) > 0 THEN Positive(t.accrued) ELSE 0

RecordRepayment(s) ==
  /\ At(s, "commit")
  /\ LET t == task[s]
     IN /\ repaid' = repaid + PrincipalPortion(t)
        /\ payable' = payable - AccrualReversed(t)
        /\ last' = IF last = None THEN t.date ELSE Most(last, t.date)
        /\ inOrder' = (inOrder /\ t.date >= PreviousDate /\ t.date >= accruedTo)
  /\ repayments' = repayments + 1
  /\ Finish(s)
  /\ UNCHANGED <<day, creditor, investment, accruedTo>>

-----------------------------------------------------------------------------
(* The accrual of the month that ended on some day.                        *)

\* Only investments with principal left; the balances are read once.
BeginAccrual(s) ==
  /\ At(s, "idle")
  /\ investment # None
  /\ Principal > 0
  /\ \E d \in accruedTo..day :
       task' = [task EXCEPT ![s] = [Idle EXCEPT !.pc = "repayments", !.date = d, !.balance = Principal]]
  /\ UNCHANGED <<day, creditor, investment, books, raced>>

ReadRepayments(s) ==
  /\ At(s, "repayments")
  /\ task' = [task EXCEPT ![s].pc = "accruals", ![s].prev = PreviousDate]
  /\ UNCHANGED <<day, creditor, investment, books, raced>>

ReadAccruals(s) ==
  /\ At(s, "accruals")
  /\ task' = [task EXCEPT ![s].pc = "post", ![s].accrued = payable]
  /\ UNCHANGED <<day, creditor, investment, books, raced>>

\* Mutant of Target: what was accrued before is not looked at.
TargetAnew(t) == Interest(t.balance, t.prev, t.date)
Target(t) == Interest(t.balance, t.prev, t.date) - t.accrued

PostAccrual(s) ==
  /\ At(s, "post")
  /\ payable' = payable + Positive(Target(task[s]))
  /\ accruedTo' = Most(accruedTo, task[s].date)
  /\ Finish(s)
  /\ UNCHANGED <<day, creditor, investment, last, repayments, repaid, inOrder>>

NextDay ==
  /\ day < MaxDay
  /\ day' = day + 1
  /\ UNCHANGED <<creditor, investment, books, task, raced>>

Next ==
  \/ \E s \in Clerk : \/ CreateCreditor(s) \/ AddInvestment(s)
                      \/ BeginRepayment(s) \/ ReadPrincipal(s) \/ ReadAccrual(s) \/ RecordRepayment(s)
  \/ \E s \in Cron : BeginAccrual(s) \/ ReadRepayments(s) \/ ReadAccruals(s) \/ PostAccrual(s)
  \/ \E s \in Session : Fail(s)
  \/ NextDay

Spec == Init /\ [][Next]_vars

-----------------------------------------------------------------------------
(* Properties.                                                             *)

\* More than was invested is repaid, or more reversed than was accrued, only
\* when a request committed between another one's reads and its commit.
OverpaidOnlyByOverlap ==
  investment # None /\ ~raced => repaid <= investment.amount /\ payable >= 0

\* "Idempotent: calling multiple times will not double-post"
\* (transaction.service.ts:954): what is accrued and not paid is at most what
\* the principal bears since the last repayment, unless requests overlapped or
\* a repayment was dated before an earlier one or into accrued days.
AccruedOnlyOnce ==
  investment # None /\ ~raced /\ inOrder =>
    payable <= Interest(Principal, PreviousDate, accruedTo)
=============================================================================
