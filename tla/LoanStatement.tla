----------------------------- MODULE LoanStatement -----------------------------
(***************************************************************************)
(* What a borrower owes, as the statement works it out day by day          *)
(* (buildLoanStatement), and what depends on it: the split of payments and *)
(* waivers, the closing of the loan, the penalty of overdue loans with its *)
(* waiver, and the month's interest that the accrual planner finds missing *)
(* and the batch posts.  One perpetual loan, one request at a time;        *)
(* LoanSettlement and MonthEnd have the interleavings.                     *)
(*                                                                         *)
(* A day is an elapsed day of the loan.  Money is in shillings, accrued    *)
(* interest exact, in shillings times Unit; rates are percents of Thirty   *)
(* days, multipliers percents of the rate.                                 *)
(***************************************************************************)
EXTENDS Integers, FiniteSets, FiniteSetsExt, Functions

CONSTANTS
  Principal, Rate,
  Thirty,          \* days of the interest month: 30 in the code
  Threshold,       \* days overdue from which the penalty applies: 60 in the code
  MinDays,         \* days of interest the first payment owes at least
  DefaultMultiplier,
  Multipliers,     \* what an administrator sets the multiplier to
  MonthEnds,       \* days in whose evening a month ends
  Amounts,         \* of payments and waivers
  MaxDay,          \* bound: days that pass
  MaxSettlements,  \* bound: payments and waivers
  MaxBackdate,     \* bound: days a payment is dated back
  Never            \* the penalty is not waived

ASSUME LoanStatementAssumption ==
  /\ {Principal, Rate, Thirty, Threshold} \subseteq Nat \ {0}
  /\ {MinDays, DefaultMultiplier, MaxDay, MaxSettlements, MaxBackdate} \subseteq Nat
  /\ Multipliers \subseteq Nat /\ Amounts \subseteq Nat \ {0}
  /\ MonthEnds \subseteq 1..MaxDay
  /\ Never \notin Nat

Day == 0..MaxDay
Unit == Thirty * 100 * 100

VARIABLES
  day,          \* today
  settlements,  \* per day: payment or waiver, with its split and the accrual it reversed
  posted,       \* per month end: interest posted in its evening
  done,         \* month ends whose batch went through
  waivedFrom,   \* loans.penalty_waived_at, or Never
  multiplier,   \* loans.penalty_multiplier
  open,         \* loans.status = "active"
  untouched     \* history: nothing was recorded out of order or changed afterwards

statementVars == <<day, settlements, posted, done, waivedFrom, multiplier, open, untouched>>

Positive(x) == IF x > 0 THEN x ELSE 0
Least(x, y) == IF x < y THEN x ELSE y
Most(x, y) == IF x > y THEN x ELSE y
\* toFixed(0): half up.
Round(x) == (2 * x + Unit) \div (2 * Unit)

-----------------------------------------------------------------------------
(* The statement of the settlements S, under a waiver and a multiplier.    *)

\* One field of the settlement of day d, and the sum of it by then.
Of(S, field, d) == IF d \in DOMAIN S THEN S[d][field] ELSE 0
By(S, field, d) == SumFunctionOnSet([c \in DOMAIN S |-> S[c][field]], {c \in DOMAIN S : c <= d})

LedgerPrincipal(S, d) == Principal - By(S, "principal", d)

Net(w) == Positive(w.accrued - Unit * w.settled)
DaysOverdue(w) == LET daily == w.balance * Rate * 100
                  IN IF daily = 0 THEN 0 ELSE Net(w) \div daily

\* Mutant of WaivedOn: the waiver has no date.
WaivedAlways(from, d) == from # Never
WaivedOn(from, d) == from # Never /\ from < d

\* Mutant of AccruingBalance: today's settlement counts for the whole day.
AccruingBalanceAfter(w, S, d) == Positive(w.balance - Of(S, "principal", d))
\* The interval that ends today accrues on the balance before today's settlement.
AccruingBalance(w, S, d) == w.balance

Issued == [balance |-> Principal, settled |-> 0, accrued |-> 0, penalized |-> FALSE]

\* The interval that ends on day d accrues at the rate in force before it;
\* then comes the settlement of that day.
Interval(w, S, d, from, mult) ==
  LET penal == DaysOverdue(w) >= Threshold /\ ~WaivedOn(from, d)
  IN [balance   |-> Positive(w.balance - Of(S, "principal", d)),
      settled   |-> w.settled + Of(S, "interest", d),
      accrued   |-> w.accrued + AccruingBalance(w, S, d) * Rate * (100 + IF penal THEN mult ELSE 0),
      penalized |-> penal]

\* The statement day by day (the set of one has TLC work out each day once).
Walk(S, from, mult) ==
  LET walk[d \in Day] ==
        IF d = 0 THEN Issued
        ELSE CHOOSE next \in {Interval(w, S, d, from, mult) : w \in {walk[d - 1]}} : TRUE
  IN walk

Statement(S) == Walk(S, waivedFrom, multiplier)

\* netAccruedUnpaidInterest: what should be receivable.
Receivable(w) == Round(Net(w))

\* netUnpaidInterest: with what is left of the minimum interest.
Unpaid(w) ==
  LET minimum == Principal * Rate * (100 + IF w.penalized THEN multiplier ELSE 0) * MinDays
  IN Round(Most(Net(w), Positive(minimum - Unit * w.settled)))

OverdueToday == DaysOverdue(Statement(settlements)[day])

-----------------------------------------------------------------------------
(* The accrual planner and the amount the batch works out for itself.      *)

PostedBefore(d) == SumFunctionOnSet(posted, {e \in MonthEnds : e < d})

\* Interest receivable in the journal at the end of day d, and when its
\* settlement was posted.
RecordedBy(d) == PostedBefore(d + 1) - By(settlements, "reversed", d)
RecordedAt(d) == PostedBefore(d) - By(settlements, "reversed", d)

\* What is missing at the checkpoints before the evening of day m, and then.
NothingMissingBefore(m) ==
  LET st == Statement(settlements)
  IN /\ \A e \in MonthEnds : e < m => Receivable(st[e]) = RecordedBy(e)
     /\ \A d \in DOMAIN settlements : d <= m => Receivable(st[d]) = RecordedAt(d)
Delta(m) == Receivable(Statement(settlements)[m]) - RecordedBy(m)

Ready(m) == Delta(m) > 0 /\ NothingMissingBefore(m)
Blocked(m) ==
  (\E d \in DOMAIN settlements : d > m) \/ Delta(m) < 0 \/ ~NothingMissingBefore(m)

\* Days by m in segments between payments of principal; waivers do not count.
PrincipalPayments(m) ==
  {d \in DOMAIN settlements : d <= m /\ settlements[d].kind = "payment" /\ settlements[d].principal > 0}
SegmentStarts(m) == {0} \cup PrincipalPayments(m)
SegmentEnd(d, m) == Min({e \in SegmentStarts(m) : e > d} \cup {m})

\* Mutant of SegmentBalance: the last balance for every segment.
SegmentBalanceNow(d, m) == Positive(Principal - By(Restrict(settlements, PrincipalPayments(m)), "principal", m))
SegmentBalance(d, m) == Positive(Principal - By(Restrict(settlements, PrincipalPayments(m)), "principal", d))

Segmented(rate, m) ==
  SumFunctionOnSet([d \in SegmentStarts(m) |-> SegmentBalance(d, m) * rate * (SegmentEnd(d, m) - d)],
                   SegmentStarts(m))

\* Interest Earned on the ledger: accruals, their reversals, and what was settled.
Earned(m) == RecordedBy(m) + By(settlements, "interest", m)

\* At the effective rate of that evening, from the first day.
BatchAmount(m) ==
  LET penalized == Statement(settlements)[m].penalized
  IN Segmented(Rate * (100 + IF penalized THEN multiplier ELSE 0), m) - Unit * Earned(m)

MonthEnded == Max({0} \cup {m \in MonthEnds : m < day})

-----------------------------------------------------------------------------

StatementInit ==
  /\ day = 0
  /\ settlements = <<>>
  /\ posted = [m \in MonthEnds |-> 0]
  /\ done = {}
  /\ waivedFrom = Never
  /\ multiplier = DefaultMultiplier
  /\ open = TRUE
  /\ untouched = TRUE

NextDay ==
  /\ day < MaxDay
  /\ day' = day + 1
  /\ UNCHANGED <<settlements, posted, done, waivedFrom, multiplier, open, untouched>>

\* Mutant of Reversal: a waiver keeps the accrual it settles.
ReversalOfPayments(kind, interest, d) ==
  IF kind = "waiver" THEN 0 ELSE Least(Positive(RecordedAt(d)), interest)
\* reverseInterestAccrual: accruals dated before, up to the interest settled.
Reversal(kind, interest, d) == Least(Positive(RecordedAt(d)), interest)

\* Mutant of InterestPart: what accrued, without the minimum.
InterestPartAccrued(amount, d) == Least(amount, Receivable(Statement(settlements)[d]))
\* Interest first, then principal; the rest is an overpayment.
InterestPart(amount, d) == Least(amount, Unpaid(Statement(settlements)[d]))
PrincipalPart(amount, d) ==
  Least(amount - InterestPart(amount, d), Positive(LedgerPrincipal(settlements, d)))

\* isLoanEconomicallyFullyPaid
FullyPaid(S, d) == LedgerPrincipal(S, d) <= 0 /\ Unpaid(Statement(S)[d]) = 0

RecordSettlement(kind, amount, d) ==
  LET interest == InterestPart(amount, d)
      s == [kind |-> kind, interest |-> interest, principal |-> PrincipalPart(amount, d),
            reversed |-> Reversal(kind, interest, d)]
  IN /\ open
     /\ d \notin DOMAIN settlements          \* bound: one a day
     /\ Cardinality(DOMAIN settlements) < MaxSettlements
     /\ settlements' = [c \in {d} \cup DOMAIN settlements |-> IF c = d THEN s ELSE settlements[c]]
     /\ open' = ~FullyPaid(settlements', d)
     /\ untouched' = (untouched /\ \A e \in done \cup DOMAIN settlements : e < d)
     /\ UNCHANGED <<day, posted, done, waivedFrom, multiplier>>

\* recordPayment, dated back or today; the start day is in LoanSettlement.
Pay(amount, d) == d > 0 /\ d <= day /\ day - d <= MaxBackdate /\ RecordSettlement("payment", amount, d)

\* waiveLoanAmount, today and no more than what is owed.
Waive(amount) ==
  /\ day > 0
  /\ amount <= LedgerPrincipal(settlements, day) + Unpaid(Statement(settlements)[day])
  /\ RecordSettlement("waiver", amount, day)

\* The loan page offers a waiver of the penalty, and another multiplier, while
\* the penalty is active.
PenaltyActive == open /\ waivedFrom = Never /\ OverdueToday >= Threshold

WaivePenalty ==
  /\ PenaltyActive
  /\ waivedFrom' = day
  /\ UNCHANGED <<day, settlements, posted, done, multiplier, open, untouched>>

AdjustPenaltyMultiplier(value) ==
  /\ PenaltyActive
  /\ value # multiplier
  /\ multiplier' = value
  /\ untouched' = FALSE
  /\ UNCHANGED <<day, settlements, posted, done, waivedFrom, open>>

\* The overdue cron.
ResetWaiver ==
  /\ open
  /\ waivedFrom # Never
  /\ OverdueToday = 0
  /\ waivedFrom' = Never
  /\ untouched' = FALSE
  /\ UNCHANGED <<day, settlements, posted, done, multiplier, open>>

\* The month-end batch: nothing to post, or what the planner and the batch agree on.
PostMonth ==
  /\ open
  /\ MonthEnded > 0
  /\ LET m == MonthEnded
     IN /\ ~Blocked(m)
        /\ Ready(m) => BatchAmount(m) = Unit * Delta(m)
        /\ posted' = [posted EXCEPT ![m] = @ + Delta(m)]
        /\ done' = done \cup {m}
  /\ UNCHANGED <<day, settlements, waivedFrom, multiplier, open, untouched>>

StatementNext ==
  \/ NextDay
  \/ \E a \in Amounts, d \in Day : Pay(a, d)
  \/ \E a \in Amounts : Waive(a)
  \/ WaivePenalty
  \/ \E v \in Multipliers : AdjustPenaltyMultiplier(v)
  \/ ResetWaiver
  \/ PostMonth

StatementSpec == StatementInit /\ [][StatementNext]_statementVars

\* Days pass.
FairStatementSpec == StatementSpec /\ WF_statementVars(NextDay)

-----------------------------------------------------------------------------
(* Properties.                                                             *)

\* Whoever pays principal owes no interest on that day, in every later
\* statement too, whatever is recorded or waived afterwards, as long as
\* settlements come in the order of their days, none into a month already
\* accrued, and the terms of the penalty are not changed behind it.
InterestFirst ==
  LET st == Statement(settlements)
  IN untouched => \A d \in DOMAIN settlements : settlements[d].principal > 0 => Unpaid(st[d]) = 0

\* A month that ended is blocked only by an earlier month that was missed, by
\* a settlement that left interest of its day unpaid, came late or follows the
\* month, or by a changed penalty: interest paid in full keeps journal and
\* statement together.
OnlyPartialBlocks ==
  LET st == Statement(settlements)
  IN \A m \in MonthEnds :
       /\ m < day /\ untouched
       /\ \A e \in MonthEnds : e < m => e \in done
       /\ \A d \in DOMAIN settlements : d <= m /\ Receivable(st[d]) = 0
       => ~Blocked(m)

\* Planner and batch work out the same amount in two ways, by days and by
\* segments, for a loan that was never penalized, had no principal waived and
\* owes whole shillings.
AmountsAgree ==
  LET st == Statement(settlements)
  IN \A m \in MonthEnds :
       /\ m < day /\ ~Blocked(m) /\ Ready(m)
       /\ \A d \in 1..m : ~st[d].penalized
       /\ \A d \in DOMAIN settlements : settlements[d].kind = "waiver" => settlements[d].principal = 0
       /\ st[m].accrued % Unit = 0
       => BatchAmount(m) = Unit * Delta(m)

\* A payment or waiver leaves the interest accrued by its day as it was, and
\* the waiver of the penalty and a new day what is owed today.
PastStands ==
  [][/\ \A c \in (DOMAIN settlements)' \ DOMAIN settlements, d \in Day :
          d <= c => Statement(settlements)[d].accrued' = Statement(settlements)[d].accrued
     /\ WaivePenalty \/ NextDay => Unpaid(Statement(settlements)[day])
                                     = Unpaid(Walk(settlements', waivedFrom', multiplier')[day])]_statementVars

\* app/api/cron/overdue/route.ts:85-87: the overdue cron resets a waiver "only
\* ... for future overdue episodes": what is owed for the days so far stays.
ResetOnlyForFuture ==
  [][ResetWaiver => Unpaid(Statement(settlements)[day])' = Unpaid(Statement(settlements)[day])]_statementVars
=============================================================================
