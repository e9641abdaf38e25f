------------------------ MODULE LoanSettlement_proofs ------------------------
(***************************************************************************)
(* LoanSettlement for any number of clerks, payments and waivers, any      *)
(* amounts and any calendar: its types; that corrections are serialized    *)
(* and reverse nothing twice; that closing takes the pending rate request  *)
(* along; that the two derivations of principal agree; and, for the        *)
(* operations that post no split again, that a payment takes effect once   *)
(* (PaymentEffect) and, when nothing is backdated, that principal is never *)
(* repaid twice and a closed loan owes none.                               *)
(*                                                                         *)
(* The arguments: the loan row lock makes the portions a transaction read  *)
(* the ones it reverses; every journal moves the loan's account and the    *)
(* account of its payment or waiver by the same amount, and an undo holds  *)
(* its waiver, so it is live when it commits; without backdating no        *)
(* posting lies ahead of today, so a receipt is capped by all later        *)
(* readings as well.                                                       *)
(*                                                                         *)
(* Portions are summed by a fold.  What a fold of a finite set returns is  *)
(* proved from a subset that is minimal among those where it goes wrong.   *)
(***************************************************************************)
EXTENDS LoanSettlement, FiniteSetTheorems, WellFoundedInduction, TLAPS

-----------------------------------------------------------------------------
(* The operators the books are written with.                               *)

\* A posting leaves an integer book an integer book.
LEMMA FromType ==
  ASSUME NEW D, NEW book \in [D -> Int], NEW point, NEW amount \in Int
  PROVE  From(book, point, amount) \in [D -> Int]
BY DEF From

\* Allocation splits an amount into parts that are not negative, and interest
\* and principal stay within the amount (clampAllocationToUnpaidInterest).
LEMMA AllocationSplits ==
  ASSUME NEW a \in Nat, NEW i \in 0..a, NEW before \in Int
  PROVE  LET s == Allocation(a, i, before)
         IN /\ s \in Split
            /\ s.interest >= 0 /\ s.principal >= 0 /\ s.overpaid >= 0
            /\ s.interest + s.principal <= a
BY DEF Allocation, Split, Lesser, Greater

LEMMA PlusType ==
  ASSUME NEW s \in Split, NEW t \in Split
  PROVE  Plus(s, t) \in Split
BY DEF Plus, Split

LEMMA ReversedType ==
  ASSUME NEW s \in Split, NEW seen \in Split
  PROVE  Reversed(s, seen) \in Split
BY DEF Reversed, Split, Greater

\* Reversing exactly what is posted, none of it negative, leaves nothing.
LEMMA ReversedToNothing ==
  ASSUME NEW s \in Split, s.interest >= 0, s.principal >= 0, s.overpaid >= 0
  PROVE  Reversed(s, s) = NoSplit
BY DEF Reversed, Split, NoSplit, Greater

LEMMA AccrualToReverseType ==
  ASSUME accrual \in [Instant -> Int], NEW t \in Instant, NEW i \in Int
  PROVE  AccrualToReverse(t, i) \in Int
BY DEF AccrualToReverse, Lesser, Greater

LEMMA InstantsOfADay ==
  ASSUME NEW d \in Day
  PROVE  Midnight(d) \in Instant /\ Evening(d) \in Instant
BY LoanAssumption DEF Day, Instant, Midnight, Evening

LEMMA PaymentDatesAreDays ==
  ASSUME today \in Day
  PROVE  PaymentDates \subseteq Day
BY LoanAssumption DEF PaymentDates, Day, Greater

-----------------------------------------------------------------------------
(* Type correctness.                                                       *)

LEMMA EmptyTypes ==
  NoRow \in Row /\ NoSplit \in Split /\ NoWaiver \in WaiverRow /\ Idle \in Request
<1>1. NoRow \in Row /\ NoSplit \in Split /\ NoWaiver \in WaiverRow
  BY LoanAssumption DEF NoRow, Row, NoSplit, Split, NoWaiver, WaiverRow, Day
<1> QED
  BY <1>1 DEF Idle, Request

LEMMA TypeInit == Init => TypeOK
<1> SUFFICES ASSUME Init PROVE TypeOK
  OBVIOUS
<1>1. today \in Day
  BY LoanAssumption DEF Init, Day
<1>2. /\ row \in [Payment -> Row]
      /\ portion \in [Payment -> Split]
      /\ waiver \in [Waiver -> WaiverRow]
      /\ req \in [Clerk -> Request]
  BY EmptyTypes DEF Init
<1>3. receivable \in [Day -> Int] /\ accrual \in [Instant -> Int]
      /\ restored \in [Instant -> Int]
  BY LoanAssumption DEF Init
<1>4. /\ lock \in Clerk \cup {None}
      /\ status \in {"active", "fully_paid"}
      /\ pendingRate \in BOOLEAN
  BY DEF Init
<1>5. \A c \in Clerk : req[c].op \notin CorrectionOps /\ req[c].op # "undo"
  BY NameAssumption DEF Init, Idle, CorrectionOps, AllOps
<1> QED
  BY <1>1, <1>2, <1>3, <1>4, <1>5 DEF TypeOK

\* What the type invariant says of the requests.
RequestsTyped(r) ==
  /\ r \in [Clerk -> Request]
  /\ \A c \in Clerk : /\ r[c].op \in CorrectionOps => r[c].item \in Payment
                      /\ r[c].op = "undo" => r[c].item \in Waiver

LEMMA ReleaseType ==
  ASSUME TypeOK, NEW c \in Clerk, Release(c)
  PROVE  lock' \in Clerk \cup {None} /\ RequestsTyped(req)'
<1>1. None \notin CorrectionOps /\ None # "undo"
  BY NameAssumption DEF CorrectionOps, AllOps
<1>2. Idle \in Request /\ Idle.op = None
  BY EmptyTypes DEF Idle
<1> QED
  BY <1>1, <1>2 DEF TypeOK, Release, RequestsTyped

LEMMA SetStatusType ==
  ASSUME TypeOK, NEW next \in {"active", "fully_paid"}, SetStatus(next)
  PROVE  status' \in {"active", "fully_paid"} /\ pendingRate' \in BOOLEAN
BY DEF TypeOK, SetStatus

\* A request that begins is typed when its operation and item fit.
LEMMA BeginRequestType ==
  ASSUME TypeOK, NEW c \in Clerk, NEW r \in Request,
         r.op \in CorrectionOps => r.item \in Payment,
         r.op = "undo" => r.item \in Waiver,
         req' = [req EXCEPT ![c] = r]
  PROVE  RequestsTyped(req)'
BY DEF TypeOK, RequestsTyped

LEMMA BeginType ==
  ASSUME TypeOK, NEW c \in Clerk, Begin(c)
  PROVE  TypeOK'
<1>1. ASSUME NEW op \in AllOps, NEW p \in Payment, BeginCorrection(c, op, p)
      PROVE  TypeOK'
  <2> DEFINE r == [Idle EXCEPT !.pc = "waiting", !.op = op, !.item = p, !.stale = row[p]]
  <2>1. r \in Request /\ r.op = op /\ r.item = p
    BY EmptyTypes DEF TypeOK, Request, Idle
  <2>2. op # "undo"
    BY <1>1 DEF BeginCorrection, CorrectionOps
  <2>3. RequestsTyped(req)'
    BY <1>1, <2>1, <2>2, BeginRequestType DEF BeginCorrection
  <2> QED
    BY <1>1, <2>3 DEF TypeOK, BeginCorrection, RequestsTyped
<1>2. ASSUME NEW op \in AllOps, BeginOnLoan(c, op)
      PROVE  TypeOK'
  <2> DEFINE r == [Idle EXCEPT !.pc = "waiting", !.op = op]
  <2>1. r \in Request /\ r.op = op
    BY EmptyTypes DEF Request, Idle
  <2>2. op \notin CorrectionOps /\ op # "undo"
    BY <1>2 DEF BeginOnLoan, CorrectionOps
  <2>3. RequestsTyped(req)'
    BY <1>2, <2>1, <2>2, BeginRequestType DEF BeginOnLoan
  <2> QED
    BY <1>2, <2>3 DEF TypeOK, BeginOnLoan, RequestsTyped
<1>3. ASSUME NEW w \in Waiver, BeginUndo(c, w)
      PROVE  TypeOK'
  <2> DEFINE r == [Idle EXCEPT !.pc = "waiting", !.op = "undo", !.item = w]
  <2>1. r \in Request /\ r.op = "undo" /\ r.item = w
    BY EmptyTypes DEF Request, Idle, AllOps
  <2>2. RequestsTyped(req)'
    BY <1>3, <2>1, BeginRequestType DEF BeginUndo, CorrectionOps
  <2> QED
    BY <1>3, <2>2 DEF TypeOK, BeginUndo, RequestsTyped
<1> QED
  BY <1>1, <1>2, <1>3 DEF Begin

LEMMA LockLoanType ==
  ASSUME TypeOK, NEW c \in Clerk, LockLoan(c)
  PROVE  TypeOK'
<1> DEFINE seen == IF req[c].item \in Payment THEN portion[req[c].item] ELSE NoSplit
           r == [req[c] EXCEPT !.pc = "locked", !.seen = seen]
<1>1. req[c] \in Request
  BY DEF TypeOK
<1>2. seen \in Split
  BY EmptyTypes DEF TypeOK
<1>3. r \in Request /\ r.op = req[c].op /\ r.item = req[c].item
  BY <1>1, <1>2 DEF Request
<1>4. req' = [req EXCEPT ![c] = r]
  BY <1>1 DEF LockLoan, TypeOK, Request
<1> HIDE DEF r
<1>5. /\ r.op \in CorrectionOps => r.item \in Payment
      /\ r.op = "undo" => r.item \in Waiver
  BY <1>3 DEF TypeOK
<1>6. RequestsTyped(req)'
  BY <1>3, <1>4, <1>5, BeginRequestType
<1> QED
  BY <1>6 DEF TypeOK, LockLoan, RequestsTyped

\* Posting a split's principal, and reversing accrual, on integer books.
LEMMA RepaidType ==
  ASSUME NEW book \in [Day -> Int], NEW d \in Day, NEW split \in Split
  PROVE  From(book, d, -split.principal) \in [Day -> Int]
<1>1. -split.principal \in Int
  BY DEF Split
<1> QED
  BY <1>1, FromType

LEMMA RestoredType ==
  ASSUME NEW book \in [Day -> Int], NEW d \in Day, NEW seen \in Split
  PROVE  From(book, d, Greater(seen.principal, 0)) \in [Day -> Int]
<1>1. Greater(seen.principal, 0) \in Int
  BY DEF Split, Greater
<1> QED
  BY <1>1, FromType

LEMMA AccrualReversedType ==
  ASSUME accrual \in [Instant -> Int], NEW d \in Day, NEW i \in Int
  PROVE  From(accrual, Midnight(d), -AccrualToReverse(Midnight(d), i)) \in [Instant -> Int]
<1>1. AccrualToReverse(Midnight(d), i) \in Int
  BY InstantsOfADay, AccrualToReverseType
<1>2. -AccrualToReverse(Midnight(d), i) \in Int
  BY <1>1
<1> QED
  BY <1>2, FromType

LEMMA RecordPaymentType ==
  ASSUME TypeOK, NEW c \in Clerk, RecordPayment(c)
  PROVE  TypeOK'
<1>1. PICK p \in Payment, a \in Amounts, d \in PaymentDates :
        /\ row' = [row EXCEPT ![p] = [state |-> "live", wrong |-> FALSE,
                                      amount |-> a, date |-> d]]
        /\ \E i \in 0..a :
             LET split == Allocation(a, i, receivable[d])
             IN /\ portion' = [portion EXCEPT ![p] = Plus(@, split)]
                /\ receivable' = From(receivable, d, -split.principal)
                /\ accrual' = From(accrual, Midnight(d),
                                   -AccrualToReverse(Midnight(d), i))
        /\ SetStatus(IF FullyPaid(status, receivable', row', portion', waiver, d)
                     THEN "fully_paid" ELSE status)
  BY DEF RecordPayment
<1>2. PICK i \in 0..a :
        LET split == Allocation(a, i, receivable[d])
        IN /\ portion' = [portion EXCEPT ![p] = Plus(@, split)]
           /\ receivable' = From(receivable, d, -split.principal)
           /\ accrual' = From(accrual, Midnight(d), -AccrualToReverse(Midnight(d), i))
  BY <1>1
<1> DEFINE split == Allocation(a, i, receivable[d])
<1>3. a \in Nat /\ i \in Int /\ d \in Day
  BY LoanAssumption, PaymentDatesAreDays DEF TypeOK
<1>4. receivable[d] \in Int
  BY <1>3 DEF TypeOK
<1>5. split \in Split
  BY <1>3, <1>4, AllocationSplits
<1>6. row' \in [Payment -> Row]
  BY <1>1, <1>3 DEF TypeOK, Row
<1>7. portion' \in [Payment -> Split]
  BY <1>2, <1>5, PlusType DEF TypeOK
<1>8. receivable' \in [Day -> Int]
  BY <1>2, <1>3, <1>5, RepaidType DEF TypeOK
<1>9. accrual' \in [Instant -> Int]
  BY <1>2, <1>3, AccrualReversedType DEF TypeOK
<1>10. status' \in {"active", "fully_paid"} /\ pendingRate' \in BOOLEAN
  BY <1>1, SetStatusType DEF TypeOK
<1> QED
  BY <1>6, <1>7, <1>8, <1>9, <1>10, ReleaseType DEF TypeOK, RecordPayment, RequestsTyped

LEMMA EditPaymentType ==
  ASSUME TypeOK, NEW c \in Clerk, EditPayment(c)
  PROVE  TypeOK'
<1> DEFINE p == req[c].item
           stale == req[c].stale
           seen == req[c].seen
           undone == [portion EXCEPT ![p] = Reversed(@, seen)]
<1>1. PICK newAmount \in Amounts \cup {None}, newDate \in PaymentDates \cup {None} :
        LET a == IF newAmount = None THEN stale.amount ELSE newAmount
            d == IF newDate = None THEN stale.date ELSE newDate
        IN /\ row' = [row EXCEPT ![p].amount = Written(newAmount, @),
                                 ![p].date = Written(newDate, @)]
           /\ \E i \in 0..a, before \in 0..Principal :
                /\ i = Lesser(a, UnpaidInterest(status, row', undone, waiver, d))
                /\ before = BalanceBefore(row', undone, p, d)
                /\ LET split == Allocation(a, i, before)
                   IN /\ portion' = [undone EXCEPT ![p] = Plus(@, split)]
                      /\ receivable' =
                           From(From(receivable, stale.date, Greater(seen.principal, 0)),
                                d, -split.principal)
                      /\ accrual' = From(accrual, Midnight(d),
                                         -AccrualToReverse(Midnight(d), i))
           /\ SetStatus(IF FullyPaid(status, receivable', row', portion', waiver, d)
                        THEN "fully_paid" ELSE "active")
  BY DEF EditPayment
<1> DEFINE a == IF newAmount = None THEN stale.amount ELSE newAmount
           d == IF newDate = None THEN stale.date ELSE newDate
<1>2. p \in Payment
  BY DEF EditPayment, Holds, TypeOK, CorrectionOps
<1>3. stale \in Row /\ seen \in Split
  BY DEF TypeOK, Request
<1>4. a \in Nat /\ d \in Day /\ stale.date \in Day
  BY <1>3, LoanAssumption, PaymentDatesAreDays DEF TypeOK, Row
<1>5. row' \in [Payment -> Row]
  <2>1. row[p].amount \in Nat /\ row[p].date \in Day
    BY <1>2 DEF TypeOK, Row
  <2>2. Written(newAmount, row[p].amount) \in Nat
    BY <2>1, LoanAssumption DEF Written
  <2>3. Written(newDate, row[p].date) \in Day
    BY <2>1, PaymentDatesAreDays DEF Written, TypeOK
  <2> DEFINE written == [row[p] EXCEPT !.amount = Written(newAmount, row[p].amount),
                                       !.date = Written(newDate, row[p].date)]
  <2>4. written \in Row
    BY <1>2, <2>2, <2>3 DEF TypeOK, Row
  <2>5. row' = [row EXCEPT ![p] = written]
    BY <1>1, <1>2 DEF TypeOK, Row
  <2> HIDE DEF written
  <2> QED
    BY <1>2, <2>4, <2>5 DEF TypeOK
<1>6. undone \in [Payment -> Split]
  BY <1>2, <1>3, ReversedType DEF TypeOK
<1>7. PICK i \in 0..a, before \in 0..Principal :
        LET split == Allocation(a, i, before)
        IN /\ portion' = [undone EXCEPT ![p] = Plus(@, split)]
           /\ receivable' =
                From(From(receivable, stale.date, Greater(seen.principal, 0)),
                     d, -split.principal)
           /\ accrual' = From(accrual, Midnight(d), -AccrualToReverse(Midnight(d), i))
  BY <1>1
<1> DEFINE split == Allocation(a, i, before)
<1> HIDE DEF p, stale, seen, undone, a, d
<1>8. i \in Int /\ split \in Split
  BY <1>4, LoanAssumption, AllocationSplits
<1>9. portion' \in [Payment -> Split]
  BY <1>6, <1>7, <1>8, PlusType
<1>10. receivable' \in [Day -> Int]
  <2>1. From(receivable, stale.date, Greater(seen.principal, 0)) \in [Day -> Int]
    BY <1>3, <1>4, RestoredType DEF TypeOK
  <2> QED
    BY <1>4, <1>7, <1>8, <2>1, RepaidType
<1>11. accrual' \in [Instant -> Int]
  BY <1>4, <1>7, <1>8, AccrualReversedType DEF TypeOK
<1>12. status' \in {"active", "fully_paid"} /\ pendingRate' \in BOOLEAN
  BY <1>1, SetStatusType
<1> QED
  BY <1>5, <1>9, <1>10, <1>11, <1>12, ReleaseType DEF TypeOK, EditPayment, RequestsTyped

LEMMA ReversePaymentType ==
  ASSUME TypeOK, NEW c \in Clerk, ReversePayment(c), req[c].item \in Payment
  PROVE  portion' \in [Payment -> Split] /\ receivable' \in [Day -> Int]
<1>1. req[c].stale.date \in Day /\ req[c].seen \in Split
  BY DEF TypeOK, Request, Row
<1>2. portion' \in [Payment -> Split]
  BY <1>1, ReversedType DEF TypeOK, ReversePayment
<1>3. receivable' \in [Day -> Int]
  BY <1>1, RestoredType DEF TypeOK, ReversePayment
<1> QED
  BY <1>2, <1>3

LEMMA DeletePaymentType ==
  ASSUME TypeOK, NEW c \in Clerk, DeletePayment(c)
  PROVE  TypeOK'
<1>1. req[c].item \in Payment
  BY DEF DeletePayment, Holds, TypeOK, CorrectionOps
<1>2. row' \in [Payment -> Row]
  BY <1>1 DEF DeletePayment, TypeOK, Row
<1>3. status' \in {"active", "fully_paid"} /\ pendingRate' \in BOOLEAN
  BY SetStatusType DEF DeletePayment
<1>4. portion' \in [Payment -> Split] /\ receivable' \in [Day -> Int]
  BY <1>1, ReversePaymentType DEF DeletePayment
<1> QED
  BY <1>2, <1>3, <1>4, ReleaseType DEF TypeOK, DeletePayment, RequestsTyped

LEMMA MarkPaymentWrongType ==
  ASSUME TypeOK, NEW c \in Clerk, MarkPaymentWrong(c)
  PROVE  TypeOK'
<1>1. req[c].item \in Payment
  BY DEF MarkPaymentWrong, Holds, TypeOK, CorrectionOps
<1>2. row' \in [Payment -> Row]
  BY <1>1 DEF MarkPaymentWrong, TypeOK, Row
<1>3. status' \in {"active", "fully_paid"} /\ pendingRate' \in BOOLEAN
  BY SetStatusType DEF MarkPaymentWrong, TypeOK
<1>4. portion' \in [Payment -> Split] /\ receivable' \in [Day -> Int]
  BY <1>1, ReversePaymentType DEF MarkPaymentWrong
<1> QED
  BY <1>2, <1>3, <1>4, ReleaseType DEF TypeOK, MarkPaymentWrong, RequestsTyped

LEMMA UnmarkPaymentWrongType ==
  ASSUME TypeOK, NEW c \in Clerk, UnmarkPaymentWrong(c)
  PROVE  TypeOK'
<1> DEFINE p == req[c].item
           a == req[c].stale.amount
           d == req[c].stale.date
<1>1. p \in Payment
  BY DEF UnmarkPaymentWrong, Holds, TypeOK, CorrectionOps
<1>2. a \in Nat /\ d \in Day
  BY DEF TypeOK, Request, Row
<1>3. row' \in [Payment -> Row]
  <2>1. row' = [row EXCEPT ![p].wrong = FALSE]
    BY DEF UnmarkPaymentWrong
  <2> QED
    BY <1>1, <2>1 DEF TypeOK, Row
<1>4. PICK i \in 0..a, before \in 0..Principal :
        /\ i = Lesser(a, UnpaidInterest(status, row', portion, waiver, d))
        /\ before = BalanceBefore(row', portion, p, d)
        /\ LET split == Allocation(a, i, before)
           IN /\ portion' = [portion EXCEPT ![p] = Plus(@, split)]
              /\ receivable' = From(receivable, d, -split.principal)
              /\ accrual' = From(accrual, Midnight(d), -AccrualToReverse(Midnight(d), i))
  BY DEF UnmarkPaymentWrong
<1> DEFINE split == Allocation(a, i, before)
<1>5. status' \in {"active", "fully_paid"} /\ pendingRate' \in BOOLEAN
  BY SetStatusType DEF UnmarkPaymentWrong, TypeOK
<1> HIDE DEF p, a, d
<1>6. i \in Int /\ split \in Split
  BY <1>2, LoanAssumption, AllocationSplits
<1>7. portion' \in [Payment -> Split]
  BY <1>1, <1>4, <1>6, PlusType DEF TypeOK
<1>8. receivable' \in [Day -> Int]
  BY <1>2, <1>4, <1>6, RepaidType DEF TypeOK
<1>9. accrual' \in [Instant -> Int]
  BY <1>2, <1>4, <1>6, AccrualReversedType DEF TypeOK
<1> QED
  BY <1>3, <1>5, <1>7, <1>8, <1>9, ReleaseType DEF TypeOK, UnmarkPaymentWrong, RequestsTyped

LEMMA WaiveLoanAmountType ==
  ASSUME TypeOK, NEW c \in Clerk, WaiveLoanAmount(c)
  PROVE  TypeOK'
<1>1. PICK w \in Waiver, a \in Amounts :
        \E i \in 0..a :
          /\ i = Lesser(a, UnpaidInterest(status, row, portion, waiver, today))
          /\ LET split == Allocation(a, i, receivable[today])
                 reversal == AccrualToReverse(Evening(today), i)
             IN /\ waiver' = [waiver EXCEPT ![w] =
                      [state |-> "live", date |-> today, interest |-> split.interest,
                       principal |-> split.principal, accrual |-> reversal]]
                /\ receivable' = From(receivable, today, -split.principal)
                /\ accrual' = From(accrual, Evening(today), -reversal)
  BY DEF WaiveLoanAmount
<1>2. PICK i \in 0..a :
        LET split == Allocation(a, i, receivable[today])
            reversal == AccrualToReverse(Evening(today), i)
        IN /\ waiver' = [waiver EXCEPT ![w] =
                 [state |-> "live", date |-> today, interest |-> split.interest,
                  principal |-> split.principal, accrual |-> reversal]]
           /\ receivable' = From(receivable, today, -split.principal)
           /\ accrual' = From(accrual, Evening(today), -reversal)
  BY <1>1
<1> DEFINE split == Allocation(a, i, receivable[today])
           reversal == AccrualToReverse(Evening(today), i)
<1>3. a \in Nat /\ i \in Int /\ today \in Day /\ receivable[today] \in Int
  BY LoanAssumption DEF TypeOK
<1>4. split \in Split /\ split.interest >= 0 /\ split.principal >= 0
  BY <1>3, AllocationSplits
<1>5. reversal \in Int
  BY <1>3, InstantsOfADay, AccrualToReverseType DEF TypeOK
<1>6. status' \in {"active", "fully_paid"} /\ pendingRate' \in BOOLEAN
  BY SetStatusType DEF WaiveLoanAmount, TypeOK
<1> HIDE DEF split, reversal
<1>7. /\ waiver' = [waiver EXCEPT ![w] =
           [state |-> "live", date |-> today, interest |-> split.interest,
            principal |-> split.principal, accrual |-> reversal]]
      /\ receivable' = From(receivable, today, -split.principal)
      /\ accrual' = From(accrual, Evening(today), -reversal)
  BY <1>2 DEF split, reversal
<1>8. waiver' \in [Waiver -> WaiverRow]
  BY <1>3, <1>4, <1>5, <1>7 DEF TypeOK, WaiverRow, Split
<1>9. receivable' \in [Day -> Int]
  BY <1>3, <1>4, <1>7, RepaidType DEF TypeOK
<1>10. accrual' \in [Instant -> Int]
  <2>1. -reversal \in Int
    BY <1>5
  <2> QED
    BY <2>1, <1>7, FromType DEF TypeOK
<1> QED
  BY <1>6, <1>8, <1>9, <1>10, ReleaseType DEF TypeOK, WaiveLoanAmount, RequestsTyped

LEMMA UndoLoanWaiverType ==
  ASSUME TypeOK, NEW c \in Clerk, UndoLoanWaiver(c)
  PROVE  TypeOK'
<1> DEFINE w == req[c].item
<1>1. w \in Waiver
  BY DEF UndoLoanWaiver, Holds, TypeOK
<1>2. waiver[w].principal \in Int /\ waiver[w].accrual \in Int
  BY <1>1 DEF TypeOK, WaiverRow
<1>3. waiver' \in [Waiver -> WaiverRow]
  BY <1>1 DEF UndoLoanWaiver, TypeOK, WaiverRow
<1>4. receivable' \in [Day -> Int] /\ restored' \in [Instant -> Int]
  BY <1>2, FromType DEF UndoLoanWaiver, TypeOK
<1>5. status' \in {"active", "fully_paid"} /\ pendingRate' \in BOOLEAN
  BY SetStatusType DEF UndoLoanWaiver, TypeOK
<1> QED
  BY <1>3, <1>4, <1>5, ReleaseType DEF TypeOK, UndoLoanWaiver, RequestsTyped

LEMMA AccrueInterestType ==
  ASSUME TypeOK, NEW c \in Clerk, AccrueInterest(c)
  PROVE  TypeOK'
<1>1. PICK d \in 0..(today - 1), delta \in 1..(Principal * Rate * LastDay) :
        accrual' = From(accrual, Evening(d), delta)
  BY DEF AccrueInterest
<1>2. delta \in Int
  BY <1>1
<1>3. accrual' \in [Instant -> Int]
  BY <1>1, <1>2, FromType DEF TypeOK
<1> QED
  BY <1>3, ReleaseType DEF TypeOK, AccrueInterest, RequestsTyped

LEMMA CommitType ==
  ASSUME TypeOK, NEW c \in Clerk, Commit(c)
  PROVE  TypeOK'
<1>1. CASE RequestRateChange(c)
  BY <1>1, ReleaseType DEF TypeOK, RequestRateChange, RequestsTyped
<1> QED
  BY <1>1, RecordPaymentType, EditPaymentType, DeletePaymentType, MarkPaymentWrongType,
     UnmarkPaymentWrongType, WaiveLoanAmountType, UndoLoanWaiverType, AccrueInterestType
     DEF Commit

LEMMA TypeStep == TypeOK /\ [Next]_vars => TypeOK'
<1> SUFFICES ASSUME TypeOK, [Next]_vars PROVE TypeOK'
  OBVIOUS
<1>1. ASSUME NEW c \in Clerk, Rollback(c) PROVE TypeOK'
  BY <1>1, ReleaseType DEF TypeOK, Rollback, RequestsTyped
<1>2. CASE RejectRateChange
  BY <1>2 DEF TypeOK, RejectRateChange
<1>3. CASE NextDay
  BY <1>3, LoanAssumption DEF TypeOK, NextDay, Day
<1>4. CASE UNCHANGED vars
  BY <1>4 DEF TypeOK, vars
<1> QED
  BY <1>1, <1>2, <1>3, <1>4, BeginType, LockLoanType, CommitType DEF Next

\* Every reachable state is typed, and a request carries the row it is about.
THEOREM TypeCorrect == Spec => []TypeOK
BY TypeInit, TypeStep, PTL DEF Spec

-----------------------------------------------------------------------------
(* Serialization, and what it gives: no posting is reversed twice.         *)

\* What ends a transaction keeps the others serialized: nobody else holds the
\* lock, so nobody else has read portions that the commit changes.
LEMMA ReleaseSerialized ==
  ASSUME TypeOK, CorrectionsSerialized,
         NEW c \in Clerk, req[c].pc = "locked", Release(c)
  PROVE  CorrectionsSerialized'
<1>1. lock = c /\ lock' = None /\ None \notin Clerk
  BY NameAssumption DEF CorrectionsSerialized, Release
<1>2. ASSUME NEW d \in Clerk PROVE req'[d].pc # "locked"
  <2>1. CASE d = c
    BY <2>1 DEF Release, Idle, TypeOK
  <2>2. CASE d # c
    BY <1>1, <2>2 DEF Release, CorrectionsSerialized, TypeOK
  <2> QED
    BY <2>1, <2>2
<1> QED
  BY <1>1, <1>2 DEF CorrectionsSerialized

LEMMA LockLoanSerialized ==
  ASSUME TypeOK, CorrectionsSerialized, NEW c \in Clerk, LockLoan(c)
  PROVE  CorrectionsSerialized'
<1>1. \A d \in Clerk : req[d].pc # "locked"
  BY NameAssumption DEF CorrectionsSerialized, LockLoan
<1>2. req[c] \in Request
  BY DEF TypeOK
<1>3. /\ lock' = c
      /\ req'[c].pc = "locked"
      /\ req'[c].item = req[c].item
      /\ req[c].item \in Payment => req'[c].seen = portion[req[c].item]
      /\ \A d \in Clerk \ {c} : req'[d] = req[d]
      /\ portion' = portion
  BY <1>2 DEF LockLoan, TypeOK, Request
<1> QED
  BY <1>1, <1>3 DEF CorrectionsSerialized

LEMMA CommitHolds ==
  ASSUME NEW c \in Clerk, Commit(c) \/ Rollback(c)
  PROVE  req[c].pc = "locked" /\ Release(c)
BY DEF Commit, Rollback, Holds, RecordPayment, EditPayment, DeletePayment,
   MarkPaymentWrong, UnmarkPaymentWrong, WaiveLoanAmount, UndoLoanWaiver,
   AccrueInterest, RequestRateChange

LEMMA SerializedStep ==
  ASSUME TypeOK, CorrectionsSerialized, [Next]_vars
  PROVE  CorrectionsSerialized'
<1>1. ASSUME NEW c \in Clerk, Begin(c) PROVE CorrectionsSerialized'
  <2> DEFINE Begun(r) == /\ req[c] = Idle
                         /\ r.pc = "waiting"
                         /\ req' = [req EXCEPT ![c] = r]
                         /\ UNCHANGED <<portion, lock>>
  <2>1. PICK r : Begun(r)
    <3>1. ASSUME NEW op \in AllOps, NEW p \in Payment, BeginCorrection(c, op, p)
          PROVE  \E r : Begun(r)
      BY <3>1 DEF BeginCorrection, Idle
    <3>2. ASSUME NEW op \in AllOps, BeginOnLoan(c, op)
          PROVE  \E r : Begun(r)
      BY <3>2 DEF BeginOnLoan, Idle
    <3>3. ASSUME NEW w \in Waiver, BeginUndo(c, w)
          PROVE  \E r : Begun(r)
      BY <3>3 DEF BeginUndo, Idle
    <3> QED
      BY <1>1, <3>1, <3>2, <3>3 DEF Begin
  <2>2. req[c].pc = "idle" /\ UNCHANGED <<portion, lock>>
    BY <2>1 DEF Idle
  <2>3. /\ req'[c].pc = "waiting"
        /\ \A d \in Clerk \ {c} : req'[d] = req[d]
    BY <2>1 DEF TypeOK
  <2> QED
    BY <2>2, <2>3 DEF CorrectionsSerialized
<1>2. CASE RejectRateChange \/ NextDay \/ UNCHANGED vars
  BY <1>2 DEF CorrectionsSerialized, RejectRateChange, NextDay, vars
<1> QED
  BY <1>1, <1>2, LockLoanSerialized, CommitHolds, ReleaseSerialized DEF Next

\* Corrections of a loan are serialized by its row lock, for any number of
\* clerks: the portions a transaction works from are what the journal carries.
THEOREM Serialized == Spec => []CorrectionsSerialized
<1>1. Init => CorrectionsSerialized
  BY NameAssumption DEF Init, CorrectionsSerialized, Idle
<1> QED
  BY <1>1, TypeInit, TypeStep, SerializedStep, PTL DEF Spec

\* No part of a split is negative.
NonNegative(s) == s.interest >= 0 /\ s.principal >= 0 /\ s.overpaid >= 0

LEMMA PlusNonNegative ==
  ASSUME NEW s \in Split, NEW t \in Split, NonNegative(s), NonNegative(t)
  PROVE  NonNegative(Plus(s, t))
BY DEF Plus, Split, NonNegative

LEMMA NoSplitNonNegative == NonNegative(NoSplit) /\ NoSplit \in Split
BY EmptyTypes DEF NonNegative, NoSplit

\* The portions after a commit of c are those before, except that a payment's
\* may have been reversed to nothing, and a split may have been added.
LEMMA CommitPortions ==
  ASSUME TypeOK, CorrectionsSerialized, NoDoubleReversal, NEW c \in Clerk, Commit(c)
  PROVE  \A q \in Payment :
           \/ portion'[q] = portion[q]
           \/ portion'[q] = NoSplit
           \/ \E s \in Split : /\ NonNegative(s)
                               /\ \/ portion'[q] = Plus(portion[q], s)
                                  \/ portion'[q] = Plus(NoSplit, s)
<1> DEFINE p == req[c].item
<1>1. ASSUME p \in Payment, req[c].pc = "locked"
      PROVE  /\ req[c].seen = portion[p]
             /\ Reversed(portion[p], req[c].seen) = NoSplit
  BY <1>1, ReversedToNothing DEF CorrectionsSerialized, NoDoubleReversal, TypeOK
<1>2. CASE RecordPayment(c)
  <2>1. PICK r \in Payment, a \in Amounts, d \in PaymentDates :
          \E i \in 0..a :
            /\ i = Lesser(a, UnpaidInterest(status, row, portion, waiver, d))
            /\ LET split == Allocation(a, i, receivable[d])
               IN /\ portion' = [portion EXCEPT ![r] = Plus(@, split)]
                  /\ receivable' = From(receivable, d, -split.principal)
                  /\ accrual' = From(accrual, Midnight(d),
                                     -AccrualToReverse(Midnight(d), i))
    BY <1>2 DEF RecordPayment
  <2> PICK i \in 0..a :
         portion' = [portion EXCEPT ![r] = Plus(@, Allocation(a, i, receivable[d]))]
    BY <2>1
  <2>2. a \in Nat /\ receivable[d] \in Int
    BY LoanAssumption, PaymentDatesAreDays DEF TypeOK
  <2>3. /\ Allocation(a, i, receivable[d]) \in Split
        /\ NonNegative(Allocation(a, i, receivable[d]))
    BY <2>2, AllocationSplits DEF NonNegative
  <2> QED
    BY <2>3 DEF TypeOK
<1>3. CASE EditPayment(c)
  <2> DEFINE undone == [portion EXCEPT ![p] = Reversed(@, req[c].seen)]
  <2>1. p \in Payment /\ req[c].pc = "locked"
    BY <1>3 DEF EditPayment, Holds, TypeOK, CorrectionOps
  <2>2. PICK a \in Nat :
          \E i \in 0..a, before \in 0..Principal :
            portion' = [undone EXCEPT ![p] = Plus(@, Allocation(a, i, before))]
    <3> DEFINE stale == req[c].stale
               seen == req[c].seen
    <3>1. PICK newAmount \in Amounts \cup {None}, newDate \in PaymentDates \cup {None} :
            LET a == IF newAmount = None THEN stale.amount ELSE newAmount
                d == IF newDate = None THEN stale.date ELSE newDate
            IN \E i \in 0..a, before \in 0..Principal :
                 /\ i = Lesser(a, UnpaidInterest(status, row', undone, waiver, d))
                 /\ before = BalanceBefore(row', undone, p, d)
                 /\ LET split == Allocation(a, i, before)
                    IN /\ portion' = [undone EXCEPT ![p] = Plus(@, split)]
                       /\ receivable' =
                            From(From(receivable, stale.date, Greater(seen.principal, 0)),
                                 d, -split.principal)
                       /\ accrual' = From(accrual, Midnight(d),
                                          -AccrualToReverse(Midnight(d), i))
      BY <1>3 DEF EditPayment
    <3>2. req[c].stale.amount \in Nat
      BY DEF TypeOK, Request, Row
    <3> DEFINE a == IF newAmount = None THEN stale.amount ELSE newAmount
    <3>3. a \in Nat
      BY <3>2, LoanAssumption
    <3>4. \E i \in 0..a, before \in 0..Principal :
            portion' = [undone EXCEPT ![p] = Plus(@, Allocation(a, i, before))]
      BY <3>1
    <3> QED
      BY <3>3, <3>4
  <2> PICK i \in 0..a, before \in 0..Principal :
         portion' = [undone EXCEPT ![p] = Plus(@, Allocation(a, i, before))]
    BY <2>2
  <2>3. undone = [portion EXCEPT ![p] = NoSplit]
    BY <1>1, <2>1
  <2>4. before \in Int
    BY LoanAssumption
  <2>5. Allocation(a, i, before) \in Split /\ NonNegative(Allocation(a, i, before))
    BY <2>4, AllocationSplits DEF NonNegative
  <2> QED
    BY <2>1, <2>3, <2>5 DEF TypeOK
<1>4. CASE DeletePayment(c) \/ MarkPaymentWrong(c)
  <2>1. p \in Payment /\ req[c].pc = "locked" /\ ReversePayment(c)
    BY <1>4 DEF DeletePayment, MarkPaymentWrong, Holds, TypeOK, CorrectionOps
  <2> QED
    BY <1>1, <2>1 DEF ReversePayment, TypeOK
<1>5. CASE UnmarkPaymentWrong(c)
  <2>1. p \in Payment
    BY <1>5 DEF UnmarkPaymentWrong, Holds, TypeOK, CorrectionOps
  <2> DEFINE a == req[c].stale.amount
  <2>2. PICK i \in 0..a, before \in 0..Principal :
          portion' = [portion EXCEPT ![p] = Plus(@, Allocation(a, i, before))]
    BY <1>5 DEF UnmarkPaymentWrong
  <2>3. a \in Nat /\ before \in Int
    BY LoanAssumption DEF TypeOK, Request, Row
  <2>4. Allocation(a, i, before) \in Split /\ NonNegative(Allocation(a, i, before))
    BY <2>3, AllocationSplits DEF NonNegative
  <2> QED
    BY <2>1, <2>2, <2>4 DEF TypeOK
<1>6. CASE \/ WaiveLoanAmount(c) \/ UndoLoanWaiver(c)
           \/ AccrueInterest(c) \/ RequestRateChange(c)
  BY <1>6 DEF WaiveLoanAmount, UndoLoanWaiver, AccrueInterest, RequestRateChange
<1> QED
  BY <1>2, <1>3, <1>4, <1>5, <1>6 DEF Commit

LEMMA NoDoubleReversalStep ==
  ASSUME TypeOK, CorrectionsSerialized, NoDoubleReversal, [Next]_vars
  PROVE  NoDoubleReversal'
<1>1. ASSUME NEW c \in Clerk, Commit(c) PROVE NoDoubleReversal'
  <2> SUFFICES ASSUME NEW q \in Payment PROVE NonNegative(portion'[q])
    BY DEF NoDoubleReversal, NonNegative
  <2>1. portion[q] \in Split /\ NonNegative(portion[q])
    BY DEF TypeOK, NoDoubleReversal, NonNegative
  <2> QED
    BY <1>1, <2>1, CommitPortions, PlusNonNegative, NoSplitNonNegative
<1>2. CASE UNCHANGED portion
  BY <1>2 DEF NoDoubleReversal
<1>3. \/ \E c \in Clerk : Commit(c)
      \/ UNCHANGED portion
  BY DEF Next, Begin, BeginCorrection, BeginOnLoan, BeginUndo, LockLoan, Rollback,
     RejectRateChange, NextDay, vars
<1> QED
  BY <1>1, <1>2, <1>3

\* No interleaving of any number of corrections reverses a posting twice.
THEOREM NeverDoublyReversed == Spec => []NoDoubleReversal
<1>1. Init => CorrectionsSerialized /\ NoDoubleReversal
  BY NameAssumption DEF Init, CorrectionsSerialized, Idle, NoDoubleReversal, NoSplit
<1> QED
  BY <1>1, TypeInit, TypeStep, SerializedStep, NoDoubleReversalStep, PTL DEF Spec

-----------------------------------------------------------------------------
(* Closing a loan leaves no rate request pending.                           *)

LEMMA ClosedStep ==
  ASSUME TypeOK, ClosedHasNoPendingRequest, [Next]_vars
  PROVE  ClosedHasNoPendingRequest'
<1>1. ASSUME NEW next, SetStatus(next) PROVE ClosedHasNoPendingRequest'
  BY <1>1 DEF SetStatus, ClosedHasNoPendingRequest
<1>2. ASSUME NEW c \in Clerk, Commit(c) PROVE ClosedHasNoPendingRequest'
  <2>1. CASE AccrueInterest(c)
    BY <2>1 DEF AccrueInterest, ClosedHasNoPendingRequest
  <2>2. CASE RequestRateChange(c)
    BY <2>2 DEF RequestRateChange, ClosedHasNoPendingRequest
  <2>3. CASE RecordPayment(c)
    BY <1>1, <2>3 DEF RecordPayment
  <2>4. CASE EditPayment(c)
    BY <1>1, <2>4 DEF EditPayment
  <2>5. CASE DeletePayment(c) \/ MarkPaymentWrong(c) \/ UnmarkPaymentWrong(c)
    BY <1>1, <2>5 DEF DeletePayment, MarkPaymentWrong, UnmarkPaymentWrong
  <2>6. CASE WaiveLoanAmount(c) \/ UndoLoanWaiver(c)
    BY <1>1, <2>6 DEF WaiveLoanAmount, UndoLoanWaiver
  <2> QED
    BY <1>2, <2>1, <2>2, <2>3, <2>4, <2>5, <2>6 DEF Commit
<1>3. CASE RejectRateChange
  BY <1>3 DEF RejectRateChange, ClosedHasNoPendingRequest
<1>4. CASE UNCHANGED <<status, pendingRate>>
  BY <1>4 DEF ClosedHasNoPendingRequest
<1>5. \/ \E c \in Clerk : Commit(c)
      \/ RejectRateChange
      \/ UNCHANGED <<status, pendingRate>>
  BY DEF Next, Begin, BeginCorrection, BeginOnLoan, BeginUndo, LockLoan, Rollback,
     NextDay, vars
<1> QED
  BY <1>2, <1>3, <1>4, <1>5

\* Whatever closes a loan, in any interleaving, takes its pending rate
\* correction request down with it (maybeUpdateLoanStatusAfterPayment).
THEOREM ClosingCancels == Spec => []ClosedHasNoPendingRequest
<1>1. Init => ClosedHasNoPendingRequest
  BY DEF Init, ClosedHasNoPendingRequest
<1> QED
  BY <1>1, TypeInit, TypeStep, ClosedStep, PTL DEF Spec

-----------------------------------------------------------------------------
(* Sums over a finite set.                                                 *)

\* A non-empty set of naturals has a least element.
LEMMA LeastNatural ==
  ASSUME NEW T \in SUBSET Nat, T # {}
  PROVE  \E n \in T : \A m \in T : n <= m
<1>1. PICK n \in T : \A m \in T : ~ (<<m, n>> \in OpToRel(<, Nat))
  BY NatLessThanWellFounded, WFMin
<1>2. ASSUME NEW m \in T PROVE n <= m
  <2>1. ~ (m < n)
    BY <1>1 DEF OpToRel
  <2> QED
    BY <2>1
<1> QED
  BY <1>2

\* Induction on finite sets, first order: of the subsets of a finite set that
\* violate something, one has no proper subset that does.
LEMMA LeastSubset ==
  ASSUME NEW S, IsFiniteSet(S), NEW B \in SUBSET (SUBSET S), B # {}
  PROVE  \E s \in B : \A t \in SUBSET s : t \in B => t = s
<1> DEFINE N == {Cardinality(s) : s \in B}
<1>1. \A s \in SUBSET S : IsFiniteSet(s) /\ Cardinality(s) \in Nat
  BY FS_Subset, FS_CardinalityType
<1>2. N \in SUBSET Nat /\ N # {}
  BY <1>1
<1> HIDE DEF N
<1>3. PICK n \in N : \A m \in N : n <= m
  BY <1>2, LeastNatural
<1>4. PICK s \in B : n = Cardinality(s)
  BY DEF N
<1>5. ASSUME NEW t \in SUBSET s, t \in B PROVE t = s
  <2>1. Cardinality(t) \in N
    BY <1>5 DEF N
  <2>2. n <= Cardinality(t)
    BY <2>1, <1>3
  <2>3. IsFiniteSet(s) /\ Cardinality(t) <= Cardinality(s)
    BY <1>1, FS_Subset
  <2>4. Cardinality(t) = Cardinality(s)
    BY <2>2, <2>3, <1>4, <1>1
  <2> QED
    BY <2>3, <2>4, FS_Subset
<1> QED
  BY <1>5

-----------------------------------------------------------------------------

Pick(s) == CHOOSE x \in s : TRUE
\* g gives the sum of f over every subset of S, taking elements out by Pick.
Summing(g, f, S) ==
  g = [s \in SUBSET S |-> IF s = {} THEN 0 ELSE f[Pick(s)] + g[s \ {Pick(s)}]]
Summed(f, S) == CHOOSE g : Summing(g, f, S)

LEMMA PickIn == ASSUME NEW s, s # {} PROVE Pick(s) \in s
BY DEF Pick

LEMMA SumUnfolds == ASSUME NEW f, NEW S PROVE SumFunctionOnSet(f, S) = Summed(f, S)[S]
BY DEF SumFunctionOnSet, FoldFunctionOnSet, MapThenFoldSet, Summed, Summing, Pick

\* g sums f over S, k sums h over U, and on T they sum the same.
Agreeing(g, f, S, k, h, U, T) ==
  /\ Summing(g, f, S) /\ Summing(k, h, U)
  /\ T \subseteq S /\ T \subseteq U
  /\ \A x \in T : f[x] = h[x]

\* Then they agree on T.
LEMMA SumsAgree ==
  ASSUME NEW g, NEW f, NEW S, NEW k, NEW h, NEW U, NEW T, IsFiniteSet(T),
         Agreeing(g, f, S, k, h, U, T)
  PROVE  g[T] = k[T]
<1> DEFINE B == {t \in SUBSET T : g[t] # k[t]}
<1>1. SUFFICES ASSUME B # {} PROVE FALSE
  OBVIOUS
<1>2. PICK s \in B : \A t \in SUBSET s : t \in B => t = s
  <2>1. B \in SUBSET (SUBSET T)
    OBVIOUS
  <2> HIDE DEF B
  <2> QED
    BY <1>1, <2>1, LeastSubset
<1>3. /\ g[s] = IF s = {} THEN 0 ELSE f[Pick(s)] + g[s \ {Pick(s)}]
      /\ k[s] = IF s = {} THEN 0 ELSE h[Pick(s)] + k[s \ {Pick(s)}]
  <2>1. s \in SUBSET S /\ s \in SUBSET U
    BY DEF Agreeing
  <2> QED
    BY <2>1 DEF Summing, Agreeing
<1>4. CASE s = {}
  BY <1>3, <1>4
<1>5. CASE s # {}
  <2>1. Pick(s) \in s
    BY <1>5, PickIn
  <2>2. s \ {Pick(s)} \notin B
    BY <1>2, <2>1
  <2>3. g[s \ {Pick(s)}] = k[s \ {Pick(s)}] /\ f[Pick(s)] = h[Pick(s)]
    BY <2>1, <2>2 DEF Agreeing
  <2> QED
    BY <1>3, <1>5, <2>3
<1> QED
  BY <1>4, <1>5

\* Every finite set has a summation.
LEMMA SumsExist ==
  ASSUME NEW f, NEW S, IsFiniteSet(S)
  PROVE  Summing(Summed(f, S), f, S)
<1> DEFINE Has(s) == \E g : Summing(g, f, s)
           B == {s \in SUBSET S : ~Has(s)}
<1>1. SUFFICES ASSUME B # {} PROVE FALSE
  <2>1. Has(S)
    BY <1>1
  <2> QED
    BY <2>1 DEF Summed
<1>2. PICK s \in B : \A t \in SUBSET s : t \in B => t = s
  <2>1. B \in SUBSET (SUBSET S)
    OBVIOUS
  <2> HIDE DEF B
  <2> QED
    BY <1>1, <2>1, LeastSubset
<1>3. \A t \in SUBSET s : t # s => Summing(Summed(f, t), f, t)
  BY <1>2 DEF Summed
<1>4. \A t \in SUBSET s : IsFiniteSet(t)
  BY FS_Subset
<1> DEFINE Value(t) == Summed(f, t)[t]
           Rest(t) == t \ {Pick(t)}
<1>5. ASSUME NEW t \in SUBSET s, t # s
      PROVE  Value(t) = IF t = {} THEN 0 ELSE f[Pick(t)] + Value(Rest(t))
  <2>1. Summed(f, t)[t] = IF t = {} THEN 0 ELSE f[Pick(t)] + Summed(f, t)[Rest(t)]
    BY <1>3, <1>5 DEF Summing
  <2>2. Summing(Summed(f, t), f, t) /\ Summing(Summed(f, Rest(t)), f, Rest(t))
    <3>1. Rest(t) # s
      BY <1>5
    <3> QED
      BY <1>3, <1>5, <3>1
  <2>3. Summed(f, t)[Rest(t)] = Summed(f, Rest(t))[Rest(t)]
    <3>1. Rest(t) \subseteq t /\ IsFiniteSet(Rest(t))
      BY <1>4
    <3> HIDE DEF Rest
    <3>2. Agreeing(Summed(f, t), f, t, Summed(f, Rest(t)), f, Rest(t), Rest(t))
      BY <2>2, <3>1 DEF Agreeing
    <3> QED
      BY <3>1, <3>2, SumsAgree
  <2> QED
    BY <2>1, <2>3
<1> HIDE DEF Value
<1> DEFINE g == [t \in SUBSET s |->
                   IF t = s THEN (IF s = {} THEN 0 ELSE f[Pick(s)] + Value(Rest(s)))
                            ELSE Value(t)]
<1>6. \A t \in SUBSET s : t # {} => Rest(t) \in SUBSET s /\ Rest(t) # s
  BY PickIn
<1>7. ASSUME NEW t \in SUBSET s
      PROVE  g[t] = IF t = {} THEN 0 ELSE f[Pick(t)] + g[Rest(t)]
  <2>1. CASE t = {}
    BY <1>5, <2>1
  <2>2. CASE t # {}
    <3>1. g[Rest(t)] = Value(Rest(t))
      BY <1>6, <2>2
    <3>2. g[t] = f[Pick(t)] + Value(Rest(t))
      BY <1>5, <2>2
    <3> QED
      BY <2>2, <3>1, <3>2
  <2> QED
    BY <2>1, <2>2
<1>8. Summing(g, f, s)
  <2>1. g = [t \in SUBSET s |-> IF t = {} THEN 0 ELSE f[Pick(t)] + g[Rest(t)]]
    <3>1. g = [t \in SUBSET s |-> g[t]]
      OBVIOUS
    <3> HIDE DEF g
    <3> QED
      BY <1>7, <3>1
  <2> QED
    BY <2>1 DEF Summing
<1> QED
  BY <1>2, <1>8

\* A sum is its chosen element and the sum of the rest.
LEMMA SumPicks ==
  ASSUME NEW f, NEW S, IsFiniteSet(S)
  PROVE  Summed(f, S)[S] = IF S = {} THEN 0
                           ELSE f[Pick(S)] + Summed(f, S \ {Pick(S)})[S \ {Pick(S)}]
<1> DEFINE R == S \ {Pick(S)}
<1>1. IsFiniteSet(R) /\ R \in SUBSET S
  BY FS_Subset
<1>2. Summing(Summed(f, S), f, S) /\ Summing(Summed(f, R), f, R)
  BY <1>1, SumsExist
<1>3. Summed(f, S)[S] = IF S = {} THEN 0 ELSE f[Pick(S)] + Summed(f, S)[R]
  BY <1>2 DEF Summing
<1>4. Summed(f, S)[R] = Summed(f, R)[R]
  <2>1. Agreeing(Summed(f, S), f, S, Summed(f, R), f, R, R)
    BY <1>1, <1>2 DEF Agreeing
  <2> QED
    BY <1>1, <2>1, SumsAgree
<1> QED
  BY <1>3, <1>4

\* Any summation of the set gives its sum.
LEMMA SumIs ==
  ASSUME NEW f, NEW S, IsFiniteSet(S), NEW g, Summing(g, f, S)
  PROVE  SumFunctionOnSet(f, S) = g[S]
<1>1. Summing(Summed(f, S), f, S)
  BY SumsExist
<1>2. Agreeing(Summed(f, S), f, S, g, f, S, S)
  BY <1>1 DEF Agreeing
<1> QED
  BY <1>2, SumsAgree, SumUnfolds

LEMMA SumOfNone == ASSUME NEW f PROVE SumFunctionOnSet(f, {}) = 0
BY SumPicks, SumUnfolds, FS_EmptySet

LEMMA SumCongruent ==
  ASSUME NEW f, NEW h, NEW S, IsFiniteSet(S), \A x \in S : f[x] = h[x]
  PROVE  SumFunctionOnSet(f, S) = SumFunctionOnSet(h, S)
<1>1. Summing(Summed(f, S), f, S) /\ Summing(Summed(h, S), h, S)
  BY SumsExist
<1>2. Agreeing(Summed(f, S), f, S, Summed(h, S), h, S, S)
  BY <1>1 DEF Agreeing
<1> QED
  BY <1>2, SumsAgree, SumUnfolds

LEMMA SumTyped ==
  ASSUME NEW f, NEW S, IsFiniteSet(S), \A x \in S : f[x] \in Int
  PROVE  SumFunctionOnSet(f, S) \in Int
<1> DEFINE Value(s) == SumFunctionOnSet(f, s)
           B == {s \in SUBSET S : Value(s) \notin Int}
<1>1. SUFFICES ASSUME B # {} PROVE FALSE
  OBVIOUS
<1>2. PICK s \in B : \A t \in SUBSET s : t \in B => t = s
  <2>1. B \in SUBSET (SUBSET S)
    OBVIOUS
  <2> HIDE DEF B
  <2> QED
    BY <1>1, <2>1, LeastSubset
<1>3. Value(s) = IF s = {} THEN 0 ELSE f[Pick(s)] + Value(s \ {Pick(s)})
  BY SumPicks, SumUnfolds, FS_Subset
<1>4. CASE s # {}
  <2>1. Pick(s) \in s
    BY <1>4, PickIn
  <2>2. Value(s \ {Pick(s)}) \in Int /\ f[Pick(s)] \in Int
    BY <1>2, <2>1
  <2> QED
    BY <1>3, <1>4, <2>2
<1> QED
  BY <1>3, <1>4

\* Any element may be taken out of a sum.
LEMMA SumRemove ==
  ASSUME NEW f, NEW S, IsFiniteSet(S), \A x \in S : f[x] \in Int, NEW x \in S
  PROVE  SumFunctionOnSet(f, S) = f[x] + SumFunctionOnSet(f, S \ {x})
<1> DEFINE Value(s) == SumFunctionOnSet(f, s)
           B == {s \in SUBSET S : \E y \in s : Value(s) # f[y] + Value(s \ {y})}
<1>1. SUFFICES ASSUME B # {} PROVE FALSE
  OBVIOUS
<1>2. PICK s \in B : \A t \in SUBSET s : t \in B => t = s
  <2>1. B \in SUBSET (SUBSET S)
    OBVIOUS
  <2> HIDE DEF B
  <2> QED
    BY <1>1, <2>1, LeastSubset
<1>3. PICK y \in s : Value(s) # f[y] + Value(s \ {y})
  BY <1>2
<1>4. \A t \in SUBSET s : IsFiniteSet(t) /\ Value(t) \in Int
  BY FS_Subset, SumTyped
<1> DEFINE p == Pick(s)
<1>5. Value(s) = f[p] + Value(s \ {p}) /\ p \in s
  BY <1>3, <1>4, SumPicks, SumUnfolds, PickIn
<1>6. p # y
  BY <1>3, <1>5
<1> HIDE DEF Value, p
<1>7. Value(s \ {p}) = f[y] + Value((s \ {p}) \ {y})
  <2>1. s \ {p} \in SUBSET s /\ s \ {p} # s /\ y \in s \ {p}
    BY <1>5, <1>6
  <2>2. s \ {p} \notin B
    BY <1>2, <2>1
  <2> QED
    BY <2>1, <2>2
<1>8. Value(s \ {y}) = f[p] + Value((s \ {y}) \ {p})
  <2>1. s \ {y} \in SUBSET s /\ s \ {y} # s /\ p \in s \ {y}
    BY <1>5, <1>6
  <2>2. s \ {y} \notin B
    BY <1>2, <2>1
  <2> QED
    BY <2>1, <2>2
<1>9. (s \ {p}) \ {y} = (s \ {y}) \ {p}
  OBVIOUS
<1>10. f[p] \in Int /\ f[y] \in Int /\ Value((s \ {y}) \ {p}) \in Int
  BY <1>4, <1>5
<1>11. Value(s) = f[p] + (f[y] + Value((s \ {y}) \ {p}))
  BY <1>5, <1>7, <1>9
<1>12. Value(s) = f[y] + (f[p] + Value((s \ {y}) \ {p}))
  BY <1>10, <1>11
<1> QED
  BY <1>3, <1>8, <1>12

-----------------------------------------------------------------------------
(* What the payments and the waivers add up to.                            *)

\* The principal of the records over S, of payments or of waivers.
PrincipalIn(rec, S) == SumFunctionOnSet([x \in S |-> rec[x].principal], S)
LiveWaivers(wvs) == {w \in Waiver : wvs[w].state = "live"}

\* The fold BooksAgree is written with.
Adding(g, rec, S) ==
  g = [s \in SUBSET S |-> IF s = {} THEN 0 ELSE rec[Pick(s)].principal + g[s \ {Pick(s)}]]

LEMMA AddingIsSumming ==
  ASSUME NEW rec, NEW S, IsFiniteSet(S)
  PROVE  (CHOOSE g : Adding(g, rec, S))[S] = PrincipalIn(rec, S)
<1> DEFINE f == [x \in S |-> rec[x].principal]
<1>1. ASSUME NEW s \in SUBSET S, s # {} PROVE f[Pick(s)] = rec[Pick(s)].principal
  BY <1>1, PickIn
<1> HIDE DEF f
<1>2. Adding(Summed(f, S), rec, S)
  <2> DEFINE h == Summed(f, S)
  <2>1. Summing(h, f, S)
    BY SumsExist
  <2> HIDE DEF h
  <2>2. h = [s \in SUBSET S |-> IF s = {} THEN 0 ELSE rec[Pick(s)].principal + h[s \ {Pick(s)}]]
    BY <1>1, <2>1 DEF Summing
  <2> QED
    BY <2>2 DEF Adding, h
<1> DEFINE k == CHOOSE g : Adding(g, rec, S)
<1>3. Adding(k, rec, S)
  BY <1>2
<1> HIDE DEF k
<1>4. Summing(k, f, S)
  BY <1>1, <1>3 DEF Adding, Summing
<1>5. k[S] = SumFunctionOnSet(f, S)
  BY <1>4, SumIs
<1> QED
  BY <1>5 DEF k, f, PrincipalIn

LEMMA TablesFinite ==
  IsFiniteSet(Payment) /\ IsFiniteSet(Waiver) /\ \A S \in SUBSET Waiver : IsFiniteSet(S)
<1>1. IsFiniteSet(Payment)
  BY LoanAssumption, FS_Interval DEF Payment
<1> QED
  BY <1>1, WaiverAssumption, FS_Subset

\* What BooksAgree says of the books por, wvs leave.
Agree(book, por, wvs) ==
  book[LastDay] = Principal - PrincipalIn(por, Payment) - PrincipalIn(wvs, LiveWaivers(wvs))

LEMMA BooksAgreeIs ==
  /\ BooksAgree <=> Agree(receivable, portion, waiver)
  /\ BooksAgree' <=> Agree(receivable', portion', waiver')
<1>1. IsFiniteSet(Payment) /\ IsFiniteSet(LiveWaivers(waiver)) /\ IsFiniteSet(LiveWaivers(waiver'))
  BY TablesFinite DEF LiveWaivers
<1>2. BooksAgree <=>
        receivable[LastDay] =
          Principal - (CHOOSE g : Adding(g, portion, Payment))[Payment]
                    - (CHOOSE g : Adding(g, waiver, LiveWaivers(waiver)))[LiveWaivers(waiver)]
  BY DEF BooksAgree, MapThenSumSet, MapThenFoldSet, Adding, LiveWaivers, Pick
<1>3. BooksAgree' <=>
        receivable'[LastDay] =
          Principal - (CHOOSE g : Adding(g, portion', Payment))[Payment]
                    - (CHOOSE g : Adding(g, waiver', LiveWaivers(waiver')))[LiveWaivers(waiver')]
  BY DEF BooksAgree, MapThenSumSet, MapThenFoldSet, Adding, LiveWaivers, Pick
<1> QED
  BY <1>1, <1>2, <1>3, AddingIsSumming DEF Agree

LEMMA PrincipalSame ==
  ASSUME NEW rec, NEW new, NEW S, IsFiniteSet(S),
         \A x \in S : new[x].principal = rec[x].principal
  PROVE  PrincipalIn(new, S) = PrincipalIn(rec, S)
BY SumCongruent DEF PrincipalIn

LEMMA PrincipalOfZeros ==
  ASSUME NEW rec, NEW S, IsFiniteSet(S), \A x \in S : rec[x].principal = 0
  PROVE  PrincipalIn(rec, S) = 0
<1> DEFINE f == [x \in S |-> rec[x].principal]
           B == {s \in SUBSET S : SumFunctionOnSet(f, s) # 0}
<1>1. \A x \in S : f[x] = 0
  OBVIOUS
<1> HIDE DEF f
<1>2. ASSUME B # {} PROVE FALSE
  <2>1. PICK s \in B : \A t \in SUBSET s : t \in B => t = s
    <3>1. B \in SUBSET (SUBSET S)
      OBVIOUS
    <3> HIDE DEF B
    <3> QED
      BY <1>2, <3>1, LeastSubset
  <2>2. PICK y : y \in s
    BY SumOfNone
  <2>3. SumFunctionOnSet(f, s \ {y}) = 0
    BY <2>1, <2>2
  <2>4. IsFiniteSet(s) /\ \A x \in s : f[x] \in Int
    BY <1>1, FS_Subset
  <2>5. SumFunctionOnSet(f, s) = f[y] + SumFunctionOnSet(f, s \ {y})
    BY <2>2, <2>4, SumRemove
  <2> QED
    BY <1>1, <2>2, <2>3, <2>5
<1>3. SumFunctionOnSet(f, S) = 0
  BY <1>2
<1> QED
  BY <1>3 DEF f, PrincipalIn

LEMMA PrincipalOfOne ==
  ASSUME NEW rec, NEW S, IsFiniteSet(S), \A x \in S : rec[x].principal \in Int, NEW y \in S
  PROVE  /\ PrincipalIn(rec, S) = rec[y].principal + PrincipalIn(rec, S \ {y})
         /\ PrincipalIn(rec, S) \in Int /\ PrincipalIn(rec, S \ {y}) \in Int
<1> DEFINE f == [x \in S |-> rec[x].principal]
           h == [x \in S \ {y} |-> rec[x].principal]
<1>1. \A x \in S : f[x] \in Int
  OBVIOUS
<1>2. \A x \in S \ {y} : f[x] = h[x] /\ f[x] \in Int
  OBVIOUS
<1>3. f[y] = rec[y].principal
  OBVIOUS
<1>4. IsFiniteSet(S \ {y})
  BY FS_Subset
<1>5. PrincipalIn(rec, S) = SumFunctionOnSet(f, S)
      /\ PrincipalIn(rec, S \ {y}) = SumFunctionOnSet(h, S \ {y})
  BY DEF PrincipalIn
<1> HIDE DEF f, h
<1>6. SumFunctionOnSet(f, S) = f[y] + SumFunctionOnSet(f, S \ {y})
  BY <1>1, SumRemove
<1>7. SumFunctionOnSet(f, S \ {y}) = SumFunctionOnSet(h, S \ {y})
  BY <1>2, <1>4, SumCongruent
<1>8. SumFunctionOnSet(f, S) \in Int /\ SumFunctionOnSet(f, S \ {y}) \in Int
  BY <1>1, <1>2, <1>4, SumTyped
<1> QED
  BY <1>3, <1>5, <1>6, <1>7, <1>8

\* One record changes, and the sum changes by as much.
LEMMA PrincipalChanged ==
  ASSUME NEW rec, NEW new, NEW S, IsFiniteSet(S), NEW y \in S,
         \A x \in S : rec[x].principal \in Int /\ new[x].principal \in Int,
         \A x \in S \ {y} : new[x].principal = rec[x].principal
  PROVE  PrincipalIn(new, S) = PrincipalIn(rec, S) + (new[y].principal - rec[y].principal)
<1>1. PrincipalIn(new, S \ {y}) = PrincipalIn(rec, S \ {y})
  <2>1. IsFiniteSet(S \ {y})
    BY FS_Subset
  <2> QED
    BY <2>1, PrincipalSame
<1>2. /\ PrincipalIn(rec, S) = rec[y].principal + PrincipalIn(rec, S \ {y})
      /\ PrincipalIn(new, S) = new[y].principal + PrincipalIn(new, S \ {y})
      /\ PrincipalIn(rec, S \ {y}) \in Int
  BY PrincipalOfOne
<1>3. rec[y].principal \in Int /\ new[y].principal \in Int
  OBVIOUS
<1> QED
  BY <1>1, <1>2, <1>3

-----------------------------------------------------------------------------
(* The books.                                                              *)

\* What an undo is about is live, and nobody else is undoing it: the undo
\* holds the waiver's row.
UndoAlone ==
  \A c \in Clerk : req[c].op = "undo" =>
    /\ waiver[req[c].item].state = "live"
    /\ \A d \in Clerk \ {c} : ~(req[d].op = "undo" /\ req[d].item = req[c].item)

BooksInv == TypeOK /\ UndoAlone /\ BooksAgree

\* A request that begins an undo finds its waiver live and free.
Undoing(r) == waiver[r.item].state = "live" /\ WaiverRowFree(r.item)

LEMMA BegunUndo ==
  ASSUME TypeOK, UndoAlone, NEW c \in Clerk, NEW r, req[c] = Idle,
         r.op = "undo" => Undoing(r),
         req' = [req EXCEPT ![c] = r], UNCHANGED waiver
  PROVE  UndoAlone'
<1>1. req'[c] = r /\ \A d \in Clerk \ {c} : req'[d] = req[d]
  BY DEF TypeOK
<1> QED
  BY <1>1 DEF UndoAlone, Undoing, WaiverRowFree

LEMMA UndoBegin ==
  ASSUME TypeOK, UndoAlone, NEW c \in Clerk, Begin(c)
  PROVE  UndoAlone'
<1>1. ASSUME NEW op \in AllOps, NEW p \in Payment, BeginCorrection(c, op, p) PROVE UndoAlone'
  <2> DEFINE r == [Idle EXCEPT !.pc = "waiting", !.op = op, !.item = p, !.stale = row[p]]
  <2>1. r.op # "undo"
    BY <1>1 DEF BeginCorrection, CorrectionOps, Idle
  <2>2. req[c] = Idle /\ req' = [req EXCEPT ![c] = r] /\ UNCHANGED waiver
    BY <1>1 DEF BeginCorrection
  <2> HIDE DEF r
  <2> QED
    BY <2>1, <2>2, BegunUndo
<1>2. ASSUME NEW op \in AllOps, BeginOnLoan(c, op) PROVE UndoAlone'
  <2> DEFINE r == [Idle EXCEPT !.pc = "waiting", !.op = op]
  <2>1. r.op # "undo"
    BY <1>2 DEF BeginOnLoan, Idle
  <2>2. req[c] = Idle /\ req' = [req EXCEPT ![c] = r] /\ UNCHANGED waiver
    BY <1>2 DEF BeginOnLoan
  <2> HIDE DEF r
  <2> QED
    BY <2>1, <2>2, BegunUndo
<1>3. ASSUME NEW w \in Waiver, BeginUndo(c, w) PROVE UndoAlone'
  <2> DEFINE r == [Idle EXCEPT !.pc = "waiting", !.op = "undo", !.item = w]
  <2>1. Undoing(r)
    BY <1>3 DEF BeginUndo, Undoing, Idle
  <2>2. req[c] = Idle /\ req' = [req EXCEPT ![c] = r] /\ UNCHANGED waiver
    BY <1>3 DEF BeginUndo
  <2> HIDE DEF r
  <2> QED
    BY <2>1, <2>2, BegunUndo
<1> QED
  BY <1>1, <1>2, <1>3 DEF Begin

\* A transaction that ends leaves the other undos alone, if it changed no
\* live waiver but the one it was undoing.
LEMMA UndoRelease ==
  ASSUME TypeOK, UndoAlone, NEW c \in Clerk, Release(c),
         \A w \in Waiver : \/ waiver'[w] = waiver[w]
                           \/ waiver[w].state # "live"
                           \/ req[c].op = "undo" /\ req[c].item = w
  PROVE  UndoAlone'
<1>1. req'[c].op # "undo" /\ \A d \in Clerk \ {c} : req'[d] = req[d]
  BY NameAssumption DEF Release, Idle, TypeOK, AllOps
<1>2. \A d \in Clerk : req[d].op = "undo" => req[d].item \in Waiver
  BY DEF TypeOK
<1> QED
  BY <1>1, <1>2 DEF UndoAlone

LEMMA UndoLock ==
  ASSUME TypeOK, UndoAlone, NEW c \in Clerk, LockLoan(c)
  PROVE  UndoAlone'
<1>1. req[c] \in Request
  BY DEF TypeOK
<1>2. \A d \in Clerk : req'[d].op = req[d].op /\ req'[d].item = req[d].item
  BY <1>1 DEF LockLoan, TypeOK, Request
<1>3. waiver' = waiver
  BY DEF LockLoan
<1> QED
  BY <1>2, <1>3 DEF UndoAlone

\* Every reading from a day on shows what was posted on it.
LEMMA FromAtEnd ==
  ASSUME NEW book \in [Day -> Int], NEW d \in Day, NEW x \in Int
  PROVE  From(book, d, x)[LastDay] = book[LastDay] + x /\ book[LastDay] \in Int
BY LoanAssumption DEF From, Day

\* The sums BooksAgree compares are integers.
Ledgers == /\ Principal \in Int /\ receivable[LastDay] \in Int
           /\ PrincipalIn(portion, Payment) \in Int
           /\ PrincipalIn(waiver, LiveWaivers(waiver)) \in Int

LEMMA PrincipalTyped ==
  ASSUME NEW rec, NEW S, IsFiniteSet(S), \A x \in S : rec[x].principal \in Int
  PROVE  PrincipalIn(rec, S) \in Int
<1> DEFINE f == [x \in S |-> rec[x].principal]
<1>1. \A x \in S : f[x] \in Int
  OBVIOUS
<1> HIDE DEF f
<1>2. SumFunctionOnSet(f, S) \in Int
  BY <1>1, SumTyped
<1> QED
  BY <1>2 DEF f, PrincipalIn

LEMMA LedgersTyped == ASSUME TypeOK PROVE Ledgers
<1>1. \A q \in Payment : portion[q].principal \in Int
  BY DEF TypeOK, Split
<1>2. \A w \in LiveWaivers(waiver) : waiver[w].principal \in Int
  BY DEF TypeOK, WaiverRow, LiveWaivers
<1>3. IsFiniteSet(Payment) /\ IsFiniteSet(LiveWaivers(waiver))
  BY TablesFinite DEF LiveWaivers
<1>4. Principal \in Int /\ receivable[LastDay] \in Int
  BY LoanAssumption DEF TypeOK, Day
<1> QED
  BY <1>1, <1>2, <1>3, <1>4, PrincipalTyped DEF Ledgers

\* A payment's principal moves the loan's account by as much.
LEMMA PaymentPosted ==
  ASSUME TypeOK, TypeOK', BooksAgree, UNCHANGED waiver, NEW p \in Payment,
         \A q \in Payment \ {p} : portion'[q] = portion[q],
         receivable'[LastDay] = receivable[LastDay] - (portion'[p].principal - portion[p].principal)
  PROVE  BooksAgree'
<1>1. \A q \in Payment : portion[q].principal \in Int /\ portion'[q].principal \in Int
  BY DEF TypeOK, Split
<1>2. PrincipalIn(portion', Payment)
        = PrincipalIn(portion, Payment) + (portion'[p].principal - portion[p].principal)
  BY <1>1, PrincipalChanged, TablesFinite
<1>3. Ledgers
  BY LedgersTyped
<1> QED
  BY <1>1, <1>2, <1>3, BooksAgreeIs DEF Agree, Ledgers

\* So does a waiver's that begins or ceases to be live.
LEMMA WaiverGranted ==
  ASSUME TypeOK, TypeOK', BooksAgree, UNCHANGED portion, NEW w \in Waiver,
         \A v \in Waiver \ {w} : waiver'[v] = waiver[v],
         waiver[w].state # "live", waiver'[w].state = "live",
         receivable'[LastDay] = receivable[LastDay] - waiver'[w].principal
  PROVE  BooksAgree'
<1>1. /\ w \in LiveWaivers(waiver') /\ LiveWaivers(waiver') \ {w} = LiveWaivers(waiver)
      /\ LiveWaivers(waiver) \in SUBSET Waiver /\ LiveWaivers(waiver') \in SUBSET Waiver
  BY DEF LiveWaivers
<1>2. \A v \in LiveWaivers(waiver') : waiver'[v].principal \in Int
  BY <1>1 DEF TypeOK, WaiverRow
<1>3. PrincipalIn(waiver', LiveWaivers(waiver'))
        = waiver'[w].principal + PrincipalIn(waiver', LiveWaivers(waiver))
  BY <1>1, <1>2, PrincipalOfOne, TablesFinite
<1>4. PrincipalIn(waiver', LiveWaivers(waiver)) = PrincipalIn(waiver, LiveWaivers(waiver))
  <2>1. \A v \in LiveWaivers(waiver) : waiver'[v].principal = waiver[v].principal
    BY DEF LiveWaivers
  <2> QED
    BY <1>1, <2>1, PrincipalSame, TablesFinite
<1>5. Ledgers
  BY LedgersTyped
<1> QED
  BY <1>2, <1>1, <1>3, <1>4, <1>5, BooksAgreeIs DEF Agree, Ledgers

LEMMA WaiverUndone ==
  ASSUME TypeOK, TypeOK', BooksAgree, UNCHANGED portion, NEW w \in Waiver,
         \A v \in Waiver \ {w} : waiver'[v] = waiver[v],
         waiver[w].state = "live", waiver'[w].state # "live",
         receivable'[LastDay] = receivable[LastDay] + waiver[w].principal
  PROVE  BooksAgree'
<1>1. /\ w \in LiveWaivers(waiver) /\ LiveWaivers(waiver) \ {w} = LiveWaivers(waiver')
      /\ LiveWaivers(waiver) \in SUBSET Waiver /\ LiveWaivers(waiver') \in SUBSET Waiver
  BY DEF LiveWaivers
<1>2. \A v \in LiveWaivers(waiver) : waiver[v].principal \in Int
  BY <1>1 DEF TypeOK, WaiverRow
<1>3. PrincipalIn(waiver, LiveWaivers(waiver))
        = waiver[w].principal + PrincipalIn(waiver, LiveWaivers(waiver'))
      /\ PrincipalIn(waiver, LiveWaivers(waiver')) \in Int
  BY <1>1, <1>2, PrincipalOfOne, TablesFinite
<1>4. PrincipalIn(waiver', LiveWaivers(waiver')) = PrincipalIn(waiver, LiveWaivers(waiver'))
  <2>1. \A v \in LiveWaivers(waiver') : waiver'[v].principal = waiver[v].principal
    BY DEF LiveWaivers
  <2> QED
    BY <1>1, <2>1, PrincipalSame, TablesFinite
<1>5. Ledgers
  BY LedgersTyped
<1> QED
  BY <1>2, <1>1, <1>3, <1>4, <1>5, BooksAgreeIs DEF Agree, Ledgers

\* A split of principal is posted at its day, on books where a day's reversal
\* may have come before.
LEMMA RepaidAtEnd ==
  ASSUME NEW book \in [Day -> Int], NEW d \in Day, NEW split \in Split
  PROVE  From(book, d, -split.principal)[LastDay] = book[LastDay] - split.principal
<1>1. -split.principal \in Int /\ split.principal \in Int
  BY DEF Split
<1> QED
  BY <1>1, FromAtEnd

LEMMA RestoredAtEnd ==
  ASSUME NEW book \in [Day -> Int], NEW d \in Day, NEW seen \in Split
  PROVE  From(book, d, Greater(seen.principal, 0))[LastDay]
           = book[LastDay] + Greater(seen.principal, 0)
<1>1. Greater(seen.principal, 0) \in Int
  BY DEF Split, Greater
<1> QED
  BY <1>1, FromAtEnd

LEMMA RecordPaymentBooks ==
  ASSUME BooksInv, NEW c \in Clerk, RecordPayment(c)
  PROVE  BooksAgree'
<1>1. PICK p \in Payment, a \in Amounts, d \in PaymentDates :
        \E i \in 0..a :
          /\ i = Lesser(a, UnpaidInterest(status, row, portion, waiver, d))
          /\ LET split == Allocation(a, i, receivable[d])
             IN /\ portion' = [portion EXCEPT ![p] = Plus(@, split)]
                /\ receivable' = From(receivable, d, -split.principal)
                /\ accrual' = From(accrual, Midnight(d), -AccrualToReverse(Midnight(d), i))
  BY DEF RecordPayment
<1>2. PICK i \in 0..a :
        LET split == Allocation(a, i, receivable[d])
        IN /\ portion' = [portion EXCEPT ![p] = Plus(@, split)]
           /\ receivable' = From(receivable, d, -split.principal)
  BY <1>1
<1> DEFINE split == Allocation(a, i, receivable[d])
<1>3. a \in Nat /\ d \in Day /\ receivable[d] \in Int
  BY LoanAssumption, PaymentDatesAreDays DEF BooksInv, TypeOK
<1>4. split \in Split
  BY <1>3, AllocationSplits
<1>5. /\ portion' = [portion EXCEPT ![p] = Plus(portion[p], split)]
      /\ receivable' = From(receivable, d, -split.principal)
  BY <1>2
<1> HIDE DEF split
<1>6. TypeOK' /\ UNCHANGED waiver
  BY RecordPaymentType DEF BooksInv, RecordPayment
<1>7. /\ portion'[p].principal = portion[p].principal + split.principal
      /\ \A q \in Payment \ {p} : portion'[q] = portion[q]
  BY <1>5 DEF BooksInv, TypeOK, Plus
<1>8. receivable'[LastDay] = receivable[LastDay] - split.principal
  BY <1>3, <1>4, <1>5, RepaidAtEnd DEF BooksInv, TypeOK
<1>9. portion[p].principal \in Int /\ split.principal \in Int /\ receivable[LastDay] \in Int
  BY <1>4, LedgersTyped DEF BooksInv, TypeOK, Split, Ledgers
<1>10. receivable'[LastDay]
         = receivable[LastDay] - (portion'[p].principal - portion[p].principal)
  BY <1>7, <1>8, <1>9
<1> QED
  BY <1>6, <1>7, <1>10, PaymentPosted DEF BooksInv

LEMMA EditPaymentBooks ==
  ASSUME BooksInv, NEW c \in Clerk, EditPayment(c)
  PROVE  BooksAgree'
<1> DEFINE p == req[c].item
           stale == req[c].stale
           seen == req[c].seen
           undone == [portion EXCEPT ![p] = Reversed(@, seen)]
<1>1. PICK newAmount \in Amounts \cup {None}, newDate \in PaymentDates \cup {None} :
        LET a == IF newAmount = None THEN stale.amount ELSE newAmount
            d == IF newDate = None THEN stale.date ELSE newDate
        IN \E i \in 0..a, before \in 0..Principal :
             /\ i = Lesser(a, UnpaidInterest(status, row', undone, waiver, d))
             /\ before = BalanceBefore(row', undone, p, d)
             /\ LET split == Allocation(a, i, before)
                IN /\ portion' = [undone EXCEPT ![p] = Plus(@, split)]
                   /\ receivable' =
                        From(From(receivable, stale.date, Greater(seen.principal, 0)),
                             d, -split.principal)
                   /\ accrual' = From(accrual, Midnight(d), -AccrualToReverse(Midnight(d), i))
  BY DEF EditPayment
<1> DEFINE a == IF newAmount = None THEN stale.amount ELSE newAmount
           d == IF newDate = None THEN stale.date ELSE newDate
<1>2. p \in Payment /\ stale \in Row /\ seen \in Split
  BY DEF EditPayment, Holds, BooksInv, TypeOK, CorrectionOps, Request
<1>3. a \in Nat /\ d \in Day /\ stale.date \in Day
  BY <1>2, LoanAssumption, PaymentDatesAreDays DEF BooksInv, TypeOK, Row
<1>4. PICK i \in 0..a, before \in 0..Principal :
        LET split == Allocation(a, i, before)
        IN /\ portion' = [undone EXCEPT ![p] = Plus(@, split)]
           /\ receivable' =
                From(From(receivable, stale.date, Greater(seen.principal, 0)),
                     d, -split.principal)
  BY <1>1
<1> DEFINE split == Allocation(a, i, before)
           back == From(receivable, stale.date, Greater(seen.principal, 0))
<1>5. portion' = [undone EXCEPT ![p] = Plus(undone[p], split)] /\ receivable' = From(back, d, -split.principal)
  BY <1>4
<1>6. /\ undone[p] = Reversed(portion[p], seen)
      /\ \A q \in Payment : q # p => undone[q] = portion[q]
      /\ DOMAIN undone = Payment
  BY <1>2 DEF BooksInv, TypeOK
<1> HIDE DEF p, stale, seen, undone, a, d
<1>7. split \in Split
  BY <1>3, LoanAssumption, AllocationSplits
<1> HIDE DEF split, back
<1>8. TypeOK' /\ UNCHANGED waiver
  BY EditPaymentType DEF BooksInv, EditPayment
<1>9. /\ portion'[p].principal
           = portion[p].principal - Greater(seen.principal, 0) + split.principal
      /\ \A q \in Payment \ {p} : portion'[q] = portion[q]
  BY <1>2, <1>5, <1>6 DEF BooksInv, TypeOK, Plus, Reversed
<1>10. /\ portion[p].principal \in Int /\ split.principal \in Int
       /\ receivable[LastDay] \in Int /\ Greater(seen.principal, 0) \in Int
  BY <1>2, <1>7, LedgersTyped DEF BooksInv, TypeOK, Split, Ledgers, Greater
<1>11. receivable'[LastDay] = receivable[LastDay] + Greater(seen.principal, 0) - split.principal
  <2>1. back \in [Day -> Int] /\ back[LastDay] = receivable[LastDay] + Greater(seen.principal, 0)
    BY <1>2, <1>3, RestoredType, RestoredAtEnd DEF back, BooksInv, TypeOK
  <2>2. From(back, d, -split.principal)[LastDay] = back[LastDay] - split.principal
    BY <1>3, <1>7, <2>1, RepaidAtEnd
  <2>3. receivable'[LastDay] = back[LastDay] - split.principal
    BY <1>5, <2>2
  <2> QED
    BY <1>10, <2>1, <2>3
<1>12. receivable'[LastDay]
         = receivable[LastDay] - (portion'[p].principal - portion[p].principal)
  BY <1>9, <1>10, <1>11
<1> QED
  BY <1>2, <1>8, <1>9, <1>12, PaymentPosted DEF BooksInv

LEMMA ReversePaymentBooks ==
  ASSUME BooksInv, TypeOK', NEW c \in Clerk, ReversePayment(c), req[c].item \in Payment,
         UNCHANGED waiver
  PROVE  BooksAgree'
<1> DEFINE p == req[c].item
           seen == req[c].seen
<1>1. seen \in Split /\ req[c].stale.date \in Day
  BY DEF BooksInv, TypeOK, Request, Row
<1>2. /\ portion'[p].principal = portion[p].principal - Greater(seen.principal, 0)
      /\ \A q \in Payment \ {p} : portion'[q] = portion[q]
  BY DEF ReversePayment, BooksInv, TypeOK, Reversed
<1>3. receivable'[LastDay] = receivable[LastDay] + Greater(seen.principal, 0)
  BY <1>1, RestoredAtEnd DEF ReversePayment, BooksInv, TypeOK
<1>4. portion[p].principal \in Int /\ receivable[LastDay] \in Int /\ Greater(seen.principal, 0) \in Int
  BY <1>1, LedgersTyped DEF BooksInv, TypeOK, Split, Ledgers, Greater
<1> HIDE DEF seen
<1>5. receivable'[LastDay]
        = receivable[LastDay] - (portion'[p].principal - portion[p].principal)
  BY <1>2, <1>3, <1>4
<1> QED
  BY <1>2, <1>5, PaymentPosted DEF BooksInv

LEMMA UnmarkPaymentWrongBooks ==
  ASSUME BooksInv, NEW c \in Clerk, UnmarkPaymentWrong(c)
  PROVE  BooksAgree'
<1> DEFINE p == req[c].item
           a == req[c].stale.amount
           d == req[c].stale.date
<1>1. p \in Payment /\ a \in Nat /\ d \in Day
  BY DEF UnmarkPaymentWrong, Holds, BooksInv, TypeOK, CorrectionOps, Request, Row
<1>2. PICK i \in 0..a, before \in 0..Principal :
        LET split == Allocation(a, i, before)
        IN /\ portion' = [portion EXCEPT ![p] = Plus(@, split)]
           /\ receivable' = From(receivable, d, -split.principal)
  BY DEF UnmarkPaymentWrong
<1> DEFINE split == Allocation(a, i, before)
<1>3. /\ portion' = [portion EXCEPT ![p] = Plus(portion[p], split)]
      /\ receivable' = From(receivable, d, -split.principal)
  BY <1>2
<1> HIDE DEF p, a, d
<1>4. split \in Split
  BY <1>1, LoanAssumption, AllocationSplits
<1> HIDE DEF split
<1>5. TypeOK' /\ UNCHANGED waiver
  BY UnmarkPaymentWrongType DEF BooksInv, UnmarkPaymentWrong
<1>6. /\ portion'[p].principal = portion[p].principal + split.principal
      /\ \A q \in Payment \ {p} : portion'[q] = portion[q]
  BY <1>1, <1>3 DEF BooksInv, TypeOK, Plus
<1>7. receivable'[LastDay] = receivable[LastDay] - split.principal
  BY <1>1, <1>3, <1>4, RepaidAtEnd DEF BooksInv, TypeOK
<1>8. portion[p].principal \in Int /\ split.principal \in Int /\ receivable[LastDay] \in Int
  BY <1>1, <1>4, LedgersTyped DEF BooksInv, TypeOK, Split, Ledgers
<1>9. receivable'[LastDay]
        = receivable[LastDay] - (portion'[p].principal - portion[p].principal)
  BY <1>6, <1>7, <1>8
<1> QED
  BY <1>1, <1>5, <1>6, <1>9, PaymentPosted DEF BooksInv

\* A waiver is granted on an unused row.
LEMMA WaiveLoanAmountBooks ==
  ASSUME BooksInv, NEW c \in Clerk, WaiveLoanAmount(c)
  PROVE  BooksAgree' /\ UndoAlone'
<1>1. PICK w \in Waiver, a \in Amounts :
        /\ waiver[w] = NoWaiver
        /\ \E i \in 0..a :
             /\ i = Lesser(a, UnpaidInterest(status, row, portion, waiver, today))
             /\ LET split == Allocation(a, i, receivable[today])
                    reversal == AccrualToReverse(Evening(today), i)
                IN /\ waiver' = [waiver EXCEPT ![w] =
                         [state |-> "live", date |-> today, interest |-> split.interest,
                          principal |-> split.principal, accrual |-> reversal]]
                   /\ receivable' = From(receivable, today, -split.principal)
                   /\ accrual' = From(accrual, Evening(today), -reversal)
  BY DEF WaiveLoanAmount
<1>2. PICK i \in 0..a :
        LET split == Allocation(a, i, receivable[today])
            reversal == AccrualToReverse(Evening(today), i)
        IN /\ waiver' = [waiver EXCEPT ![w] =
                 [state |-> "live", date |-> today, interest |-> split.interest,
                  principal |-> split.principal, accrual |-> reversal]]
           /\ receivable' = From(receivable, today, -split.principal)
  BY <1>1
<1> DEFINE split == Allocation(a, i, receivable[today])
<1>3. a \in Nat /\ today \in Day /\ receivable[today] \in Int
  BY LoanAssumption DEF BooksInv, TypeOK
<1>4. split \in Split
  BY <1>3, AllocationSplits
<1>5. /\ waiver'[w].state = "live" /\ waiver'[w].principal = split.principal
      /\ \A v \in Waiver \ {w} : waiver'[v] = waiver[v]
      /\ receivable' = From(receivable, today, -split.principal)
  BY <1>2 DEF BooksInv, TypeOK
<1> HIDE DEF split
<1>6. waiver[w].state # "live"
  BY <1>1 DEF NoWaiver
<1>7. TypeOK' /\ UNCHANGED portion /\ Release(c)
  BY WaiveLoanAmountType DEF BooksInv, WaiveLoanAmount
<1>8. receivable'[LastDay] = receivable[LastDay] - waiver'[w].principal
  BY <1>3, <1>4, <1>5, RepaidAtEnd DEF BooksInv, TypeOK
<1>9. BooksAgree'
  BY <1>5, <1>6, <1>7, <1>8, WaiverGranted DEF BooksInv
<1>10. UndoAlone'
  BY <1>5, <1>6, <1>7, UndoRelease DEF BooksInv
<1> QED
  BY <1>9, <1>10

\* An undo finds its waiver live still, and leaves it undone.
LEMMA UndoLoanWaiverBooks ==
  ASSUME BooksInv, NEW c \in Clerk, UndoLoanWaiver(c)
  PROVE  BooksAgree' /\ UndoAlone'
<1> DEFINE w == req[c].item
<1>1. /\ req[c].op = "undo" /\ w \in Waiver /\ today \in Day
      /\ waiver[w].state = "live"
  BY DEF UndoLoanWaiver, Holds, BooksInv, TypeOK, UndoAlone
<1>2. /\ waiver' = [waiver EXCEPT ![w].state = "undone"]
      /\ receivable' = From(receivable, today, waiver[w].principal)
      /\ Release(c) /\ UNCHANGED portion
  BY DEF UndoLoanWaiver
<1> HIDE DEF w
<1>3. waiver'[w].state # "live" /\ \A v \in Waiver \ {w} : waiver'[v] = waiver[v]
  BY <1>1, <1>2 DEF BooksInv, TypeOK, WaiverRow
<1>4. receivable'[LastDay] = receivable[LastDay] + waiver[w].principal
  <2>1. waiver[w].principal \in Int
    BY <1>1 DEF BooksInv, TypeOK, WaiverRow
  <2> QED
    BY <1>1, <1>2, <2>1, FromAtEnd DEF BooksInv, TypeOK
<1>5. TypeOK'
  BY UndoLoanWaiverType DEF BooksInv
<1>6. BooksAgree'
  BY <1>1, <1>2, <1>3, <1>4, <1>5, WaiverUndone DEF BooksInv
<1>7. UndoAlone'
  BY <1>1, <1>2, <1>3, UndoRelease DEF BooksInv, w
<1> QED
  BY <1>6, <1>7

\* The steps that post nothing on the loan's principal.
LEMMA UnpostedBooks ==
  ASSUME BooksInv, UNCHANGED <<portion, waiver, receivable>>
  PROVE  BooksAgree'
BY BooksAgreeIs DEF BooksInv

LEMMA CommitBooks ==
  ASSUME BooksInv, NEW c \in Clerk, Commit(c)
  PROVE  BooksAgree' /\ UndoAlone'
<1>1. ASSUME UNCHANGED waiver PROVE UndoAlone'
  BY <1>1, CommitHolds, UndoRelease DEF BooksInv
<1>2. CASE DeletePayment(c) \/ MarkPaymentWrong(c)
  <2>1. req[c].item \in Payment /\ ReversePayment(c) /\ UNCHANGED waiver
    BY <1>2 DEF DeletePayment, MarkPaymentWrong, Holds, BooksInv, TypeOK, CorrectionOps
  <2>2. TypeOK'
    BY CommitType DEF BooksInv
  <2> QED
    BY <1>1, <2>1, <2>2, ReversePaymentBooks
<1>3. CASE AccrueInterest(c) \/ RequestRateChange(c)
  <2>1. UNCHANGED <<portion, waiver, receivable>>
    BY <1>3 DEF AccrueInterest, RequestRateChange
  <2> QED
    BY <1>1, <2>1, UnpostedBooks
<1>4. CASE RecordPayment(c) \/ EditPayment(c) \/ UnmarkPaymentWrong(c)
  <2>1. UNCHANGED waiver
    BY <1>4 DEF RecordPayment, EditPayment, UnmarkPaymentWrong
  <2> QED
    BY <1>1, <1>4, <2>1, RecordPaymentBooks, EditPaymentBooks, UnmarkPaymentWrongBooks
<1> QED
  BY <1>2, <1>3, <1>4, WaiveLoanAmountBooks, UndoLoanWaiverBooks DEF Commit

LEMMA BooksStep == ASSUME BooksInv, [Next]_vars PROVE BooksInv'
<1>1. TypeOK'
  BY TypeStep DEF BooksInv
<1>2. ASSUME NEW c \in Clerk, Begin(c) PROVE BooksAgree' /\ UndoAlone'
  <2>1. UNCHANGED <<portion, waiver, receivable>>
    BY <1>2 DEF Begin, BeginCorrection, BeginOnLoan, BeginUndo
  <2> QED
    BY <1>2, <2>1, UnpostedBooks, UndoBegin DEF BooksInv
<1>3. ASSUME NEW c \in Clerk, LockLoan(c) PROVE BooksAgree' /\ UndoAlone'
  BY <1>3, UnpostedBooks, UndoLock DEF BooksInv, LockLoan
<1>4. ASSUME NEW c \in Clerk, Rollback(c) PROVE BooksAgree' /\ UndoAlone'
  BY <1>4, UnpostedBooks, UndoRelease DEF BooksInv, Rollback
<1>5. CASE RejectRateChange \/ NextDay \/ UNCHANGED vars
  <2>1. UNCHANGED <<portion, waiver, receivable>> /\ waiver' = waiver /\ req' = req
    BY <1>5 DEF RejectRateChange, NextDay, vars
  <2>2. UndoAlone'
    BY <2>1 DEF BooksInv, UndoAlone
  <2> QED
    BY <1>1, <2>1, <2>2, UnpostedBooks DEF BooksInv
<1> QED
  BY <1>1, <1>2, <1>3, <1>4, <1>5, CommitBooks DEF Next, BooksInv

LEMMA BooksInit == Init => BooksInv
<1> SUFFICES ASSUME Init PROVE BooksInv
  OBVIOUS
<1>1. TypeOK
  BY TypeInit
<1>2. UndoAlone
  BY NameAssumption DEF Init, UndoAlone, Idle, AllOps
<1>3. PrincipalIn(portion, Payment) = 0
  <2>1. \A p \in Payment : portion[p].principal = 0
    BY DEF Init, NoSplit
  <2> QED
    BY <2>1, PrincipalOfZeros, TablesFinite
<1>4. PrincipalIn(waiver, LiveWaivers(waiver)) = 0
  <2>1. LiveWaivers(waiver) = {}
    BY DEF Init, LiveWaivers, NoWaiver
  <2> QED
    BY <2>1, SumOfNone DEF PrincipalIn
<1>5. receivable[LastDay] = Principal /\ Principal \in Int
  BY LoanAssumption DEF Init, Day
<1> QED
  BY <1>1, <1>2, <1>3, <1>4, <1>5, BooksAgreeIs DEF BooksInv, Agree

\* The two ways the code derives a loan's principal, from its own account and
\* from the journals of its payments and waivers, agree in every interleaving
\* of any number of clerks.
THEOREM BooksAlwaysAgree == Spec => []BooksAgree
<1>1. BooksInv /\ [Next]_vars => BooksInv'
  BY BooksStep
<1>2. BooksInv => BooksAgree
  BY DEF BooksInv
<1> QED
  BY BooksInit, <1>1, <1>2, PTL DEF Spec

-----------------------------------------------------------------------------
(* The promise of PaymentEffect.                                           *)

\* Nothing is posted for a payment that does not count, requests perform only
\* this instance's operations, and a reversal is of a recorded payment.
EffectInv ==
  /\ \A p \in Payment : Effect[p] # "counted" => portion[p] = NoSplit
  /\ \A p \in Payment : row[p].wrong => row[p].state # "none"
  /\ \A c \in Clerk : /\ req[c].op \in Ops \cup {None}
                      /\ req[c].op \in {"delete", "mark"} => row[req[c].item].state # "none"

IInv == TypeOK /\ CorrectionsSerialized /\ NoDoubleReversal /\ EffectInv

\* Neither an edit nor an unmarking: nothing that posts a split again.
NoReposting == Ops \cap {"edit", "unmark"} = {}

LEMMA EffectInit == Init => EffectInv
<1> SUFFICES ASSUME Init PROVE EffectInv
  OBVIOUS
<1>1. \A p \in Payment : portion[p] = NoSplit /\ row[p] = NoRow
  BY DEF Init
<1>2. \A c \in Clerk : req[c].op = None
  BY DEF Init, Idle
<1>3. None \notin {"delete", "mark"}
  BY NameAssumption DEF AllOps
<1> QED
  BY <1>1, <1>2, <1>3 DEF EffectInv, NoRow

\* The steps that touch neither the rows nor the portions.
LEMMA EffectElsewhere ==
  ASSUME IInv, UNCHANGED <<row, portion>>,
         \A c \in Clerk : \/ req'[c].op = req[c].op /\ req'[c].item = req[c].item
                          \/ req'[c].op \in Ops \cup {None} /\ req'[c].op \notin {"delete", "mark"}
                          \/ req'[c].op \in Ops /\ row[req'[c].item].state # "none"
  PROVE  EffectInv'
BY DEF IInv, EffectInv, Effect, Counted

\* The end of a transaction: its requests are those before, one of them idle.
LEMMA ReleaseRequests ==
  ASSUME IInv, NEW c \in Clerk, Release(c)
  PROVE  \A d \in Clerk : \/ req'[d] = req[d]
                          \/ req'[d].op = None /\ None \notin {"delete", "mark"}
<1>1. None \notin {"delete", "mark"}
  BY NameAssumption DEF AllOps
<1> QED
  BY <1>1 DEF Release, Idle, IInv, TypeOK

\* Recording a payment is counting it: a new row, one split of parts that are
\* not negative.
LEMMA RecordCounts ==
  ASSUME IInv, NEW c \in Clerk, RecordPayment(c)
  PROVE  EffectInv' /\ Abstract!Next
<1>1. PICK p \in Payment, a \in Amounts, d \in PaymentDates :
        /\ NextPayment(p)
        /\ row' = [row EXCEPT ![p] = [state |-> "live", wrong |-> FALSE,
                                      amount |-> a, date |-> d]]
        /\ \E i \in 0..a :
             /\ i = Lesser(a, UnpaidInterest(status, row, portion, waiver, d))
             /\ LET split == Allocation(a, i, receivable[d])
                IN /\ portion' = [portion EXCEPT ![p] = Plus(@, split)]
                   /\ receivable' = From(receivable, d, -split.principal)
                   /\ accrual' = From(accrual, Midnight(d),
                                      -AccrualToReverse(Midnight(d), i))
  BY DEF RecordPayment
<1>2. PICK i \in 0..a :
        portion' = [portion EXCEPT ![p] = Plus(@, Allocation(a, i, receivable[d]))]
  BY <1>1
<1> DEFINE split == Allocation(a, i, receivable[d])
<1>3. split \in Split /\ NonNegative(split)
  <2>1. a \in Nat /\ receivable[d] \in Int
    BY LoanAssumption, PaymentDatesAreDays DEF IInv, TypeOK
  <2> QED
    BY <2>1, AllocationSplits DEF NonNegative
<1>4. row[p].state = "none"
  <2>1. p >= p
    BY LoanAssumption DEF Payment
  <2> QED
    BY <1>1, <2>1 DEF NextPayment
<1>5. Effect[p] = "none" /\ portion[p] = NoSplit
  BY <1>4 DEF Effect, IInv, EffectInv
<1>6. /\ row'[p].state = "live" /\ ~row'[p].wrong
      /\ \A q \in Payment \ {p} : row'[q] = row[q] /\ portion'[q] = portion[q]
  BY <1>1, <1>2 DEF IInv, TypeOK
<1>7. Effect' = [Effect EXCEPT ![p] = "counted"]
  BY <1>6 DEF Effect, Counted
<1>8. portion'[p] \in Abstract!Part /\ portion' = [portion EXCEPT ![p] = portion'[p]]
  <2>1. portion'[p] = Plus(NoSplit, split)
    BY <1>2, <1>5 DEF IInv, TypeOK
  <2>2. Plus(NoSplit, split) \in Split /\ NonNegative(Plus(NoSplit, split))
    BY <1>3, NoSplitNonNegative, PlusType, PlusNonNegative
  <2>3. \A s \in Split : NonNegative(s) => s \in Abstract!Part
    BY DEF Split, NonNegative, Abstract!Part
  <2> QED
    BY <1>2, <2>1, <2>2, <2>3 DEF IInv, TypeOK
<1>9. Abstract!Next
  BY <1>5, <1>7, <1>8 DEF Abstract!Next, Abstract!Count
<1>10. EffectInv'
  <2>1. \A q \in Payment : Effect'[q] # "counted" => portion'[q] = NoSplit
    BY <1>6, <1>7 DEF Effect, IInv, EffectInv
  <2>2. \A q \in Payment : row'[q].wrong => row'[q].state # "none"
    BY <1>6 DEF IInv, EffectInv
  <2>3. \A e \in Clerk : /\ req'[e].op \in Ops \cup {None}
                         /\ req'[e].op \in {"delete", "mark"}
                              => row'[req'[e].item].state # "none"
    <3>1. Release(c)
      BY DEF RecordPayment
    <3>2. \A q \in Payment : row[q].state # "none" => row'[q].state # "none"
      BY <1>6
    <3>3. \A e \in Clerk : req[e].op \in {"delete", "mark"} => req[e].item \in Payment
      BY DEF IInv, TypeOK, CorrectionOps
    <3> QED
      BY <3>1, <3>2, <3>3, ReleaseRequests DEF IInv, EffectInv
  <2> QED
    BY <2>1, <2>2, <2>3 DEF EffectInv
<1> QED
  BY <1>9, <1>10

\* Deleting a payment or marking it wrong voids it, once.
LEMMA ReversalVoids ==
  ASSUME IInv, NEW c \in Clerk, DeletePayment(c) \/ MarkPaymentWrong(c)
  PROVE  EffectInv' /\ (Abstract!Next \/ UNCHANGED <<Effect, portion>>)
<1> DEFINE p == req[c].item
<1>1. /\ p \in Payment
      /\ req[c].pc = "locked"
      /\ req[c].op \in {"delete", "mark"}
      /\ ReversePayment(c)
      /\ Release(c)
  BY DEF DeletePayment, MarkPaymentWrong, Holds, IInv, TypeOK, CorrectionOps
<1>2. portion' = [portion EXCEPT ![p] = NoSplit]
  <2>1. Reversed(portion[p], req[c].seen) = NoSplit
    BY <1>1, ReversedToNothing
       DEF IInv, TypeOK, CorrectionsSerialized, NoDoubleReversal
  <2> QED
    BY <1>1, <2>1 DEF ReversePayment
<1>3. row[p].state # "none"
  BY <1>1 DEF IInv, EffectInv
<1>4. /\ row'[p].state = "deleted" \/ row'[p].wrong
      /\ row'[p].state # "none"
      /\ \A q \in Payment \ {p} : row'[q] = row[q]
  <2>1. CASE DeletePayment(c)
    BY <1>1, <2>1 DEF DeletePayment, IInv, TypeOK, Row
  <2>2. CASE MarkPaymentWrong(c)
    BY <1>1, <1>3, <2>2 DEF MarkPaymentWrong, IInv, TypeOK, Row
  <2> QED
    BY <2>1, <2>2
<1> HIDE DEF p
<1>5. Effect' = [Effect EXCEPT ![p] = "void"]
  BY <1>1, <1>4 DEF Effect, Counted
<1>6. Effect[p] \in {"counted", "void"}
  BY <1>1, <1>3 DEF Effect
<1>7. Abstract!Next \/ UNCHANGED <<Effect, portion>>
  <2>1. CASE Effect[p] = "counted"
    BY <1>1, <1>2, <1>5, <2>1
       DEF Abstract!Next, Abstract!Void, Abstract!NoPart, NoSplit
  <2>2. CASE Effect[p] = "void"
    <3>1. portion[p] = NoSplit
      BY <1>1, <2>2 DEF IInv, EffectInv
    <3>2. portion' = portion
      BY <1>2, <3>1 DEF IInv, TypeOK
    <3>3. Effect' = Effect
      BY <1>5, <2>2 DEF Effect
    <3> QED
      BY <3>2, <3>3
  <2> QED
    BY <1>6, <2>1, <2>2
<1>8. EffectInv'
  <2>1. \A q \in Payment : Effect'[q] # "counted" => portion'[q] = NoSplit
    BY <1>1, <1>2, <1>5 DEF Effect, IInv, EffectInv, TypeOK
  <2>2. \A q \in Payment : row'[q].wrong => row'[q].state # "none"
    BY <1>4 DEF IInv, EffectInv
  <2>3. \A e \in Clerk : /\ req'[e].op \in Ops \cup {None}
                         /\ req'[e].op \in {"delete", "mark"}
                              => row'[req'[e].item].state # "none"
    <3>1. \A q \in Payment : row[q].state # "none" => row'[q].state # "none"
      BY <1>4
    <3>2. \A e \in Clerk : req[e].op \in {"delete", "mark"} => req[e].item \in Payment
      BY DEF IInv, TypeOK, CorrectionOps
    <3> QED
      BY <1>1, <3>1, <3>2, ReleaseRequests DEF IInv, EffectInv
  <2> QED
    BY <2>1, <2>2, <2>3 DEF EffectInv
<1> QED
  BY <1>7, <1>8

\* Every step of an instance that re-posts nothing is a step of PaymentEffect,
\* or a stutter.
LEMMA EffectStep ==
  ASSUME NoReposting, IInv, [Next]_vars
  PROVE  EffectInv' /\ (Abstract!Next \/ UNCHANGED <<Effect, portion>>)
<1>1. ASSUME UNCHANGED <<row, portion>>
      PROVE  UNCHANGED <<Effect, portion>>
  BY <1>1 DEF Effect, Counted
<1>2. ASSUME NEW c \in Clerk, Begin(c)
      PROVE  EffectInv' /\ UNCHANGED <<row, portion>>
  <2>1. ASSUME NEW op \in AllOps, NEW p \in Payment, BeginCorrection(c, op, p)
        PROVE  EffectInv' /\ UNCHANGED <<row, portion>>
    <3>1. /\ op \in Ops
          /\ row[p].state # "none"
          /\ \A d \in Clerk : IF d = c THEN req'[d].op = op /\ req'[d].item = p
                                       ELSE req'[d] = req[d]
          /\ UNCHANGED <<row, portion>>
      BY <2>1 DEF BeginCorrection, Idle, IInv, TypeOK
    <3> QED
      BY <3>1, EffectElsewhere
  <2>2. ASSUME NEW op \in AllOps, BeginOnLoan(c, op)
        PROVE  EffectInv' /\ UNCHANGED <<row, portion>>
    <3>1. /\ op \in Ops
          /\ op \notin {"delete", "mark"}
          /\ \A d \in Clerk : IF d = c THEN req'[d].op = op ELSE req'[d] = req[d]
          /\ UNCHANGED <<row, portion>>
      BY <2>2 DEF BeginOnLoan, Idle, IInv, TypeOK
    <3> QED
      BY <3>1, EffectElsewhere
  <2>3. ASSUME NEW w \in Waiver, BeginUndo(c, w)
        PROVE  EffectInv' /\ UNCHANGED <<row, portion>>
    <3>1. /\ "undo" \in Ops
          /\ \A d \in Clerk : IF d = c THEN req'[d].op = "undo" ELSE req'[d] = req[d]
          /\ UNCHANGED <<row, portion>>
      BY <2>3 DEF BeginUndo, Idle, IInv, TypeOK
    <3> QED
      BY <3>1, EffectElsewhere
  <2> QED
    BY <1>2, <2>1, <2>2, <2>3 DEF Begin
<1>3. ASSUME NEW c \in Clerk, LockLoan(c)
      PROVE  EffectInv' /\ UNCHANGED <<row, portion>>
  <2>1. req[c] \in Request
    BY DEF IInv, TypeOK
  <2>2. /\ \A d \in Clerk : req'[d].op = req[d].op /\ req'[d].item = req[d].item
        /\ UNCHANGED <<row, portion>>
    BY <1>3, <2>1 DEF LockLoan, IInv, TypeOK, Request
  <2> QED
    BY <2>2, EffectElsewhere
<1>4. ASSUME NEW c \in Clerk, Release(c), UNCHANGED <<row, portion>>
      PROVE  EffectInv' /\ UNCHANGED <<row, portion>>
  BY <1>4, ReleaseRequests, EffectElsewhere
<1>5. ASSUME NEW c \in Clerk, EditPayment(c) \/ UnmarkPaymentWrong(c)
      PROVE  FALSE
  <2>1. req[c].op \in {"edit", "unmark"}
    BY <1>5 DEF EditPayment, UnmarkPaymentWrong, Holds
  <2>2. None \notin {"edit", "unmark"}
    BY NameAssumption DEF AllOps
  <2> QED
    BY <2>1, <2>2 DEF IInv, EffectInv, NoReposting
<1>6. ASSUME NEW c \in Clerk, Commit(c) \/ Rollback(c)
      PROVE  EffectInv' /\ (Abstract!Next \/ UNCHANGED <<Effect, portion>>)
  <2>1. CASE \/ WaiveLoanAmount(c) \/ UndoLoanWaiver(c) \/ AccrueInterest(c)
             \/ RequestRateChange(c) \/ Rollback(c)
    <3>1. Release(c) /\ UNCHANGED <<row, portion>>
      BY <2>1 DEF WaiveLoanAmount, UndoLoanWaiver, AccrueInterest, RequestRateChange,
         Rollback
    <3> QED
      BY <1>1, <1>4, <3>1
  <2> QED
    BY <1>5, <1>6, <2>1, RecordCounts, ReversalVoids DEF Commit
<1>7. CASE RejectRateChange \/ NextDay \/ UNCHANGED vars
  <2>1. UNCHANGED <<row, portion, req>>
    BY <1>7 DEF RejectRateChange, NextDay, vars
  <2> QED
    BY <1>1, <2>1, EffectElsewhere
<1> QED
  BY <1>1, <1>2, <1>3, <1>6, <1>7 DEF Next

\* Where neither edits nor unmarkings are performed, every interleaving of any
\* number of clerks keeps the promise of PaymentEffect: a payment counts once,
\* as one split, and leaves nothing once it is void.
THEOREM RecordingImplementsPaymentEffect ==
  ASSUME NoReposting
  PROVE  Spec => PaymentsTakeEffectOnce
<1>1. Init => IInv /\ Abstract!Init
  <2> SUFFICES ASSUME Init PROVE IInv /\ Abstract!Init
    OBVIOUS
  <2>1. CorrectionsSerialized /\ NoDoubleReversal
    BY NameAssumption DEF Init, CorrectionsSerialized, Idle, NoDoubleReversal, NoSplit
  <2>2. Abstract!Init
    BY DEF Init, Abstract!Init, Abstract!NoPart, NoSplit, Effect, NoRow
  <2> QED
    BY <2>1, <2>2, TypeInit, EffectInit DEF IInv
<1>2. IInv /\ [Next]_vars => IInv'
  BY TypeStep, SerializedStep, NoDoubleReversalStep, EffectStep DEF IInv
<1>3. IInv /\ [Next]_vars => [Abstract!Next]_<<Effect, portion>>
  BY EffectStep
<1> QED
  BY <1>1, <1>2, <1>3, PTL DEF Spec, PaymentsTakeEffectOnce, Abstract!Spec

-----------------------------------------------------------------------------
(* Principal is not repaid twice, when nothing is backdated or posted again. *)

\* Nothing is dated ahead of today.
DatesPast ==
  /\ \A p \in Payment : row[p].date <= today
  /\ \A c \in Clerk : req[c].stale.date <= today
NothingAhead == \A d \in Day : d >= today => receivable[d] = receivable[today]

\* Requests perform only this instance's operations.
OwnOps == \A c \in Clerk : req[c].op \in Ops \cup {None}

InOrder == TypeOK /\ DatesPast /\ NothingAhead /\ OwnOps
             /\ ReceivableNotNegative /\ ClosedOwesNoPrincipal

\* The books that a posting on day e makes of such books.
LEMMA PostedInOrder ==
  ASSUME InOrder, NEW e \in Day, e <= today, NEW x \in Int, x >= -receivable[today],
         e < today => x >= 0,
         receivable' = From(receivable, e, x), UNCHANGED today
  PROVE  NothingAhead' /\ ReceivableNotNegative'
<1>1. \A d \in Day : receivable'[d] = IF d >= e THEN receivable[d] + x ELSE receivable[d]
  BY DEF InOrder, TypeOK, From
<1>2. today \in Day /\ \A d \in Day : receivable[d] \in Int /\ receivable[d] >= 0 /\ d \in Int
  BY DEF InOrder, TypeOK, Day, ReceivableNotNegative
<1>3. NothingAhead'
  BY <1>1, <1>2 DEF InOrder, NothingAhead, Day
<1>4. ReceivableNotNegative'
  <2>1. ASSUME NEW d \in Day PROVE receivable'[d] >= 0
    <3>1. CASE d < e
      BY <1>1, <1>2, <3>1 DEF Day
    <3>2. CASE d >= e /\ x >= 0
      BY <1>1, <1>2, <3>2
    <3>3. CASE d >= e /\ x < 0
      <4>1. e = today /\ receivable[d] = receivable[today]
        BY <1>2, <3>3 DEF InOrder, NothingAhead
      <4> QED
        BY <1>1, <1>2, <3>3, <4>1
    <3> QED
      BY <1>2, <3>1, <3>2, <3>3
  <2> QED
    BY <2>1 DEF ReceivableNotNegative
<1> QED
  BY <1>3, <1>4

\* A loan is closed only when today's books owe nothing, and nothing is ahead.
LEMMA ClosedInOrder ==
  ASSUME TypeOK', NothingAhead', today \in Day, UNCHANGED today,
         status' = "fully_paid" => receivable'[today] <= 0
  PROVE  ClosedOwesNoPrincipal'
<1>1. LastDay \in Day /\ LastDay >= today
  BY LoanAssumption DEF Day
<1> QED
  BY <1>1 DEF NothingAhead, ClosedOwesNoPrincipal

\* The end of a transaction keeps what is past past.
LEMMA ReleaseInOrder ==
  ASSUME InOrder, NEW c \in Clerk, Release(c), UNCHANGED today,
         \A p \in Payment : row'[p].date \in {row[p].date, today}
  PROVE  DatesPast' /\ OwnOps'
<1>1. \A d \in Clerk : req'[d] = req[d] \/ req'[d] = Idle
  BY DEF Release, InOrder, TypeOK
<1>2. Idle.stale.date = 0 /\ Idle.op = None
  BY DEF Idle, NoRow
<1>3. today \in Day
  BY DEF InOrder, TypeOK
<1>4. DatesPast'
  BY <1>1, <1>2, <1>3 DEF InOrder, DatesPast, Day
<1> QED
  BY <1>1, <1>2, <1>4 DEF InOrder, OwnOps

\* What a split posts is not more than the books of its day show.
LEMMA AllocationWithin ==
  ASSUME NEW a \in Nat, NEW i \in 0..a, NEW before \in Nat
  PROVE  LET s == Allocation(a, i, before)
         IN s.principal \in Nat /\ s.principal <= before
BY DEF Allocation, Lesser, Greater

LEMMA OnlyToday == ASSUME MaxBackdate = 0, today \in Day PROVE PaymentDates = {today}
BY LoanAssumption DEF PaymentDates, Day, Greater

LEMMA RecordInOrder ==
  ASSUME MaxBackdate = 0, InOrder, NEW c \in Clerk, RecordPayment(c)
  PROVE  InOrder'
<1>1. PaymentDates = {today} /\ today \in Day
  BY OnlyToday DEF InOrder, TypeOK
<1>2. PICK p \in Payment, a \in Amounts, d \in PaymentDates :
        /\ row' = [row EXCEPT ![p] = [state |-> "live", wrong |-> FALSE,
                                      amount |-> a, date |-> d]]
        /\ \E i \in 0..a :
             LET split == Allocation(a, i, receivable[d])
             IN receivable' = From(receivable, d, -split.principal)
        /\ SetStatus(IF FullyPaid(status, receivable', row', portion', waiver, d)
                     THEN "fully_paid" ELSE status)
  BY DEF RecordPayment
<1>3. d = today
  BY <1>1
<1>4. PICK i \in 0..a :
        LET split == Allocation(a, i, receivable[d])
        IN receivable' = From(receivable, d, -split.principal)
  BY <1>2
<1> DEFINE s == Allocation(a, i, receivable[d])
<1>5. a \in Nat /\ receivable[d] \in Nat
  BY <1>1, <1>3, LoanAssumption DEF InOrder, TypeOK, ReceivableNotNegative
<1>6. s.principal \in Nat /\ s.principal <= receivable[d]
  BY <1>5, AllocationWithin
<1>7. receivable' = From(receivable, d, -s.principal)
  BY <1>4
<1> HIDE DEF s
<1>8. -s.principal \in Int /\ -s.principal >= -receivable[today]
  BY <1>3, <1>5, <1>6
<1>9. TypeOK' /\ UNCHANGED today /\ Release(c) /\ status = "active"
  BY RecordPaymentType DEF InOrder, RecordPayment
<1>10. NothingAhead' /\ ReceivableNotNegative'
  <2>1. d \in Day /\ d <= today /\ ~(d < today)
    BY <1>1, <1>3 DEF Day
  <2> QED
    BY <1>7, <1>8, <1>9, <2>1, PostedInOrder
<1>11. DatesPast' /\ OwnOps'
  <2>1. \A q \in Payment : row'[q].date \in {row[q].date, today}
    BY <1>2, <1>3 DEF InOrder, TypeOK
  <2> QED
    BY <1>9, <2>1, ReleaseInOrder
<1>12. ClosedOwesNoPrincipal'
  <2>1. status' = "fully_paid" => receivable'[today] <= 0
    BY <1>2, <1>3, <1>9 DEF SetStatus, FullyPaid
  <2> QED
    BY <1>1, <1>9, <1>10, <2>1, ClosedInOrder
<1> QED
  BY <1>9, <1>10, <1>11, <1>12 DEF InOrder

LEMMA WaiveInOrder ==
  ASSUME InOrder, NEW c \in Clerk, WaiveLoanAmount(c)
  PROVE  InOrder'
<1>1. PICK a \in Amounts :
        \E i \in 0..a :
          LET split == Allocation(a, i, receivable[today])
          IN receivable' = From(receivable, today, -split.principal)
  BY DEF WaiveLoanAmount
<1>2. PICK i \in 0..a :
        LET split == Allocation(a, i, receivable[today])
        IN receivable' = From(receivable, today, -split.principal)
  BY <1>1
<1> DEFINE s == Allocation(a, i, receivable[today])
<1>3. a \in Nat /\ receivable[today] \in Nat /\ today \in Day
  BY LoanAssumption DEF InOrder, TypeOK, ReceivableNotNegative
<1>4. s.principal \in Nat /\ s.principal <= receivable[today]
  BY <1>3, AllocationWithin
<1>5. receivable' = From(receivable, today, -s.principal)
  BY <1>2
<1> HIDE DEF s
<1>6. -s.principal \in Int /\ -s.principal >= -receivable[today]
  BY <1>3, <1>4
<1>7. /\ TypeOK' /\ UNCHANGED <<today, row>> /\ Release(c) /\ status = "active"
      /\ SetStatus(IF FullyPaid(status, receivable', row, portion, waiver', today)
                   THEN "fully_paid" ELSE status)
  BY WaiveLoanAmountType DEF InOrder, WaiveLoanAmount
<1>8. NothingAhead' /\ ReceivableNotNegative'
  <2>1. today <= today /\ ~(today < today)
    BY <1>3 DEF Day
  <2> QED
    BY <1>3, <1>5, <1>6, <1>7, <2>1, PostedInOrder
<1>9. DatesPast' /\ OwnOps'
  BY <1>7, ReleaseInOrder
<1>10. ClosedOwesNoPrincipal'
  <2>1. status' = "fully_paid" => receivable'[today] <= 0
    BY <1>7 DEF SetStatus, FullyPaid
  <2> QED
    BY <1>3, <1>7, <1>8, <2>1, ClosedInOrder
<1> QED
  BY <1>7, <1>8, <1>9, <1>10 DEF InOrder

\* A reversal puts principal back, from the day of the copy it read.
LEMMA ReversalInOrder ==
  ASSUME InOrder, NEW c \in Clerk, DeletePayment(c) \/ MarkPaymentWrong(c)
  PROVE  InOrder'
<1> DEFINE p == req[c].item
           x == Greater(req[c].seen.principal, 0)
           e == req[c].stale.date
<1>1. /\ p \in Payment /\ ReversePayment(c) /\ Release(c) /\ UNCHANGED today
      /\ status \in {"active", "fully_paid"}
  BY DEF DeletePayment, MarkPaymentWrong, Holds, InOrder, TypeOK, CorrectionOps
<1>2. TypeOK'
  BY DeletePaymentType, MarkPaymentWrongType DEF InOrder
<1>3. x \in Nat /\ e \in Day /\ e <= today
  BY DEF InOrder, TypeOK, Request, Row, Split, Greater, DatesPast
<1>4. receivable' = From(receivable, e, x)
  BY <1>1 DEF ReversePayment
<1> HIDE DEF x, e
<1>5. today \in Day /\ receivable[today] \in Nat
  BY DEF InOrder, TypeOK, ReceivableNotNegative
<1>6. x \in Int /\ x >= 0 /\ x >= -receivable[today]
  BY <1>3, <1>5
<1>7. NothingAhead' /\ ReceivableNotNegative'
  BY <1>1, <1>3, <1>4, <1>6, PostedInOrder
<1>8. DatesPast' /\ OwnOps'
  <2>1. \A q \in Payment : row'[q].date = row[q].date
    BY <1>1 DEF DeletePayment, MarkPaymentWrong, InOrder, TypeOK, Row
  <2> QED
    BY <1>1, <2>1, ReleaseInOrder
<1>9. ClosedOwesNoPrincipal'
  <2>1. status' = "fully_paid" => receivable'[today] <= 0
    <3>1. CASE DeletePayment(c)
      BY <3>1 DEF DeletePayment, SetStatus, FullyPaid
    <3>2. CASE MarkPaymentWrong(c)
      BY <1>1, <3>2 DEF MarkPaymentWrong, SetStatus, FullyPaid
    <3> QED
      BY <3>1, <3>2
  <2> QED
    BY <1>1, <1>2, <1>5, <1>7, <2>1, ClosedInOrder
<1> QED
  BY <1>2, <1>7, <1>8, <1>9 DEF InOrder

LEMMA UndoInOrder ==
  ASSUME InOrder, NEW c \in Clerk, UndoLoanWaiver(c)
  PROVE  InOrder'
<1> DEFINE x == waiver[req[c].item].principal
<1>1. x \in Nat /\ today \in Day /\ receivable[today] \in Nat /\ status \in {"active", "fully_paid"}
  BY DEF UndoLoanWaiver, Holds, InOrder, TypeOK, WaiverRow, ReceivableNotNegative
<1>2. /\ TypeOK' /\ Release(c) /\ UNCHANGED <<today, row>>
      /\ receivable' = From(receivable, today, x)
      /\ SetStatus(IF /\ status = "fully_paid"
                      /\ ~FullyPaid("active", receivable', row, portion, waiver', today)
                   THEN "active" ELSE status)
  BY UndoLoanWaiverType DEF InOrder, UndoLoanWaiver
<1> HIDE DEF x
<1>3. x \in Int /\ x >= -receivable[today] /\ today <= today /\ ~(today < today)
  BY <1>1 DEF Day
<1>4. NothingAhead' /\ ReceivableNotNegative'
  BY <1>1, <1>2, <1>3, PostedInOrder
<1>5. DatesPast' /\ OwnOps'
  BY <1>2, ReleaseInOrder
<1>6. ClosedOwesNoPrincipal'
  <2>1. status' = "fully_paid" => receivable'[today] <= 0
    BY <1>1, <1>2 DEF SetStatus, FullyPaid
  <2> QED
    BY <1>1, <1>2, <1>4, <2>1, ClosedInOrder
<1> QED
  BY <1>2, <1>4, <1>5, <1>6 DEF InOrder

\* The steps that leave the loan's principal and status alone.
LEMMA UnpostedInOrder ==
  ASSUME InOrder, TypeOK', UNCHANGED <<receivable, status, today>>, DatesPast', OwnOps'
  PROVE  InOrder'
BY DEF InOrder, NothingAhead, ReceivableNotNegative, ClosedOwesNoPrincipal

LEMMA RequestsInOrder ==
  ASSUME InOrder, NEW c \in Clerk, Begin(c) \/ LockLoan(c) \/ Rollback(c)
  PROVE  InOrder'
<1>1. TypeOK'
  BY TypeStep DEF InOrder, Next
<1>2. UNCHANGED <<receivable, status, today, row>>
  BY DEF Begin, BeginCorrection, BeginOnLoan, BeginUndo, LockLoan, Rollback
<1>3. DatesPast' /\ OwnOps'
  <2>1. CASE Rollback(c)
    BY <1>2, <2>1, ReleaseInOrder DEF Rollback
  <2>2. ASSUME \A d \in Clerk : /\ req'[d].stale \in {req[d].stale, NoRow} \cup {row[p] : p \in Payment}
                                /\ req'[d].op \in {req[d].op} \cup Ops
        PROVE  DatesPast' /\ OwnOps'
    <3>1. today \in Nat /\ NoRow.date = 0
      BY DEF InOrder, TypeOK, Day, NoRow
    <3> QED
      BY <1>2, <2>2, <3>1 DEF InOrder, DatesPast, OwnOps
  <2>3. CASE LockLoan(c)
    <3>1. req[c] \in Request
      BY DEF InOrder, TypeOK
    <3>2. \A d \in Clerk : req'[d].stale = req[d].stale /\ req'[d].op = req[d].op
      BY <2>3, <3>1 DEF LockLoan, InOrder, TypeOK, Request
    <3> QED
      BY <2>2, <3>2
  <2>4. ASSUME NEW op \in AllOps, NEW p \in Payment, BeginCorrection(c, op, p)
        PROVE  DatesPast' /\ OwnOps'
    <3>1. \A d \in Clerk : IF d = c THEN req'[d].stale = row[p] /\ req'[d].op = op
                                    ELSE req'[d] = req[d]
      BY <2>4 DEF BeginCorrection, Idle, InOrder, TypeOK
    <3> QED
      BY <2>2, <2>4, <3>1 DEF BeginCorrection
  <2>5. ASSUME NEW op \in AllOps, BeginOnLoan(c, op)
        PROVE  DatesPast' /\ OwnOps'
    <3>1. \A d \in Clerk : IF d = c THEN req'[d].stale = NoRow /\ req'[d].op = op
                                    ELSE req'[d] = req[d]
      BY <2>5 DEF BeginOnLoan, Idle, InOrder, TypeOK
    <3> QED
      BY <2>2, <2>5, <3>1 DEF BeginOnLoan
  <2>6. ASSUME NEW w \in Waiver, BeginUndo(c, w)
        PROVE  DatesPast' /\ OwnOps'
    <3>1. \A d \in Clerk : IF d = c THEN req'[d].stale = NoRow /\ req'[d].op = "undo"
                                    ELSE req'[d] = req[d]
      BY <2>6 DEF BeginUndo, Idle, InOrder, TypeOK
    <3> QED
      BY <2>2, <2>6, <3>1 DEF BeginUndo
  <2> QED
    BY <2>1, <2>3, <2>4, <2>5, <2>6 DEF Begin
<1> QED
  BY <1>1, <1>2, <1>3, UnpostedInOrder

LEMMA InOrderStep ==
  ASSUME NoReposting, MaxBackdate = 0, InOrder, [Next]_vars
  PROVE  InOrder'
<1>1. TypeOK'
  BY TypeStep DEF InOrder
<1>2. ASSUME NEW c \in Clerk, AccrueInterest(c) \/ RequestRateChange(c) PROVE InOrder'
  <2>1. UNCHANGED <<receivable, status, today, row>> /\ Release(c)
    BY <1>2 DEF AccrueInterest, RequestRateChange
  <2>2. DatesPast' /\ OwnOps'
    BY <2>1, ReleaseInOrder
  <2> QED
    BY <1>1, <2>1, <2>2, UnpostedInOrder
<1>3. ASSUME NEW c \in Clerk, EditPayment(c) \/ UnmarkPaymentWrong(c) PROVE FALSE
  <2>1. req[c].op \in {"edit", "unmark"}
    BY <1>3 DEF EditPayment, UnmarkPaymentWrong, Holds
  <2>2. None \notin {"edit", "unmark"}
    BY NameAssumption DEF AllOps
  <2> QED
    BY <2>1, <2>2 DEF InOrder, OwnOps, NoReposting
<1>4. ASSUME NEW c \in Clerk, Commit(c) PROVE InOrder'
  BY <1>2, <1>3, <1>4, RecordInOrder, ReversalInOrder, WaiveInOrder, UndoInOrder DEF Commit
<1>5. CASE NextDay
  <2>1. /\ today' = today + 1 /\ today \in Nat /\ today' \in Day
        /\ UNCHANGED <<receivable, status, row, req>>
    BY <1>1, <1>5 DEF NextDay, InOrder, TypeOK, Day
  <2>2. today \in Day /\ \A d \in Day : d \in Int
    BY DEF InOrder, TypeOK, Day
  <2>3. NothingAhead'
    BY <2>1, <2>2 DEF InOrder, NothingAhead
  <2>4. DatesPast'
    <3>1. (\A p \in Payment : row[p].date \in Int) /\ \A c \in Clerk : req[c].stale.date \in Int
      BY DEF InOrder, TypeOK, Row, Request, Day
    <3> QED
      BY <2>1, <3>1 DEF InOrder, DatesPast
  <2> QED
    BY <1>1, <2>1, <2>3, <2>4 DEF InOrder, OwnOps, ReceivableNotNegative, ClosedOwesNoPrincipal
<1>6. CASE RejectRateChange \/ UNCHANGED vars
  <2>1. UNCHANGED <<receivable, status, today, row, req>>
    BY <1>6 DEF RejectRateChange, vars
  <2>2. DatesPast' /\ OwnOps'
    BY <2>1 DEF InOrder, DatesPast, OwnOps
  <2> QED
    BY <1>1, <2>1, <2>2, UnpostedInOrder
<1> QED
  BY <1>4, <1>5, <1>6, RequestsInOrder DEF Next

LEMMA InOrderInit == Init => InOrder
<1> SUFFICES ASSUME Init PROVE InOrder
  OBVIOUS
<1>1. TypeOK /\ 0 \in Day /\ Principal \in Nat \ {0}
  BY TypeInit, LoanAssumption DEF Day
<1>2. DatesPast
  BY <1>1 DEF Init, DatesPast, NoRow, Idle
<1>3. NothingAhead /\ ReceivableNotNegative
  BY <1>1 DEF Init, NothingAhead, ReceivableNotNegative
<1>4. OwnOps /\ ClosedOwesNoPrincipal
  BY DEF Init, OwnOps, Idle, ClosedOwesNoPrincipal
<1> QED
  BY <1>1, <1>2, <1>3, <1>4 DEF InOrder

LEMMA InOrderAlways ==
  ASSUME NoReposting, MaxBackdate = 0
  PROVE  Spec => []InOrder
<1>1. InOrder /\ [Next]_vars => InOrder'
  BY InOrderStep
<1> QED
  BY InOrderInit, <1>1, PTL DEF Spec

\* Where payments are dated today and none is edited or unmarked, no
\* interleaving of receipts, waivers, deletions and undos repays principal
\* twice: no day shows a negative principal account.
THEOREM NeverRepaidTwice ==
  ASSUME NoReposting, MaxBackdate = 0
  PROVE  Spec => []ReceivableNotNegative
<1>1. InOrder => ReceivableNotNegative
  BY DEF InOrder
<1> QED
  BY InOrderAlways, <1>1, PTL

\* Nor does a closed loan then owe principal, whatever was corrected before or
\* after it closed.
THEOREM ClosedMeansRepaid ==
  ASSUME NoReposting, MaxBackdate = 0
  PROVE  Spec => []ClosedOwesNoPrincipal
<1>1. InOrder => ClosedOwesNoPrincipal
  BY DEF InOrder
<1> QED
  BY InOrderAlways, <1>1, PTL
=============================================================================
