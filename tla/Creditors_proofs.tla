---------------------------- MODULE Creditors_proofs ----------------------------
(***************************************************************************)
(* Creditors for any number of clerks and crons, any amounts and days.     *)
(*                                                                         *)
(* The argument: whatever a request has read is still so unless another    *)
(* one committed in between, and then it is marked overlapped.  So as long *)
(* as nothing raced, every commit works from the books as they are.        *)
(***************************************************************************)
EXTENDS Creditors, TLAPS

Pc == {"idle", "invest", "balance", "accrual", "commit", "repayments", "accruals", "post"}
Task == [pc : Pc, amount : Nat, date : Nat, prev : Nat, balance : Int, accrued : Int,
         overlapped : BOOLEAN]

Types ==
  /\ day \in Nat
  /\ creditor \in BOOLEAN
  /\ investment = None \/ investment \in [amount : Nat, date : Nat]
  /\ last \in Nat \cup {None}
  /\ repayments \in Nat /\ repaid \in Nat /\ payable \in Int /\ accruedTo \in Nat
  /\ raced \in BOOLEAN /\ inOrder \in BOOLEAN
  /\ task \in [Session -> Task]

\* What task t has read.
Repaying(t) == t.pc \in {"balance", "accrual", "commit"}
Accruing(t) == t.pc \in {"repayments", "accruals", "post"}
HasPrincipal(t) == t.pc \in {"accrual", "commit", "repayments", "accruals", "post"}
HasPrevious(t) == t.pc \in {"balance", "accrual", "commit", "accruals", "post"}
HasAccrued(t) == t.pc \in {"commit", "post"}

Fresh(t) ==
  /\ HasPrincipal(t) => t.balance = Principal
  /\ HasPrevious(t) => t.prev = PreviousDate
  /\ HasAccrued(t) => t.accrued = payable

\* A request of nothing that overlapped knows the books.
ReadsAreFresh == \A s \in Session : ~task[s].overlapped => Fresh(task[s])

\* Nothing is repaid or accrued before there is an investment.
InvestedFirst ==
  /\ investment = None => repaid = 0 /\ payable = 0
  /\ \A s \in Session : Repaying(task[s]) \/ Accruing(task[s]) => investment # None

RepaysSomething == \A s \in Session : Repaying(task[s]) => task[s].amount > 0

IInv == /\ Types /\ InvestedFirst /\ RepaysSomething /\ ReadsAreFresh
        /\ OverpaidOnlyByOverlap /\ AccruedOnlyOnce

-----------------------------------------------------------------------------
(* Interest.                                                               *)

LEMMA ProductNat == ASSUME NEW a \in Nat, NEW b \in Nat PROVE a * b \in Nat
OBVIOUS

LEMMA ProductMonotone ==
  ASSUME NEW a \in Nat, NEW b \in Nat, NEW c \in Nat, b <= c
  PROVE  a * b <= a * c
<1>1. c - b \in Nat
  OBVIOUS
<1>2. a * (c - b) \in Nat
  BY <1>1, ProductNat
<1>3. a * c = a * b + a * (c - b)
  OBVIOUS
<1>4. a * b \in Nat /\ a * c \in Nat
  BY ProductNat
<1> QED
  BY <1>2, <1>3, <1>4

\* Interest is never negative ...
LEMMA InterestNat ==
  ASSUME NEW b \in Int, NEW f \in Nat, NEW t \in Nat
  PROVE  Interest(b, f, t) \in Nat
<1>1. Rate \in Nat /\ Positive(b) \in Nat /\ Positive(t - f) \in Nat
  BY CreditorsAssumption DEF Positive
<1>2. Positive(b) * Rate \in Nat
  BY <1>1, ProductNat
<1> QED
  BY <1>1, <1>2, ProductNat DEF Interest

\* ... and grows with the days.
LEMMA InterestGrows ==
  ASSUME NEW b \in Int, NEW f \in Nat, NEW t \in Nat, NEW u \in Nat, t <= u
  PROVE  Interest(b, f, t) <= Interest(b, f, u)
<1> DEFINE m == Positive(b) * Rate
<1>1. Rate \in Nat /\ Positive(b) \in Nat
  BY CreditorsAssumption DEF Positive
<1>2. m \in Nat
  BY <1>1, ProductNat
<1>3. Positive(t - f) \in Nat /\ Positive(u - f) \in Nat /\ Positive(t - f) <= Positive(u - f)
  BY DEF Positive
<1> HIDE DEF m
<1>4. m * Positive(t - f) <= m * Positive(u - f)
  BY <1>2, <1>3, ProductMonotone
<1> QED
  BY <1>4 DEF Interest, m

-----------------------------------------------------------------------------

LEMMA InitIInv == Init => IInv
<1> SUFFICES ASSUME Init PROVE IInv
  OBVIOUS
<1>1. Idle \in Task
  BY DEF Idle, Task, Pc
<1>2. task \in [Session -> Task] /\ \A s \in Session : task[s] = Idle
  BY <1>1 DEF Init
<1>3. Types
  <2>1. creditor \in BOOLEAN /\ raced \in BOOLEAN /\ inOrder \in BOOLEAN
    BY Zenon DEF Init
  <2>2. /\ day \in Nat /\ investment = None /\ last = None /\ repayments \in Nat
        /\ repaid \in Nat /\ payable \in Int /\ accruedTo \in Nat
    BY DEF Init
  <2> QED
    BY <1>2, <2>1, <2>2 DEF Types
<1>4. InvestedFirst /\ RepaysSomething /\ ReadsAreFresh
  BY <1>2 DEF Init, InvestedFirst, RepaysSomething, ReadsAreFresh, Fresh, Idle,
     Repaying, Accruing, HasPrincipal, HasPrevious, HasAccrued
<1>5. investment = None
  BY DEF Init
<1>6. OverpaidOnlyByOverlap /\ AccruedOnlyOnce
  BY <1>5, Zenon DEF OverpaidOnlyByOverlap, AccruedOnlyOnce
<1> QED
  BY <1>3, <1>4, <1>6 DEF IInv

\* The books stay and only s goes on, to a task that knows them if it did.
Going(s) ==
  /\ UNCHANGED <<investment, books, raced>>
  /\ task' = [task EXCEPT ![s] = task'[s]]
  /\ task'[s] \in Task
  /\ Repaying(task'[s]) => task'[s].amount > 0
  /\ Repaying(task'[s]) \/ Accruing(task'[s]) => investment # None
  /\ ~task'[s].overlapped => Fresh(task'[s])

LEMMA GoingKeeps ==
  ASSUME IInv, NEW s \in Session, Going(s), day' \in Nat, creditor' \in BOOLEAN
  PROVE  IInv'
<1> USE DEF Going, books
<1>1. task \in [Session -> Task]
  BY DEF IInv, Types
<1>2. \A r \in Session : r # s => task'[r] = task[r]
  BY <1>1
<1>3. Types'
  BY <1>1, <1>2 DEF IInv, Types
<1>4. Principal' = Principal /\ PreviousDate' = PreviousDate
  BY DEF Principal, PreviousDate
<1>5. InvestedFirst' /\ RepaysSomething'
  BY <1>2 DEF IInv, InvestedFirst, RepaysSomething
<1>6. ReadsAreFresh'
  BY <1>2, <1>4 DEF IInv, ReadsAreFresh, Fresh
<1>7. OverpaidOnlyByOverlap' /\ AccruedOnlyOnce'
  BY <1>4 DEF IInv, OverpaidOnlyByOverlap, AccruedOnlyOnce
<1> QED
  BY <1>3, <1>5, <1>6, <1>7 DEF IInv

\* A commit outdates what the others have read.
LEMMA FinishKeeps ==
  ASSUME IInv, NEW s \in Session, Finish(s), investment # None,
         UNCHANGED <<day, creditor, investment>>,
         last' \in Nat \cup {None}, repayments' \in Nat, repaid' \in Nat, payable' \in Int,
         accruedTo' \in Nat, inOrder' \in BOOLEAN,
         OverpaidOnlyByOverlap', AccruedOnlyOnce'
  PROVE  IInv'
<1>1. task \in [Session -> Task] /\ raced \in BOOLEAN
  BY DEF IInv, Types
<1>2. task'[s] = Idle /\ Idle \in Task
  BY DEF Finish, Idle, Task, Pc
<1>3. ASSUME NEW r \in Session, r # s
      PROVE  /\ task'[r] \in Task
             /\ task'[r].pc = task[r].pc /\ task'[r].amount = task[r].amount
             /\ task'[r].overlapped = (task[r].pc # "idle")
  <2>1. task'[r] = [task[r] EXCEPT !.overlapped = ~At(r, "idle")]
    BY <1>3 DEF Finish
  <2>2. task[r] \in Task
    BY <1>1
  <2> QED
    BY <2>1, <2>2 DEF Task, At
<1>4. task' \in [Session -> Task]
  BY <1>2, <1>3 DEF Finish
<1>5. raced' \in BOOLEAN
  BY <1>1 DEF Finish, Task
<1>6. Types'
  BY <1>4, <1>5 DEF IInv, Types
<1>7. InvestedFirst' /\ RepaysSomething'
  BY <1>2, <1>3 DEF IInv, InvestedFirst, RepaysSomething, Repaying, Accruing, Idle
<1>8. ReadsAreFresh'
  <2> SUFFICES ASSUME NEW r \in Session, ~task'[r].overlapped PROVE Fresh(task[r])'
    BY DEF ReadsAreFresh
  <2>1. CASE r = s
    BY <1>2, <2>1 DEF Idle, Fresh, HasPrincipal, HasPrevious, HasAccrued
  <2>2. CASE r # s
    <3>1. task'[r].overlapped = (task[r].pc # "idle") /\ task'[r].pc = task[r].pc
      BY <1>3, <2>2
    <3>2. task'[r].pc = "idle"
      BY <3>1, Zenon
    <3> QED
      BY <3>2 DEF Fresh, HasPrincipal, HasPrevious, HasAccrued
  <2> QED
    BY <2>1, <2>2
<1> QED
  BY <1>6, <1>7, <1>8 DEF IInv

\* What a request that was not overlapped works from, at its commit.
LEMMA CommitsFromBooks ==
  ASSUME IInv, NEW s \in Session, Finish(s), ~raced', task[s].pc \in {"commit", "post"}
  PROVE  /\ ~raced
         /\ task[s].balance = Principal /\ task[s].prev = PreviousDate /\ task[s].accrued = payable
<1>1. ~raced /\ ~task[s].overlapped
  BY DEF Finish
<1> QED
  BY <1>1 DEF IInv, ReadsAreFresh, Fresh, HasPrincipal, HasPrevious, HasAccrued

\* The books of an investment, as numbers.
LEMMA Numbers ==
  ASSUME IInv, investment # None
  PROVE  /\ investment.amount \in Nat /\ investment.date \in Nat
         /\ Principal \in Int /\ PreviousDate \in Nat
         /\ repaid \in Nat /\ payable \in Int /\ accruedTo \in Nat
BY DEF IInv, Types, Principal, PreviousDate

LEMMA RepaymentKeeps ==
  ASSUME IInv, NEW s \in Clerk, RecordRepayment(s)
  PROVE  IInv'
<1> DEFINE t == task[s]
<1>1. s \in Session /\ t.pc = "commit" /\ Finish(s) /\ t \in Task
  BY DEF RecordRepayment, At, Session, IInv, Types
<1>2. investment # None /\ t.amount > 0
  BY <1>1 DEF IInv, InvestedFirst, RepaysSomething, Repaying
<1>3. /\ investment.amount \in Nat /\ Principal \in Int /\ PreviousDate \in Nat
      /\ repaid \in Nat /\ payable \in Int /\ accruedTo \in Nat
  BY <1>2, Numbers
<1>4. /\ t.amount \in Nat /\ t.date \in Nat /\ t.prev \in Nat /\ t.balance \in Int /\ t.accrued \in Int
  BY <1>1 DEF Task
<1>5. Interest(t.balance, t.prev, t.date) \in Nat
  BY <1>4, InterestNat
<1>6. InterestPortion(t) \in Nat /\ InterestPortion(t) <= t.amount
  BY <1>4, <1>5 DEF InterestPortion, Least
<1>7. /\ PrincipalPortion(t) \in Nat /\ PrincipalPortion(t) <= Positive(t.balance)
      /\ AccrualReversed(t) \in Nat
  BY <1>4, <1>6 DEF PrincipalPortion, AccrualReversed, Least, Positive
<1>8. /\ repaid' = repaid + PrincipalPortion(t)
      /\ payable' = payable - AccrualReversed(t)
      /\ last' = IF last = None THEN t.date ELSE Most(last, t.date)
      /\ inOrder' = (inOrder /\ t.date >= PreviousDate /\ t.date >= accruedTo)
      /\ repayments' = repayments + 1
      /\ UNCHANGED <<day, creditor, investment, accruedTo>>
  BY DEF RecordRepayment
<1> HIDE DEF t
<1>9. last \in Nat \cup {None} /\ inOrder \in BOOLEAN /\ repayments \in Nat
  BY DEF IInv, Types
<1>10. /\ last' \in Nat \cup {None} /\ repayments' \in Nat /\ repaid' \in Nat /\ payable' \in Int
       /\ accruedTo' \in Nat /\ inOrder' \in BOOLEAN
  BY <1>3, <1>4, <1>7, <1>8, <1>9 DEF Most
<1>11. ASSUME ~raced'
       PROVE  /\ ~raced /\ t.balance = Principal /\ t.prev = PreviousDate /\ t.accrued = payable
  BY <1>1, <1>11, CommitsFromBooks DEF t
<1>12. OverpaidOnlyByOverlap'
  <2> SUFFICES ASSUME ~raced' PROVE repaid' <= investment.amount /\ payable' >= 0
    BY <1>8 DEF OverpaidOnlyByOverlap
  <2>1. repaid <= investment.amount /\ payable >= 0
    BY <1>2, <1>11 DEF IInv, OverpaidOnlyByOverlap
  <2>2. t.balance = investment.amount - repaid /\ t.accrued = payable
    BY <1>11 DEF Principal
  <2>3. PrincipalPortion(t) <= investment.amount - repaid
    BY <2>1, <2>2, <1>3, <1>7 DEF Positive
  <2>4. AccrualReversed(t) <= payable
    BY <2>1, <2>2, <1>3 DEF AccrualReversed, Positive
  <2> QED
    BY <2>3, <2>4, <1>3, <1>7, <1>8
<1>13. AccruedOnlyOnce'
  <2> SUFFICES ASSUME ~raced', inOrder'
               PROVE  payable' <= Interest(Principal', PreviousDate', accruedTo')
    BY DEF AccruedOnlyOnce, Interest
  <2>1. Principal' \in Int /\ PreviousDate' \in Nat
    <3>1. investment'.amount \in Nat /\ investment'.date \in Nat
      BY <1>2, <1>8 DEF IInv, Types
    <3> QED
      BY <3>1, <1>10 DEF Principal, PreviousDate
  <2>2. Interest(Principal', PreviousDate', accruedTo') \in Nat
    BY <2>1, <1>10, InterestNat
  <2>3. inOrder /\ t.date >= accruedTo
    BY <1>8
  <2>4. payable <= Interest(Principal, PreviousDate, accruedTo)
    BY <1>2, <1>11, <2>3 DEF IInv, AccruedOnlyOnce
  <2>5. payable' <= 0
    <3>1. CASE InterestPortion(t) > 0
      BY <3>1, <1>3, <1>8, <1>11 DEF AccrualReversed, Positive
    <3>2. CASE ~(InterestPortion(t) > 0)
      <4>1. Interest(t.balance, t.prev, t.date) = 0
        BY <3>2, <1>2, <1>4, <1>5 DEF InterestPortion, Least, t
      <4>2. Interest(Principal, PreviousDate, accruedTo) <= Interest(Principal, PreviousDate, t.date)
        BY <1>3, <1>4, <2>3, InterestGrows
      <4>3. Interest(Principal, PreviousDate, accruedTo) \in Nat
        BY <1>3, InterestNat
      <4> QED
        BY <4>1, <4>2, <4>3, <2>4, <3>2, <1>3, <1>8, <1>11 DEF AccrualReversed
    <3> QED
      BY <3>1, <3>2
  <2> QED
    BY <2>2, <2>5, <1>10
<1> QED
  BY <1>1, <1>2, <1>8, <1>10, <1>12, <1>13, FinishKeeps

LEMMA AccrualKeeps ==
  ASSUME IInv, NEW s \in Cron, PostAccrual(s)
  PROVE  IInv'
<1> DEFINE t == task[s]
<1>1. s \in Session /\ t.pc = "post" /\ Finish(s) /\ t \in Task
  BY DEF PostAccrual, At, Session, IInv, Types
<1>2. investment # None
  BY <1>1 DEF IInv, InvestedFirst, Accruing
<1>3. /\ investment.amount \in Nat /\ Principal \in Int /\ PreviousDate \in Nat
      /\ repaid \in Nat /\ payable \in Int /\ accruedTo \in Nat
  BY <1>2, Numbers
<1>4. /\ t.date \in Nat /\ t.prev \in Nat /\ t.balance \in Int /\ t.accrued \in Int
  BY <1>1 DEF Task
<1>5. Interest(t.balance, t.prev, t.date) \in Nat
  BY <1>4, InterestNat
<1>6. Target(t) \in Int /\ Target(t) = Interest(t.balance, t.prev, t.date) - t.accrued
  BY <1>4, <1>5 DEF Target
<1>7. /\ payable' = payable + Positive(Target(t))
      /\ accruedTo' = Most(accruedTo, t.date)
      /\ UNCHANGED <<day, creditor, investment, last, repayments, repaid, inOrder>>
  BY DEF PostAccrual
<1> HIDE DEF t
<1>8. /\ payable' \in Int /\ payable' >= payable /\ accruedTo' \in Nat
      /\ accruedTo <= accruedTo' /\ t.date <= accruedTo'
  BY <1>3, <1>4, <1>6, <1>7 DEF Positive, Most
<1>9. ASSUME ~raced'
      PROVE  /\ ~raced /\ t.balance = Principal /\ t.prev = PreviousDate /\ t.accrued = payable
  BY <1>1, <1>9, CommitsFromBooks DEF t
<1>10. Principal' = Principal /\ PreviousDate' = PreviousDate
  BY <1>7 DEF Principal, PreviousDate
<1>11. OverpaidOnlyByOverlap'
  <2> SUFFICES ASSUME ~raced' PROVE repaid' <= investment.amount /\ payable' >= 0
    BY <1>7 DEF OverpaidOnlyByOverlap
  <2>1. repaid <= investment.amount /\ payable >= 0
    BY <1>2, <1>9 DEF IInv, OverpaidOnlyByOverlap
  <2> QED
    BY <2>1, <1>3, <1>7, <1>8
<1>12. AccruedOnlyOnce'
  <2> SUFFICES ASSUME ~raced', inOrder
               PROVE  payable' <= Interest(Principal, PreviousDate, accruedTo')
    BY <1>7, <1>10 DEF AccruedOnlyOnce, Interest
  <2>1. payable <= Interest(Principal, PreviousDate, accruedTo)
    BY <1>2, <1>9 DEF IInv, AccruedOnlyOnce
  <2>2. /\ Interest(Principal, PreviousDate, accruedTo) \in Nat
        /\ Interest(Principal, PreviousDate, accruedTo') \in Nat
        /\ Interest(Principal, PreviousDate, accruedTo) <= Interest(Principal, PreviousDate, accruedTo')
        /\ Interest(Principal, PreviousDate, t.date) <= Interest(Principal, PreviousDate, accruedTo')
    BY <1>3, <1>4, <1>8, InterestNat, InterestGrows
  <2>3. payable' = IF Target(t) > 0 THEN Interest(Principal, PreviousDate, t.date) ELSE payable
    BY <1>3, <1>5, <1>6, <1>7, <1>9 DEF Positive
  <2> QED
    BY <2>1, <2>2, <2>3, <1>3, <1>8
<1>13. last' \in Nat \cup {None} /\ repayments' \in Nat /\ repaid' \in Nat /\ inOrder' \in BOOLEAN
  BY <1>7 DEF IInv, Types
<1> QED
  BY <1>1, <1>2, <1>7, <1>8, <1>11, <1>12, <1>13, FinishKeeps

-----------------------------------------------------------------------------
(* The steps that leave the books alone.                                   *)

LEMMA IdleIsTask == Idle \in Task /\ Fresh(Idle) /\ ~Repaying(Idle) /\ ~Accruing(Idle)
BY DEF Idle, Task, Pc, Fresh, HasPrincipal, HasPrevious, HasAccrued, Repaying, Accruing

LEMMA StopKeeps ==
  ASSUME IInv, NEW s \in Session, task' = [task EXCEPT ![s] = Idle],
         UNCHANGED <<investment, books, raced>>, day' \in Nat, creditor' \in BOOLEAN
  PROVE  IInv'
<1>1. task'[s] = Idle
  BY DEF IInv, Types
<1>2. Going(s)
  BY <1>1, IdleIsTask DEF Going
<1> QED
  BY <1>2, GoingKeeps

LEMMA CreationKeeps ==
  ASSUME IInv, NEW s \in Clerk, CreateCreditor(s)
  PROVE  IInv'
<1>1. s \in Session /\ task[s] \in Task /\ task \in [Session -> Task] /\ day \in Nat
  BY DEF Session, IInv, Types
<1>2. task' = [task EXCEPT ![s] = [task[s] EXCEPT !.pc = "invest"]]
  BY <1>1 DEF CreateCreditor, Go
<1>3. task'[s] = [task[s] EXCEPT !.pc = "invest"]
  BY <1>1, <1>2
<1>4. task'[s] \in Task /\ task'[s].pc = "invest"
  BY <1>1, <1>3 DEF Task, Pc
<1>5. Going(s)
  BY <1>2, <1>3, <1>4 DEF Going, CreateCreditor, Fresh, HasPrincipal, HasPrevious, HasAccrued, Repaying, Accruing
<1> QED
  BY <1>1, <1>5, GoingKeeps DEF CreateCreditor

LEMMA InvestmentKeeps ==
  ASSUME IInv, NEW s \in Clerk, AddInvestment(s)
  PROVE  IInv'
<1>1. s \in Session /\ task \in [Session -> Task] /\ day \in Nat
  BY DEF Session, IInv, Types
<1>2. PICK a \in Invested : investment' = [amount |-> a, date |-> day]
  BY DEF AddInvestment
<1>3. investment' \in [amount : Nat, date : Nat] /\ investment'.amount \in Nat /\ investment'.date \in Nat
  BY <1>1, <1>2, CreditorsAssumption
<1>4. investment = None /\ UNCHANGED <<day, creditor, books, raced>> /\ task' = [task EXCEPT ![s] = Idle]
  BY DEF AddInvestment
<1>5. repaid = 0 /\ payable = 0 /\ repaid' = 0 /\ payable' = 0
  BY <1>4 DEF IInv, InvestedFirst, books
<1>6. \A r \in Session : task'[r] \in Task /\ ~Repaying(task'[r]) /\ ~Accruing(task'[r])
  <2> SUFFICES ASSUME NEW r \in Session
               PROVE  task'[r] \in Task /\ ~Repaying(task'[r]) /\ ~Accruing(task'[r])
    OBVIOUS
  <2>1. CASE r = s
    BY <1>1, <1>4, <2>1, IdleIsTask
  <2>2. CASE r # s
    BY <1>1, <1>4, <2>2 DEF IInv, InvestedFirst
  <2> QED
    BY <2>1, <2>2
<1>7. Types'
  BY <1>1, <1>3, <1>4, <1>6, IdleIsTask DEF IInv, Types, books
<1>8. InvestedFirst' /\ RepaysSomething'
  BY <1>5, <1>6 DEF InvestedFirst, RepaysSomething
<1>9. ReadsAreFresh'
  BY <1>6 DEF ReadsAreFresh, Fresh, HasPrincipal, HasPrevious, HasAccrued, Repaying, Accruing
<1>10. OverpaidOnlyByOverlap'
  BY <1>3, <1>5 DEF OverpaidOnlyByOverlap
<1>11. Principal' \in Int /\ PreviousDate' \in Nat /\ accruedTo' \in Nat
  BY <1>3, <1>5, <1>7 DEF Principal, PreviousDate, Types
<1>12. Interest(Principal', PreviousDate', accruedTo') \in Nat
  BY <1>11, InterestNat
<1>13. AccruedOnlyOnce'
  BY <1>5, <1>12 DEF AccruedOnlyOnce, Interest
<1> QED
  BY <1>7, <1>8, <1>9, <1>10, <1>13 DEF IInv

LEMMA BeginningRepaymentKeeps ==
  ASSUME IInv, NEW s \in Clerk, BeginRepayment(s)
  PROVE  IInv'
<1>1. /\ s \in Session /\ task \in [Session -> Task] /\ day \in Nat /\ creditor \in BOOLEAN
      /\ accruedTo \in Nat /\ investment # None
  BY DEF BeginRepayment, Session, IInv, Types
<1>2. Principal \in Int /\ PreviousDate \in Nat
  BY <1>1, Numbers
<1>3. PICK a \in Repaid, d \in 0..day :
        task' = [task EXCEPT ![s] = [Idle EXCEPT !.pc = "balance", !.amount = a, !.date = d,
                                                 !.prev = PreviousDate]]
  BY DEF BeginRepayment
<1>4. task'[s] \in Task /\ task'[s].pc = "balance" /\ task'[s].amount > 0 /\ task'[s].prev = PreviousDate
  <2>1. d \in Nat /\ a \in Nat /\ a > 0
    BY <1>1, CreditorsAssumption
  <2>2. task'[s] = [Idle EXCEPT !.pc = "balance", !.amount = a, !.date = d, !.prev = PreviousDate]
    BY <1>1, <1>3
  <2>3. task'[s] =
          [pc |-> "balance", amount |-> a, date |-> d, prev |-> PreviousDate, balance |-> 0,
                   accrued |-> 0, overlapped |-> FALSE]
    BY <2>2 DEF Idle
  <2> QED
    BY <1>2, <2>1, <2>3 DEF Task, Pc
<1>5. Going(s)
  BY <1>1, <1>3, <1>4 DEF BeginRepayment, Going, Fresh, HasPrincipal, HasPrevious, HasAccrued, Repaying, Accruing
<1> QED
  BY <1>1, <1>5, GoingKeeps DEF BeginRepayment

LEMMA BeginningAccrualKeeps ==
  ASSUME IInv, NEW s \in Cron, BeginAccrual(s)
  PROVE  IInv'
<1>1. /\ s \in Session /\ task \in [Session -> Task] /\ day \in Nat /\ creditor \in BOOLEAN
      /\ accruedTo \in Nat /\ investment # None
  BY DEF BeginAccrual, Session, IInv, Types
<1>2. Principal \in Int /\ PreviousDate \in Nat
  BY <1>1, Numbers
<1>3. PICK d \in accruedTo..day :
        task' = [task EXCEPT ![s] = [Idle EXCEPT !.pc = "repayments", !.date = d, !.balance = Principal]]
  BY DEF BeginAccrual
<1>4. task'[s] \in Task /\ task'[s].pc = "repayments" /\ task'[s].balance = Principal
  <2>1. d \in Nat
    BY <1>1, CreditorsAssumption
  <2>2. task'[s] = [Idle EXCEPT !.pc = "repayments", !.date = d, !.balance = Principal]
    BY <1>1, <1>3
  <2>3. task'[s] =
          [pc |-> "repayments", amount |-> 0, date |-> d, prev |-> 0, balance |-> Principal,
                   accrued |-> 0, overlapped |-> FALSE]
    BY <2>2 DEF Idle
  <2> QED
    BY <1>2, <2>1, <2>3 DEF Task, Pc
<1>5. Going(s)
  BY <1>1, <1>3, <1>4 DEF BeginAccrual, Going, Fresh, HasPrincipal, HasPrevious, HasAccrued, Repaying, Accruing
<1> QED
  BY <1>1, <1>5, GoingKeeps DEF BeginAccrual

LEMMA ReadingPrincipalKeeps ==
  ASSUME IInv, NEW s \in Clerk, ReadPrincipal(s)
  PROVE  IInv'
<1>1. /\ s \in Session /\ task \in [Session -> Task] /\ task[s] \in Task /\ day \in Nat
      /\ creditor \in BOOLEAN /\ task[s].pc = "balance"
  BY DEF ReadPrincipal, At, Session, IInv, Types
<1>2. investment # None /\ (Repaying(task[s]) => task[s].amount > 0)
  BY <1>1 DEF IInv, InvestedFirst, RepaysSomething, Repaying, Accruing
<1>3. Principal \in Int
  BY <1>2, Numbers
<1>4. task' = [task EXCEPT ![s] = [task[s] EXCEPT !.pc = "accrual", !.balance = Principal]]
  BY <1>1 DEF ReadPrincipal
<1>5. task'[s] = [task[s] EXCEPT !.pc = "accrual", !.balance = Principal]
  BY <1>1, <1>4
<1>6. /\ task'[s] \in Task /\ task'[s].pc = "accrual" /\ task'[s].balance = Principal
      /\ task'[s].amount = task[s].amount /\ task'[s].date = task[s].date /\ task'[s].prev = task[s].prev
      /\ task'[s].accrued = task[s].accrued /\ task'[s].overlapped = task[s].overlapped
  BY <1>1, <1>3, <1>5 DEF Task, Pc
<1>7. ~task[s].overlapped => Fresh(task[s])
  BY <1>1 DEF IInv, ReadsAreFresh
<1>8. ~task'[s].overlapped => Fresh(task'[s])
  BY <1>1, <1>6, <1>7 DEF Fresh, HasPrincipal, HasPrevious, HasAccrued
<1>9. Going(s)
  BY <1>1, <1>2, <1>4, <1>5, <1>6, <1>8 DEF ReadPrincipal, Going, Repaying, Accruing
<1> QED
  BY <1>1, <1>9, GoingKeeps DEF ReadPrincipal

LEMMA ReadingAccrualKeeps ==
  ASSUME IInv, NEW s \in Clerk, ReadAccrual(s)
  PROVE  IInv'
<1>1. /\ s \in Session /\ task \in [Session -> Task] /\ task[s] \in Task /\ day \in Nat
      /\ creditor \in BOOLEAN /\ task[s].pc = "accrual"
  BY DEF ReadAccrual, At, Session, IInv, Types
<1>2. investment # None /\ (Repaying(task[s]) => task[s].amount > 0)
  BY <1>1 DEF IInv, InvestedFirst, RepaysSomething, Repaying, Accruing
<1>3. payable \in Int
  BY <1>2, Numbers
<1>4. task' = [task EXCEPT ![s] = [task[s] EXCEPT !.pc = "commit", !.accrued = payable]]
  BY <1>1 DEF ReadAccrual
<1>5. task'[s] = [task[s] EXCEPT !.pc = "commit", !.accrued = payable]
  BY <1>1, <1>4
<1>6. /\ task'[s] \in Task /\ task'[s].pc = "commit" /\ task'[s].accrued = payable
      /\ task'[s].amount = task[s].amount /\ task'[s].date = task[s].date /\ task'[s].prev = task[s].prev
      /\ task'[s].balance = task[s].balance /\ task'[s].overlapped = task[s].overlapped
  BY <1>1, <1>3, <1>5 DEF Task, Pc
<1>7. ~task[s].overlapped => Fresh(task[s])
  BY <1>1 DEF IInv, ReadsAreFresh
<1>8. ~task'[s].overlapped => Fresh(task'[s])
  BY <1>1, <1>6, <1>7 DEF Fresh, HasPrincipal, HasPrevious, HasAccrued
<1>9. Going(s)
  BY <1>1, <1>2, <1>4, <1>5, <1>6, <1>8 DEF ReadAccrual, Going, Repaying, Accruing
<1> QED
  BY <1>1, <1>9, GoingKeeps DEF ReadAccrual

LEMMA ReadingRepaymentsKeeps ==
  ASSUME IInv, NEW s \in Cron, ReadRepayments(s)
  PROVE  IInv'
<1>1. /\ s \in Session /\ task \in [Session -> Task] /\ task[s] \in Task /\ day \in Nat
      /\ creditor \in BOOLEAN /\ task[s].pc = "repayments"
  BY DEF ReadRepayments, At, Session, IInv, Types
<1>2. investment # None /\ (Repaying(task[s]) => task[s].amount > 0)
  BY <1>1 DEF IInv, InvestedFirst, RepaysSomething, Repaying, Accruing
<1>3. PreviousDate \in Int /\ PreviousDate \in Nat
  BY <1>2, Numbers
<1>4. task' = [task EXCEPT ![s] = [task[s] EXCEPT !.pc = "accruals", !.prev = PreviousDate]]
  BY <1>1 DEF ReadRepayments
<1>5. task'[s] = [task[s] EXCEPT !.pc = "accruals", !.prev = PreviousDate]
  BY <1>1, <1>4
<1>6. /\ task'[s] \in Task /\ task'[s].pc = "accruals" /\ task'[s].prev = PreviousDate
      /\ task'[s].amount = task[s].amount /\ task'[s].date = task[s].date /\ task'[s].balance = task[s].balance
      /\ task'[s].accrued = task[s].accrued /\ task'[s].overlapped = task[s].overlapped
  BY <1>1, <1>3, <1>5 DEF Task, Pc
<1>7. ~task[s].overlapped => Fresh(task[s])
  BY <1>1 DEF IInv, ReadsAreFresh
<1>8. ~task'[s].overlapped => Fresh(task'[s])
  BY <1>1, <1>6, <1>7 DEF Fresh, HasPrincipal, HasPrevious, HasAccrued
<1>9. Going(s)
  BY <1>1, <1>2, <1>4, <1>5, <1>6, <1>8 DEF ReadRepayments, Going, Repaying, Accruing
<1> QED
  BY <1>1, <1>9, GoingKeeps DEF ReadRepayments

LEMMA ReadingAccrualsKeeps ==
  ASSUME IInv, NEW s \in Cron, ReadAccruals(s)
  PROVE  IInv'
<1>1. /\ s \in Session /\ task \in [Session -> Task] /\ task[s] \in Task /\ day \in Nat
      /\ creditor \in BOOLEAN /\ task[s].pc = "accruals"
  BY DEF ReadAccruals, At, Session, IInv, Types
<1>2. investment # None /\ (Repaying(task[s]) => task[s].amount > 0)
  BY <1>1 DEF IInv, InvestedFirst, RepaysSomething, Repaying, Accruing
<1>3. payable \in Int
  BY <1>2, Numbers
<1>4. task' = [task EXCEPT ![s] = [task[s] EXCEPT !.pc = "post", !.accrued = payable]]
  BY <1>1 DEF ReadAccruals
<1>5. task'[s] = [task[s] EXCEPT !.pc = "post", !.accrued = payable]
  BY <1>1, <1>4
<1>6. /\ task'[s] \in Task /\ task'[s].pc = "post" /\ task'[s].accrued = payable
      /\ task'[s].amount = task[s].amount /\ task'[s].date = task[s].date /\ task'[s].prev = task[s].prev
      /\ task'[s].balance = task[s].balance /\ task'[s].overlapped = task[s].overlapped
  BY <1>1, <1>3, <1>5 DEF Task, Pc
<1>7. ~task[s].overlapped => Fresh(task[s])
  BY <1>1 DEF IInv, ReadsAreFresh
<1>8. ~task'[s].overlapped => Fresh(task'[s])
  BY <1>1, <1>6, <1>7 DEF Fresh, HasPrincipal, HasPrevious, HasAccrued
<1>9. Going(s)
  BY <1>1, <1>2, <1>4, <1>5, <1>6, <1>8 DEF ReadAccruals, Going, Repaying, Accruing
<1> QED
  BY <1>1, <1>9, GoingKeeps DEF ReadAccruals

LEMMA UnchangedKeeps ==
  ASSUME IInv, UNCHANGED <<creditor, investment, books, task, raced>>, day' \in Nat
  PROVE  IInv'
<1> USE DEF books
<1>1. Principal' = Principal /\ PreviousDate' = PreviousDate
  BY DEF Principal, PreviousDate
<1>2. Types' /\ InvestedFirst' /\ RepaysSomething'
  BY DEF IInv, Types, InvestedFirst, RepaysSomething
<1>3. ReadsAreFresh' /\ OverpaidOnlyByOverlap' /\ AccruedOnlyOnce'
  BY <1>1 DEF IInv, ReadsAreFresh, Fresh, OverpaidOnlyByOverlap, AccruedOnlyOnce
<1> QED
  BY <1>2, <1>3 DEF IInv

-----------------------------------------------------------------------------

LEMMA NextKeeps == IInv /\ [Next]_vars => IInv'
<1> SUFFICES ASSUME IInv, [Next]_vars PROVE IInv'
  OBVIOUS
<1>1. day \in Nat /\ creditor \in BOOLEAN
  BY DEF IInv, Types
<1>2. ASSUME NEW s \in Clerk, CreateCreditor(s) PROVE IInv'
  BY <1>2, CreationKeeps
<1>3. ASSUME NEW s \in Clerk, AddInvestment(s) PROVE IInv'
  BY <1>3, InvestmentKeeps
<1>4. ASSUME NEW s \in Clerk, BeginRepayment(s) PROVE IInv'
  BY <1>4, BeginningRepaymentKeeps
<1>5. ASSUME NEW s \in Clerk, ReadPrincipal(s) PROVE IInv'
  BY <1>5, ReadingPrincipalKeeps
<1>6. ASSUME NEW s \in Clerk, ReadAccrual(s) PROVE IInv'
  BY <1>6, ReadingAccrualKeeps
<1>7. ASSUME NEW s \in Clerk, RecordRepayment(s) PROVE IInv'
  BY <1>7, RepaymentKeeps
<1>8. ASSUME NEW s \in Cron, BeginAccrual(s) PROVE IInv'
  BY <1>8, BeginningAccrualKeeps
<1>9. ASSUME NEW s \in Cron, ReadRepayments(s) PROVE IInv'
  BY <1>9, ReadingRepaymentsKeeps
<1>10. ASSUME NEW s \in Cron, ReadAccruals(s) PROVE IInv'
  BY <1>10, ReadingAccrualsKeeps
<1>11. ASSUME NEW s \in Cron, PostAccrual(s) PROVE IInv'
  BY <1>11, AccrualKeeps
<1>12. ASSUME NEW s \in Session, Fail(s) PROVE IInv'
  BY <1>1, <1>12, StopKeeps DEF Fail
<1>13. CASE NextDay
  <2>1. day' \in Nat
    BY <1>1, <1>13 DEF NextDay
  <2> QED
    BY <1>13, <2>1, UnchangedKeeps DEF NextDay
<1>14. CASE UNCHANGED vars
  BY <1>1, <1>14, UnchangedKeeps DEF vars
<1> QED
  BY <1>2, <1>3, <1>4, <1>5, <1>6, <1>7, <1>8, <1>9, <1>10, <1>11, <1>12, <1>13, <1>14 DEF Next

\* The inductive invariant holds in every reachable state: what a request has
\* read is still so unless another one committed in between.
THEOREM Invariance == Spec => []IInv
BY InitIInv, NextKeeps, PTL DEF Spec

\* However many clerks repay a creditor and however often the month-end cron
\* runs, no more principal is repaid than was invested and no more interest
\* reversed than was accrued, unless one request committed between another
\* one's reads and its commit: the missing lock is the only way
\* recordCreditorRepayment overpays.
THEOREM OverpaidOnlyWithOverlap == Spec => []OverpaidOnlyByOverlap
<1>1. IInv => OverpaidOnlyByOverlap
  BY DEF IInv
<1> QED
  BY <1>1, Invariance, PTL

\* Without overlap, and with repayments recorded in the order of their dates,
\* accrueInterestForCreditors leaves on Interest Payable at most the interest
\* of the principal since the last repayment, however often it is run.
THEOREM AccruedAtMostOnce == Spec => []AccruedOnlyOnce
<1>1. IInv => AccruedOnlyOnce
  BY DEF IInv
<1> QED
  BY <1>1, Invariance, PTL
=============================================================================
