------------------------- MODULE FundTransfers_proofs -------------------------
(***************************************************************************)
(* FundTransfers for every set of accounts, clerks and amounts: transfers  *)
(* never spend the same money twice, and implement CashFunds.              *)
(*                                                                         *)
(* The argument: what a transfer read under the advisory lock of its       *)
(* source can afterwards be taken only by outflows that do not lock, and   *)
(* those are counted in spent; so the sum cash + spent still covers it     *)
(* when the transfer posts.                                                *)
(***************************************************************************)
EXTENDS FundTransfers, TLAPS

\* What a transfer read is still there, but for unlocked outflows.
ReadStaysGood ==
  \A c \in Clerk : req[c].pc = "read" =>
    req[c].seen <= cash[req[c].from] + spent[req[c].from]

\* A transfer's accounts differ; an outflow has one account.
AccountsDiffer ==
  \A c \in Clerk : req[c].pc \in {"waiting", "locked", "read"} => req[c].from # req[c].to

\* A transfer is of a positive amount.
AmountsPositive ==
  \A c \in Clerk : req[c].pc \in {"waiting", "locked", "read"} => req[c].amount > 0

IInv == TypeOK /\ NoDoubleSpend /\ ReadStaysGood /\ AccountsDiffer /\ AmountsPositive

LEMMA InitIInv == Init => IInv
BY FundsAssumption DEF Init, IInv, TypeOK, LocksHeld, NoDoubleSpend, ReadStaysGood, AccountsDiffer,
     AmountsPositive, Idle, Asked, Request

Types == /\ cash \in [Account -> Int]
         /\ spent \in [Account -> Nat]
         /\ lock \in [Account -> Clerk \cup {None}]
         /\ req \in [Clerk -> Request]
         /\ \A c \in Clerk : req[c].pc # "idle" => req[c].from \in Account
         /\ \A c \in Clerk : req[c].pc \in {"waiting", "locked", "read"} => req[c].to \in Account

LEMMA TypeParts == TypeOK <=> Types /\ LocksHeld
BY DEF TypeOK, Types

\* The end of a transaction keeps the types and leaves the locks to the
\* transfers still under way.
LEMMA ReleaseTyped ==
  ASSUME TypeOK, NEW c \in Clerk, Release(c),
         cash' \in [Account -> Int], spent' \in [Account -> Nat]
  PROVE  TypeOK'
<1>1. Types'
  BY FundsAssumption DEF Release, TypeOK, Types, Request, Idle, Asked
<1>2. ASSUME NEW d \in Clerk, NEW a \in Account
      PROVE  lock'[a] = d <=> req'[d].pc \in {"locked", "read"} /\ req'[d].from = a
  <2>1. lock'[a] = IF lock[a] = c THEN None ELSE lock[a]
    BY DEF Release
  <2>2. req'[d] = IF d = c THEN Idle ELSE req[d]
    BY DEF Release, TypeOK
  <2>3. lock[a] = d <=> req[d].pc \in {"locked", "read"} /\ req[d].from = a
    BY DEF TypeOK, LocksHeld
  <2> QED
    BY <2>1, <2>2, <2>3, FundsAssumption DEF Idle, Asked
<1> QED
  BY <1>1, <1>2, TypeParts DEF LocksHeld, TypeOK, Types

\* An outflow keeps the types of the balances.
LEMMA TakeOutTyped ==
  ASSUME TypeOK, NEW a \in Account, NEW x \in Nat, TakeOut(a, x)
  PROVE  cash' \in [Account -> Int] /\ spent' \in [Account -> Nat]
BY DEF TypeOK, TakeOut

\* A request that enters from idle holds no lock.
LEMMA EnterTyped ==
  ASSUME TypeOK, NEW c \in Clerk, req[c] = Idle, NEW a \in Account, NEW b \in Account \cup {None},
         NEW x \in Nat, NEW pc \in {"waiting", "checked"}, pc = "waiting" => b \in Account,
         req' = [req EXCEPT ![c] = Asked(pc, a, b, x)],
         UNCHANGED <<cash, spent, lock>>
  PROVE  TypeOK'
<1>1. Types'
  BY DEF TypeOK, Types, Request, Asked
<1>2. LocksHeld'
  BY DEF TypeOK, LocksHeld, Idle, Asked
<1> QED
  BY <1>1, <1>2, TypeParts DEF TypeOK, Types, LocksHeld

\* Typing and lock ownership are kept by every step.
LEMMA TypeStep == ASSUME TypeOK, [Next]_vars PROVE TypeOK'
<1> USE FundsAssumption
<1>1. ASSUME NEW c \in Clerk, EnterTransfer(c) PROVE TypeOK'
  <2>1. PICK a \in Account, b \in Account, x \in Amounts :
          req' = [req EXCEPT ![c] = Asked("waiting", a, b, x)]
    BY <1>1 DEF EnterTransfer
  <2>2. x \in Nat
    OBVIOUS
  <2> QED
    BY <1>1, <2>1, <2>2, EnterTyped DEF EnterTransfer
<1>2. ASSUME NEW c \in Clerk, TakeLock(c) PROVE TypeOK'
  <2>1. Types'
    BY <1>2 DEF TakeLock, TypeOK, Types, Request
  <2>2. ASSUME NEW d \in Clerk, NEW a \in Account
        PROVE  lock'[a] = d <=> req'[d].pc \in {"locked", "read"} /\ req'[d].from = a
    <3>1. lock'[a] = IF a = req[c].from THEN c ELSE lock[a]
      BY <1>2 DEF TakeLock, TypeOK
    <3>2. /\ d # c => req'[d] = req[d]
          /\ req'[c].pc = "locked" /\ req'[c].from = req[c].from
      BY <1>2 DEF TakeLock, TypeOK, Request
    <3>3. /\ lock[a] = d <=> req[d].pc \in {"locked", "read"} /\ req[d].from = a
          /\ req[c].pc = "waiting" /\ lock[req[c].from] = None
      BY <1>2 DEF TakeLock, TypeOK, LocksHeld
    <3> QED
      BY <3>1, <3>2, <3>3
  <2> QED
    BY <2>1, <2>2, TypeParts DEF LocksHeld, TypeOK, Types
<1>3. ASSUME NEW c \in Clerk, ReadFunds(c) PROVE TypeOK'
  <2>1. Types'
    <3>1. cash[req[c].from] \in Int
      BY <1>3 DEF ReadFunds, TypeOK
    <3>2. req[c] \in Request /\ [req[c] EXCEPT !.pc = "read", !.seen = cash[req[c].from]] \in Request
      BY <3>1 DEF TypeOK, Request
    <3>3. req' = [req EXCEPT ![c] = [req[c] EXCEPT !.pc = "read", !.seen = cash[req[c].from]]]
      BY <1>3 DEF ReadFunds, TypeOK
    <3>4. req' \in [Clerk -> Request]
      BY <3>2, <3>3 DEF TypeOK
    <3>5. \A d \in Clerk : /\ req'[d].from = req[d].from /\ req'[d].to = req[d].to
                           /\ d # c => req'[d].pc = req[d].pc
      BY <3>2, <3>3 DEF TypeOK, Request
    <3> QED
      BY <1>3, <3>4, <3>5 DEF ReadFunds, TypeOK, Types
  <2>2. ASSUME NEW d \in Clerk
        PROVE  /\ req'[d].from = req[d].from
               /\ req'[d].pc \in {"locked", "read"} <=> req[d].pc \in {"locked", "read"}
    BY <1>3 DEF ReadFunds, TypeOK, Request
  <2>3. LocksHeld'
    BY <1>3, <2>2 DEF ReadFunds, TypeOK, LocksHeld
  <2> QED
    BY <2>1, <2>3, TypeParts DEF TypeOK, Types, LocksHeld
<1>4. ASSUME NEW c \in Clerk, PostTransfer(c) PROVE TypeOK'
  <2>1. cash' \in [Account -> Int] /\ spent' \in [Account -> Nat]
    BY <1>4 DEF PostTransfer, TypeOK, Request
  <2> QED
    BY <1>4, <2>1, ReleaseTyped DEF PostTransfer
<1>5. ASSUME NEW c \in Clerk, Rollback(c) PROVE TypeOK'
  <2>1. cash' \in [Account -> Int] /\ spent' \in [Account -> Nat]
    BY <1>5 DEF Rollback, TypeOK
  <2> QED
    BY <1>5, <2>1, ReleaseTyped DEF Rollback
<1>6. ASSUME NEW c \in Clerk, NEW a \in Account, NEW x \in Amounts, CheckOutflow(c, a, x)
      PROVE  TypeOK'
  <2>1. x \in Nat
    OBVIOUS
  <2> QED
    BY <1>6, <2>1, EnterTyped DEF CheckOutflow
<1>7. ASSUME NEW c \in Clerk, CheckDisbursement(c) PROVE TypeOK'
  BY <1>6, <1>7 DEF CheckDisbursement
<1>8. ASSUME NEW c \in Clerk, CheckExpense(c) PROVE TypeOK'
  BY <1>6, <1>8 DEF CheckExpense
<1>9. ASSUME NEW c \in Clerk, PostOutflow(c) PROVE TypeOK'
  <2>1. req[c].amount \in Nat /\ req[c].from \in Account
    BY <1>9 DEF PostOutflow, TypeOK, Request
  <2>2. cash' \in [Account -> Int] /\ spent' \in [Account -> Nat]
    BY <1>9, <2>1, TakeOutTyped DEF PostOutflow
  <2> QED
    BY <1>9, <2>2, ReleaseTyped DEF PostOutflow
<1>10. ASSUME NEW a \in Account, Arrive(a) PROVE TypeOK'
  <2>1. cash' \in [Account -> Int]
    BY <1>10 DEF Arrive, TypeOK
  <2> QED
    BY <1>10, <2>1 DEF Arrive, TypeOK, LocksHeld
<1>11. ASSUME NEW a \in Account, RepayCreditor(a) PROVE TypeOK'
  <2>1. cash' \in [Account -> Int] /\ spent' \in [Account -> Nat]
    BY <1>11, TakeOutTyped DEF RepayCreditor
  <2> QED
    BY <1>11, <2>1 DEF RepayCreditor, TypeOK, LocksHeld
<1>12. CASE UNCHANGED vars
  BY <1>12 DEF vars, TypeOK, LocksHeld
<1> QED
  BY <1>1, <1>2, <1>3, <1>4, <1>5, <1>7, <1>8, <1>9, <1>10, <1>11, <1>12
     DEF Next, Transfer, Outflow

\* Type correctness for every set of accounts, clerks and amounts.
THEOREM TypeCorrect == Spec => []TypeOK
<1>1. Init => TypeOK
  BY InitIInv DEF IInv
<1>2. TypeOK /\ [Next]_vars => TypeOK'
  BY TypeStep
<1> QED
  BY <1>1, <1>2, PTL DEF Spec

-----------------------------------------------------------------------------
(* The double-spending argument.                                           *)

Covered(a) == cash[a] + spent[a]

\* A step that changes no balance and records what it reads.
LEMMA ReadingKeeps ==
  ASSUME TypeOK, TypeOK', NoDoubleSpend, ReadStaysGood, UNCHANGED <<cash, spent>>,
         \A c \in Clerk : req'[c].pc = "read" =>
            \/ req'[c] = req[c]
            \/ /\ req'[c].seen = cash[req'[c].from]
               /\ req'[c].from \in Account
  PROVE  NoDoubleSpend' /\ ReadStaysGood'
<1>1. NoDoubleSpend'
  BY DEF NoDoubleSpend
<1>2. ASSUME NEW c \in Clerk, req'[c].pc = "read"
      PROVE  req'[c].seen <= cash[req'[c].from] + spent[req'[c].from]
  <2>1. CASE req'[c] = req[c]
    BY <1>2, <2>1 DEF ReadStaysGood
  <2>2. CASE req'[c].seen = cash[req'[c].from] /\ req'[c].from \in Account
    <3>1. /\ cash[req'[c].from] \in Int
          /\ spent[req'[c].from] \in Nat
      BY <2>2 DEF TypeOK
    <3> QED
      BY <2>2, <3>1
  <2> QED
    BY <1>2, <2>1, <2>2
<1> QED
  BY <1>1, <1>2 DEF ReadStaysGood

\* A step after which no account is covered less keeps the argument, whoever
\* it ends.
LEMMA GrowingKeeps ==
  ASSUME TypeOK, TypeOK', NoDoubleSpend, ReadStaysGood,
         \A a \in Account : Covered(a)' >= Covered(a),
         \A c \in Clerk : req'[c].pc = "read" => req'[c] = req[c]
  PROVE  NoDoubleSpend' /\ ReadStaysGood'
<1>1. \A a \in Account : /\ cash[a] \in Int /\ spent[a] \in Int
                         /\ cash'[a] \in Int /\ spent'[a] \in Int
  BY DEF TypeOK
<1>2. NoDoubleSpend'
  BY <1>1 DEF NoDoubleSpend, Covered
<1>3. ASSUME NEW c \in Clerk, req'[c].pc = "read"
      PROVE  req'[c].seen <= cash'[req'[c].from] + spent'[req'[c].from]
  <2>1. req'[c] = req[c] /\ req[c].from \in Account /\ req[c].seen \in Int
    BY <1>3 DEF TypeOK, Request
  <2>2. req[c].seen <= cash[req[c].from] + spent[req[c].from]
    BY <1>3, <2>1 DEF ReadStaysGood
  <2> QED
    BY <1>1, <2>1, <2>2 DEF Covered
<1> QED
  BY <1>2, <1>3 DEF ReadStaysGood

\* A request that ends is idle, the others are untouched.
LEMMA ReleaseEnds ==
  ASSUME TypeOK, NEW c \in Clerk, Release(c)
  PROVE  \A d \in Clerk : req'[d].pc = "read" => d # c /\ req'[d] = req[d]
BY DEF Release, TypeOK, Idle, Asked

\* A transfer posts what it read under the lock, and no other transfer of the
\* same source has read anything.
LEMMA PostingKeeps ==
  ASSUME IInv, TypeOK', NEW c \in Clerk, PostTransfer(c)
  PROVE  NoDoubleSpend' /\ ReadStaysGood'
<1> DEFINE a == req[c].from
           b == req[c].to
           x == req[c].amount
<1>1. /\ a \in Account /\ b \in Account /\ a # b
      /\ x \in Nat /\ req[c].seen \in Int
      /\ req[c].pc = "read"
  BY DEF IInv, TypeOK, AccountsDiffer, PostTransfer, Request
<1>2. /\ cash' = [cash EXCEPT ![a] = @ - x, ![b] = @ + x]
      /\ spent' = spent
      /\ req[c].seen >= x
  BY DEF PostTransfer, Sufficient
<1>3. req[c].seen <= cash[a] + spent[a]
  BY <1>1 DEF IInv, ReadStaysGood
<1>4. \A e \in Account : cash[e] \in Int /\ spent[e] \in Nat
  BY DEF IInv, TypeOK
<1>5. \A e \in Account : cash'[e] = IF e = b THEN cash[e] + x
                                    ELSE IF e = a THEN cash[e] - x ELSE cash[e]
  BY <1>1, <1>2 DEF IInv, TypeOK
<1> HIDE DEF a, b, x
<1>6. ASSUME NEW e \in Account, e # a
      PROVE  cash'[e] + spent'[e] >= cash[e] + spent[e]
  <2>1. spent'[e] = spent[e] /\ cash[e] \in Int /\ spent[e] \in Int
    BY <1>2, <1>4
  <2>2. cash'[e] = cash[e] + x \/ cash'[e] = cash[e]
    BY <1>5, <1>6
  <2> QED
    BY <1>1, <2>1, <2>2
<1>7. cash'[a] + spent'[a] >= 0
  <2>1. cash'[a] = cash[a] - x /\ spent'[a] = spent[a]
    BY <1>1, <1>2, <1>5
  <2>2. cash[a] \in Int /\ spent[a] \in Int
    BY <1>1, <1>4
  <2> QED
    BY <1>1, <1>2, <1>3, <2>1, <2>2
<1>8. NoDoubleSpend'
  <2> SUFFICES ASSUME NEW e \in Account PROVE cash'[e] + spent'[e] >= 0
    BY DEF NoDoubleSpend
  <2>1. cash[e] + spent[e] >= 0 /\ cash'[e] \in Int /\ spent'[e] \in Int
    BY DEF IInv, NoDoubleSpend, TypeOK
  <2> QED
    BY <1>4, <1>6, <1>7, <2>1
<1>9. ASSUME NEW d \in Clerk, req'[d].pc = "read"
      PROVE  req'[d].seen <= cash'[req'[d].from] + spent'[req'[d].from]
  <2>1. d # c /\ req'[d] = req[d]
    BY <1>9, ReleaseEnds DEF PostTransfer, IInv
  <2>2. /\ req[d].from \in Account
        /\ req[d].seen \in Int
        /\ req[d].seen <= cash[req[d].from] + spent[req[d].from]
    BY <1>9, <2>1 DEF IInv, TypeOK, Request, ReadStaysGood
  <2>3. req[d].from # a
    BY <1>1, <1>9, <2>1, <2>2 DEF IInv, TypeOK, LocksHeld, a
  <2>4. cash'[req[d].from] \in Int /\ spent'[req[d].from] \in Int
    BY <2>2 DEF TypeOK
  <2> QED
    BY <1>4, <1>6, <2>1, <2>2, <2>3, <2>4
<1> QED
  BY <1>8, <1>9 DEF ReadStaysGood

\* No step of a request makes its accounts equal or its amount zero.
Sound == AccountsDiffer /\ AmountsPositive
LEMMA AccountsStep == ASSUME IInv, [Next]_vars PROVE Sound'
<1> USE FundsAssumption DEF IInv, TypeOK, Sound, AccountsDiffer, AmountsPositive, Request
<1>1. ASSUME NEW c \in Clerk, Release(c) PROVE Sound'
  BY <1>1 DEF Release, Idle, Asked
<1>2. ASSUME NEW c \in Clerk, EnterTransfer(c) PROVE Sound'
  BY <1>2 DEF EnterTransfer, Asked
<1>3. ASSUME NEW c \in Clerk, TakeLock(c) \/ ReadFunds(c) PROVE Sound'
  <2>1. ASSUME NEW d \in Clerk
        PROVE  /\ req'[d].from = req[d].from /\ req'[d].to = req[d].to
               /\ req'[d].amount = req[d].amount
               /\ req'[d].pc \in {"waiting", "locked", "read"}
                    => req[d].pc \in {"waiting", "locked", "read"}
    BY <1>3 DEF TakeLock, ReadFunds
  <2> QED
    BY <2>1
<1>4. ASSUME NEW c \in Clerk, NEW a, NEW x, CheckOutflow(c, a, x) PROVE Sound'
  BY <1>4 DEF CheckOutflow, Asked
<1>5. CASE UNCHANGED req
  BY <1>5
<1>6. ASSUME NEW c \in Clerk, Outflow(c) PROVE Sound'
  BY <1>1, <1>4, <1>6 DEF Outflow, CheckDisbursement, CheckExpense, PostOutflow
<1>7. ASSUME NEW c \in Clerk, Transfer(c) \/ Rollback(c) PROVE Sound'
  BY <1>1, <1>3, <1>7 DEF Transfer, PostTransfer, Rollback
<1> QED
  BY <1>2, <1>5, <1>6, <1>7 DEF Next, Arrive, RepayCreditor, vars

LEMMA IInvStep == ASSUME IInv, [Next]_vars PROVE IInv'
<1> USE DEF IInv
<1>1. TypeOK'
  BY TypeStep
<1>2. AccountsDiffer' /\ AmountsPositive'
  BY AccountsStep DEF Sound
<1>3. ASSUME NEW c \in Clerk, EnterTransfer(c) \/ TakeLock(c) \/ ReadFunds(c)
      PROVE  NoDoubleSpend' /\ ReadStaysGood'
  <2>1. UNCHANGED <<cash, spent>>
    BY <1>3 DEF EnterTransfer, TakeLock, ReadFunds
  <2>2. ASSUME NEW d \in Clerk, req'[d].pc = "read"
        PROVE  \/ req'[d] = req[d]
               \/ req'[d].seen = cash[req'[d].from] /\ req'[d].from \in Account
    <3>1. CASE EnterTransfer(c)
      BY <2>2, <3>1 DEF EnterTransfer, TypeOK, Asked
    <3>2. CASE TakeLock(c)
      BY <2>2, <3>2 DEF TakeLock, TypeOK, Request
    <3>3. CASE ReadFunds(c)
      BY <2>2, <3>3 DEF ReadFunds, TypeOK, Request
    <3> QED
      BY <1>3, <3>1, <3>2, <3>3
  <2> QED
    BY <1>1, <2>1, <2>2, ReadingKeeps
<1>4. ASSUME NEW c \in Clerk, PostTransfer(c) PROVE NoDoubleSpend' /\ ReadStaysGood'
  BY <1>1, <1>4, PostingKeeps
<1>5. ASSUME NEW c \in Clerk, Rollback(c) PROVE NoDoubleSpend' /\ ReadStaysGood'
  <2>1. UNCHANGED <<cash, spent>> /\ Release(c)
    BY <1>5 DEF Rollback
  <2> QED
    BY <1>1, <2>1, ReleaseEnds, ReadingKeeps
<1>6. ASSUME NEW c \in Clerk, NEW a, NEW x, CheckOutflow(c, a, x)
      PROVE  NoDoubleSpend' /\ ReadStaysGood'
  <2>1. \A d \in Clerk : req'[d].pc = "read" => req'[d] = req[d]
    BY <1>6 DEF CheckOutflow, TypeOK, Asked
  <2>2. UNCHANGED <<cash, spent>>
    BY <1>6 DEF CheckOutflow
  <2> QED
    BY <1>1, <2>1, <2>2, ReadingKeeps
<1>7. ASSUME NEW a \in Account, NEW x \in Nat, TakeOut(a, x),
             \A d \in Clerk : req'[d].pc = "read" => req'[d] = req[d]
      PROVE  NoDoubleSpend' /\ ReadStaysGood'
  <2>1. \A e \in Account : Covered(e)' >= Covered(e)
    BY <1>7 DEF TakeOut, Covered, TypeOK
  <2> QED
    BY <1>1, <1>7, <2>1, GrowingKeeps
<1>8. ASSUME NEW c \in Clerk, PostOutflow(c) PROVE NoDoubleSpend' /\ ReadStaysGood'
  <2>1. /\ req[c].from \in Account /\ req[c].amount \in Nat
        /\ TakeOut(req[c].from, req[c].amount) /\ Release(c)
    BY <1>8 DEF PostOutflow, TypeOK, Request
  <2> QED
    BY <1>7, <2>1, ReleaseEnds
<1>9. ASSUME NEW a \in Account, Arrive(a) PROVE NoDoubleSpend' /\ ReadStaysGood'
  <2>1. PICK x \in Nat : cash' = [cash EXCEPT ![a] = @ + x]
    BY <1>9, FundsAssumption DEF Arrive
  <2>2. UNCHANGED <<spent, req>>
    BY <1>9 DEF Arrive
  <2>3. \A e \in Account : Covered(e)' >= Covered(e)
    BY <2>1, <2>2 DEF Covered, TypeOK
  <2> QED
    BY <1>1, <2>2, <2>3, GrowingKeeps
<1>10. ASSUME NEW a \in Account, RepayCreditor(a) PROVE NoDoubleSpend' /\ ReadStaysGood'
  BY <1>7, <1>10, FundsAssumption DEF RepayCreditor
<1>11. ASSUME UNCHANGED vars PROVE NoDoubleSpend' /\ ReadStaysGood'
  BY <1>1, <1>11, ReadingKeeps DEF vars
<1>12. NoDoubleSpend' /\ ReadStaysGood'
  BY <1>3, <1>4, <1>5, <1>6, <1>8, <1>9, <1>10, <1>11
     DEF Next, Transfer, Outflow, CheckDisbursement, CheckExpense
<1> QED
  BY <1>1, <1>2, <1>12

LEMMA IInvAlways == Spec => []IInv
<1>1. Init => IInv
  BY InitIInv
<1>2. IInv /\ [Next]_vars => IInv'
  BY IInvStep
<1> QED
  BY <1>1, <1>2, PTL DEF Spec

\* Transfers never spend the same money twice, however many run at once: the
\* advisory lock of assertSufficientSourceFunds is enough.
THEOREM NeverSpentTwice == Spec => []NoDoubleSpend
<1>1. IInv => NoDoubleSpend
  BY DEF IInv
<1> QED
  BY <1>1, IInvAlways, PTL

-----------------------------------------------------------------------------
(* The promise of CashFunds.                                               *)

FundsBar == [a \in Account |-> cash[a] + spent[a]]

\* Money that arrives is more money.
LEMMA ArriveFunds ==
  ASSUME IInv, NEW a \in Account, Arrive(a) PROVE Funds!Arrive(a)
<1>1. PICK x \in Nat \ {0} : cash' = [cash EXCEPT ![a] = @ + x]
  BY FundsAssumption DEF Arrive
<1>2. \A e \in Account : /\ cash[e] \in Int /\ spent[e] \in Int /\ spent'[e] = spent[e]
                          /\ cash'[e] = IF e = a THEN cash[e] + x ELSE cash[e]
  BY <1>1 DEF Arrive, IInv, TypeOK
<1>3. cash[a] + spent[a] >= 0
  BY DEF IInv, NoDoubleSpend
<1>4. FundsBar'[a] \in Nat /\ FundsBar'[a] > FundsBar[a]
  BY <1>2, <1>3 DEF FundsBar
<1>5. FundsBar' = [FundsBar EXCEPT ![a] = FundsBar'[a]]
  BY <1>2 DEF FundsBar
<1> QED
  BY <1>4, <1>5 DEF Funds!Arrive, FundsBar

\* A transfer moves an amount that is there.
LEMMA PostFunds ==
  ASSUME IInv, NEW c \in Clerk, PostTransfer(c)
  PROVE  \E a, b \in Account : a # b /\ Funds!Move(a, b)
<1>1. /\ req[c].from \in Account /\ req[c].to \in Account /\ req[c].from # req[c].to
      /\ req[c].amount \in Nat /\ req[c].amount > 0 /\ req[c].seen \in Int
      /\ req[c].pc = "read"
  BY DEF IInv, TypeOK, AccountsDiffer, AmountsPositive, PostTransfer, Request
<1>2. PICK a \in Account, b \in Account, x \in Nat :
        a = req[c].from /\ b = req[c].to /\ x = req[c].amount
  BY <1>1
<1>3. /\ cash' = [cash EXCEPT ![a] = @ - x, ![b] = @ + x]
      /\ spent' = spent
      /\ req[c].seen >= x
  BY <1>2 DEF PostTransfer, Sufficient
<1>4. a # b /\ x > 0
  BY <1>1, <1>2
<1>5. req[c].seen <= cash[a] + spent[a]
  BY <1>1, <1>2 DEF IInv, ReadStaysGood
<1>6. \A e \in Account : /\ cash[e] \in Int /\ spent[e] \in Int
                          /\ FundsBar[e] = cash[e] + spent[e]
  BY DEF IInv, TypeOK, FundsBar
<1>7. x \in 1..FundsBar[a]
  <2>1. cash[a] \in Int /\ spent[a] \in Int /\ FundsBar[a] = cash[a] + spent[a]
    BY <1>6
  <2> QED
    BY <1>1, <1>3, <1>4, <1>5, <2>1
<1>8. ASSUME NEW e \in Account
      PROVE  cash'[e] + spent'[e] = IF e = b THEN FundsBar[e] + x
                                   ELSE IF e = a THEN FundsBar[e] - x
                                   ELSE FundsBar[e]
  <2>1. cash'[e] = IF e = b THEN cash[e] + x ELSE IF e = a THEN cash[e] - x ELSE cash[e]
    BY <1>3, <1>4 DEF IInv, TypeOK
  <2>2. /\ cash[e] \in Int /\ spent[e] \in Int /\ spent'[e] = spent[e]
        /\ FundsBar[e] = cash[e] + spent[e]
    BY <1>3, <1>6
  <2> QED
    BY <2>1, <2>2
<1>9. FundsBar' = [FundsBar EXCEPT ![a] = @ - x, ![b] = @ + x]
  <2>1. [FundsBar EXCEPT ![a] = @ - x, ![b] = @ + x]
          = [e \in Account |-> IF e = b THEN FundsBar[e] + x
                               ELSE IF e = a THEN FundsBar[e] - x
                               ELSE FundsBar[e]]
    BY <1>4 DEF FundsBar
  <2>2. FundsBar' = [e \in Account |-> cash'[e] + spent'[e]]
    BY DEF FundsBar
  <2> HIDE DEF FundsBar
  <2> QED
    BY <1>8, <2>1, <2>2
<1>10. Funds!Move(a, b)
  BY <1>7, <1>9 DEF Funds!Move, FundsBar
<1> QED
  BY <1>4, <1>10

LEMMA FundsStep ==
  ASSUME IInv, [Next]_vars
  PROVE  Funds!Next \/ UNCHANGED FundsBar
<1>1. ASSUME UNCHANGED <<cash, spent>> PROVE UNCHANGED FundsBar
  BY <1>1 DEF FundsBar
<1>2. ASSUME NEW a \in Account, NEW x \in Nat, TakeOut(a, x) PROVE UNCHANGED FundsBar
  <2>1. \A e \in Account : cash[e] \in Int /\ spent[e] \in Int
    BY DEF IInv, TypeOK
  <2>2. \A e \in Account :
          /\ cash'[e] = IF e = a THEN cash[e] - x ELSE cash[e]
          /\ spent'[e] = IF e = a THEN spent[e] + x ELSE spent[e]
    BY <1>2 DEF TakeOut, IInv, TypeOK
  <2> QED
    BY <2>1, <2>2 DEF FundsBar
<1>3. ASSUME NEW c \in Clerk, PostOutflow(c) PROVE UNCHANGED FundsBar
  BY <1>2, <1>3 DEF PostOutflow, IInv, TypeOK, Request
<1>4. ASSUME NEW a \in Account, RepayCreditor(a) PROVE UNCHANGED FundsBar
  BY <1>2, <1>4, FundsAssumption DEF RepayCreditor
<1>5. ASSUME NEW c \in Clerk, NEW a, NEW x, CheckOutflow(c, a, x) PROVE UNCHANGED FundsBar
  BY <1>1, <1>5 DEF CheckOutflow
<1>6. ASSUME NEW c \in Clerk,
             \/ EnterTransfer(c) \/ TakeLock(c) \/ ReadFunds(c) \/ Rollback(c)
             \/ CheckDisbursement(c) \/ CheckExpense(c)
      PROVE  UNCHANGED FundsBar
  BY <1>1, <1>5, <1>6
     DEF EnterTransfer, TakeLock, ReadFunds, Rollback, CheckDisbursement, CheckExpense
<1>7. CASE UNCHANGED vars
  BY <1>1, <1>7 DEF vars
<1> QED
  BY <1>3, <1>4, <1>6, <1>7, ArriveFunds, PostFunds
     DEF Next, Transfer, Outflow, Funds!Next

\* However many transfers, disbursements and expenses interleave, every transfer
\* behaves as one step that moves money the account has, if what the unlocked
\* outflows took is left out of account.
THEOREM TransfersImplementCashFunds == Spec => TransfersMoveWhatIsThere
<1>1. Init => Funds!Init
  BY DEF Init, Funds!Init
<1>2. IInv /\ [Next]_vars => [Funds!Next]_([a \in Account |-> cash[a] + spent[a]])
  BY FundsStep DEF FundsBar
<1> QED
  BY <1>1, <1>2, IInvAlways, PTL DEF Spec, TransfersMoveWhatIsThere, Funds!Spec
=============================================================================
