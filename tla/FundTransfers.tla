---------------------------- MODULE FundTransfers ----------------------------
(***************************************************************************)
(* Money between the cash box, the strong room and the bank accounts:      *)
(* createFundTransfer and createCapitalInjection (fund-transfer.service.ts) *)
(* among everything else that takes cash out of an account.                *)
(*                                                                         *)
(* An account's balance is the sum of its Cash journals; no row holds it,  *)
(* so no row can be locked.  A transfer takes an advisory lock named after *)
(* its source instead, then reads the balance, then posts.  A loan's       *)
(* disbursement reads the balance and posts without that lock, an expense  *)
(* is checked by the server action in another transaction and against the  *)
(* whole location, a creditor's repayment is not checked at all.           *)
(***************************************************************************)
EXTENDS Integers, FiniteSets, FiniteSetsExt

CONSTANTS
  Account,    \* a location with its sub-location: the bank has several
  Location,   \* the deposit_location of each account
  Clerk,      \* concurrent requests
  Amounts,    \* amounts a clerk may enter
  MaxFunds,   \* bound: money that ever comes in
  MaxSpent,   \* bound: what unlocked outflows take from one account
  None

ASSUME FundsAssumption ==
  /\ Amounts \subseteq Nat \ {0}
  /\ MaxFunds \in Nat
  /\ MaxSpent \in Nat
  /\ None \notin Clerk \cup Account

Request == [pc : {"idle", "waiting", "locked", "read", "checked"},
            from : Account \cup {None}, to : Account \cup {None},
            amount : Nat, seen : Int]
Asked(pc, a, b, x) == [pc |-> pc, from |-> a, to |-> b, amount |-> x, seen |-> 0]
Idle == Asked("idle", None, None, 0)

VARIABLES
  cash,    \* net of the Cash journals of each account
  spent,   \* history: what the unlocked outflows took from each account
  lock,    \* the transfer that holds the advisory lock of a source
  req      \* per clerk: the transfer or outflow under way

vars == <<cash, spent, lock, req>>

Init ==
  /\ cash = [a \in Account |-> 0]
  /\ spent = [a \in Account |-> 0]
  /\ lock = [a \in Account |-> None]
  /\ req = [c \in Clerk |-> Idle]

Received == MapThenSumSet(LAMBDA a : cash[a] + spent[a], Account)

\* createCapitalInjection, a payment received: no check, no lock.
Arrive(a) ==
  /\ \E x \in Amounts :
       /\ Received + x <= MaxFunds
       /\ cash' = [cash EXCEPT ![a] = @ + x]
  /\ UNCHANGED <<spent, lock, req>>

-----------------------------------------------------------------------------
(* A fund transfer.                                                        *)

\* createFundTransferAction: source and destination must differ.
EnterTransfer(c) ==
  /\ req[c] = Idle
  /\ \E a, b \in Account, x \in Amounts :
       /\ a # b
       /\ req' = [req EXCEPT ![c] = Asked("waiting", a, b, x)]
  /\ UNCHANGED <<cash, spent, lock>>

\* Mutant of TakeLock: a key of its own for every transfer.
TakeOwnLock(c) ==
  /\ req[c].pc = "waiting"
  /\ lock' = [lock EXCEPT ![req[c].from] = c]
  /\ req' = [req EXCEPT ![c].pc = "locked"]
  /\ UNCHANGED <<cash, spent>>
\* pg_advisory_xact_lock on the source's key
TakeLock(c) ==
  /\ req[c].pc = "waiting"
  /\ lock[req[c].from] = None
  /\ lock' = [lock EXCEPT ![req[c].from] = c]
  /\ req' = [req EXCEPT ![c].pc = "locked"]
  /\ UNCHANGED <<cash, spent>>

ReadFunds(c) ==
  /\ req[c].pc = "locked"
  /\ req' = [req EXCEPT ![c].pc = "read", ![c].seen = cash[req[c].from]]
  /\ UNCHANGED <<cash, spent, lock>>

\* Mutant of Release: a session lock, which outlives the transaction.
ReleaseRequest(c) == req' = [req EXCEPT ![c] = Idle] /\ UNCHANGED lock
\* The end of the transaction releases its advisory lock.
Release(c) ==
  /\ lock' = [a \in Account |-> IF lock[a] = c THEN None ELSE lock[a]]
  /\ req' = [req EXCEPT ![c] = Idle]

\* Mutant of Sufficient: the wrong side of the comparison.
SufficientForAny(c) == req[c].seen > 0
Sufficient(c) == req[c].seen >= req[c].amount

PostTransfer(c) ==
  /\ req[c].pc = "read"
  /\ Sufficient(c)
  /\ cash' = [cash EXCEPT ![req[c].from] = @ - req[c].amount,
                          ![req[c].to] = @ + req[c].amount]
  /\ Release(c)
  /\ UNCHANGED spent

\* InsufficientFundsError, an error or a lost connection.
Rollback(c) ==
  /\ req[c].pc \notin {"idle", "waiting"}
  /\ Release(c)
  /\ UNCHANGED <<cash, spent>>

-----------------------------------------------------------------------------
(* What takes cash out without the lock.                                   *)

InLocation(a) == MapThenSumSet(LAMBDA b : cash[b], {b \in Account : Location[b] = Location[a]})

CheckOutflow(c, a, x) ==
  /\ req[c] = Idle
  /\ req' = [req EXCEPT ![c] = Asked("checked", a, None, x)]
  /\ UNCHANGED <<cash, spent, lock>>

\* createLoan checks the account, inside its transaction.
CheckDisbursement(c) ==
  \E a \in Account, x \in Amounts : cash[a] >= x /\ CheckOutflow(c, a, x)

\* recordExpenseAction checks the whole location, before its transaction.
CheckExpense(c) ==
  \E a \in Account, x \in Amounts : InLocation(a) >= x /\ CheckOutflow(c, a, x)

TakeOut(a, x) ==
  /\ spent[a] + x <= MaxSpent
  /\ cash' = [cash EXCEPT ![a] = @ - x]
  /\ spent' = [spent EXCEPT ![a] = @ + x]

PostOutflow(c) ==
  /\ req[c].pc = "checked"
  /\ TakeOut(req[c].from, req[c].amount)
  /\ Release(c)

\* recordCreditorRepayment; so does the reversal of a payment that is deleted.
RepayCreditor(a) ==
  /\ \E x \in Amounts : TakeOut(a, x)
  /\ UNCHANGED <<lock, req>>

Transfer(c) == TakeLock(c) \/ ReadFunds(c) \/ PostTransfer(c)
Outflow(c) == CheckDisbursement(c) \/ CheckExpense(c) \/ PostOutflow(c)

Next ==
  \/ \E c \in Clerk : EnterTransfer(c) \/ Transfer(c) \/ Outflow(c) \/ Rollback(c)
  \/ \E a \in Account : Arrive(a) \/ RepayCreditor(a)

Spec == Init /\ [][Next]_vars

\* Postgres runs a transaction on to its end, and grants an advisory lock to
\* its waiters in turn.
Fairness ==
  \A c \in Clerk : /\ WF_vars(ReadFunds(c) \/ PostTransfer(c) \/ Rollback(c))
                   /\ SF_vars(TakeLock(c))

FairSpec == Spec /\ Fairness

-----------------------------------------------------------------------------
(* Properties.                                                             *)

\* An advisory lock is held by exactly the transfer between taking it and its
\* end.
LocksHeld ==
  \A c \in Clerk, a \in Account :
    lock[a] = c <=> req[c].pc \in {"locked", "read"} /\ req[c].from = a

\* Every variable keeps its type, every request has its accounts, and the locks
\* are those of the transfers under way.
TypeOK ==
  /\ cash \in [Account -> Int]
  /\ spent \in [Account -> Nat]
  /\ lock \in [Account -> Clerk \cup {None}]
  /\ req \in [Clerk -> Request]
  /\ \A c \in Clerk : req[c].pc # "idle" => req[c].from \in Account
  /\ \A c \in Clerk : req[c].pc \in {"waiting", "locked", "read"} => req[c].to \in Account
  /\ LocksHeld

\* Transfers never spend the same money twice ("concurrent transfers cannot both
\* spend the same available funds"): an account is overdrawn by no more than
\* the outflows that do not take the lock have taken from it.
NoDoubleSpend == \A a \in Account : cash[a] + spent[a] >= 0

\* Seen without the unlocked outflows, concurrent transfers implement CashFunds:
\* each takes place as one step that moves what is there.
Funds == INSTANCE CashFunds WITH funds <- [a \in Account |-> cash[a] + spent[a]]
TransfersMoveWhatIsThere == Funds!Spec

\* A transfer that waits for its source is carried out or refused, whatever
\* others wait for.
TransfersEnd == \A c \in Clerk : req[c].pc = "waiting" ~> req[c].pc = "idle"
=============================================================================
