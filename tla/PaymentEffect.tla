---------------------------- MODULE PaymentEffect ----------------------------
(***************************************************************************)
(* What a payment promises the books while nobody re-posts it: it counts   *)
(* once, as one split that never changes while it counts, and once voided  *)
(* (deleted, or marked wrong) it leaves nothing and stays void.            *)
(* LoanSettlement implements this for its recording and reversing          *)
(* operations; edits and unmarking post again and are outside of it.       *)
(***************************************************************************)
EXTENDS Naturals

CONSTANT Payment

Part == [interest : Nat, principal : Nat, overpaid : Nat]
NoPart == [interest |-> 0, principal |-> 0, overpaid |-> 0]

VARIABLES
  effect,   \* per payment: not recorded yet, counted, or void
  posted    \* per payment: what its journals amount to

Init ==
  /\ effect = [p \in Payment |-> "none"]
  /\ posted = [p \in Payment |-> NoPart]

Count(p) ==
  /\ effect[p] = "none"
  /\ effect' = [effect EXCEPT ![p] = "counted"]
  /\ posted'[p] \in Part
  /\ posted' = [posted EXCEPT ![p] = posted'[p]]

Void(p) ==
  /\ effect[p] = "counted"
  /\ effect' = [effect EXCEPT ![p] = "void"]
  /\ posted' = [posted EXCEPT ![p] = NoPart]

Next == \E p \in Payment : Count(p) \/ Void(p)

Spec == Init /\ [][Next]_<<effect, posted>>
=============================================================================
