------------------------------- MODULE RateTerms -------------------------------
(***************************************************************************)
(* What rate corrections promise of one loan: its rate changes only before *)
(* anything was settled against it, each time by a person who was given    *)
(* the permission to set that rate, or to approve it when another asked.   *)
(***************************************************************************)
EXTENDS Integers

CONSTANTS
  Person,
  NeedsApproval(_),  \* whether not everyone may set this rate
  Approval(_)        \* the permission that setting it alone then needs

VARIABLES
  rate,
  settled,   \* a payment, a waiver or a rollover was recorded
  terms,     \* who set the rate, at whose request
  held       \* permissions each person was ever given

Init == settled = FALSE /\ held = [u \in Person |-> {}]

MaySet(u, r) == \/ ~NeedsApproval(r)
                \/ held[u] \cap {Approval(r), "rate-adjust"} # {}
MayApprove(u, r) == {Approval(r), "approve-standard"} \subseteq held[u]

Correct ==
  /\ ~settled
  /\ rate' # rate
  /\ \E by, asked \in Person :
       /\ terms' = [by |-> by, asked |-> asked]
       /\ IF by = asked THEN MaySet(by, rate') ELSE MayApprove(by, rate')
  /\ UNCHANGED <<settled, held>>

Settle == settled' = TRUE /\ UNCHANGED <<rate, terms, held>>

Give(u) == /\ held[u] \subseteq held'[u]
           /\ held' = [held EXCEPT ![u] = held'[u]]
           /\ UNCHANGED <<rate, settled, terms>>

Next == Correct \/ Settle \/ \E u \in Person : Give(u)

Spec == Init /\ [][Next]_<<rate, settled, terms, held>>
=============================================================================
