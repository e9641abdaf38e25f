------------------------------ MODULE CashFunds ------------------------------
(***************************************************************************)
(* What fund transfers promise of the money at each location: a transfer   *)
(* moves what is there, all at once, and nothing else takes money out.     *)
(***************************************************************************)
EXTENDS Integers

CONSTANT Account

VARIABLE funds

Init == funds = [a \in Account |-> 0]

\* Money comes in: a receipt or a capital injection.
Arrive(a) == /\ funds'[a] \in Nat
             /\ funds'[a] > funds[a]
             /\ funds' = [funds EXCEPT ![a] = funds'[a]]

\* A transfer takes place or, when there is too little, does not.
Move(a, b) ==
  \E x \in 1..funds[a] : funds' = [funds EXCEPT ![a] = @ - x, ![b] = @ + x]

Next == \/ \E a \in Account : Arrive(a)
        \/ \E a, b \in Account : a # b /\ Move(a, b)

Spec == Init /\ [][Next]_funds
=============================================================================
