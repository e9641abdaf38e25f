-------------------------- MODULE MCLoanSettlement --------------------------
(* LoanSettlement on small instances: which operations an instance has is  *)
(* the value its .cfg gives Ops.                                           *)
EXTENDS LoanSettlement, TLC

CONSTANTS c1, c2, w1

Symmetry == Permutations(Clerk)

\* No operation posts a split again: record and whatever only reverses.
ReversingOps == {"record", "delete", "mark", "waive", "undo", "request", "reject"}
\* Every way a payment row and a waiver row change.
CorrectingOps == {"record", "edit", "delete", "mark", "unmark", "waive", "undo"}
\* Receipts and waivers around the month-end batch.
InOrderOps == {"record", "delete", "mark", "waive", "undo", "accrue"}
=============================================================================
