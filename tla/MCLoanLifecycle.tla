--------------------------- MODULE MCLoanLifecycle ---------------------------
(* LoanLifecycle on small instances.                                       *)
EXTENDS LoanLifecycle, TLC

CONSTANTS c1, c2

Symmetry == Permutations(Clerk)
=============================================================================
