------------------------------ MODULE MCMonthEnd ------------------------------
(* MonthEnd with the symmetries that are sound where no liveness is checked: *)
(* the sessions of a kind do the same, and so do the loans.                  *)
EXTENDS MonthEnd, TLC

Symmetry == Permutations(Cron) \cup Permutations(Clerk) \cup Permutations(Loan)
=============================================================================
