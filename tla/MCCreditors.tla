------------------------------ MODULE MCCreditors ------------------------------
(* Creditors with interchangeable clerks and crons. *)
EXTENDS Creditors, TLC

Symmetry == Permutations(Clerk) \cup Permutations(Cron)
=============================================================================
