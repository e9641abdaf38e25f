---------------------------- MODULE MCCorrectionRun ----------------------------
(* CorrectionRun for TLC: sessions of a kind and agents are interchangeable.   *)
EXTENDS CorrectionRun, TLC

Symmetry == Permutations(Tool) \cup Permutations(Clerk) \cup Permutations(Agent)
=============================================================================
