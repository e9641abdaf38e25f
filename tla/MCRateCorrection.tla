--------------------------- MODULE MCRateCorrection ---------------------------
(* RateCorrection with an officer who asks and a manager who may review.    *)
EXTENDS RateCorrection, TLC

CONSTANTS s1, s2, officer, manager

UserOfSession == [s \in Session |-> IF s = s1 THEN officer ELSE manager]
GrantedTo == [u \in User |-> IF u = officer THEN {} ELSE Permission]
=============================================================================
