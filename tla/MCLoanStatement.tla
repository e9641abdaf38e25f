---------------------------- MODULE MCLoanStatement ----------------------------
(* LoanStatement with an interest month of two days, in which a shilling *)
(* accrues a day, and a penalty from three days overdue.                      *)
EXTENDS LoanStatement

MCMultipliers == {20}
MCMonthEnds == {2, 4, 6}
MCAmounts == {1, 12, 25}
=============================================================================
