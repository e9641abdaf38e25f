--------------------------- MODULE MCFundTransfers ---------------------------
(* FundTransfers with a cash box and two accounts of one bank.             *)
EXTENDS FundTransfers, TLC

CONSTANTS c1, c2, box, b1, b2

Places == [a \in Account |-> IF a = box THEN "cash" ELSE "bank"]
=============================================================================
