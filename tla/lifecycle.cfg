SPECIFICATION Spec
CONSTANTS
  MaxLoans = 3
  MaxPayments = 1
  Clerk = {c1, c2}
  Fresh = {2}
  CarriedInterest = {0, 1}
  None = None
  c1 = c1
  c2 = c2
SYMMETRY Symmetry
INVARIANTS TypeOK OneSuccessor  LedgerFollowsTerms ClosedHasNoPendingRequest
PROPERTY ClosedForGood
