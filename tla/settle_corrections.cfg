SPECIFICATION FairSpec
CONSTANTS
  MaxPayments = 1
  Waiver = {w1}
  Clerk = {c1, c2}
  Ops <- CorrectingOps
  Amounts = {3}
  Principal = 2
  Rate = 1
  MinInterestDays = 1
  LastDay = 1
  MaxBackdate = 0
  MaxDrift = 4
  None = None
  c1 = c1
  c2 = c2
  w1 = w1
INVARIANTS TypeOK NoDoubleReversal BooksAgree
PROPERTIES RequestsEnd
