SPECIFICATION Spec
CONSTANTS
  MaxPayments = 2
  Waiver = {w1}
  Clerk = {c1}
  Ops <- InOrderOps
  Amounts = {1, 3}
  Principal = 2
  Rate = 1
  MinInterestDays = 1
  LastDay = 2
  MaxBackdate = 0
  MaxDrift = 4
  None = None
  c1 = c1
  c2 = c2
  w1 = w1
INVARIANTS ReceivableNotNegative ClosedOwesNoPrincipal
