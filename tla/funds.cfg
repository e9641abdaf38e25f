SPECIFICATION FairSpec
CONSTANTS
  Account = {box, b1, b2}
  Location <- Places
  Clerk = {c1, c2}
  Amounts = {1, 2}
  MaxFunds = 2
  MaxSpent = 1
  None = None
  c1 = c1
  c2 = c2
  box = box
  b1 = b1
  b2 = b2
INVARIANTS TypeOK NoDoubleSpend
PROPERTIES TransfersMoveWhatIsThere TransfersEnd
