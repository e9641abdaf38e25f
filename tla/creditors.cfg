SPECIFICATION Spec
CONSTANTS
  Clerk = {c1, c2}
  Cron = {b1}
  Invested = {2}
  Repaid = {1, 5}
  Rate = 1
  MaxDay = 2
  MaxRepayments = 2
  None = None
SYMMETRY Symmetry
INVARIANTS OverpaidOnlyByOverlap AccruedOnlyOnce
CHECK_DEADLOCK FALSE
