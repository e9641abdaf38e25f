SPECIFICATION Spec
CONSTANTS
  Cron = {b1, b2}
  Clerk = {c1, c2}
  Loan = {l1, l2}
  MaxMonth = 2
  MaxSettlements = 2
  None = None
SYMMETRY Symmetry
INVARIANTS TypeOK BalanceFollowsJournal OnlyBatchesDeadlock
PROPERTIES BatchPostsWhatIsMissing PublishedIsAccrued
