SPECIFICATION Spec
CONSTANTS
  Tool = {t1, t2}
  Clerk = {c1}
  Agent = {a1, a2}
  MaxSource = 2
  MaxReviews = 2
  MaxAttempt = 1
  None = None
SYMMETRY Symmetry
PROPERTIES AppliesAtomically LatestReviewStands
CHECK_DEADLOCK FALSE
