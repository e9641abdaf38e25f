SPECIFICATION FairSpec
CONSTANTS
  Session = {s1, s2}
  User = {officer, manager}
  UserOf <- UserOfSession
  Rate = {1, 3}
  Issued = 3
  StandardFrom = 2
  FreeFrom = 3
  Grantable <- GrantedTo
  MaxRequests = 2
  MaxDays = 1
  None = None
  s1 = s1
  s2 = s2
  officer = officer
  manager = manager
INVARIANTS TypeOK OnePending AppliedOnce ClosedHasNoPendingRequest PostedAtPresentRate
PROPERTIES CorrectionsKeepTerms RequestsEnd
