SPECIFICATION Spec
CONSTANTS
  Server = {s1, s2}
  Request = {r1, r2}
  Delegation = {d1, d2}
  Invitation = {i1, i2}
  InvitedAs = {"supervisor"}
INVARIANTS ChangeReachesItsProcess
PROPERTIES ClosedUnlessReadOpen
SYMMETRY Symmetry
