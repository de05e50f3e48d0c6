SPECIFICATION Spec
CONSTANTS
  Sid = {s1, s2, s3}
  Jti = {j1, j2, j3, j4}
  MaxSessions = 2
  None = None
  Pending = Pending
  Request = {p1}
  Grace = FALSE
  WaitAttempts = 0
  Unopened = Unopened
  Closed = Closed
SYMMETRY Symmetry
PROPERTY EvictsLeastRecentlyUsed
