SPECIFICATION ServiceSpec
CONSTANTS
  Sid = {s1, s2}
  Jti = {j1, j2, j3}
  MaxSessions = 1
  None = None
  Pending = Pending
  Request = {p1, p2, p3}
  Grace = TRUE
  Busy = 2
  WaitAttempts = 1
  Unopened = Unopened
  Closed = Closed
SYMMETRY Symmetry
INVARIANTS OneSuccessor NoStaleAnswer IndInv
PROPERTIES ClosedStaysClosed RefusedOnlyIfOvertaken AllowlistSpec
