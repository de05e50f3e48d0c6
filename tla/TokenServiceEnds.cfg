SPECIFICATION FairSpec
CONSTANTS
  Sid = {s1}
  Jti = {j1, j2}
  MaxSessions = 1
  None = None
  Pending = Pending
  Request = {p1, p2}
  Grace = TRUE
  WaitAttempts = 2
  Unopened = Unopened
  Closed = Closed
PROPERTY RequestsEnd
