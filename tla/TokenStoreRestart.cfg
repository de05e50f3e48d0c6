SPECIFICATION SpecR
CONSTANTS
  Sid = {s1}
  Jti = {j1, j2}
  MaxSessions = 1
  None = None
  Pending = Pending
  Request = {p1}
  Grace = TRUE
  WaitAttempts = 0
  Unopened = Unopened
  Closed = Closed
PROPERTY RevokedStaysRevoked
