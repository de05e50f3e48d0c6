SPECIFICATION Spec
CONSTANTS
  Sid = {s1, s2}
  Jti = {s1, s2}
  MaxSessions = 2
  None = None
  Pending = Pending
  Request = {p1, p2}
  Password = {old, new}
  Ticket = {t1}
  Initial = old
  Faults = FALSE
SYMMETRY Symmetry
INVARIANT PasswordChangeClosesSessions
