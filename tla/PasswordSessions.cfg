SPECIFICATION Spec
CONSTANTS
  Sid = {s1, s2}
  Jti = {s1, s2}
  MaxSessions = 2
  None = None
  Pending = Pending
  Request = {p1, p2, p3}
  Password = {old, new}
  Ticket = {t1}
  Initial = old
  Faults = TRUE
SYMMETRY Symmetry
INVARIANTS ResetTicketSetsOnce OldSessionsWereSpared IndInv
