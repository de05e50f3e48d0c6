SPECIFICATION FairSpec
CONSTANTS
  Sid = {s1}
  Jti = {j1, j2}
  Unopened = Unopened
  Closed = Closed
  None = None
  Tab = {t1}
  MaxAttempts = 1
  Faults = TRUE
INVARIANTS SessionInv
PROPERTIES OnlyRejectionClears NavigationSettles CallsSettle
