SPECIFICATION Spec
CONSTANTS
  Message = {m1}
  Run = {r1, r2}
  NoMessage = NoMessage
  MaxAttempts = 2
  MaxStops = 1
  Step <- MCStep
  Email = {e1}
  Invitation = {i1}
  Proc = {p1, p2}
  None = None
  Faults = FALSE

INVARIANTS RepeatedDeletionCompletes
CHECK_DEADLOCK FALSE
