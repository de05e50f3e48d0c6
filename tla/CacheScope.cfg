SPECIFICATION ConsoleSpec
CONSTANTS
  None = None
  Users = {"u1", "u2"}
  Tenants = {"t1", "t2"}
  MaxVersion = 1
  MaxSwitches = 1
INVARIANT ShownBelongsToTenant
