CONSTANTS
  Workers = {a, b}
  MaxCalls = 3
  MaxLife = 2
  MaxSweep = 1
  Mailbox = 2
  MayFail = FALSE
SPECIFICATION Spec
INVARIANTS
  StartsFirst
CHECK_DEADLOCK FALSE
