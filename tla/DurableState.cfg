CONSTANTS
  Keys = {x}
  Calls = {c1, c2}
  MaxVersion = 2
  MaxFlushes = 2
  MaxFaults = 2
  MayCrash = TRUE
  Transactions = TRUE
SPECIFICATION Spec
INVARIANTS
  GateHolds
PROPERTIES
  Answered
  PromiseKept
