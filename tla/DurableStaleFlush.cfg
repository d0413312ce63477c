CONSTANTS
  Keys = {x}
  Calls = {c1, c2}
  MaxVersion = 2
  MaxFlushes = 2
  MaxFaults = 0
  MayCrash = FALSE
  Transactions = TRUE
SPECIFICATION Spec
INVARIANTS
  AckedDurable
