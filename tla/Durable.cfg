CONSTANTS
  Workers = {a, b}
  MaxCalls = 3
  MaxLife = 2
  MaxSweep = 1
  Mailbox = 2
  MayFail = TRUE
  third = z
  Ids = {x, y, z}
  MaxConns = 2
  MaxOpens = 3
  MaxDowns = 2
  MaxBusy = 1
SPECIFICATION PartsSpec
INVARIANTS
  WaitInv
  InstancesInv
  LiveHasRow
PROPERTIES
  Answered
  ShutdownComplete
  CatalogAnswers
CHECK_DEADLOCK FALSE
