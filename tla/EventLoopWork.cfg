CONSTANTS
  MaxTimers = 1
  Delays = {0}
  Ops = {o1, o2}
  UnrefOps = {o2}
  MaxPendingOps = 1
  Imports = {i1}
  MaxHandles = 0
  Wasm = TRUE
  MayTerminate = TRUE
  HookActs = {}
  MaxClock = 0
SPECIFICATION Spec
INVARIANTS
  NoLostWake
  EndsQuiet
PROPERTIES
  ReadyOpsSettle
