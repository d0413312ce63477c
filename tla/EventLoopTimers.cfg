CONSTANTS
  MaxTimers = 2
  Delays = {0, 2}
  Ops = {}
  UnrefOps = {}
  MaxPendingOps = 1
  Imports = {}
  MaxHandles = 1
  Wasm = FALSE
  MayTerminate = FALSE
  HookActs = {"ref"}
  MaxClock = 3
SPECIFICATION Spec
INVARIANTS
  NoTimerLost
  ParksUntilNextTimer
PROPERTIES
  TimersFire
  TimersKept
