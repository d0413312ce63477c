CONSTANTS
  main = main
  a = a
  b = b
  c = c
  util = util
  Modules = {main, a, b, c, util}
  Entry = main
  Imports <- SharedImports
  Throws = {b, c}
  Tla = {a, c}
  Flaky = {util, c}
  Requests = {q1, q2}
  Promises = {p1, p2, p3}
  Collisions = FALSE
  ListenerActs = {"claim"}
  Times = {0, 2}
  Retries = 1
  MaxNow = 2
  MaxAlarmFaults = 1
SPECIFICATION PartsSpec
INVARIANTS
  GraphInv
  ResolvesEvaluated
  CoversUnlessFailed
  RetractsOnlyReports
  NoneForgotten
  EarlyNeverLate
  RunsAgain
PROPERTIES
  ImportsSettle
  LateHandlerRetracts
  AskedTimeKept
  AlarmRuns
