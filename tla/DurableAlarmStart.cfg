CONSTANTS
  Times = {1, 2}
  Retries = 1
  MaxNow = 2
  MaxAlarmFaults = 0
SPECIFICATION AlarmSpec
INVARIANT LateOnlyByTurn
