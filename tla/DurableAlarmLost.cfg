CONSTANTS
  Times = {0, 1, 3}
  Retries = 1
  MaxNow = 3
  MaxAlarmFaults = 1
SPECIFICATION AlarmSpec
INVARIANT LateOnlyByStart
