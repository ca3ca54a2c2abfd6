CONSTANTS
  Task = {hoo, sh, ch}
  Hoo = hoo
  Device = {}
  Isr = isr
  None = none
  TIMETICKS = 1
  MaxNest = 2
SPECIFICATION FairSpec
PROPERTIES ReadyRuns ExpiredReaped
CHECK_DEADLOCK FALSE
