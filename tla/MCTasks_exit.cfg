CONSTANTS
  Task = {hoo, sh, ch}
  Hoo = hoo
  Device = {}
  Isr = isr
  None = none
  TIMETICKS = 1
  MaxNest = 2
SPECIFICATION Spec
PROPERTY ExpiredNotResumed
CHECK_DEADLOCK FALSE
