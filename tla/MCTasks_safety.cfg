CONSTANTS
  Task = {hoo, sh, ch}
  Hoo = hoo
  Device = {kbd}
  Isr = isr
  None = none
  TIMETICKS = 1
  MaxNest = 2
SPECIFICATION Spec
INVARIANTS TypeOK LockOwner OnePlace CurrentRuns ExitNeverReturns SleepersSleep StackIsOwn
PROPERTIES LockStaysWithSwitch FollowsLifecycle
CHECK_DEADLOCK FALSE
