CONSTANTS
  MAX_TASKS_AMOUNT = 4
  FRAMES = 5
  MAX_FILES_PER_TASK = 5
  MAX_OPEN_FILES = 3
  MAX_OPEN_DIR = 2
  Dir <- MCDir
  File <- MCFile
  Inode = {log, f}
  Log = log
  Sh = f
  MaxCalls = 4
SPECIFICATION Spec
INVARIANTS
  ThreadsTypeOK
  OwnFile
  FramesBacked
  OneWriter
  ReusedLast
PROPERTY CwdOfKin
CHECK_DEADLOCK FALSE
