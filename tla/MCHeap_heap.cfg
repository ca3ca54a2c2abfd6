CONSTANTS
  FRAMES = 16
  KERN_METADATA = 16
  SIZE_BITMAP_VIRMM = 24
  PG_STRUCT_SIZE = 8
  CAPACITY = 2
  Bucket = {b1024}
  break_ = 1
  MAX_END = 16
  Large = {1, 2}
  Junk = {0, 5, 100}
  MaxCalls = 7
SPECIFICATION Spec
INVARIANTS
  HeapTypeOK
  AreasInOrder
  HeldApart
  FreesFound
  ChunksOwned
  FramesExact
  ExitFreesAll
CHECK_DEADLOCK FALSE
