CONSTANTS
  Task = {t1, t2}
  None = none
  Sectors = {1, 5}
  COUNTS = 3
SPECIFICATION FairSpec
INVARIANTS TypeOK QueuedUntilFinished AtaLockOwners
PROPERTIES SoloOwnSector SoloServed
CHECK_DEADLOCK FALSE
