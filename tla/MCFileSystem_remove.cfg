CONSTANTS
  Name = {a, b}
  MAX_INODES = 4
  MAP_SECTORS = 3
  BITS_SECTOR = 4
  COUNTS = 2
  MAX_DIRITEM_PER_BLOCK = 2
  MAX_INODE_BLOCKS = 5
  LBA_ITEMS_PER_SECTOR = 2
  BYTES_SECTOR = 2
  Size = {1, 10}
  MaxCuts = 0
  MaxCalls = 5
  Dirs <- MCDirs
  DIR_LOADER <- MCLoader
SPECIFICATION Spec
CHECK_DEADLOCK FALSE
PROPERTY RemovesOne
