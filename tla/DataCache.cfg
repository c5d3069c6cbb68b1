SPECIFICATION FairSpec
CONSTANTS
  t1 = t1
  t2 = t2
  Tasks <- TwoTasks
  Inodes <- OneInode
  Offsets <- TwoBlocks
  Sizes <- OneTwo
  BlockSize = 2
  MemoryLimit = 2
  DiskLimit = 3
  DiskEnabled = TRUE
  DiskMayFail = TRUE
  MaxCalls = 4
  MaxClock = 2
INVARIANTS
  TypeOK
  UsageCoversMemory
  DiskBounded
PROPERTIES
  LimitRestored
  CallsReturn
