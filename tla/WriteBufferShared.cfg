SPECIFICATION Spec
CONSTANTS
  t1 = t1
  t2 = t2
  Tasks <- TwoTasks
  Inodes <- OneInode
  PathOf <- EachItsPath
  ShardOf <- OneShard
  Workers = 4
  Ops <- WithoutRelease
  BufferSize = 2
  MultipartThreshold = 99
  PartSize = 2
  Lengths <- OneTwo
  Offsets <- ZeroOne
  FileSizes <- One
  TruncateSizes <- Zero
  PutMayFail = FALSE
  Before <- OldByte
  MaxCalls = 4
SYMMETRY Symmetry
INVARIANTS
  SyncedBytesWereStored
PROPERTIES
  LaterWriteWins
