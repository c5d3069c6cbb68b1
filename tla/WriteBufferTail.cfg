SPECIFICATION Spec
CONSTANTS
  t1 = t1
  t2 = t2
  Tasks <- OneTask
  Inodes <- OneInode
  PathOf <- EachItsPath
  ShardOf <- OneShard
  Workers = 4
  Ops <- WriteAndFlush
  BufferSize = 9
  MultipartThreshold = 99
  PartSize = 2
  Lengths <- One
  Offsets <- ZeroOne
  FileSizes <- ZeroOne
  TruncateSizes <- ZeroOne
  PutMayFail = FALSE
  Before <- OldByte
  MaxCalls = 4
SYMMETRY Symmetry
INVARIANTS
  SyncedBytesAreStored
