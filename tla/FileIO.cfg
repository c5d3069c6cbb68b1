SPECIFICATION Spec
CONSTANTS
  t1 = t1
  t2 = t2
  Tasks <- TwoTasks
  Inodes <- OneInode
  PathOf <- Itself
  ShardOf <- OneShard
  Workers = 4
  Ops <- AllOps
  BufferSize = 3
  MultipartThreshold = 99
  PartSize = 2
  Lengths <- Two
  Offsets <- ZeroOne
  FileSizes <- Zero
  TruncateSizes <- Zero
  PutMayFail = TRUE
  Before <- FourBytes
  MaxCalls = 2
  BlockSize = 2
  ReadOffsets <- ZeroTwo
  ReadSizes <- Two
  Window = 2
  Concurrency = 1
  SeqThreshold = 1
  MaxHandles = 2
  MaxReads = 2
SYMMETRY Symmetry
INVARIANTS
  TypeOK
  ReadsReturnRecentBytes
  HandlesAccountedFor
PROPERTY
  UsesWriteBuffer
