SPECIFICATION Spec
CONSTANTS
  t1 = t1
  t2 = t2
  Tasks <- OneTask
  Inodes <- OneInode
  PathOf <- Itself
  ShardOf <- OneShard
  Workers = 4
  Ops <- NoOps
  BufferSize = 9
  MultipartThreshold = 99
  PartSize = 2
  Lengths <- Two
  Offsets <- Zero
  FileSizes <- Zero
  TruncateSizes <- Zero
  PutMayFail = FALSE
  Before <- FourBytes
  MaxCalls = 1
  BlockSize = 4
  ReadOffsets <- ZeroTwo
  ReadSizes <- Two
  Window = 2
  Concurrency = 1
  SeqThreshold = 3
  MaxHandles = 1
  MaxReads = 3
INVARIANTS
  ReadsReturnRecentBytes
