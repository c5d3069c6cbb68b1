SPECIFICATION FairSpec
CONSTANTS
  t1 = t1
  t2 = t2
  Tasks <- TwoTasks
  Inodes <- OneInode
  PathOf <- EachItsPath
  ShardOf <- OneShard
  Workers = 2
  Ops <- AllOps
  BufferSize = 2
  MultipartThreshold = 3
  PartSize = 2
  Lengths <- OneThree
  Offsets <- Zero
  FileSizes <- ZeroOne
  TruncateSizes <- ZeroOne
  PutMayFail = TRUE
  Before <- OldByte
  MaxCalls = 3
INVARIANTS
  TypeOK
  CleanMeansEmpty
  BuffersBounded
  BytesAccountedFor
  AcceptanceOrder
PROPERTY
  RequestsAnswered
