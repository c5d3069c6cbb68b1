SPECIFICATION Spec
CONSTANTS
  t1 = t1
  t2 = t2
  a = a
  b = b
  d = d
  Tasks <- TwoTasks
  Paths <- DeepTree
  Ops <- ChangingOps
  InitFiles <- NoPaths
  InitMarkers <- NoPaths
  StoreMayFail = TRUE
  MaxCalls = 4
SYMMETRY Symmetry
INVARIANTS
  TypeOK
PROPERTIES
  ContentsKept
