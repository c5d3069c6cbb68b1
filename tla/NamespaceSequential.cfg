SPECIFICATION Spec
CONSTANTS
  t1 = t1
  t2 = t2
  a = a
  b = b
  d = d
  Tasks <- OneTask
  Paths <- DeepTree
  Ops <- OneNameOps
  InitFiles <- OneFile
  InitMarkers <- NoPaths
  StoreMayFail = FALSE
  MaxCalls = 5
SYMMETRY Symmetry
INVARIANTS
  NegativeIsAbsent
  CachedKindsAgree
  AnswersAreTrue
