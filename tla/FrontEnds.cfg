SPECIFICATION Spec
CONSTANTS
  a = a
  b = b
  d = d
  Files <- TwoFiles
  Dirs <- OneDir
  Order <- InOrder
  InitObjects <- AtFirst
  StoreMayFail = TRUE
  PageSize = 2
  MaxInode = 4
  MaxHandles = 2
  MaxCalls = 4
INVARIANTS
  TypeOK
  RemovalLasts
  ListingExact
