SPECIFICATION EfcSpec
CONSTANTS
  f1 = f1
  f2 = f2
  f3 = f3
  Files <- MCFiles
  max_nfiles <- MCmax_nfiles
  MaxUser = 1
  MaxOpened = 1
  MaxObjects = 1
SYMMETRY Symmetric
INVARIANTS CountsAgree ReleaseWalksList NoFileLeftOpen
PROPERTY OnlyUnusedReleased
CHECK_DEADLOCK FALSE
CONSTRAINT TagsReset
