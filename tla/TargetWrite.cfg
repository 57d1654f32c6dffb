SPECIFICATION Spec
CONSTANTS
  u1 = u1
  u2 = u2
  u3 = u3
  x = x
  old = old
  new = new
  Theirs = theirs
  UploadID = {u1, u2, u3}
  Path = {x}
  Version = {old, new, theirs}
  Files <- MCFiles
  Content <- MCContent
  Strategy <- MCStrategy
  AutoMerge <- MCAutoMerge
  InitialTree <- MCInitialTree
  MaxPushes = 1
  MaxSecond = 2
  MayReview = TRUE
  MayFail = TRUE
INVARIANTS
  OkIsInBase
  OrphansNeedTwins
PROPERTIES
  BaseOnlyGrows
  EndsProposed
CHECK_DEADLOCK FALSE
