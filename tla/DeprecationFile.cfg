SPECIFICATION Spec
CONSTANTS
  u1 = u1
  u2 = u2
  u3 = u3
  u4 = u4
  x = x
  y = y
  z = z
  a = a
  b = b
  Earlier = earlier
  Update = {u1, u2, u3, u4}
  FileName = {x, y, z}
  Target = {a, b}
  Deprecate <- MCDeprecate
  DryRun = FALSE
  InitialRows <- MCInitialRows
  MaxEdits = 2
  MayExpire = TRUE
INVARIANTS
  NoEntryTwice
  UnhinderedIsRecorded
PROPERTIES
  RecordsAtOnce
CHECK_DEADLOCK FALSE
