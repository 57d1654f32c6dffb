SPECIFICATION Spec
CONSTANTS
  l1 = l1
  l2 = l2
  f1 = f1
  f2 = f2
  shared = shared
  Loader = {l1, l2}
  Main = Main
  File = {f1, f2, shared}
  Version = {v1, v2}
  RefCount = 2
  Reads <- MCReads
  TTL = 2
  MaxLoad = 1
  Bad = Bad
  Skipped = Skipped
  NoEntry = NoEntry
  MaxTroubles = 2
SYMMETRY Symmetric
INVARIANTS
  ServedIsRecent
PROPERTIES
  InvalidationForgets
CHECK_DEADLOCK FALSE
