SPECIFICATION Spec
CONSTANTS
  p1 = p1
  p2 = p2
  a = a
  b = b
  c = c
  x = x
  y = y
  z = z
  main = main
  deprecatedJson = deprecatedJson
  NoFile = NoFile
  Delivery = {p1, p2}
  Workflow = {a, b, c}
  Path = {x, y, z}
  Destination <- MCDestination
  CommitStrategy <- MCCommitStrategy
  AutoMerge <- MCAutoMerge
  UsePRTemplate <- MCUsePRTemplate
  DeprecationFile <- MCDeprecationFile
  Plan <- PairPlan
  Matches <- PairMatches
  MaxAttempts = 1
  MayPanic = FALSE
  DryRun = FALSE
INVARIANTS
  NoQueuedFileLost
CHECK_DEADLOCK FALSE
