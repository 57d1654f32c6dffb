SPECIFICATION FairSpec
CONSTANTS
  p1 = p1
  p2 = p2
  a = a
  b = b
  c = c
  x = x
  y = y
  z = z
  main = main
  deprecatedJson = deprecatedJson
  NoFile = NoFile
  Delivery = {p1, p2}
  Workflow = {a, b, c}
  Path = {x, y, z}
  Destination <- MCDestination
  CommitStrategy <- MCCommitStrategy
  AutoMerge <- MCAutoMerge
  UsePRTemplate <- MCUsePRTemplate
  DeprecationFile <- MCDeprecationFile
  Plan <- RetryPlan
  Matches <- RetryMatches
  MaxAttempts = 2
  MayPanic = TRUE
  DryRun = FALSE
INVARIANTS
  TypeOK
  LoneFileSurvives
PROPERTIES
  EveryDeliveryEnds
CHECK_DEADLOCK FALSE
