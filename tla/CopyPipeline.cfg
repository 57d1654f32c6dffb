SPECIFICATION CountsSpec
CONSTANTS
  p1 = p1
  p2 = p2
  a = a
  b = b
  c = c
  x = x
  y = y
  z = z
  main = main
  deprecatedJson = deprecatedJson
  NoFile = NoFile
  Delivery = {p1, p2}
  Workflow = {a, b, c}
  Path = {x, y, z}
  Destination <- MCDestination
  CommitStrategy <- MCCommitStrategy
  AutoMerge <- MCAutoMerge
  UsePRTemplate <- MCUsePRTemplate
  DeprecationFile <- MCDeprecationFile
  Plan <- MCPlan
  Matches <- MCMatches
  MaxAttempts = 1
  MayPanic = FALSE
  DryRun = FALSE
INVARIANTS
  BatchSettingsAgree
  UploadedWhereItBelongs
  DrainedWhenQuiet
  LoneDeliveryUploadsItsOwn
  LoneDeliveryRecordsNames
  LoneReportIsExact
  FailuresShow
CHECK_DEADLOCK FALSE
