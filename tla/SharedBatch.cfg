SPECIFICATION Spec
CONSTANTS
  d1 = d1
  d2 = d2
  Delivery = {d1, d2}
  FileCount <- Counts
  AutoMerge <- Wishes
  None = None
  Blank = Blank
INVARIANTS
  TypeOK
  LoneBatchIsSound
  SmallBatchesAgree
PROPERTIES
  ListsWhileSmall
CHECK_DEADLOCK FALSE
