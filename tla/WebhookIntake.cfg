SPECIFICATION FairSpec
CONSTANTS
  r1 = r1
  r2 = r2
  id1 = id1
  NoID = NoID
  Request = {r1, r2}
  DeliveryID = {id1}
  DeliveryOf <- MCDeliveryOf
  Window = 2
  MaxAttempts = 2
  MaxLives = 2
INVARIANTS
  TypeOK
  DuplicateHasPredecessor
  OneTracePerRequest
  TwinsAreAWindowApart
  ShutdownCutsNoRequest
PROPERTIES
  AnsweredAndReported
CHECK_DEADLOCK FALSE
