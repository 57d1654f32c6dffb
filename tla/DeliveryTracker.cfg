SPECIFICATION TrackerFairSpec
CONSTANTS
  DeliveryID = {d1, d2}
  TTL = 4
  HistoryMax = 2
INVARIANTS
  TrackerTypeOK
PROPERTIES
  ImplementsOncePerWindow
  ExpiredEntriesLeave
