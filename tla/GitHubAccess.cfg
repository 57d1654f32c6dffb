SPECIFICATION FairSpec
CONSTANTS
  c1 = c1
  c2 = c2
  o1 = o1
  o2 = o2
  Caller = {c1, c2}
  Org = {o1, o2}
  TokenLife = 4
  Margin = 2
  Deadline = 2
  JwtCache = 1
  MaxWait = 1
  NoOrg = NoOrg
INVARIANTS
  TokenOutlivesContext
PROPERTIES
  RoundTripsEnd
CHECK_DEADLOCK FALSE
