SPECIFICATION Spec
CONSTANTS
  u1 = u1
  q1 = q1
  q2 = q2
  q3 = q3
  r1 = r1
  Admin = Admin
  User = {u1}
  Repo = {r1}
  Request = {q1, q2, q3}
  UserOf <- OneUser
  Row <- Rows
  TTL = 1
  MaxRequest = 1
SYMMETRY Symmetric
INVARIANTS
  OneReplayPerPR
PROPERTIES
  AllowedLately
  HiddenForAReason
