SPECIFICATION Spec
CONSTANTS
  u1 = u1
  u2 = u2
  User = {u1}
  Limit <- OneUserLimit
  Grant = {0}
  LastDay = 1
  MaxMessages = 0
  MaxCrashes = 1
  Absent = Absent
  Empty = Empty
  Torn = Torn
  Closed = Closed
  Nobody = Nobody
PROPERTY DenialHolds
