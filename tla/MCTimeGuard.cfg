SPECIFICATION Spec
CONSTANTS
  u1 = u1
  u2 = u2
  User = {u1}
  Limit <- OneUserLimit
  Grant = {0, 2}
  LastDay = 1
  MaxMessages = 1
  MaxCrashes = 1
  Absent = Absent
  Empty = Empty
  Torn = Torn
  Closed = Closed
  Nobody = Nobody
INVARIANT TypeOK
INVARIANT PamAgrees
INVARIANT BudgetHolds
PROPERTY LimitEnforced
PROPERTY FileHealed
PROPERTY DenialIsOfToday
