SPECIFICATION Spec
CONSTANTS
  m1 = m1
  none = none
  Mac = {m1}
  NumSched = 2
  DayLen = 3
  Days = 2
  NoLimit = none
  Config <- Policies
  Broken = Broken
  NoConfig = NoConfig
  UsageCap = 3
INVARIANT TypeOK
INVARIANT SetFollowsTracker
INVARIANT GrantHonoured
INVARIANT LoopHasConfig
INVARIANT WindowMatchesCalendar
PROPERTY ExhaustedStaysBlocked
PROPERTY NewDayIsFresh
PROPERTY ExpiredBypassSwept
