------------------------------ MODULE Scheduler ------------------------------
(***************************************************************************)
(* The calendar half of bedtime enforcement: roostos_engine/scheduler.py.  *)
(* A schedule is read against a clock that counts the minutes of a short   *)
(* cycle of days ("the week").  Targets are the hardware addresses that    *)
(* resolve_schedule_targets returns for the configuration in force.        *)
(***************************************************************************)
EXTENDS Integers, FiniteSets

CONSTANTS
  Mac,       \* hardware addresses of the household's devices
  NumSched,  \* number of entries of the "schedules" list
  DayLen,    \* minutes in a day
  Days,      \* days in the cycle (the week)
  NoLimit    \* daily_limit is absent

ASSUME CalendarAssumption ==
  /\ DayLen \in Nat \ {0}
  /\ Days \in Nat \ {0}
  /\ NumSched \in Nat
  /\ NoLimit \notin Int

Sched == 1 .. NumSched
Minute == 0 .. (DayLen * Days - 1)

\* One ScheduleConfig.  timed is FALSE when start_time or end_time is missing
\* or is not "HH:MM"; start and finish are minutes of the day.
Schedule == [targets : SUBSET Mac,
             timed   : BOOLEAN,
             start   : 0 .. (DayLen - 1),
             finish  : 0 .. (DayLen - 1),
             days    : SUBSET (0 .. (Days - 1)),
             limit   : Int \cup {NoLimit}]

DayOf(t) == t \div DayLen
MinuteOfDay(t) == t % DayLen
DayBefore(d) == (d - 1) % Days

\* Mutant: the small hours are looked up under their own day.
IsScheduleActiveOwnDay(s, now) ==
  LET hm        == MinuteOfDay(now)
      today     == DayOf(now)
      overnight == s.finish < s.start
  IN  /\ s.timed
      /\ today \in s.days
      /\ IF overnight THEN hm <= s.finish \/ hm >= s.start
                      ELSE s.start <= hm /\ hm <= s.finish

\* is_schedule_active: both ends of the window are inclusive, and a window that
\* ends before it starts runs past midnight and belongs to the day it began.
IsScheduleActive(s, now) ==
  LET hm        == MinuteOfDay(now)
      today     == DayOf(now)
      overnight == s.finish < s.start
  IN  /\ s.timed
      /\ \/ /\ ~overnight
            /\ today \in s.days
            /\ s.start <= hm /\ hm <= s.finish
         \/ /\ overnight
            /\ hm <= s.finish
            /\ DayBefore(today) \in s.days
         \/ /\ overnight
            /\ hm > s.finish
            /\ hm >= s.start
            /\ today \in s.days

Limited(s) == s.limit # NoLimit

-----------------------------------------------------------------------------
\* The calendar reading of a window, independent of the code's case split: it
\* opens at start on each listed day and stays open until the next minute that
\* reads finish.
WindowCovers(s, now) ==
  /\ s.timed
  /\ \E d \in s.days, k \in 0 .. ((s.finish - s.start) % DayLen) :
        now = (d * DayLen + s.start + k) % (DayLen * Days)
=============================================================================
