---------------------------- MODULE MCEnforcement ----------------------------
(* A two-day week of three-minute days, two schedules, a handful of          *)
(* configurations that differ in what enforcement must tell apart.           *)
EXTENDS Enforcement, TLC

CONSTANTS m1, none

Idle == [targets |-> {}, timed |-> FALSE, start |-> 0, finish |-> 0,
         days |-> {}, limit |-> none]

\* Overnight window on the first day: from the last minute to the first one of
\* the next day.
Bedtime(T) == [targets |-> T, timed |-> TRUE, start |-> DayLen - 1, finish |-> 0,
               days |-> {0}, limit |-> none]

Allowance(T, n) == [targets |-> T, timed |-> FALSE, start |-> 0, finish |-> 0,
                    days |-> {}, limit |-> n]

\* A window within the day that carries a limit as well.
Homework(T, n) == [targets |-> T, timed |-> TRUE, start |-> 1, finish |-> 1,
                   days |-> {1}, limit |-> n]

Policies == {
  <<Idle, Idle>>,
  <<Bedtime({m1}), Allowance({m1}, 2)>>,
  <<Allowance({m1}, 2), Homework({m1}, 2)>> }
=============================================================================
