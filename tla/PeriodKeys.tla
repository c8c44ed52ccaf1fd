------------------------------ MODULE PeriodKeys ------------------------------
(***************************************************************************)
(* The daily and weekly periods of the planner (planner/period.ts in the   *)
(* main process, planner/reset.ts in the renderer).  A time is a local     *)
(* calendar day and a minute of it, which is what Date's setHours and      *)
(* setDate work on; day 0 is a Sunday.  A period key is the day its reset  *)
(* falls on.                                                               *)
(***************************************************************************)
EXTENDS Integers

CONSTANTS
    DayMinutes,     \* minutes of a day (1440)
    DefaultReset    \* 09:00

ASSUME PeriodAssumption ==
    DayMinutes \in Nat \ {0} /\ DefaultReset \in 0..(DayMinutes - 1)

Minutes == 0..(DayMinutes - 1)
Times == [day : Int, minute : Minutes]

Before(s, t) == s.day < t.day \/ (s.day = t.day /\ s.minute < t.minute)

\* A reset time that is not hh:mm, or out of range, counts as 09:00.
ParseHhmm(hhmm) == IF hhmm \in Minutes THEN hhmm ELSE DefaultReset

\* Math.max(0, Math.min(6, weeklyResetDay))
ResetDay(d) == IF d < 0 THEN 0 ELSE IF d > 6 THEN 6 ELSE d

\* The reset a time's day began with.
DailyStart(now, hhmm) ==
    LET start == [day |-> now.day, minute |-> ParseHhmm(hhmm)]
    IN  IF Before(now, start) THEN [start EXCEPT !.day = @ - 1] ELSE start

dailyPeriodKey(now, hhmm) == DailyStart(now, hhmm).day

\* Variant: on the reset day the time of day is not looked at.
WeeklyStartAtMidnight(now, hhmm, d) ==
    [day |-> now.day - (((now.day % 7) - ResetDay(d) + 7) % 7), minute |-> ParseHhmm(hhmm)]

\* The reset a time's week began with.
WeeklyStart(now, hhmm, d) ==
    LET daysSinceReset == ((now.day % 7) - ResetDay(d) + 7) % 7
        start == [day |-> now.day - daysSinceReset, minute |-> ParseHhmm(hhmm)]
    IN  IF Before(now, start) THEN [start EXCEPT !.day = @ - 7] ELSE start

weeklyPeriodKey(now, hhmm, d) == WeeklyStart(now, hhmm, d).day

\* Variant: the reset of today is taken also at the very minute it happens.
NextDailyResetNow(now, hhmm) ==
    LET reset == [day |-> now.day, minute |-> ParseHhmm(hhmm)]
    IN  IF ~Before(reset, now) THEN reset ELSE [reset EXCEPT !.day = @ + 1]

\* What the pages count down to.
NextDailyReset(now, hhmm) ==
    LET reset == [day |-> now.day, minute |-> ParseHhmm(hhmm)]
    IN  IF Before(now, reset) THEN reset ELSE [reset EXCEPT !.day = @ + 1]

NextWeeklyReset(now, hhmm, d) == [WeeklyStart(now, hhmm, d) EXCEPT !.day = @ + 7]

-----------------------------------------------------------------------------
(***************************************************************************)
(* The planner of the web application (modules/planner/lib/period.ts) moves *)
(* the time back by the reset hour first, so that every period begins at    *)
(* midnight.  Its reset is a whole hour.                                    *)
(***************************************************************************)
ShiftedDay(now, hour) == IF now.minute < hour THEN now.day - 1 ELSE now.day

getDailyPeriodKey(now, hour) == ShiftedDay(now, hour)

\* Variant: the weekday is that of the time itself.
WebWeekdayNotShifted(now, d, hour) ==
    ShiftedDay(now, hour) - (((now.day % 7) - d + 7) % 7)

getWeeklyPeriodKey(now, d, hour) ==
    LET day == ShiftedDay(now, hour)
    IN  day - (((day % 7) - d + 7) % 7)

getNextDailyResetAt(now, hour) ==
    LET next == [day |-> now.day, minute |-> hour]
    IN  IF Before(now, next) THEN next ELSE [next EXCEPT !.day = @ + 1]

getNextWeeklyResetAt(now, d, hour) ==
    LET next == [day |-> now.day, minute |-> hour]
        diff == (d - (now.day % 7) + 7) % 7
    IN  [next EXCEPT !.day = @ + IF diff = 0 /\ ~Before(now, next) THEN 7 ELSE diff]
=============================================================================
