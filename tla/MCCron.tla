------------------------------- MODULE MCCron -------------------------------
(* The Gregorian calendar of ten years, days of two hours of two minutes,   *)
(* and expressions whose fields tell the rules apart.                       *)
EXTENDS Cron

CONSTANTS FirstYear, NewYear   \* its first of January is the weekday NewYear

Years == 10
Leap(y) == y % 4 = 0 /\ (y % 100 # 0 \/ y % 400 = 0)

CalendarMonths == 12 * Years
CalendarDays ==
  [m \in 1 .. CalendarMonths |->
     IF MonthOf(m) # 2 THEN MaxDays[MonthOf(m)]
     ELSE IF Leap(FirstYear + (m - 1) \div 12) THEN 29 ELSE 28]
CalendarDow[m \in 1 .. CalendarMonths] ==
  IF m = 1 THEN NewYear ELSE (CalendarDow[m - 1] + CalendarDays[m - 1]) % 7

Part(k, a, b, step) == [kind |-> k, a |-> a, b |-> b, step |-> step]
One(v) == Part("value", v, 0, 0)

SmallFields == {Star, {One(1)}}
DomFields ==
  {Star, {One(29)}, {Part("range", 30, 31, 0)}, {One(31), Part("all", 0, 0, 15)},
   {Part("value", 28, 0, 3)}, {Part("range", 30, 32, 0)}}
MonFields == {Star, {One(2)}, {One(4), One(6)}, {Part("all", 0, 0, 5)}}
DowFields == {Star, {One(7)}, {Part("range", 5, 7, 2)}}

CronSpecs ==
  [min : SmallFields, hour : SmallFields, dom : DomFields, mon : MonFields,
   dow : DowFields]

At(m, d) == [m |-> m, d |-> d, h |-> LastHour, i |-> LastMinute]
CronStarts == {At(1, 31), At(2, CalendarDays[2]), At(24, 31), At(50, 28), At(49, 31)}
=============================================================================
