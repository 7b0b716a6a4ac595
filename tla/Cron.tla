-------------------------------- MODULE Cron --------------------------------
(***************************************************************************)
(* cron_restart schedules (internal/cron/cron.go): what Parse accepts, and *)
(* the search of Next for the first matching minute, one skip a step.      *)
(*                                                                         *)
(* A field is a set of parts, as they stand between its commas; spelling   *)
(* (names of months and weekdays, white space) is left out.  The calendar  *)
(* is a parameter, and so are the lengths of an hour and of a day.         *)
(***************************************************************************)
EXTENDS Integers

CONSTANTS
  Specs,      \* expressions given to Parse
  Starts,     \* the minutes Next is asked about
  Months,     \* the calendar has months 1 .. Months, a January first
  Days,       \* Days[m]: the length of month m
  FirstDow,   \* FirstDow[m]: the weekday of its first day, 0 = sunday
  LastHour,   \* of a day (23)
  LastMinute  \* of an hour (59)

ASSUME CalendarAssumption ==
  /\ Months \in Nat /\ Days \in [1 .. Months -> 28 .. 31]
  /\ FirstDow \in [1 .. Months -> 0 .. 6]
  /\ LastHour \in Nat /\ LastMinute \in Nat

(* The calendar's minutes.                                                  *)
Times == [m : 1 .. Months, d : 1 .. 31, h : 0 .. LastHour, i : 0 .. LastMinute]
IsTime(u) == u \in Times /\ u.d <= Days[u.m]

Before(u, v) ==
  \/ u.m < v.m
  \/ u.m = v.m /\ u.d < v.d
  \/ u.m = v.m /\ u.d = v.d /\ u.h < v.h
  \/ u.m = v.m /\ u.d = v.d /\ u.h = v.h /\ u.i < v.i

(* A search goes on for four years and a day, and ends in the calendar.     *)
ASSUME StartsAssumption == \A u \in Starts : IsTime(u) /\ u.m + 51 <= Months

-----------------------------------------------------------------------------
(* Parse.                                                                   *)

(* A part is a value, a range of values, or all of them (kind), with a      *)
(* step, 0 when there is none.                                              *)
Star == {[kind |-> "all", a |-> 0, b |-> 0, step |-> 0]}

(* A field is not empty: between two commas there is a part.                *)
ASSUME SpecsAssumption ==
  \A s \in Specs : \A f \in {s.min, s.hour, s.dom, s.mon, s.dow} :
    /\ f # {}
    /\ \A part \in f : /\ part.kind \in {"all", "range", "value"}
                       /\ part.a \in Int /\ part.b \in Int /\ part.step \in Int

(* vixie: `n/step` runs from n to the field's end.                          *)
Ends(part, lo, hi) ==
  CASE part.kind = "all" -> <<lo, hi>>
    [] part.kind = "range" -> <<part.a, part.b>>
    [] part.kind = "value" -> <<part.a, IF part.step = 0 THEN part.a ELSE hi>>

InRange(part, lo, hi) ==
  LET e == Ends(part, lo, hi) IN lo <= e[1] /\ e[2] <= hi /\ e[1] <= e[2]

ParsePart(part, lo, hi) ==
  LET e == Ends(part, lo, hi)
  IN  {v \in e[1] .. e[2] : part.step = 0 \/ (v - e[1]) % part.step = 0}

ParseField(f, lo, hi) == UNION {ParsePart(part, lo, hi) : part \in f}

Valid(f, lo, hi) == \A part \in f : part.step >= 0 /\ InRange(part, lo, hi)

Dom == 1 .. 31
Mon == 1 .. 12
Dow == 0 .. 6

(* Sunday is 0 and 7.                                                       *)
FoldSunday(raw) == (raw \cap Dow) \cup {v \in {0} : 7 \in raw}

Schedule(min, hour, dom, mon, dow, domR, dowR) ==
  [min |-> min, hour |-> hour, dom |-> dom, mon |-> mon, dow |-> dow,
   domR |-> domR, dowR |-> dowR]

Accepted(s) ==
  /\ Valid(s.min, 0, LastMinute) /\ Valid(s.hour, 0, LastHour)
  /\ Valid(s.dom, 1, 31) /\ Valid(s.mon, 1, 12) /\ Valid(s.dow, 0, 7)

(* domR, dowR: the field is not a bare star.                                *)
Parse(s) ==
  Schedule(ParseField(s.min, 0, LastMinute), ParseField(s.hour, 0, LastHour),
           ParseField(s.dom, 1, 31), ParseField(s.mon, 1, 12),
           FoldSunday(ParseField(s.dow, 0, 7)), s.dom # Star, s.dow # Star)

(* The longest a month can be.                                              *)
MaxDays == <<31, 29, 31, 30, 31, 30, 31, 31, 30, 31, 30, 31>>

(* Only a day of the month that no allowed month has is refused.            *)
FeasibleShort(s) ==
  s.dowR \/ \E m \in s.mon : s.dom \cap (1 .. MaxDays[m] - 1) # {}
Feasible(s) ==
  s.dowR \/ \E m \in s.mon : s.dom \cap (1 .. MaxDays[m]) # {}

(* The months have the lengths of the calendar in use, a leap year's        *)
(* February one day more.                                                   *)
MonthOf(m) == ((m - 1) % 12) + 1
ASSUME MonthsAssumption ==
  \A m \in 1 .. Months :
    IF MonthOf(m) = 2 THEN Days[m] \in {28, 29} ELSE Days[m] = MaxDays[MonthOf(m)]

(* The shorthands are given by their bits; a field is restricted when a bit *)
(* is missing.                                                              *)
Aliases ==
  [yearly  |-> Schedule({0}, {0}, {1}, {1}, Dow, TRUE, FALSE),
   monthly |-> Schedule({0}, {0}, {1}, Mon, Dow, TRUE, FALSE),
   weekly  |-> Schedule({0}, {0}, Dom, Mon, {0}, FALSE, TRUE),
   daily   |-> Schedule({0}, {0}, Dom, Mon, Dow, FALSE, FALSE),
   hourly  |-> Schedule({0}, 0 .. LastHour, Dom, Mon, Dow, FALSE, FALSE)]

-----------------------------------------------------------------------------
(* What a schedule means.                                                   *)

Weekday(u) == (FirstDow[u.m] + u.d - 1) % 7

(* Both days restricted: either; one: that one.                             *)
DayMatches(s, u) ==
  \/ ~s.domR /\ ~s.dowR
  \/ s.domR /\ u.d \in s.dom
  \/ s.dowR /\ Weekday(u) \in s.dow

Matches(s, u) ==
  /\ MonthOf(u.m) \in s.mon /\ DayMatches(s, u)
  /\ u.h \in s.hour /\ u.i \in s.min

-----------------------------------------------------------------------------
(* Next.                                                                    *)

VARIABLES
  phase,   \* "parse", "refused", "search", "found" or "gaveup"
  spec,    \* the expression
  sched,   \* the schedule Parse made of it
  after,   \* Next is asked for the first minute after this one
  t        \* where the search is

vars == <<phase, spec, sched, after, t>>

NoSchedule == Schedule({}, {}, {}, {}, {}, FALSE, FALSE)
Expressions == ([alias : {"none"}, of : Specs])
               \cup [alias : DOMAIN Aliases, of : {NoSchedule}]

Init ==
  /\ phase = "parse" /\ spec \in Expressions
  /\ after \in Starts /\ sched = NoSchedule /\ t = after

(* The dates that time.Date makes of a day, or an hour, past the last one.  *)
NextMonth(u) == [m |-> u.m + 1, d |-> 1, h |-> 0, i |-> 0]
NextDay(u) == IF u.d < Days[u.m] THEN [m |-> u.m, d |-> u.d + 1, h |-> 0, i |-> 0]
              ELSE NextMonth(u)
NextHour(u) == IF u.h < LastHour THEN [m |-> u.m, d |-> u.d, h |-> u.h + 1, i |-> 0]
               ELSE NextDay(u)
NextMinute(u) == IF u.i < LastMinute THEN [u EXCEPT !.i = u.i + 1] ELSE NextHour(u)

(* Four years and a day after u.                                            *)
Limit(u) ==
  LET m == u.m + 48
  IN  IF u.d < Days[m] THEN [u EXCEPT !.m = m, !.d = u.d + 1]
      ELSE [u EXCEPT !.m = m + 1, !.d = u.d + 1 - Days[m]]

(* Bad fields, and schedules that match no time, are refused.               *)
ParseOkAtOnce ==
  /\ phase = "parse"
  /\ \/ spec.alias # "none" /\ sched' = Aliases[spec.alias]
     \/ /\ spec.alias = "none" /\ Accepted(spec.of) /\ Feasible(Parse(spec.of))
        /\ sched' = Parse(spec.of)
  /\ phase' = "search" /\ t' = after /\ UNCHANGED <<spec, after>>
ParseOk ==
  /\ phase = "parse"
  /\ \/ spec.alias # "none" /\ sched' = Aliases[spec.alias]
     \/ /\ spec.alias = "none" /\ Accepted(spec.of) /\ Feasible(Parse(spec.of))
        /\ sched' = Parse(spec.of)
  /\ phase' = "search" /\ t' = NextMinute(after) /\ UNCHANGED <<spec, after>>

ParseRefuses ==
  /\ phase = "parse" /\ spec.alias = "none"
  /\ \/ ~Accepted(spec.of) /\ sched' = sched
     \/ /\ Accepted(spec.of) /\ ~Feasible(Parse(spec.of))
        /\ sched' = Parse(spec.of)
  /\ phase' = "refused" /\ UNCHANGED <<spec, after, t>>

Searching == phase = "search" /\ Before(t, Limit(NextMinute(after)))
Skip(u) == t' = u /\ UNCHANGED <<phase, spec, sched, after>>

SkipMonth ==
  Searching /\ MonthOf(t.m) \notin sched.mon /\ Skip(NextMonth(t))

SkipDay ==
  /\ Searching /\ MonthOf(t.m) \in sched.mon /\ ~DayMatches(sched, t)
  /\ Skip(NextDay(t))

SkipHour ==
  /\ Searching /\ MonthOf(t.m) \in sched.mon /\ DayMatches(sched, t)
  /\ t.h \notin sched.hour /\ Skip(NextHour(t))

SkipMinute ==
  /\ Searching /\ MonthOf(t.m) \in sched.mon /\ DayMatches(sched, t)
  /\ t.h \in sched.hour /\ t.i \notin sched.min /\ Skip(NextMinute(t))

Found ==
  /\ Searching /\ Matches(sched, t) /\ phase' = "found"
  /\ UNCHANGED <<spec, sched, after, t>>

GiveUp ==
  /\ phase = "search" /\ ~Searching /\ phase' = "gaveup"
  /\ UNCHANGED <<spec, sched, after, t>>

Next ==
  \/ ParseOk \/ ParseRefuses
  \/ SkipMonth \/ SkipDay \/ SkipHour \/ SkipMinute \/ Found \/ GiveUp

Spec == Init /\ [][Next]_vars

-----------------------------------------------------------------------------
(* Next returns the first match after the minute it is asked about: it is   *)
(* later, it matches, and no minute between does, "a later hour TODAY may   *)
(* still match" (cron.go:245-267).                                          *)
FirstMatch ==
  /\ phase = "found" => Before(after, t) /\ Matches(sched, t)
  /\ phase \in {"found", "gaveup"} =>
       \A m \in after.m .. t.m : MonthOf(m) \in sched.mon =>
         \A d \in 1 .. Days[m], h \in 0 .. LastHour, i \in 0 .. LastMinute :
            LET u == [m |-> m, d |-> d, h |-> h, i |-> i]
            IN  Before(after, u) /\ Before(u, t) => ~Matches(sched, u)

(* Every time the schedule has falls on 29 February.                        *)
LeapDayOnly(s) ==
  /\ s.domR /\ ~s.dowR
  /\ \A m \in s.mon : s.dom \cap (1 .. MaxDays[m]) \subseteq IF m = 2 THEN {29} ELSE {}

(* A search is given up only for 29 February, and only when none is in the  *)
(* 47 whole months after it began: short of a century, every schedule Parse *)
(* accepts fires (cron.go:247-249), and one it refuses for its days never   *)
(* would (cron.go:143-147).                                                 *)
FiresInLeapCycle ==
  /\ phase = "gaveup" =>
       /\ LeapDayOnly(sched)
       /\ \A m \in after.m + 1 .. after.m + 47 : MonthOf(m) = 2 => Days[m] = 28
  /\ phase = "refused" /\ sched # NoSchedule =>
       \A m \in 1 .. Months, d \in 1 .. 31 :
          MonthOf(m) \in sched.mon /\ d <= Days[m] =>
            ~DayMatches(sched, [m |-> m, d |-> d, h |-> 0, i |-> 0])

(* "The limit is a backstop": no search is given up (cron.go:247-249).      *)
AcceptedFires == phase # "gaveup"
=============================================================================
