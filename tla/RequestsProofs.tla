--------------------------- MODULE RequestsProofs ---------------------------
(***************************************************************************)
(* Proofs about what a command asks for.  In the first part a search       *)
(* returns the first minute its schedule matches, for every calendar,      *)
(* every expression and every start (Cron): what is kept from skip to skip *)
(* is that no minute passed over matches; and a search that ends without a *)
(* match was for a 29 February that did not come.  In the second part a    *)
(* command's parallel RPCs reach what its targets name, and report it      *)
(* (Fanout), for every registry, every command and any number of other     *)
(* clients: until an app is served, some RPC still has it to resolve or to *)
(* serve, or failed.  In the third a registered config holds the options   *)
(* its request gave, for every set of defaults and requests and every      *)
(* width of the wire (Options).                                            *)
(***************************************************************************)
EXTENDS MCRequests, WellFoundedInduction, TLAPS

(* No minute after `from` and before `to` matches s.                        *)
Passed(s, from, to) ==
  \A m \in from.m .. to.m : MonthOf(m) \in s.mon =>
    \A d \in 1 .. Days[m], h \in 0 .. LastHour, i \in 0 .. LastMinute :
       LET u == [m |-> m, d |-> d, h |-> h, i |-> i]
       IN  Before(from, u) /\ Before(u, to) => ~Matches(s, u)

(* A search is ahead of the minute it was asked about, within the calendar, *)
(* and has passed over no match.                                            *)
IInv ==
  /\ after \in Starts /\ IsTime(t)
  /\ phase \in {"search", "found", "gaveup"} =>
       Before(after, t) /\ Passed(sched, after, t)
  /\ phase = "found" => Matches(sched, t)

-----------------------------------------------------------------------------
(* A start is a minute of the calendar, years before its end.               *)
LEMMA StartIsTime ==
  ASSUME NEW u \in Starts
  PROVE  IsTime(u) /\ u.m + 51 <= Months
BY StartsAssumption

(* What is known of a minute.                                               *)
LEMMA TimeFields ==
  ASSUME NEW u, IsTime(u)
  PROVE  /\ u = [m |-> u.m, d |-> u.d, h |-> u.h, i |-> u.i]
         /\ u.m \in 1 .. Months /\ u.d \in 1 .. Days[u.m]
         /\ u.h \in 0 .. LastHour /\ u.i \in 0 .. LastMinute
         /\ Days[u.m] \in 28 .. 31
<1>1. u \in Times /\ u.d <= Days[u.m]
  BY DEF IsTime
<1>2. /\ u.m \in 1 .. Months /\ u.d \in 1 .. 31
      /\ u.h \in 0 .. LastHour /\ u.i \in 0 .. LastMinute
      /\ u = [m |-> u.m, d |-> u.d, h |-> u.h, i |-> u.i]
  BY <1>1 DEF Times
<1>3. Days[u.m] \in 28 .. 31
  BY <1>2, CalendarAssumption
<1> QED
  BY <1>1, <1>2, <1>3

LEMMA RecordIsTime ==
  ASSUME NEW m \in 1 .. Months, NEW d \in 1 .. Days[m],
         NEW h \in 0 .. LastHour, NEW i \in 0 .. LastMinute
  PROVE  IsTime([m |-> m, d |-> d, h |-> h, i |-> i])
<1>1. Days[m] \in 28 .. 31
  BY CalendarAssumption
<1>2. d \in 1 .. 31 /\ d <= Days[m]
  BY <1>1
<1> QED
  BY <1>2 DEF IsTime, Times

(* The next minute is a minute, and later, short of the calendar's end.     *)
LEMMA NextIsLater ==
  ASSUME NEW u, IsTime(u), u.m < Months,
         NEW v \in {NextMonth(u), NextDay(u), NextHour(u), NextMinute(u)}
  PROVE  IsTime(v) /\ Before(u, v) /\ v.m <= u.m + 1
<1>1. /\ u.m \in 1 .. Months /\ u.d \in 1 .. Days[u.m]
      /\ u.h \in 0 .. LastHour /\ u.i \in 0 .. LastMinute
      /\ u = [m |-> u.m, d |-> u.d, h |-> u.h, i |-> u.i]
  BY TimeFields
<1>2. \A m \in 1 .. Months : Days[m] \in 28 .. 31
  BY CalendarAssumption
<1>3. LET w == NextMonth(u) IN IsTime(w) /\ Before(u, w) /\ w.m <= u.m + 1
  <2>1. /\ u.m + 1 \in 1 .. Months /\ 1 \in 1 .. Days[u.m + 1]
        /\ 0 \in 0 .. LastHour /\ 0 \in 0 .. LastMinute
    BY <1>1, <1>2, CalendarAssumption
  <2> QED
    BY <2>1, <1>1, RecordIsTime DEF NextMonth, Before
<1>4. LET w == NextDay(u) IN IsTime(w) /\ Before(u, w) /\ w.m <= u.m + 1
  <2>1. CASE u.d < Days[u.m]
    <3>1. u.d + 1 \in 1 .. Days[u.m] /\ 0 \in 0 .. LastHour /\ 0 \in 0 .. LastMinute
      <4>1. Days[u.m] \in Nat /\ u.d \in Nat /\ u.d >= 1
        BY <1>1, <1>2
      <4> QED
        BY <4>1, <2>1, CalendarAssumption
    <3> QED
      BY <3>1, <2>1, <1>1, RecordIsTime DEF NextDay, Before
  <2>2. CASE ~(u.d < Days[u.m])
    BY <2>2, <1>3 DEF NextDay
  <2> QED
    BY <2>1, <2>2
<1>5. LET w == NextHour(u) IN IsTime(w) /\ Before(u, w) /\ w.m <= u.m + 1
  <2>1. CASE u.h < LastHour
    <3>1. u.h + 1 \in 0 .. LastHour /\ 0 \in 0 .. LastMinute
      BY <2>1, <1>1, CalendarAssumption
    <3> QED
      BY <3>1, <2>1, <1>1, RecordIsTime DEF NextHour, Before
  <2>2. CASE ~(u.h < LastHour)
    BY <2>2, <1>4 DEF NextHour
  <2> QED
    BY <2>1, <2>2
<1>6. LET w == NextMinute(u) IN IsTime(w) /\ Before(u, w) /\ w.m <= u.m + 1
  <2>1. CASE u.i < LastMinute
    <3>1. NextMinute(u) = [m |-> u.m, d |-> u.d, h |-> u.h, i |-> u.i + 1]
      BY <2>1, <1>1 DEF NextMinute
    <3>2. u.i + 1 \in 0 .. LastMinute
      BY <2>1, <1>1, CalendarAssumption
    <3> QED
      BY <3>1, <3>2, <1>1, RecordIsTime DEF Before
  <2>2. CASE ~(u.i < LastMinute)
    BY <2>2, <1>5 DEF NextMinute
  <2> QED
    BY <2>1, <2>2
<1> QED
  BY <1>3, <1>4, <1>5, <1>6

(* Skipping from u to v passes over no match when the minutes from u up to  *)
(* v do not match.                                                          *)
LEMMA PassOn ==
  ASSUME NEW s, NEW from, IsTime(from), NEW u, IsTime(u), NEW v, IsTime(v),
         Passed(s, from, u), Before(from, u), Before(u, v), v.m <= u.m + 1,
         \A w : IsTime(w) /\ ~Before(w, u) /\ Before(w, v) => ~Matches(s, w)
  PROVE  Before(from, v) /\ Passed(s, from, v)
<1>1. /\ from.m \in Int /\ from.d \in Int /\ from.h \in Int /\ from.i \in Int
      /\ u.m \in Int /\ u.d \in Int /\ u.h \in Int /\ u.i \in Int
      /\ v.m \in Int /\ v.d \in Int /\ v.h \in Int /\ v.i \in Int
      /\ from.m \in 1 .. Months /\ v.m \in 1 .. Months
  BY TimeFields, CalendarAssumption
<1>2. Before(from, v)
  BY <1>1 DEF Before
<1>3. ASSUME NEW m \in from.m .. v.m, MonthOf(m) \in s.mon, NEW d \in 1 .. Days[m],
             NEW h \in 0 .. LastHour, NEW i \in 0 .. LastMinute
      PROVE  LET w == [m |-> m, d |-> d, h |-> h, i |-> i]
             IN  Before(from, w) /\ Before(w, v) => ~Matches(s, w)
  <2> DEFINE w == [m |-> m, d |-> d, h |-> h, i |-> i]
  <2>1. IsTime(w)
    <3>1. m \in 1 .. Months
      BY <1>1, CalendarAssumption
    <3> QED
      BY <3>1, RecordIsTime
  <2>2. CASE Before(w, u)
    <3>1. m \in from.m .. u.m
      BY <2>2, <1>1 DEF Before
    <3> QED
      BY <3>1, <2>2, <1>3 DEF Passed
  <2>3. CASE ~Before(w, u)
    BY <2>1, <2>3
  <2> QED
    BY <2>2, <2>3
<1> QED
  BY <1>2, <1>3 DEF Passed

-----------------------------------------------------------------------------
(* Each skip passes over minutes of one month, day or hour, or one minute,  *)
(* that the schedule does not have.                                         *)
LEMMA MonthSkipped ==
  ASSUME NEW s, NEW u, IsTime(u), MonthOf(u.m) \notin s.mon,
         NEW w, IsTime(w), ~Before(w, u), Before(w, NextMonth(u))
  PROVE  ~Matches(s, w)
<1>1. w.m = u.m
  <2>1. /\ u.m \in Int /\ u.d \in Int /\ u.h \in Int /\ u.i \in Int
        /\ w.m \in Int /\ w.d \in Int /\ w.h \in Int /\ w.i \in Int
        /\ w.d >= 1 /\ w.h >= 0 /\ w.i >= 0
    BY TimeFields, CalendarAssumption
  <2> QED
    BY <2>1 DEF Before, NextMonth
<1> QED
  BY <1>1 DEF Matches

(* The minutes from u up to the next day, hour or minute.                   *)
LEMMA SameDay ==
  ASSUME NEW u, IsTime(u), NEW w, IsTime(w), ~Before(w, u), Before(w, NextDay(u))
  PROVE  w.m = u.m /\ w.d = u.d
<1>1. /\ u.m \in Int /\ u.d \in Int /\ u.h \in Int /\ u.i \in Int
      /\ w.m \in Int /\ w.d \in Int /\ w.h \in Int /\ w.i \in Int
      /\ w.d >= 1 /\ w.h >= 0 /\ w.i >= 0
  BY TimeFields, CalendarAssumption
<1>2. Days[u.m] \in Int /\ Days[w.m] \in Int /\ w.d <= Days[w.m] /\ u.d <= Days[u.m]
  <2>1. Days[u.m] \in 28 .. 31 /\ u.d \in 1 .. Days[u.m]
    BY TimeFields
  <2>2. Days[w.m] \in 28 .. 31 /\ w.d \in 1 .. Days[w.m]
    BY TimeFields
  <2> QED
    BY <2>1, <2>2
<1> QED
  BY <1>1, <1>2 DEF Before, NextDay, NextMonth

LEMMA SameHour ==
  ASSUME NEW u, IsTime(u), NEW w, IsTime(w), ~Before(w, u), Before(w, NextHour(u))
  PROVE  w.m = u.m /\ w.d = u.d /\ w.h = u.h
<1>1. /\ u.m \in Int /\ u.d \in Int /\ u.h \in Int /\ u.i \in Int
      /\ w.m \in Int /\ w.d \in Int /\ w.h \in Int /\ w.i \in Int
      /\ w.i >= 0 /\ w.h <= LastHour /\ LastHour \in Int
  BY TimeFields, CalendarAssumption
<1>2. CASE u.h < LastHour
  BY <1>1, <1>2 DEF Before, NextHour
<1>3. CASE ~(u.h < LastHour)
  <2>1. w.m = u.m /\ w.d = u.d
    BY <1>3, SameDay DEF NextHour
  <2> QED
    BY <2>1, <1>1, <1>3 DEF Before
<1> QED
  BY <1>2, <1>3

LEMMA SameMinute ==
  ASSUME NEW u, IsTime(u), NEW w, IsTime(w), ~Before(w, u), Before(w, NextMinute(u))
  PROVE  w.m = u.m /\ w.d = u.d /\ w.h = u.h /\ w.i = u.i
<1>1. /\ u.m \in Int /\ u.d \in Int /\ u.h \in Int /\ u.i \in Int
      /\ w.m \in Int /\ w.d \in Int /\ w.h \in Int /\ w.i \in Int
      /\ w.i <= LastMinute /\ LastMinute \in Int
  BY TimeFields, CalendarAssumption
<1>2. CASE u.i < LastMinute
  <2>1. NextMinute(u) = [m |-> u.m, d |-> u.d, h |-> u.h, i |-> u.i + 1]
    BY <1>2, TimeFields DEF NextMinute
  <2> QED
    BY <2>1, <1>1 DEF Before
<1>3. CASE ~(u.i < LastMinute)
  <2>1. w.m = u.m /\ w.d = u.d /\ w.h = u.h
    BY <1>3, SameHour DEF NextMinute
  <2> QED
    BY <2>1, <1>1, <1>3 DEF Before
<1> QED
  BY <1>2, <1>3

LEMMA DaySkipped ==
  ASSUME NEW s, NEW u, IsTime(u), ~DayMatches(s, u),
         NEW w, IsTime(w), ~Before(w, u), Before(w, NextDay(u))
  PROVE  ~Matches(s, w)
BY SameDay DEF Matches, DayMatches, Weekday

LEMMA HourSkipped ==
  ASSUME NEW s, NEW u, IsTime(u), u.h \notin s.hour,
         NEW w, IsTime(w), ~Before(w, u), Before(w, NextHour(u))
  PROVE  ~Matches(s, w)
BY SameHour DEF Matches

LEMMA MinuteSkipped ==
  ASSUME NEW s, NEW u, IsTime(u), u.i \notin s.min,
         NEW w, IsTime(w), ~Before(w, u), Before(w, NextMinute(u))
  PROVE  ~Matches(s, w)
BY SameMinute DEF Matches

-----------------------------------------------------------------------------
LEMMA InitIInv == Init => IInv
BY StartIsTime DEF Init, IInv

(* What a skip keeps.                                                       *)
LEMMA SkipKeeps ==
  ASSUME IInv, Searching,
         NEW v \in {NextMonth(t), NextDay(t), NextHour(t), NextMinute(t)}, Skip(v),
         \A w : IsTime(w) /\ ~Before(w, t) /\ Before(w, v) => ~Matches(sched, w)
  PROVE  IInv'
<1>1. /\ IsTime(after) /\ after.m + 51 <= Months /\ IsTime(t)
      /\ Before(after, t) /\ Passed(sched, after, t)
  BY StartIsTime DEF IInv, Searching
<1>2. t.m < Months
  <2> DEFINE n == NextMinute(after)
  <2>1. after.m \in Int /\ Months \in Int /\ t.m \in Int
    BY <1>1, TimeFields, CalendarAssumption
  <2>2. IsTime(n) /\ n.m <= after.m + 1
    BY <1>1, <2>1, NextIsLater
  <2>3. n.m \in Int /\ n = [m |-> n.m, d |-> n.d, h |-> n.h, i |-> n.i]
    BY <2>2, TimeFields, CalendarAssumption
  <2>4. Limit(n).m \in {n.m + 48, n.m + 49}
    <3> HIDE DEF n
    <3>1. \A x, y : [n EXCEPT !.m = x, !.d = y].m = x
      BY <2>3
    <3> QED
      BY <2>3, <3>1 DEF Limit
  <2>5. t.m <= Limit(n).m
    <3>1. Before(t, Limit(n))
      BY DEF Searching
    <3> HIDE DEF n
    <3> QED
      BY <3>1, <2>1, <2>3, <2>4 DEF Before
  <2> QED
    BY <1>1, <2>1, <2>2, <2>3, <2>4, <2>5
<1>3. IsTime(v) /\ Before(t, v) /\ v.m <= t.m + 1
  BY <1>1, <1>2, NextIsLater
<1>4. Before(after, v) /\ Passed(sched, after, v)
  BY <1>1, <1>3, PassOn
<1>5. t' = v /\ UNCHANGED <<phase, spec, sched, after>>
  BY DEF Skip
<1> QED
  BY <1>1, <1>3, <1>4, <1>5 DEF IInv, Searching

LEMMA ParseKeeps == ASSUME IInv, ParseOk PROVE IInv'
<1>1. IsTime(after) /\ after.m + 51 <= Months
  BY StartIsTime DEF IInv
<1>2. t' = NextMinute(after) /\ phase' = "search" /\ after' = after
  BY DEF ParseOk
<1>3. after.m < Months
  BY <1>1, TimeFields, CalendarAssumption
<1>4. IsTime(t') /\ Before(after, t')
  BY <1>1, <1>2, <1>3, NextIsLater
<1>5. ASSUME NEW w, IsTime(w), Before(after, w), Before(w, t') PROVE FALSE
  <2>1. /\ after.m \in Int /\ after.d \in Int /\ after.h \in Int /\ after.i \in Int
        /\ w.m \in Int /\ w.d \in Int /\ w.h \in Int /\ w.i \in Int
    BY <1>1, <1>5, TimeFields, CalendarAssumption
  <2>2. ~Before(w, after)
    BY <2>1, <1>5 DEF Before
  <2>3. w.m = after.m /\ w.d = after.d /\ w.h = after.h /\ w.i = after.i
    BY <2>2, <1>1, <1>2, <1>5, SameMinute
  <2> QED
    BY <2>1, <2>3, <1>5 DEF Before
<1>6. Passed(sched', after, t')
  <2>1. ASSUME NEW m \in after.m .. t'.m, NEW d \in 1 .. Days[m],
               NEW h \in 0 .. LastHour, NEW i \in 0 .. LastMinute
        PROVE  LET w == [m |-> m, d |-> d, h |-> h, i |-> i]
               IN  ~(Before(after, w) /\ Before(w, t'))
    <3>1. m \in 1 .. Months
      <4>1. after.m \in 1 .. Months /\ t'.m \in 1 .. Months
        BY <1>1, <1>4, TimeFields
      <4> QED
        BY <4>1, CalendarAssumption
    <3> QED
      BY <3>1, <1>5, RecordIsTime
  <2> QED
    BY <2>1 DEF Passed
<1> QED
  BY <1>2, <1>4, <1>6 DEF IInv

LEMMA NextIInv == IInv /\ [Next]_vars => IInv'
<1> SUFFICES ASSUME IInv, [Next]_vars PROVE IInv'
  OBVIOUS
<1>0. IsTime(t)
  BY DEF IInv
<1>1. CASE ParseOk
  BY <1>1, ParseKeeps
<1>2. CASE ParseRefuses
  BY <1>2 DEF ParseRefuses, IInv
<1>3. CASE SkipMonth
  BY <1>0, <1>3, MonthSkipped, SkipKeeps DEF SkipMonth
<1>4. CASE SkipDay
  BY <1>0, <1>4, DaySkipped, SkipKeeps DEF SkipDay
<1>5. CASE SkipHour
  BY <1>0, <1>5, HourSkipped, SkipKeeps DEF SkipHour
<1>6. CASE SkipMinute
  BY <1>0, <1>6, MinuteSkipped, SkipKeeps DEF SkipMinute
<1>7. CASE Found
  BY <1>7 DEF Found, Searching, IInv
<1>8. CASE GiveUp
  BY <1>8 DEF GiveUp, IInv
<1>9. CASE UNCHANGED vars
  BY <1>9 DEF vars, IInv
<1> QED
  BY <1>1, <1>2, <1>3, <1>4, <1>5, <1>6, <1>7, <1>8, <1>9 DEF Next

(* Next returns a match after the minute it is asked about, and none lies   *)
(* between: no skip of a month, a day, an hour or a minute jumps over a     *)
(* match, whatever the calendar (cron.go:245-267).                          *)
THEOREM FirstIsFound == Spec => []FirstMatch
<1>1. IInv => FirstMatch
  BY DEF IInv, FirstMatch, Passed
<1> QED
  BY <1>1, InitIInv, NextIInv, PTL DEF Spec

-----------------------------------------------------------------------------
(* A schedule that Parse accepts has a minute, an hour, a month and a       *)
(* weekday, and a day that some month of its own has.                       *)
WellFormed(s) ==
  /\ s.min \cap (0 .. LastMinute) # {} /\ s.hour \cap (0 .. LastHour) # {}
  /\ s.mon \subseteq Mon /\ s.mon # {} /\ s.dow \cap Dow # {}
  /\ Feasible(s)

(* What Parse has made of the expression; a search given up is at its limit.*)
LeapInv ==
  /\ spec \in Expressions
  /\ phase = "parse" => sched = NoSchedule
  /\ phase \in {"search", "found", "gaveup"} => WellFormed(sched)
  /\ phase = "refused" /\ sched # NoSchedule =>
       ~Feasible(sched) /\ (~sched.domR => 1 \in sched.dom)
  /\ phase = "gaveup" => ~Before(t, Limit(NextMinute(after)))

(* The first of a part's values is in it.                                   *)
LEMMA PartHas ==
  ASSUME NEW lo \in Int, NEW hi \in Int, NEW part,
         part.kind \in {"all", "range", "value"}, part.a \in Int, part.b \in Int,
         part.step \in Int, part.step >= 0, InRange(part, lo, hi)
  PROVE  \E v \in lo .. hi : v \in ParsePart(part, lo, hi)
<1> DEFINE e == Ends(part, lo, hi)
<1>1. e[1] \in Int /\ e[2] \in Int
  <2>1. part.kind = "all" => e = <<lo, hi>>
    BY DEF Ends
  <2>2. part.kind = "range" => e = <<part.a, part.b>>
    BY DEF Ends
  <2>3. part.kind = "value" => e = <<part.a, IF part.step = 0 THEN part.a ELSE hi>>
    BY DEF Ends
  <2> HIDE DEF e
  <2> QED
    BY <2>1, <2>2, <2>3
<1>2. lo <= e[1] /\ e[2] <= hi /\ e[1] <= e[2]
  BY DEF InRange
<1>3. ParsePart(part, lo, hi) =
        {v \in e[1] .. e[2] : part.step = 0 \/ (v - e[1]) % part.step = 0}
  BY DEF ParsePart
<1> HIDE DEF e
<1>4. part.step = 0 \/ (e[1] - e[1]) % part.step = 0
  <2> DEFINE k == part.step
  <2>1. k \in Nat /\ e[1] - e[1] = 0
    BY <1>1
  <2> HIDE DEF k
  <2>2. k = 0 \/ 0 % k = 0
    BY <2>1
  <2> QED
    BY <2>1, <2>2 DEF k
<1>5. e[1] \in lo .. hi /\ e[1] \in e[1] .. e[2]
  BY <1>1, <1>2
<1> QED
  BY <1>3, <1>4, <1>5

(* A field that is accepted has a value, and none out of its range.         *)
LEMMA FieldHas ==
  ASSUME NEW lo \in Int, NEW hi \in Int, NEW f, f # {}, Valid(f, lo, hi),
         \A part \in f : /\ part.kind \in {"all", "range", "value"}
                         /\ part.a \in Int /\ part.b \in Int /\ part.step \in Int
  PROVE  /\ ParseField(f, lo, hi) \subseteq lo .. hi
         /\ ParseField(f, lo, hi) # {}
<1>1. PICK part \in f : TRUE
  OBVIOUS
<1>2. \E v \in lo .. hi : v \in ParsePart(part, lo, hi)
  BY <1>1, PartHas DEF Valid
<1>3. ASSUME NEW q \in f, NEW v \in ParsePart(q, lo, hi) PROVE v \in lo .. hi
  <2> DEFINE e == Ends(q, lo, hi)
  <2>1. v \in e[1] .. e[2]
    BY DEF ParsePart
  <2>2. lo <= e[1] /\ e[2] <= hi
    BY DEF Valid, InRange
  <2>3. e[1] \in Int /\ e[2] \in Int
    <3>1. q.kind = "all" => e = <<lo, hi>>
      BY DEF Ends
    <3>2. q.kind = "range" => e = <<q.a, q.b>>
      BY DEF Ends
    <3>3. q.kind = "value" => e = <<q.a, IF q.step = 0 THEN q.a ELSE hi>>
      BY DEF Ends
    <3> HIDE DEF e
    <3> QED
      BY <3>1, <3>2, <3>3
  <2> HIDE DEF e
  <2> QED
    BY <2>1, <2>2, <2>3
<1> QED
  BY <1>1, <1>2, <1>3 DEF ParseField

(* A bare star has every value of its field.                                *)
LEMMA StarHasAll == ParseField(Star, 1, 31) = Dom
<1> DEFINE part == [kind |-> "all", a |-> 0, b |-> 0, step |-> 0]
<1>1. Star = {part}
  BY DEF Star
<1>2. part.kind = "all" /\ part.step = 0
  OBVIOUS
<1> HIDE DEF part
<1>3. Ends(part, 1, 31) = <<1, 31>>
  BY <1>2 DEF Ends
<1>4. ParsePart(part, 1, 31) = 1 .. 31
  BY <1>2, <1>3 DEF ParsePart
<1> QED
  BY <1>1, <1>4 DEF ParseField, Dom

(* Sunday, given as 7, is among the weekdays.                               *)
LEMMA FoldHas ==
  ASSUME NEW raw, raw \subseteq 0 .. 7, raw # {}
  PROVE  FoldSunday(raw) \cap Dow # {}
<1>1. PICK v \in raw : v \in 0 .. 7
  OBVIOUS
<1>2. CASE v = 7
  <2>1. 0 \in FoldSunday(raw) /\ 0 \in Dow
    BY <1>1, <1>2 DEF FoldSunday, Dow
  <2> QED
    BY <2>1
<1>3. CASE v # 7
  <2>1. v \in Dow
    BY <1>1, <1>3 DEF Dow
  <2> QED
    BY <1>1, <2>1 DEF FoldSunday
<1> QED
  BY <1>2, <1>3

(* What Parse makes of an expression it accepts.                            *)
LEMMA ParseMakes ==
  ASSUME NEW s \in Specs, Accepted(s)
  PROVE  LET p == Parse(s)
         IN  /\ p.min \cap (0 .. LastMinute) # {} /\ p.hour \cap (0 .. LastHour) # {}
             /\ p.mon \subseteq Mon /\ p.mon # {} /\ p.dow \cap Dow # {}
             /\ (~p.domR => 1 \in p.dom)
<1> DEFINE p == Parse(s)
<1>1. /\ p.min = ParseField(s.min, 0, LastMinute)
      /\ p.hour = ParseField(s.hour, 0, LastHour)
      /\ p.dom = ParseField(s.dom, 1, 31) /\ p.mon = ParseField(s.mon, 1, 12)
      /\ p.dow = FoldSunday(ParseField(s.dow, 0, 7))
  BY DEF Parse, Schedule
<1>2. \A f \in {s.min, s.hour, s.mon, s.dow} :
        /\ f # {}
        /\ \A part \in f : /\ part.kind \in {"all", "range", "value"}
                           /\ part.a \in Int /\ part.b \in Int /\ part.step \in Int
  BY SpecsAssumption
<1>3. /\ Valid(s.min, 0, LastMinute) /\ Valid(s.hour, 0, LastHour)
      /\ Valid(s.mon, 1, 12) /\ Valid(s.dow, 0, 7)
  BY DEF Accepted
<1>4. LastMinute \in Int /\ LastHour \in Int
  BY CalendarAssumption
<1>5. p.min \subseteq 0 .. LastMinute /\ p.min # {}
  BY <1>1, <1>2, <1>3, <1>4, FieldHas
<1>6. p.hour \subseteq 0 .. LastHour /\ p.hour # {}
  BY <1>1, <1>2, <1>3, <1>4, FieldHas
<1>7. p.mon \subseteq Mon /\ p.mon # {}
  BY <1>1, <1>2, <1>3, FieldHas DEF Mon
<1>8. p.dow \cap Dow # {}
  <2>1. ParseField(s.dow, 0, 7) \subseteq 0 .. 7 /\ ParseField(s.dow, 0, 7) # {}
    BY <1>2, <1>3, FieldHas
  <2> QED
    BY <2>1, <1>1, FoldHas
<1>9. ~p.domR => 1 \in p.dom
  <2>1. p.domR <=> s.dom # Star
    BY Zenon DEF Parse, Schedule
  <2>2. s.dom = Star => 1 \in p.dom
    BY <1>1, StarHasAll DEF Dom
  <2> QED
    BY <2>1, <2>2
<1> HIDE DEF p
<1> QED
  BY <1>5, <1>6, <1>7, <1>8, <1>9 DEF p

(* The shorthands are in order.                                             *)
LEMMA AliasesFormed == \A a \in DOMAIN Aliases : WellFormed(Aliases[a])
<1>1. DOMAIN Aliases = {"yearly", "monthly", "weekly", "daily", "hourly"}
  BY DEF Aliases
<1>2. ASSUME NEW a \in DOMAIN Aliases
      PROVE  /\ 0 \in Aliases[a].min /\ 0 \in Aliases[a].hour /\ 1 \in Aliases[a].mon
             /\ 1 \in Aliases[a].dom /\ 0 \in Aliases[a].dow
             /\ Aliases[a].mon \subseteq Mon
  <2>1. 0 \in 0 .. LastHour
    BY CalendarAssumption
  <2>2. CASE a = "yearly"
    BY <2>2, <1>1 DEF Aliases, Schedule, Dow, Mon
  <2>3. CASE a = "monthly"
    BY <2>3, <1>1 DEF Aliases, Schedule, Dow, Mon
  <2>4. CASE a = "weekly"
    BY <2>4, <1>1 DEF Aliases, Schedule, Dom, Mon
  <2>5. CASE a = "daily"
    BY <2>5, <1>1 DEF Aliases, Schedule, Dom, Dow, Mon
  <2>6. CASE a = "hourly"
    <3>1. Aliases[a] = Schedule({0}, 0 .. LastHour, Dom, Mon, Dow, FALSE, FALSE)
      BY <2>6, <1>1 DEF Aliases
    <3> QED
      BY <3>1, <2>1 DEF Schedule, Dom, Dow, Mon
  <2> QED
    BY <1>1, <2>2, <2>3, <2>4, <2>5, <2>6
<1>3. 0 \in 0 .. LastMinute /\ 0 \in 0 .. LastHour /\ 0 \in Dow
  BY CalendarAssumption DEF Dow
<1>4. 1 \in 1 .. MaxDays[1]
  BY DEF MaxDays
<1> QED
  BY <1>2, <1>3, <1>4 DEF WellFormed, Feasible

-----------------------------------------------------------------------------
(* Among twelve months there is each, and among seven days each weekday.    *)
LEMMA MonthComes ==
  ASSUME NEW base \in Nat, NEW mm \in 1 .. 12
  PROVE  \E m \in base + 1 .. base + 12 : MonthOf(m) = mm
<1> DEFINE m == base + 1 + ((mm - 1 - base) % 12)
<1>1. m \in base + 1 .. base + 12
  OBVIOUS
<1>2. ((m - 1) % 12) + 1 = mm
  OBVIOUS
<1> QED
  BY <1>1, <1>2 DEF MonthOf

LEMMA WeekdayComes ==
  ASSUME NEW first \in 0 .. 6, NEW w \in 0 .. 6
  PROVE  \E d \in 1 .. 7 : (first + d - 1) % 7 = w
<1> DEFINE d == ((w - first) % 7) + 1
<1>1. d \in 1 .. 7
  OBVIOUS
<1>2. (first + d - 1) % 7 = w
  OBVIOUS
<1> QED
  BY <1>1, <1>2

(* The whole months of a calendar.                                          *)
LEMMA MonthLength ==
  ASSUME NEW m \in 1 .. Months
  PROVE  /\ Days[m] \in 28 .. 31
         /\ MonthOf(m) = 2 => Days[m] \in {28, 29}
         /\ MonthOf(m) # 2 => Days[m] = MaxDays[MonthOf(m)]
         /\ MonthOf(m) \in 1 .. 12
         /\ Days[m] <= MaxDays[MonthOf(m)]
<1>1. Days[m] \in 28 .. 31
  BY CalendarAssumption
<1>2. IF MonthOf(m) = 2 THEN Days[m] \in {28, 29} ELSE Days[m] = MaxDays[MonthOf(m)]
  BY MonthsAssumption
<1>3. MonthOf(m) \in 1 .. 12
  <2>1. m \in Int
    BY CalendarAssumption
  <2> QED
    BY <2>1 DEF MonthOf
<1>4. MaxDays[2] = 29
  BY DEF MaxDays
<1>5. Days[m] <= MaxDays[MonthOf(m)]
  BY <1>1, <1>2, <1>4
<1> QED
  BY <1>1, <1>2, <1>3, <1>5

(* A search at its limit is four years on.                                  *)
LEMMA FourYears ==
  ASSUME NEW u \in Starts, NEW v, IsTime(v), ~Before(v, Limit(NextMinute(u)))
  PROVE  v.m >= u.m + 48
<1> DEFINE n == NextMinute(u)
<1>1. IsTime(u) /\ u.m + 51 <= Months
  BY StartIsTime
<1>2. u.m \in Nat /\ Months \in Nat /\ v.m \in Nat
  <2>1. u.m \in 1 .. Months /\ v.m \in 1 .. Months
    BY <1>1, TimeFields
  <2> QED
    BY <2>1, CalendarAssumption
<1>3. IsTime(n) /\ Before(u, n)
  BY <1>1, <1>2, NextIsLater
<1>4. n.m \in Nat /\ n = [m |-> n.m, d |-> n.d, h |-> n.h, i |-> n.i]
  <2> HIDE DEF n
  <2>1. n.m \in 1 .. Months /\ n = [m |-> n.m, d |-> n.d, h |-> n.h, i |-> n.i]
    BY <1>3, TimeFields
  <2> QED
    BY <2>1, CalendarAssumption
<1>5. n.m >= u.m
  <2> HIDE DEF n
  <2> QED
    BY <1>2, <1>3, <1>4 DEF Before
<1>6. Limit(n).m \in {n.m + 48, n.m + 49}
  <2> HIDE DEF n
  <2>1. \A x, y : [n EXCEPT !.m = x, !.d = y].m = x
    BY <1>4
  <2> QED
    BY <1>4, <2>1 DEF Limit
<1>7. ~(v.m < Limit(n).m)
  BY DEF Before
<1> HIDE DEF n
<1> QED
  BY <1>2, <1>4, <1>5, <1>6, <1>7

(* In a whole month that a search has passed, and that its schedule has, no *)
(* day matches.                                                             *)
LEMMA NoDayPassed ==
  ASSUME NEW s, WellFormed(s), NEW u, IsTime(u), NEW v, IsTime(v), Passed(s, u, v),
         NEW m \in u.m .. v.m - 1, MonthOf(m) \in s.mon, NEW d \in 1 .. Days[m],
         u.m < m \/ (u.m = m /\ u.d < d)
  PROVE  ~DayMatches(s, [m |-> m, d |-> d, h |-> 0, i |-> 0])
<1>1. PICK h \in 0 .. LastHour : h \in s.hour
  BY DEF WellFormed
<1>2. PICK i \in 0 .. LastMinute : i \in s.min
  BY DEF WellFormed
<1> DEFINE w == [m |-> m, d |-> d, h |-> h, i |-> i]
<1>3. u.m \in Nat /\ v.m \in Nat
  <2>1. u.m \in 1 .. Months /\ v.m \in 1 .. Months
    BY TimeFields
  <2> QED
    BY <2>1, CalendarAssumption
<1>4. Before(u, w) /\ Before(w, v)
  BY <1>3 DEF Before
<1>5. m \in u.m .. v.m
  BY <1>3
<1>6. ~Matches(s, w)
  BY <1>4, <1>5 DEF Passed
<1>7. ~DayMatches(s, w)
  BY <1>1, <1>2, <1>6 DEF Matches
<1> QED
  BY <1>7 DEF DayMatches, Weekday

(* A schedule without a match in four years has 29 February only, and the   *)
(* years have none.                                                         *)
LEMMA OnlyLeapDay ==
  ASSUME NEW s, WellFormed(s), NEW u \in Starts, NEW v, IsTime(v), Passed(s, u, v),
         v.m >= u.m + 48
  PROVE  /\ LeapDayOnly(s) /\ 2 \in s.mon /\ 29 \in s.dom
         /\ \A m \in u.m + 1 .. u.m + 47 : MonthOf(m) = 2 => Days[m] = 28
<1>1. IsTime(u) /\ u.m \in Nat /\ v.m \in Nat /\ Months \in Nat /\ v.m <= Months
  <2>1. IsTime(u) /\ u.m \in 1 .. Months /\ v.m \in 1 .. Months
    BY StartIsTime, TimeFields
  <2> QED
    BY <2>1, CalendarAssumption
<1>2. ASSUME NEW m \in u.m + 1 .. u.m + 47, MonthOf(m) \in s.mon, NEW d \in 1 .. Days[m]
      PROVE  ~DayMatches(s, [m |-> m, d |-> d, h |-> 0, i |-> 0])
  <2>1. m \in u.m .. v.m - 1 /\ u.m < m
    BY <1>1
  <2> QED
    BY <1>1, <1>2, <2>1, NoDayPassed
<1>3. \A mm \in s.mon : \E m \in u.m + 1 .. u.m + 47 :
        MonthOf(m) = mm /\ m \in 1 .. Months
  <2>1. TAKE mm \in s.mon
  <2>2. PICK m \in u.m + 1 .. u.m + 12 : MonthOf(m) = mm
    BY <1>1, MonthComes DEF WellFormed, Mon
  <2> QED
    BY <1>1, <2>2
<1>4. ~s.dowR
  <2> SUFFICES ASSUME s.dowR PROVE FALSE
    OBVIOUS
  <2>1. PICK w \in 0 .. 6 : w \in s.dow
    BY DEF WellFormed, Dow
  <2>2. PICK mm \in s.mon : TRUE
    BY DEF WellFormed
  <2>3. PICK m \in u.m + 1 .. u.m + 47 : MonthOf(m) = mm /\ m \in 1 .. Months
    BY <1>3, <2>2
  <2>4. FirstDow[m] \in 0 .. 6
    BY <2>3, CalendarAssumption
  <2>5. PICK d \in 1 .. 7 : (FirstDow[m] + d - 1) % 7 = w
    BY <2>1, <2>4, WeekdayComes
  <2>6. d \in 1 .. Days[m]
    BY <2>3, <2>5, MonthLength
  <2>7. DayMatches(s, [m |-> m, d |-> d, h |-> 0, i |-> 0])
    BY <2>1, <2>5 DEF DayMatches, Weekday
  <2> QED
    BY <1>2, <2>2, <2>3, <2>6, <2>7
<1>5. s.domR
  <2> SUFFICES ASSUME ~s.domR PROVE FALSE
    OBVIOUS
  <2>1. PICK mm \in s.mon : TRUE
    BY DEF WellFormed
  <2>2. PICK m \in u.m + 1 .. u.m + 47 : MonthOf(m) = mm /\ m \in 1 .. Months
    BY <1>3, <2>1
  <2>3. 1 \in 1 .. Days[m]
    BY <2>2, MonthLength
  <2> QED
    BY <1>2, <1>4, <2>1, <2>2, <2>3 DEF DayMatches
<1>6. ASSUME NEW m \in u.m + 1 .. u.m + 47, MonthOf(m) \in s.mon
      PROVE  s.dom \cap (1 .. Days[m]) = {}
  BY <1>2, <1>5, <1>6 DEF DayMatches
<1>7. ASSUME NEW mm \in s.mon, NEW d \in s.dom \cap (1 .. MaxDays[mm])
      PROVE  mm = 2 /\ d = 29
  <2>1. PICK m \in u.m + 1 .. u.m + 47 : MonthOf(m) = mm /\ m \in 1 .. Months
    BY <1>3
  <2>2. d \notin 1 .. Days[m]
    BY <1>6, <2>1
  <2>3. mm = 2
    BY <2>1, <2>2, MonthLength
  <2>4. d \in 1 .. 29
    BY <2>3 DEF MaxDays
  <2>5. Days[m] \in {28, 29}
    BY <2>1, <2>3, MonthLength
  <2> QED
    BY <2>2, <2>3, <2>4, <2>5
<1>8. LeapDayOnly(s)
  BY <1>4, <1>5, <1>7 DEF LeapDayOnly
<1>9. 2 \in s.mon /\ 29 \in s.dom
  <2>1. PICK mm \in s.mon : s.dom \cap (1 .. MaxDays[mm]) # {}
    BY <1>4 DEF WellFormed, Feasible
  <2>2. PICK d \in s.dom \cap (1 .. MaxDays[mm]) : TRUE
    BY <2>1
  <2> QED
    BY <1>7, <2>1, <2>2
<1>10. ASSUME NEW m \in u.m + 1 .. u.m + 47, MonthOf(m) = 2
       PROVE  Days[m] = 28
  <2>1. 29 \notin 1 .. Days[m]
    BY <1>6, <1>9, <1>10
  <2>2. m \in 1 .. Months
    BY <1>1
  <2> QED
    BY <1>10, <2>1, <2>2, MonthLength
<1> QED
  BY <1>8, <1>9, <1>10

-----------------------------------------------------------------------------
LEMMA InitLeapInv == Init => LeapInv
BY DEF Init, LeapInv

(* Parse makes a schedule that is in order, or one that no month can have.  *)
LEMMA ParseLeap == ASSUME LeapInv, ParseOk PROVE LeapInv'
<1>1. /\ phase = "parse" /\ phase' = "search"
      /\ \/ spec.alias # "none" /\ sched' = Aliases[spec.alias]
         \/ /\ spec.alias = "none" /\ Accepted(spec.of) /\ Feasible(Parse(spec.of))
            /\ sched' = Parse(spec.of)
      /\ spec' = spec
  BY DEF ParseOk
<1>2. spec \in Expressions
  BY DEF LeapInv
<1>3. WellFormed(sched')
  <2>1. CASE spec.alias # "none"
    <3>1. spec.alias \in DOMAIN Aliases
      BY <1>2, <2>1 DEF Expressions
    <3> QED
      BY <1>1, <2>1, <3>1, AliasesFormed
  <2>2. CASE spec.alias = "none"
    <3>1. "none" \notin DOMAIN Aliases
      BY DEF Aliases
    <3>2. spec.of \in Specs
      BY <1>2, <2>2, <3>1 DEF Expressions
    <3> QED
      BY <1>1, <2>2, <3>2, ParseMakes DEF WellFormed
  <2> QED
    BY <2>1, <2>2
<1> QED
  BY <1>1, <1>2, <1>3 DEF LeapInv

LEMMA RefuseLeap == ASSUME LeapInv, ParseRefuses PROVE LeapInv'
<1>1. /\ phase = "parse" /\ phase' = "refused" /\ spec.alias = "none"
      /\ \/ ~Accepted(spec.of) /\ sched' = sched
         \/ /\ Accepted(spec.of) /\ ~Feasible(Parse(spec.of))
            /\ sched' = Parse(spec.of)
      /\ spec' = spec
  BY DEF ParseRefuses
<1>2. spec \in Expressions /\ sched = NoSchedule
  BY <1>1 DEF LeapInv
<1>3. spec.of \in Specs
  <2>1. "none" \notin DOMAIN Aliases
    BY DEF Aliases
  <2> QED
    BY <1>1, <1>2, <2>1 DEF Expressions
<1>4. sched' # NoSchedule => ~Feasible(sched') /\ (~sched'.domR => 1 \in sched'.dom)
  BY <1>1, <1>2, <1>3, ParseMakes
<1> QED
  BY <1>1, <1>2, <1>4 DEF LeapInv

LEMMA NextLeapInv == LeapInv /\ [Next]_vars => LeapInv'
<1> SUFFICES ASSUME LeapInv, [Next]_vars PROVE LeapInv'
  OBVIOUS
<1>1. CASE ParseOk
  BY <1>1, ParseLeap
<1>2. CASE ParseRefuses
  BY <1>2, RefuseLeap
<1>3. CASE SkipMonth \/ SkipDay \/ SkipHour \/ SkipMinute
  <2>1. phase = "search" /\ UNCHANGED <<phase, spec, sched, after>>
    BY <1>3 DEF SkipMonth, SkipDay, SkipHour, SkipMinute, Skip, Searching
  <2> QED
    BY <2>1 DEF LeapInv
<1>4. CASE Found
  BY <1>4 DEF Found, Searching, LeapInv
<1>5. CASE GiveUp
  BY <1>5 DEF GiveUp, Searching, LeapInv
<1>6. CASE UNCHANGED vars
  BY <1>6 DEF vars, LeapInv
<1> QED
  BY <1>1, <1>2, <1>3, <1>4, <1>5, <1>6 DEF Next

(* A schedule refused for its days has none in any month.                   *)
LEMMA RefusedNever ==
  ASSUME LeapInv, phase = "refused", sched # NoSchedule,
         NEW m \in 1 .. Months, NEW d \in 1 .. 31,
         MonthOf(m) \in sched.mon, d <= Days[m]
  PROVE  ~DayMatches(sched, [m |-> m, d |-> d, h |-> 0, i |-> 0])
<1>1. ~Feasible(sched) /\ (~sched.domR => 1 \in sched.dom)
  BY DEF LeapInv
<1>2. ~sched.dowR /\ sched.dom \cap (1 .. MaxDays[MonthOf(m)]) = {}
  BY <1>1 DEF Feasible
<1>3. /\ Days[m] \in 28 .. 31 /\ Days[m] <= MaxDays[MonthOf(m)]
      /\ MonthOf(m) \in 1 .. 12
  BY MonthLength
<1>4. MaxDays[MonthOf(m)] \in 28 .. 31
  BY <1>3 DEF MaxDays
<1>5. 1 \in 1 .. MaxDays[MonthOf(m)] /\ d \in 1 .. MaxDays[MonthOf(m)]
  BY <1>3, <1>4
<1>6. sched.domR /\ d \notin sched.dom
  BY <1>1, <1>2, <1>5
<1> QED
  BY <1>2, <1>6 DEF DayMatches

(* A search is given up only for a schedule of 29 February alone, after     *)
(* four years without one; every other schedule that Parse accepts fires,   *)
(* and one it refuses for its days has no day in any month                  *)
(* (cron.go:143-147, 247-249).                                              *)
THEOREM GivesUpForLeapDayOnly == Spec => []FiresInLeapCycle
<1>1. IInv /\ LeapInv => FiresInLeapCycle
  <2> SUFFICES ASSUME IInv, LeapInv PROVE FiresInLeapCycle
    OBVIOUS
  <2>1. ASSUME phase = "gaveup"
        PROVE  /\ LeapDayOnly(sched)
               /\ \A m \in after.m + 1 .. after.m + 47 : MonthOf(m) = 2 => Days[m] = 28
    <3>1. /\ after \in Starts /\ IsTime(t) /\ Passed(sched, after, t)
          /\ WellFormed(sched) /\ ~Before(t, Limit(NextMinute(after)))
      BY <2>1 DEF IInv, LeapInv
    <3>2. IsTime(after) /\ t.m >= after.m + 48
      BY <3>1, StartIsTime, FourYears
    <3> QED
      BY <3>1, <3>2, OnlyLeapDay
  <2> QED
    BY <2>1, RefusedNever DEF FiresInLeapCycle
<1> QED
  BY <1>1, InitIInv, NextIInv, InitLeapInv, NextLeapInv, PTL DEF Spec

(* Among any 48 months there is a leap day: short of a century's missing    *)
(* one.                                                                     *)
LeapCycle ==
  \A m \in 1 .. Months - 47 :
    \E k \in m .. m + 47 : MonthOf(k) = 2 /\ Days[k] = 29

(* A search that began on 29 February ends after that day, four years on.   *)
LEMMA LeapStart ==
  ASSUME NEW u \in Starts, u.d = 29, Days[u.m] = 29, Days[u.m + 48] = 29,
         NEW v, IsTime(v), ~Before(v, Limit(NextMinute(u)))
  PROVE  v.m >= u.m + 49
<1> DEFINE n == NextMinute(u)
<1>1. IsTime(u) /\ u.m + 51 <= Months
  BY StartIsTime
<1>2. u.m \in Nat /\ Months \in Nat /\ v.m \in Nat
  <2>1. u.m \in 1 .. Months /\ v.m \in 1 .. Months
    BY <1>1, TimeFields
  <2> QED
    BY <2>1, CalendarAssumption
<1>3. IsTime(n) /\ Before(u, n)
  BY <1>1, <1>2, NextIsLater
<1>4. /\ n.m \in Nat /\ n = [m |-> n.m, d |-> n.d, h |-> n.h, i |-> n.i]
      /\ n.d \in 1 .. Days[n.m] /\ n.m \in 1 .. Months
  <2> HIDE DEF n
  <2>1. /\ n = [m |-> n.m, d |-> n.d, h |-> n.h, i |-> n.i]
        /\ n.d \in 1 .. Days[n.m] /\ n.m \in 1 .. Months
    BY <1>3, TimeFields
  <2> QED
    BY <2>1, CalendarAssumption
<1>5. n.m >= u.m /\ (n.m = u.m => n.d >= 29)
  <2>1. u.m \in Int /\ u.d = 29 /\ n.m \in Int /\ n.d \in Int
    <3>1. Days[n.m] \in 28 .. 31
      BY <1>4, CalendarAssumption
    <3> QED
      BY <1>2, <1>4, <3>1
  <2> HIDE DEF n
  <2> QED
    BY <2>1, <1>3 DEF Before
<1>6. ~(v.m < Limit(n).m)
  BY DEF Before
<1> HIDE DEF n
<1>7. \A x, y : [n EXCEPT !.m = x, !.d = y].m = x
  BY <1>4
<1>8. CASE n.m = u.m
  <2>1. n.d = 29
    BY <1>4, <1>5, <1>8
  <2>2. Limit(n).m = n.m + 49
    <3>1. ~(n.d < Days[n.m + 48]) /\ n.m + 48 + 1 = n.m + 49
      BY <2>1, <1>2, <1>8
    <3> QED
      BY <3>1, <1>7 DEF Limit
  <2> QED
    BY <2>2, <1>2, <1>6, <1>8
<1>9. CASE n.m > u.m
  <2>1. Limit(n).m \in {n.m + 48, n.m + 49}
    BY <1>4, <1>7 DEF Limit
  <2> QED
    BY <2>1, <1>2, <1>4, <1>6, <1>9
<1> QED
  BY <1>2, <1>4, <1>5, <1>8, <1>9

(* Where every four years have their leap day, a search is never given up:  *)
(* Next's limit is the backstop that its comment says it is                 *)
(* (cron.go:245-249), whatever Parse accepts and whenever it is asked.      *)
THEOREM FiresShortOfCentury == ASSUME LeapCycle PROVE Spec => []AcceptedFires
<1>1. IInv /\ LeapInv => AcceptedFires
  <2> SUFFICES ASSUME IInv, LeapInv, phase = "gaveup" PROVE FALSE
    BY DEF AcceptedFires
  <2>1. /\ after \in Starts /\ IsTime(t) /\ Passed(sched, after, t)
        /\ WellFormed(sched) /\ ~Before(t, Limit(NextMinute(after)))
    BY DEF IInv, LeapInv
  <2>2. /\ IsTime(after) /\ after.m + 51 <= Months /\ t.m >= after.m + 48
    BY <2>1, StartIsTime, FourYears
  <2>3. after.m \in 1 .. Months /\ Months \in Nat /\ t.m \in Nat
    <3>1. after.m \in 1 .. Months /\ t.m \in 1 .. Months
      BY <2>1, <2>2, TimeFields
    <3> QED
      BY <3>1, CalendarAssumption
  <2>4. /\ sched.domR /\ 2 \in sched.mon /\ 29 \in sched.dom
        /\ \A m \in after.m + 1 .. after.m + 47 : MonthOf(m) = 2 => Days[m] = 28
    BY <2>1, <2>2, OnlyLeapDay DEF LeapDayOnly
  <2>5. MonthOf(after.m) = 2 /\ Days[after.m] = 29
    <3>0. after.m \in 1 .. Months - 47
      BY <2>2, <2>3
    <3>1. PICK k \in after.m .. after.m + 47 : MonthOf(k) = 2 /\ Days[k] = 29
      BY <3>0 DEF LeapCycle
    <3>2. k \notin after.m + 1 .. after.m + 47
      BY <3>1, <2>4
    <3>3. k = after.m
      BY <3>1, <3>2, <2>3
    <3> QED
      BY <3>1, <3>3
  <2>6. MonthOf(after.m + 48) = 2 /\ Days[after.m + 48] = 29
    <3>1. after.m + 1 \in 1 .. Months - 47
      BY <2>2, <2>3
    <3>2. PICK k \in after.m + 1 .. after.m + 48 : MonthOf(k) = 2 /\ Days[k] = 29
      <4>1. PICK k \in after.m + 1 .. after.m + 1 + 47 : MonthOf(k) = 2 /\ Days[k] = 29
        BY <3>1 DEF LeapCycle
      <4>2. k \in after.m + 1 .. after.m + 48
        BY <4>1, <2>3
      <4> QED
        BY <4>1, <4>2
    <3>3. k \notin after.m + 1 .. after.m + 47
      BY <3>2, <2>4
    <3>4. k = after.m + 48
      BY <3>2, <3>3, <2>3
    <3> QED
      BY <3>2, <3>4
  <2>7. after.d \in 1 .. 29
    BY <2>2, <2>5, TimeFields
  <2>8. CASE after.d < 29
    <3>1. after.m \in after.m .. t.m - 1 /\ 29 \in 1 .. Days[after.m]
      BY <2>2, <2>3, <2>5
    <3>2. ~DayMatches(sched, [m |-> after.m, d |-> 29, h |-> 0, i |-> 0])
      BY <2>1, <2>2, <2>4, <2>5, <2>8, <3>1, NoDayPassed
    <3> QED
      BY <3>2, <2>4 DEF DayMatches
  <2>9. CASE after.d = 29
    <3>1. t.m >= after.m + 49
      BY <2>1, <2>5, <2>6, <2>9, LeapStart
    <3>2. /\ after.m + 48 \in after.m .. t.m - 1 /\ 29 \in 1 .. Days[after.m + 48]
          /\ after.m < after.m + 48
      BY <3>1, <2>3, <2>6
    <3>3. ~DayMatches(sched, [m |-> after.m + 48, d |-> 29, h |-> 0, i |-> 0])
      BY <2>1, <2>2, <2>4, <2>6, <3>2, NoDayPassed
    <3> QED
      BY <3>3, <2>4 DEF DayMatches
  <2> QED
    BY <2>7, <2>8, <2>9
<1> QED
  BY <1>1, InitIInv, NextIInv, InitLeapInv, NextLeapInv, PTL DEF Spec

-----------------------------------------------------------------------------
(* Fanout.                                                                  *)

(* What the commands name, and what an RPC can hold.                        *)
Wanted == [kind : {"all", "id", "name"}, id : Nat, name : Seq(STRING)]
Selectors == [ids : SUBSET Int, names : SUBSET Seq(STRING), all : BOOLEAN]
Calls ==
  [sel : Selectors, left : Selectors, todo : SUBSET Int, ids : SUBSET Int,
   err : BOOLEAN, ended : BOOLEAN, answer : {"none", "ok", "err"}]

FanoutTypeOK ==
  /\ DOMAIN apps \subseteq F!Ids /\ nextID \in Nat /\ serial \in Nat
  /\ \A id \in DOMAIN apps : apps[id].serial \in Nat /\ apps[id].serial <= serial
  /\ cmd \in Commands /\ stage \in {"start", "calls", "done"}
  /\ rpcs \in [DOMAIN rpcs -> Calls]
  /\ result \in [ids : SUBSET Int, err : BOOLEAN]
  /\ \A v \in asked \cup served : v.serial \in Nat /\ v.serial <= serial
  /\ \A v \in asked \cup served : v = [id |-> v.id, serial |-> v.serial]
  /\ twice \in BOOLEAN

(* The app v is still the one registered under its pm_id.                   *)
Still(v) == v.id \in DOMAIN apps /\ apps[v.id].serial = v.serial

(* Nothing is sent or served at the start, and names last.                  *)
Unsent == stage = "start" => DOMAIN rpcs = {} /\ served = {} /\ ~twice
AskedNamed == \A v \in asked : Still(v) => v.id \in F!Named(F!TargetSet)

(* The replies: what was served is among the ids of an RPC, or that RPC has *)
(* an error; an answer "ok" is given at the end, and is final.              *)
Accounted ==
  /\ \A i \in DOMAIN rpcs : rpcs[i].ids \subseteq {v.id : v \in served}
  /\ \A v \in served : \E i \in DOMAIN rpcs : v.id \in rpcs[i].ids \/ rpcs[i].err
Answered ==
  \A i \in DOMAIN rpcs :
    /\ rpcs[i].answer = "ok" => rpcs[i].ended /\ (~rpcs[i].err \/ F!Lenient)
    /\ rpcs[i].ended => rpcs[i].left = F!Nothing /\ rpcs[i].todo = {}
Merged ==
  stage = "done" =>
    /\ \A i \in DOMAIN rpcs : rpcs[i].answer # "none"
    /\ result = [ids |-> F!MergeIDs(rpcs),
                 err |-> \E i \in DOMAIN rpcs : rpcs[i].answer = "err"]

(* What is left of a selector reaches the app at id.                        *)
Reaches(left, id) ==
  left.all \/ id \in left.ids \/ \E name \in left.names : F!InFamily(apps[id].name, name)

(* An app asked for is served, or some RPC will still come to it, or has    *)
(* failed.                                                                  *)
OnTheWay(v) ==
  \/ v \in served
  \/ \E i \in DOMAIN rpcs :
       rpcs[i].err \/ v.id \in rpcs[i].todo \/ Reaches(rpcs[i].left, v.id)
Covered ==
  stage # "start" /\ ~F!Mixed => \A v \in asked : Still(v) => OnTheWay(v)

(* RPCs without a target named twice share no pm_id.                        *)
Single == cmd.n = 1 \/ ~F!Explicit(F!Selection)
Apart ==
  Single => \A i, j \in DOMAIN rpcs :
    i # j => /\ rpcs[i].sel.names = {} /\ ~rpcs[i].sel.all
             /\ rpcs[i].sel.ids \cap rpcs[j].sel.ids = {}
Within ==
  \A i \in DOMAIN rpcs :
    /\ rpcs[i].left.ids \subseteq rpcs[i].sel.ids
    /\ rpcs[i].left.names \subseteq rpcs[i].sel.names
    /\ rpcs[i].left.all => rpcs[i].sel.all
    /\ rpcs[i].sel.names = {} /\ ~rpcs[i].sel.all => rpcs[i].todo \subseteq rpcs[i].sel.ids

(* What was served has no RPC that can come to it again.                    *)
Spent(v) ==
  \E i \in DOMAIN rpcs :
    /\ rpcs[i].left = F!Nothing /\ v.id \notin rpcs[i].todo
    /\ \A j \in DOMAIN rpcs : j # i => v.id \notin rpcs[j].sel.ids
ServedOnce == Single => ~twice /\ \A v \in served : Spent(v)

FanoutInv ==
  /\ FanoutTypeOK /\ Unsent /\ AskedNamed /\ Accounted /\ Answered /\ Merged
  /\ Covered /\ Apart /\ Within /\ ServedOnce

-----------------------------------------------------------------------------
(* Selectors.                                                               *)
LEMMA IdsFit ==
  ASSUME NEW n \in Nat
  PROVE  F!Int32(n) \in Int /\ (n \in F!Ids => F!Int32(n) = n)
BY FanoutAssumption DEF F!Int32, F!Ids

LEMMA SelectorTyped ==
  ASSUME NEW T \in SUBSET Wanted
  PROVE  F!SelectorOf(T) \in Selectors
<1>1. \A g \in T : g.name \in Seq(STRING) /\ g.id \in Nat
  BY DEF Wanted
<1>2. {F!Int32(g.id) : g \in {u \in T : u.kind = "id"}} \in SUBSET Int
  BY <1>1, IdsFit
<1>3. {g.name : g \in {u \in T : u.kind = "name"}} \in SUBSET Seq(STRING)
  BY <1>1
<1>4. (T = {} \/ \E g \in T : g.kind = "all") \in BOOLEAN
  OBVIOUS
<1> QED
  BY <1>2, <1>3, <1>4 DEF F!SelectorOf, F!Sel, Selectors

(* The target g names the app registered at id.                             *)
Names(g, id) ==
  \/ g.kind = "all"
  \/ g.kind = "id" /\ g.id = id
  \/ g.kind = "name" /\ F!InFamily(apps[id].name, g.name)

(* A selector made of targets reaches what any of them names, unless it has *)
(* "all" beside others.                                                     *)
LEMMA SelectorReaches ==
  ASSUME NEW T \in SUBSET Wanted, NEW id \in F!Ids,
         T = {} \/ \E g \in T : Names(g, id),
         F!SelectorOf(T) = F!Meant(F!SelectorOf(T))
  PROVE  Reaches(F!Meant(F!SelectorOf(T)), id)
<1> DEFINE s == F!SelectorOf(T)
<1>1. /\ s.ids = {F!Int32(g.id) : g \in {u \in T : u.kind = "id"}}
      /\ s.names = {g.name : g \in {u \in T : u.kind = "name"}}
      /\ s.all = (T = {} \/ \E g \in T : g.kind = "all")
  BY DEF F!SelectorOf, F!Sel
<1>2. CASE s.all
  BY <1>2 DEF Reaches
<1>3. CASE ~s.all
  <2>1. PICK g \in T : Names(g, id) /\ g.kind # "all"
    BY <1>1, <1>3
  <2>2. CASE g.kind = "id"
    <3>1. g.id = id /\ g.id \in Nat
      BY <2>1, <2>2 DEF Names, Wanted
    <3>2. id \in s.ids
      BY <1>1, <2>2, <3>1, IdsFit
    <3> QED
      BY <3>2 DEF Reaches
  <2>3. CASE g.kind = "name"
    <3>1. F!InFamily(apps[id].name, g.name) /\ g.name \in s.names
      BY <1>1, <2>1, <2>3 DEF Names
    <3> QED
      BY <3>1 DEF Reaches
  <2> QED
    BY <2>1, <2>2, <2>3 DEF Names
<1> QED
  BY <1>2, <1>3

(* Each selector packed is made of targets, and each target is in one.      *)
LEMMA PackParts ==
  ASSUME NEW k \in Nat, NEW ts \in [1 .. k -> Wanted], NEW n \in Nat, n >= 1
  PROVE  /\ \A i \in DOMAIN F!Pack(ts, n) :
              \E T \in SUBSET Wanted : T # {} /\ F!Pack(ts, n)[i] = F!SelectorOf(T)
         /\ \A j \in 1 .. k : \E i \in DOMAIN F!Pack(ts, n) :
              \E T \in SUBSET Wanted : ts[j] \in T /\ F!Pack(ts, n)[i] = F!SelectorOf(T)
<1>1. Len(ts) = k
  OBVIOUS
<1>2. CASE k <= n
  <2>1. F!Pack(ts, n) = [i \in 1 .. k |-> F!SelectorOf({ts[i]})]
    BY <1>1, <1>2 DEF F!Pack
  <2>2. \A i \in 1 .. k : {ts[i]} \in SUBSET Wanted /\ {ts[i]} # {}
    OBVIOUS
  <2> QED
    BY <2>1, <2>2
<1>3. CASE k > n
  <2> DEFINE Taken(i) == IF i < n THEN {ts[i]} ELSE {ts[j] : j \in n .. k}
  <2>1. F!Pack(ts, n) = [i \in 1 .. n |-> F!SelectorOf(Taken(i))]
    BY <1>1, <1>3 DEF F!Pack
  <2>2. \A i \in 1 .. n : Taken(i) \in SUBSET Wanted /\ Taken(i) # {}
    BY <1>3
  <2>3. \A j \in 1 .. k : IF j < n THEN j \in 1 .. n /\ ts[j] \in Taken(j)
                          ELSE n \in 1 .. n /\ ts[j] \in Taken(n)
    BY <1>3
  <2>4. DOMAIN F!Pack(ts, n) = 1 .. n
       /\ \A i \in 1 .. n : F!Pack(ts, n)[i] = F!SelectorOf(Taken(i))
    BY <2>1
  <2> HIDE DEF Taken
  <2>5. ASSUME NEW j \in 1 .. k
        PROVE  \E i \in 1 .. n : ts[j] \in Taken(i)
    BY <2>3
  <2> QED
    BY <2>2, <2>4, <2>5
<1> QED
  BY <1>2, <1>3

LEMMA SplitParts ==
  ASSUME NEW k \in Nat, NEW ts \in [1 .. k -> Wanted], NEW n \in Nat, n >= 1
  PROVE  /\ \A i \in DOMAIN F!SplitSelector(ts, n) :
              \E T \in SUBSET Wanted : F!SplitSelector(ts, n)[i] = F!SelectorOf(T)
         /\ \A j \in 1 .. k : \E i \in DOMAIN F!SplitSelector(ts, n) :
              \E T \in SUBSET Wanted :
                 ts[j] \in T /\ F!SplitSelector(ts, n)[i] = F!SelectorOf(T)
         /\ n = 1 => \A i, j \in DOMAIN F!SplitSelector(ts, n) : i = j
<1> DEFINE whole == {ts[i] : i \in DOMAIN ts}
<1>1. CASE n <= 1 \/ Len(ts) <= 1
  <2>1. F!SplitSelector(ts, n) = <<F!SelectorOf(whole)>>
    BY <1>1 DEF F!SplitSelector
  <2>2. whole \in SUBSET Wanted /\ \A j \in 1 .. k : ts[j] \in whole
    OBVIOUS
  <2>3. DOMAIN F!SplitSelector(ts, n) = {1} /\ F!SplitSelector(ts, n)[1] = F!SelectorOf(whole)
    <3> HIDE DEF whole
    <3> QED
      BY <2>1
  <2> HIDE DEF whole
  <2> QED
    BY <2>2, <2>3
<1>2. CASE ~(n <= 1 \/ Len(ts) <= 1)
  <2>1. F!SplitSelector(ts, n) = F!Pack(ts, n)
    BY <1>2 DEF F!SplitSelector
  <2> QED
    BY <1>2, <2>1, PackParts
<1> QED
  BY <1>1, <1>2

(* A listing is made of ids, one selector's apart from another's.           *)
LEMMA ListingApart ==
  ASSUME NEW S \in SUBSET F!Ids, NEW ts \in F!Listings(S), NEW n \in Nat, n >= 1
  PROVE  \E k \in Nat :
         /\ ts \in [1 .. k -> Wanted]
         /\ \A id \in S : \E j \in 1 .. k : Names(ts[j], id)
         /\ \A i, j \in DOMAIN F!Pack(ts, n) :
              i # j => /\ F!Pack(ts, n)[i].names = {} /\ ~F!Pack(ts, n)[i].all
                       /\ F!Pack(ts, n)[i].ids \cap F!Pack(ts, n)[j].ids = {}
<1>2. PICK s \in UNION {[1 .. k -> S] : k \in 0 .. MaxId + 1} :
        /\ ts = [i \in DOMAIN s |-> [kind |-> "id", id |-> s[i], name |-> <<>>]]
        /\ \A id \in S : \E i \in DOMAIN s : s[i] = id
        /\ \A i, j \in DOMAIN s : i < j => s[i] < s[j]
  BY DEF F!Listings
<1>1. PICK k \in Nat : s \in [1 .. k -> S]
  BY <1>2, FanoutAssumption
<1>3. S \subseteq Nat
  BY FanoutAssumption DEF F!Ids
<1>4. \A i \in 1 .. k : [kind |-> "id", id |-> s[i], name |-> <<>>] \in Wanted
  <2>1. \A i \in 1 .. k : s[i] \in Nat
    BY <1>1, <1>3
  <2>2. <<>> \in Seq(STRING)
    OBVIOUS
  <2> QED
    BY <2>1, <2>2 DEF Wanted
<1>5. ts \in [1 .. k -> Wanted]
      /\ \A i \in 1 .. k : ts[i].kind = "id" /\ ts[i].id = s[i]
  BY <1>1, <1>2, <1>4
<1>6. \A id \in S : \E j \in 1 .. k : Names(ts[j], id)
  BY <1>1, <1>2, <1>5 DEF Names
<1>7. ASSUME NEW A \in SUBSET (1 .. k), A # {}
      PROVE  /\ F!SelectorOf({ts[j] : j \in A}).names = {}
             /\ ~F!SelectorOf({ts[j] : j \in A}).all
             /\ F!SelectorOf({ts[j] : j \in A}).ids = {s[j] : j \in A}
  <2> DEFINE T == {ts[j] : j \in A}
  <2>1. /\ F!SelectorOf(T).ids = {F!Int32(g.id) : g \in {u \in T : u.kind = "id"}}
        /\ F!SelectorOf(T).names = {g.name : g \in {u \in T : u.kind = "name"}}
        /\ F!SelectorOf(T).all = (T = {} \/ \E g \in T : g.kind = "all")
    BY DEF F!SelectorOf, F!Sel
  <2>2. \A j \in A : s[j] \in Nat /\ F!Int32(s[j]) = s[j]
    BY <1>1, <1>3, IdsFit
  <2>3. T # {} /\ \A g \in T : g.kind = "id"
    <3>1. T # {}
      BY <1>7
    <3>2. \A j \in A : ts[j].kind = "id"
      BY <1>5, <1>7
    <3> QED
      BY <3>1, <3>2
  <2>4. {F!Int32(g.id) : g \in {u \in T : u.kind = "id"}} = {F!Int32(g.id) : g \in T}
    <3>1. {u \in T : u.kind = "id"} = T
      BY <2>3
    <3> QED
      BY <3>1, Zenon
  <2>5. {F!Int32(g.id) : g \in T} = {s[j] : j \in A}
    <3>1. \A j \in A : F!Int32(ts[j].id) = s[j]
      BY <1>5, <2>2
    <3> QED
      BY <3>1
  <2> QED
    BY <2>1, <2>3, <2>4, <2>5
<1>8. \A i, j \in 1 .. k : i # j => s[i] # s[j]
  <2> SUFFICES ASSUME NEW i \in 1 .. k, NEW j \in 1 .. k, i # j
               PROVE  s[i] # s[j]
    OBVIOUS
  <2>1. i < j \/ j < i
    BY <1>1
  <2>2. s[i] \in Nat /\ s[j] \in Nat
    BY <1>1, <1>3
  <2> QED
    BY <1>1, <1>2, <2>1, <2>2
<1>9. Len(ts) = k
  BY <1>1, <1>5
<1> DEFINE Taken(i) == IF k <= n \/ i < n THEN {i} ELSE n .. k
<1>10. /\ DOMAIN F!Pack(ts, n) = 1 .. (IF k <= n THEN k ELSE n)
       /\ \A i \in DOMAIN F!Pack(ts, n) :
            F!Pack(ts, n)[i] = F!SelectorOf({ts[j] : j \in Taken(i)})
  <2>1. CASE k <= n
    <3>1. F!Pack(ts, n) = [i \in 1 .. k |-> F!SelectorOf({ts[i]})]
      BY <1>9, <2>1 DEF F!Pack
    <3>2. ASSUME NEW i \in 1 .. k
          PROVE  F!Pack(ts, n)[i] = F!SelectorOf({ts[j] : j \in Taken(i)})
      <4>1. {ts[j] : j \in Taken(i)} = {ts[i]}
        BY <2>1
      <4> QED
        BY <3>1, <4>1, Zenon
    <3> QED
      BY <2>1, <3>1, <3>2
  <2>2. CASE ~(k <= n)
    <3>1. F!Pack(ts, n) = [i \in 1 .. n |->
             F!SelectorOf(IF i < n THEN {ts[i]} ELSE {ts[j] : j \in n .. k})]
      BY <1>9, <2>2, Zenon DEF F!Pack
    <3>2. ASSUME NEW i \in 1 .. n
          PROVE  F!Pack(ts, n)[i] = F!SelectorOf({ts[j] : j \in Taken(i)})
      <4>1. (IF i < n THEN {ts[i]} ELSE {ts[j] : j \in n .. k}) = {ts[j] : j \in Taken(i)}
        BY <1>1, <2>2
      <4> QED
        BY <3>1, <4>1, Zenon
    <3>3. DOMAIN F!Pack(ts, n) = 1 .. n
      BY <3>1
    <3>4. DOMAIN F!Pack(ts, n) = 1 .. (IF k <= n THEN k ELSE n)
      BY <2>2, <3>3
    <3>5. \A i \in DOMAIN F!Pack(ts, n) :
             F!Pack(ts, n)[i] = F!SelectorOf({ts[j] : j \in Taken(i)})
      BY <3>2, <3>3, Zenon
    <3> QED
      BY <3>4, <3>5
  <2> QED
    BY <2>1, <2>2
<1>11. \A i \in DOMAIN F!Pack(ts, n) : Taken(i) \in SUBSET (1 .. k) /\ Taken(i) # {}
  BY <1>1, <1>10
<1>12. \A i, j \in DOMAIN F!Pack(ts, n) : i # j => Taken(i) \cap Taken(j) = {}
  BY <1>1, <1>10
<1> HIDE DEF Taken
<1>13. ASSUME NEW i \in DOMAIN F!Pack(ts, n), NEW j \in DOMAIN F!Pack(ts, n), i # j
       PROVE  /\ F!Pack(ts, n)[i].names = {} /\ ~F!Pack(ts, n)[i].all
              /\ F!Pack(ts, n)[i].ids \cap F!Pack(ts, n)[j].ids = {}
  <2>1. /\ F!Pack(ts, n)[i].names = {} /\ ~F!Pack(ts, n)[i].all
        /\ F!Pack(ts, n)[i].ids = {s[l] : l \in Taken(i)}
    BY <1>7, <1>10, <1>11
  <2>2. F!Pack(ts, n)[j].ids = {s[l] : l \in Taken(j)}
    BY <1>7, <1>10, <1>11
  <2>3. Taken(i) \cap Taken(j) = {} /\ Taken(i) \subseteq 1 .. k /\ Taken(j) \subseteq 1 .. k
    BY <1>11, <1>12, <1>13
  <2> QED
    BY <1>8, <2>1, <2>2, <2>3
<1> QED
  BY <1>1, <1>5, <1>6, <1>13

-----------------------------------------------------------------------------
(* What the targets of a command are, and its selection.                    *)
LEMMA TargetsWanted ==
  ASSUME FanoutTypeOK
  PROVE  /\ cmd.n \in Nat /\ cmd.n >= 1
         /\ \E k \in Nat : cmd.targets \in [1 .. k -> Wanted]
         /\ F!TargetSet \in SUBSET Wanted
<1>1. cmd.targets \in Seq(Wanted) /\ cmd.n \in Nat /\ cmd.n >= 1
  BY FanoutAssumption DEF FanoutTypeOK, Wanted
<1>2. cmd.targets \in [1 .. Len(cmd.targets) -> Wanted] /\ Len(cmd.targets) \in Nat
  BY <1>1
<1> QED
  BY <1>1, <1>2 DEF F!TargetSet

LEMMA NamedByTarget ==
  ASSUME NEW id, id \in F!Named(F!TargetSet)
  PROVE  F!TargetSet = {} \/ \E g \in F!TargetSet : Names(g, id)
BY DEF F!Named, Names

(* The selectors sent are made of targets, and reach every app asked for.   *)
LEMMA SendKeeps ==
  ASSUME FanoutInv, NEW sels, stage = "start", F!Send(sels),
         \A i \in DOMAIN sels : \E T \in SUBSET Wanted : sels[i] = F!SelectorOf(T),
         \A v \in asked : Still(v) =>
           \E i \in DOMAIN sels :
              sels[i] = F!Meant(sels[i]) => Reaches(F!Meant(sels[i]), v.id),
         Single => \A i, j \in DOMAIN sels :
           i # j => /\ sels[i].names = {} /\ ~sels[i].all
                    /\ sels[i].ids \cap sels[j].ids = {}
  PROVE  FanoutInv'
<1>1. /\ apps' = apps /\ nextID' = nextID /\ serial' = serial /\ cmd' = cmd
      /\ result' = result /\ asked' = asked /\ served' = served /\ twice' = twice
      /\ stage' = "calls" /\ rpcs' = [i \in DOMAIN sels |-> F!Call(sels[i])]
  BY DEF F!Send, F!registry, F!past
<1>2. DOMAIN rpcs' = DOMAIN sels /\ \A i \in DOMAIN sels : rpcs'[i] = F!Call(sels[i])
  BY <1>1
<1>3. \A i \in DOMAIN sels : sels[i] \in Selectors
  BY SelectorTyped
<1>4. \A i \in DOMAIN sels : F!Meant(sels[i]) \in Selectors
  BY <1>3 DEF F!Meant, F!Sel, Selectors
<1>5. \A i \in DOMAIN sels : rpcs'[i] \in Calls
  <2>1. ASSUME NEW i \in DOMAIN sels
        PROVE  F!Call(sels[i]) \in Calls
    BY <1>3, <1>4 DEF F!Call, Calls
  <2> QED
    BY <1>2, <2>1
<1>6. \A i \in DOMAIN sels :
        /\ rpcs'[i].sel = sels[i] /\ rpcs'[i].left = F!Meant(sels[i])
        /\ rpcs'[i].todo = {} /\ rpcs'[i].ids = {} /\ rpcs'[i].err = FALSE
        /\ rpcs'[i].ended = FALSE /\ rpcs'[i].answer = "none"
  BY <1>2 DEF F!Call
<1>7. served = {} /\ ~twice
  BY DEF FanoutInv, Unsent
<1>8. FanoutTypeOK'
  <2>1. rpcs' \in [DOMAIN rpcs' -> Calls]
    BY <1>1, <1>2, <1>5
  <2> QED
    BY <1>1, <2>1 DEF FanoutInv, FanoutTypeOK
<1>9. Unsent' /\ AskedNamed' /\ Accounted' /\ Answered' /\ Merged'
  <2>1. AskedNamed'
    BY <1>1 DEF FanoutInv, AskedNamed, Still, F!Named, F!TargetSet
  <2> QED
    BY <1>1, <1>2, <1>6, <1>7, <2>1 DEF Unsent, Accounted, Answered, Merged
<1>10. Covered'
  <2> SUFFICES ASSUME ~F!Mixed', NEW v \in asked, Still(v)
               PROVE  OnTheWay(v)'
    BY <1>1 DEF Covered, Still
  <2>1. \A i \in DOMAIN sels : sels[i] = F!Meant(sels[i])
    BY <1>2, <1>6 DEF F!Mixed
  <2>2. PICK i \in DOMAIN sels : Reaches(F!Meant(sels[i]), v.id)
    BY <2>1
  <2>3. Reaches(F!Meant(sels[i]), v.id)'
    BY <1>1, <2>2 DEF Reaches
  <2> QED
    BY <1>2, <1>6, <2>2, <2>3 DEF OnTheWay
<1>11. Apart' /\ Within' /\ ServedOnce'
  <2>1. Single' = Single
    BY <1>1 DEF Single, F!Selection, F!TargetSet
  <2>2. \A i \in DOMAIN sels :
          /\ F!Meant(sels[i]).ids = sels[i].ids /\ F!Meant(sels[i]).names = sels[i].names
          /\ F!Meant(sels[i]).all => sels[i].all
    BY DEF F!Meant, F!Sel
  <2> QED
    BY <1>1, <1>2, <1>6, <1>7, <2>1, <2>2 DEF Apart, Within, ServedOnce
<1> QED
  BY <1>8, <1>9, <1>10, <1>11 DEF FanoutInv

(* A selector sent as it is: Direct and SendUnlisted.                       *)
LEMMA SendWhole ==
  ASSUME FanoutInv, stage = "start", F!Send(<<F!Selection>>)
  PROVE  FanoutInv'
<1> DEFINE sels == <<F!Selection>>
<1>1. DOMAIN sels = {1} /\ sels[1] = F!SelectorOf(F!TargetSet)
  BY DEF F!Selection
<1>2. F!TargetSet \in SUBSET Wanted
  BY TargetsWanted DEF FanoutInv
<1>3. ASSUME NEW v \in asked, Still(v), sels[1] = F!Meant(sels[1])
      PROVE  Reaches(F!Meant(sels[1]), v.id)
  <2>1. v.id \in F!Ids
    BY <1>3 DEF FanoutInv, FanoutTypeOK, Still
  <2>2. F!TargetSet = {} \/ \E g \in F!TargetSet : Names(g, v.id)
    BY <1>3, NamedByTarget DEF FanoutInv, AskedNamed
  <2> QED
    BY <1>1, <1>2, <1>3, <2>1, <2>2, SelectorReaches
<1>4. F!Send(sels)
  OBVIOUS
<1> HIDE DEF sels
<1> QED
  BY <1>1, <1>2, <1>3, <1>4, SendKeeps

LEMMA SendSplitKeeps ==
  ASSUME FanoutInv, F!SendSplit
  PROVE  FanoutInv'
<1>1. PICK ts \in F!Gathered(cmd.targets) : F!Send(F!SplitSelector(ts, cmd.n))
  BY DEF F!SendSplit
<1>2. PICK k \in Nat : cmd.targets \in [1 .. k -> Wanted]
  BY TargetsWanted DEF FanoutInv
<1>3. cmd.n \in Nat /\ cmd.n >= 1
  BY TargetsWanted DEF FanoutInv
<1>4. /\ ts \in [1 .. k -> Wanted]
      /\ \A j \in 1 .. k : \E i \in 1 .. k : ts[i] = cmd.targets[j]
  <2>1. PICK q \in [DOMAIN cmd.targets -> DOMAIN cmd.targets] :
          /\ ts = [i \in DOMAIN cmd.targets |-> cmd.targets[q[i]]]
          /\ \A j \in DOMAIN cmd.targets : \E i \in DOMAIN cmd.targets : q[i] = j
    BY Zenon DEF F!Gathered
  <2>2. DOMAIN cmd.targets = 1 .. k
    BY <1>2
  <2> QED
    BY <1>2, <2>1, <2>2
<1> DEFINE sels == F!SplitSelector(ts, cmd.n)
<1>5. /\ \A i \in DOMAIN sels : \E T \in SUBSET Wanted : sels[i] = F!SelectorOf(T)
      /\ \A j \in 1 .. k : \E i \in DOMAIN sels :
           \E T \in SUBSET Wanted : ts[j] \in T /\ sels[i] = F!SelectorOf(T)
      /\ cmd.n = 1 => \A i, j \in DOMAIN sels : i = j
  BY <1>3, <1>4, SplitParts
<1>6. stage = "start" /\ F!Send(sels) /\ F!Explicit(F!Selection)
  BY <1>1 DEF F!SendSplit, F!Parallel
<1> HIDE DEF sels
<1>7. F!TargetSet # {}
  BY <1>6 DEF F!Explicit, F!Selection, F!SelectorOf, F!Sel
<1>8. ASSUME NEW v \in asked, Still(v)
      PROVE  \E i \in DOMAIN sels :
               sels[i] = F!Meant(sels[i]) => Reaches(F!Meant(sels[i]), v.id)
  <2>1. v.id \in F!Ids
    BY <1>8 DEF FanoutInv, FanoutTypeOK, Still
  <2>2. PICK g \in F!TargetSet : Names(g, v.id)
    BY <1>7, <1>8, NamedByTarget DEF FanoutInv, AskedNamed
  <2>3. PICK j \in 1 .. k : ts[j] = g
    BY <1>2, <1>4 DEF F!TargetSet
  <2>4. PICK i \in DOMAIN sels, T \in SUBSET Wanted : g \in T /\ sels[i] = F!SelectorOf(T)
    BY <1>5, <2>3
  <2> QED
    BY <2>1, <2>2, <2>4, SelectorReaches
<1> QED
  BY <1>5, <1>6, <1>8, SendKeeps DEF Single

LEMMA SendListedKeeps ==
  ASSUME FanoutInv, F!SendListed
  PROVE  FanoutInv'
<1>1. PICK ts \in F!Listings(DOMAIN apps) : F!Send(F!Pack(ts, cmd.n))
  BY DEF F!SendListed
<1>2. cmd.n \in Nat /\ cmd.n >= 1 /\ DOMAIN apps \in SUBSET F!Ids
  BY TargetsWanted DEF FanoutInv, FanoutTypeOK
<1> DEFINE sels == F!Pack(ts, cmd.n)
<1>3. PICK k \in Nat :
        /\ ts \in [1 .. k -> Wanted]
        /\ \A id \in DOMAIN apps : \E j \in 1 .. k : Names(ts[j], id)
        /\ \A i, j \in DOMAIN sels :
             i # j => /\ sels[i].names = {} /\ ~sels[i].all
                      /\ sels[i].ids \cap sels[j].ids = {}
  BY <1>2, ListingApart
<1>4. /\ \A i \in DOMAIN sels : \E T \in SUBSET Wanted : sels[i] = F!SelectorOf(T)
      /\ \A j \in 1 .. k : \E i \in DOMAIN sels :
           \E T \in SUBSET Wanted : ts[j] \in T /\ sels[i] = F!SelectorOf(T)
  <2>1. ts \in [1 .. k -> Wanted]
    BY <1>3
  <2> QED
    BY <1>2, <2>1, PackParts
<1>5. stage = "start" /\ F!Send(sels)
  BY <1>1 DEF F!SendListed, F!Parallel
<1> HIDE DEF sels
<1>6. ASSUME NEW v \in asked, Still(v)
      PROVE  \E i \in DOMAIN sels :
               sels[i] = F!Meant(sels[i]) => Reaches(F!Meant(sels[i]), v.id)
  <2>1. v.id \in F!Ids /\ v.id \in DOMAIN apps
    BY <1>2, <1>6 DEF Still
  <2>2. PICK j \in 1 .. k : Names(ts[j], v.id)
    BY <1>3, <2>1
  <2>3. PICK i \in DOMAIN sels, T \in SUBSET Wanted : ts[j] \in T /\ sels[i] = F!SelectorOf(T)
    BY <1>4
  <2> QED
    BY <2>1, <2>2, <2>3, SelectorReaches
<1> QED
  BY <1>3, <1>4, <1>5, <1>6, SendKeeps

-----------------------------------------------------------------------------
(* A step of one RPC alone: what it may do to it.                           *)
LEMMA OneCall ==
  ASSUME FanoutTypeOK, NEW i \in DOMAIN rpcs, NEW c \in Calls, rpcs' = [rpcs EXCEPT ![i] = c]
  PROVE  /\ DOMAIN rpcs' = DOMAIN rpcs /\ rpcs' \in [DOMAIN rpcs' -> Calls]
         /\ rpcs'[i] = c /\ \A j \in DOMAIN rpcs : j # i => rpcs'[j] = rpcs[j]
BY DEF FanoutTypeOK

(* One id or name is resolved: it is not to serve anything twice, and what  *)
(* it no longer reaches is to be served.                                    *)
LEMMA ResolvedKeeps ==
  ASSUME FanoutInv, NEW i \in DOMAIN rpcs, NEW left \in Selectors, NEW ids \in SUBSET Int,
         F!Resolved(i, left, ids), rpcs[i].left # F!Nothing,
         left.ids \subseteq rpcs[i].left.ids, left.names \subseteq rpcs[i].left.names,
         left.all => rpcs[i].left.all,
         rpcs[i].sel.names = {} /\ ~rpcs[i].sel.all => ids \subseteq rpcs[i].sel.ids,
         \A v \in asked : Still(v) /\ Reaches(rpcs[i].left, v.id) =>
                            Reaches(left, v.id) \/ v.id \in ids
  PROVE  FanoutInv'
<1> DEFINE c == [rpcs[i] EXCEPT !.left = left, !.todo = @ \cup ids]
<1>1. /\ apps' = apps /\ nextID' = nextID /\ serial' = serial /\ cmd' = cmd
      /\ result' = result /\ asked' = asked /\ served' = served /\ twice' = twice
      /\ stage' = stage
  BY DEF F!Resolved, F!registry, F!past
<1>2. rpcs[i] \in Calls
  BY DEF FanoutInv, FanoutTypeOK
<1>3. /\ c \in Calls /\ c.left = left /\ c.todo = rpcs[i].todo \cup ids
      /\ c.sel = rpcs[i].sel /\ c.ids = rpcs[i].ids /\ c.err = rpcs[i].err
      /\ c.ended = rpcs[i].ended /\ c.answer = rpcs[i].answer
  BY <1>2 DEF Calls
<1>4. rpcs' = [rpcs EXCEPT ![i] = c]
  BY DEF F!Resolved
<1> HIDE DEF c
<1>5. /\ DOMAIN rpcs' = DOMAIN rpcs /\ rpcs' \in [DOMAIN rpcs' -> Calls]
      /\ rpcs'[i] = c /\ \A j \in DOMAIN rpcs : j # i => rpcs'[j] = rpcs[j]
  BY <1>3, <1>4, OneCall DEF FanoutInv
<1>6. \A j \in DOMAIN rpcs :
        /\ rpcs'[j].sel = rpcs[j].sel /\ rpcs'[j].ids = rpcs[j].ids
        /\ rpcs'[j].err = rpcs[j].err /\ rpcs'[j].ended = rpcs[j].ended
        /\ rpcs'[j].answer = rpcs[j].answer
        /\ rpcs[j].todo \subseteq rpcs'[j].todo
        /\ j # i => rpcs'[j].left = rpcs[j].left /\ rpcs'[j].todo = rpcs[j].todo
  BY <1>3, <1>5
<1>7. FanoutTypeOK' /\ Unsent'
  BY <1>1, <1>5 DEF FanoutInv, FanoutTypeOK, Unsent
<1>8. AskedNamed'
  BY <1>1 DEF FanoutInv, AskedNamed, Still, F!Named, F!TargetSet
<1>9. Accounted' /\ Answered'
  <2>1. ~rpcs[i].ended
    BY DEF FanoutInv, Answered
  <2> QED
    BY <1>1, <1>5, <1>6, <2>1 DEF FanoutInv, Accounted, Answered, F!Lenient
<1>10. Merged'
  <2>1. F!MergeIDs(rpcs') = F!MergeIDs(rpcs)
    BY <1>5, <1>6 DEF F!MergeIDs
  <2> QED
    BY <1>1, <1>5, <1>6, <2>1 DEF FanoutInv, Merged
<1>11. Covered'
  <2> SUFFICES ASSUME stage # "start", ~F!Mixed, NEW v \in asked, Still(v)
               PROVE  OnTheWay(v)'
    BY <1>1, <1>5, <1>6 DEF Covered, Still, F!Mixed
  <2>1. OnTheWay(v)
    BY DEF FanoutInv, Covered
  <2>2. \A l : Reaches(l, v.id)' = Reaches(l, v.id)
    BY <1>1 DEF Reaches
  <2>3. CASE v \in served
    BY <1>1, <2>3 DEF OnTheWay
  <2>4. ASSUME NEW j \in DOMAIN rpcs,
               rpcs[j].err \/ v.id \in rpcs[j].todo \/ Reaches(rpcs[j].left, v.id)
        PROVE  OnTheWay(v)'
    <3>1. rpcs'[j].err \/ v.id \in rpcs'[j].todo \/ Reaches(rpcs'[j].left, v.id)
      BY <1>3, <1>5, <1>6, <2>4
    <3> QED
      BY <1>5, <2>2, <3>1 DEF OnTheWay, Reaches
  <2> QED
    BY <2>1, <2>3, <2>4 DEF OnTheWay
<1>12. Apart' /\ Within'
  <2>1. Single' = Single
    BY <1>1 DEF Single, F!Selection, F!TargetSet
  <2>2. Apart'
    BY <1>5, <1>6, <2>1 DEF FanoutInv, Apart
  <2>3. Within'
    BY <1>3, <1>5, <1>6 DEF FanoutInv, Within
  <2> QED
    BY <2>2, <2>3
<1>13. ServedOnce'
  <2>1. Single' = Single
    BY <1>1 DEF Single, F!Selection, F!TargetSet
  <2>2. ASSUME NEW v \in served, Spent(v)
        PROVE  Spent(v)'
    BY <1>5, <1>6, <2>2 DEF Spent
  <2> QED
    BY <1>1, <2>1, <2>2 DEF FanoutInv, ServedOnce
<1> QED
  BY <1>7, <1>8, <1>9, <1>10, <1>11, <1>12, <1>13 DEF FanoutInv

LEMMA ResolveKeeps ==
  ASSUME FanoutInv, NEW i \in DOMAIN rpcs, F!Resolve(i)
  PROVE  FanoutInv'
<1>1. /\ rpcs[i].left \in Selectors /\ DOMAIN apps \subseteq Int
      /\ rpcs[i].left.ids \subseteq rpcs[i].sel.ids
      /\ rpcs[i].left.names \subseteq rpcs[i].sel.names
      /\ rpcs[i].left.all => rpcs[i].sel.all
  BY FanoutAssumption DEF FanoutInv, FanoutTypeOK, Within, Calls, F!Ids
<1>2. CASE F!ResolveAll(i)
  <2>1. F!Nothing \in Selectors /\ rpcs[i].left # F!Nothing
        /\ F!Nothing.ids = {} /\ F!Nothing.names = {} /\ ~F!Nothing.all
    BY <1>2 DEF F!Nothing, F!Sel, Selectors, F!ResolveAll
  <2>2. \A v \in asked : Still(v) => v.id \in DOMAIN apps
    BY DEF Still
  <2>3. F!Resolved(i, F!Nothing, DOMAIN apps) /\ rpcs[i].left.all
    BY <1>2 DEF F!ResolveAll
  <2> QED
    BY <1>1, <2>1, <2>2, <2>3, ResolvedKeeps
<1>3. CASE F!ResolveId(i)
  <2>1. PICK id \in rpcs[i].left.ids :
          F!Resolved(i, [rpcs[i].left EXCEPT !.ids = @ \ {id}], {id} \cap DOMAIN apps)
    BY <1>3 DEF F!ResolveId
  <2> DEFINE left == [rpcs[i].left EXCEPT !.ids = @ \ {id}]
  <2>2. /\ left \in Selectors /\ left.ids = rpcs[i].left.ids \ {id}
        /\ left.names = rpcs[i].left.names /\ left.all = rpcs[i].left.all
    BY <1>1 DEF Selectors
  <2>3. rpcs[i].left # F!Nothing
    BY DEF F!Nothing, F!Sel
  <2>4. F!Resolved(i, left, {id} \cap DOMAIN apps)
    BY <2>1
  <2> HIDE DEF left
  <2>5. \A v \in asked : Still(v) /\ Reaches(rpcs[i].left, v.id) =>
           Reaches(left, v.id) \/ v.id \in {id} \cap DOMAIN apps
    BY <2>2 DEF Still, Reaches
  <2>6. {id} \cap DOMAIN apps \in SUBSET Int /\ {id} \cap DOMAIN apps \subseteq rpcs[i].sel.ids
    BY <1>1
  <2> QED
    BY <2>2, <2>3, <2>4, <2>5, <2>6, ResolvedKeeps
<1>4. CASE F!ResolveName(i)
  <2>1. PICK name \in rpcs[i].left.names :
          F!Resolved(i, [rpcs[i].left EXCEPT !.names = @ \ {name}],
                     {id \in DOMAIN apps : F!InFamily(apps[id].name, name)})
    BY <1>4 DEF F!ResolveName
  <2> DEFINE left == [rpcs[i].left EXCEPT !.names = @ \ {name}]
             ids == {id \in DOMAIN apps : F!InFamily(apps[id].name, name)}
  <2>2. /\ left \in Selectors /\ left.names = rpcs[i].left.names \ {name}
        /\ left.ids = rpcs[i].left.ids /\ left.all = rpcs[i].left.all
    BY <1>1 DEF Selectors
  <2>3. rpcs[i].left # F!Nothing /\ rpcs[i].sel.names # {}
    BY <1>1 DEF F!Nothing, F!Sel
  <2>4. F!Resolved(i, left, ids) /\ ids \in SUBSET Int
    BY <1>1, <2>1
  <2>5. \A v \in asked : Still(v) /\ Reaches(rpcs[i].left, v.id) =>
           Reaches(left, v.id) \/ v.id \in ids
    BY <2>2 DEF Still, Reaches
  <2> HIDE DEF left, ids
  <2> QED
    BY <2>2, <2>3, <2>4, <2>5, ResolvedKeeps
<1> QED
  BY <1>2, <1>3, <1>4 DEF F!Resolve

(* The registry may lose apps, or gain one: a name stays with its app.      *)
LEMMA NamesLast ==
  ASSUME AskedNamed, asked' = asked, cmd' = cmd,
         \A v \in asked : Still(v)' => v.id \in DOMAIN apps /\ apps'[v.id] = apps[v.id]
  PROVE  /\ AskedNamed'
         /\ \A v \in asked : Still(v)' => Still(v)
         /\ \A v \in asked : Still(v)' => \A l : Reaches(l, v.id) => Reaches(l, v.id)'
<1>1. ASSUME NEW v \in asked, Still(v)'
      PROVE  /\ Still(v) /\ v.id \in F!Named(F!TargetSet)'
             /\ \A l : Reaches(l, v.id) => Reaches(l, v.id)'
  <2>1. v.id \in DOMAIN apps /\ v.id \in DOMAIN apps' /\ apps'[v.id] = apps[v.id]
    BY <1>1 DEF Still
  <2>2. Still(v)
    BY <1>1, <2>1 DEF Still
  <2>3. v.id \in F!Named(F!TargetSet)
    BY <2>2 DEF AskedNamed
  <2>4. F!TargetSet' = F!TargetSet
    BY DEF F!TargetSet
  <2>5. v.id \in F!Named(F!TargetSet)'
    BY <2>1, <2>3, <2>4 DEF F!Named
  <2>6. \A l : Reaches(l, v.id) => Reaches(l, v.id)'
    BY <2>1 DEF Reaches
  <2> QED
    BY <2>2, <2>5, <2>6
<1> QED
  BY <1>1 DEF AskedNamed

(* RPC i is through with app id: c is what becomes of it.                   *)
LEMMA ServeKeeps ==
  ASSUME FanoutInv, NEW i \in DOMAIN rpcs, NEW id \in rpcs[i].todo, F!Serve(i, id)
  PROVE  FanoutInv'
<1>0. PICK v0 : v0 = F!App(id)
  OBVIOUS
<1>1. /\ id \in DOMAIN apps /\ rpcs[i].left = F!Nothing
      /\ served' = served \cup {v0} /\ twice' = (twice \/ v0 \in served)
      /\ asked' = asked /\ cmd' = cmd /\ stage' = stage /\ result' = result
      /\ F!ServedOk(i, id) \/ F!ServedErr(i, id)
      /\ F!Unregister(id) \/ UNCHANGED F!registry
  BY <1>0 DEF F!Serve, F!Turn
<1>2. v0.id = id /\ v0.serial = apps[id].serial /\ v0 = [id |-> v0.id, serial |-> v0.serial]
  BY <1>0 DEF F!App
<1>3. /\ DOMAIN apps' \subseteq DOMAIN apps /\ serial' = serial /\ nextID' \in Nat
      /\ \A j \in DOMAIN apps' : apps'[j] = apps[j]
  BY <1>1 DEF F!Unregister, F!registry, FanoutInv, FanoutTypeOK
<1>4. rpcs[i] \in Calls /\ id \in Int
  BY FanoutAssumption, <1>1 DEF FanoutInv, FanoutTypeOK, F!Ids
<1>5. PICK c \in Calls :
        /\ rpcs' = [rpcs EXCEPT ![i] = c]
        /\ c.sel = rpcs[i].sel /\ c.left = rpcs[i].left
        /\ c.ended = rpcs[i].ended /\ c.answer = rpcs[i].answer
        /\ id \notin c.todo /\ c.todo \subseteq rpcs[i].todo
        /\ c.err \/ c.todo = rpcs[i].todo \ {id}
        /\ \/ c.err = rpcs[i].err /\ c.ids = rpcs[i].ids \cup {id}
           \/ c.err /\ c.ids = rpcs[i].ids
  <2>1. CASE F!ServedOk(i, id)
    <3> DEFINE c == [rpcs[i] EXCEPT !.todo = @ \ {id}, !.ids = @ \cup {id}]
    <3>1. rpcs' = [rpcs EXCEPT ![i] = c]
      BY <2>1 DEF F!ServedOk
    <3>2. /\ c \in Calls /\ c.todo = rpcs[i].todo \ {id}
          /\ c.sel = rpcs[i].sel /\ c.ids = rpcs[i].ids \cup {id} /\ c.err = rpcs[i].err
          /\ c.ended = rpcs[i].ended /\ c.answer = rpcs[i].answer /\ c.left = rpcs[i].left
      BY <1>4 DEF Calls
    <3> HIDE DEF c
    <3> QED
      BY <3>1, <3>2
  <2>2. CASE F!ServedErr(i, id)
    <3> DEFINE rest == IF cmd.op = "reload" THEN rpcs[i].todo \ {id} ELSE {}
               c == [rpcs[i] EXCEPT !.todo = rest, !.err = TRUE]
    <3>1. rpcs' = [rpcs EXCEPT ![i] = c]
      BY <2>2 DEF F!ServedErr
    <3>2. rest \in SUBSET Int /\ id \notin rest /\ rest \subseteq rpcs[i].todo
      BY <1>4 DEF Calls
    <3> HIDE DEF rest
    <3>3. /\ c \in Calls /\ c.todo = rest
          /\ c.sel = rpcs[i].sel /\ c.ids = rpcs[i].ids /\ c.err = TRUE
          /\ c.ended = rpcs[i].ended /\ c.answer = rpcs[i].answer /\ c.left = rpcs[i].left
      BY <1>4, <3>2 DEF Calls
    <3> HIDE DEF c
    <3> QED
      BY <3>1, <3>2, <3>3
  <2> QED
    BY <1>1, <2>1, <2>2
<1>6. /\ DOMAIN rpcs' = DOMAIN rpcs /\ rpcs' \in [DOMAIN rpcs' -> Calls]
      /\ rpcs'[i] = c /\ \A j \in DOMAIN rpcs : j # i => rpcs'[j] = rpcs[j]
  BY <1>5, OneCall DEF FanoutInv
<1>7. stage # "start" /\ ~rpcs[i].ended
  BY DEF FanoutInv, Unsent, Answered
<1>8. FanoutTypeOK' /\ Unsent'
  <2>1. v0.serial \in Nat /\ v0.serial <= serial
    BY <1>1, <1>2 DEF FanoutInv, FanoutTypeOK
  <2>2. \A id1 \in DOMAIN apps' : apps'[id1].serial \in Nat /\ apps'[id1].serial <= serial'
    BY <1>3 DEF FanoutInv, FanoutTypeOK
  <2>3. \A v \in asked' \cup served' :
          v.serial \in Nat /\ v.serial <= serial' /\ v = [id |-> v.id, serial |-> v.serial]
    BY <1>1, <1>2, <1>3, <2>1 DEF FanoutInv, FanoutTypeOK
  <2>4. twice' \in BOOLEAN
    BY <1>1 DEF FanoutInv, FanoutTypeOK
  <2>5. FanoutTypeOK'
    BY <1>1, <1>3, <1>6, <2>2, <2>3, <2>4 DEF FanoutInv, FanoutTypeOK
  <2> QED
    BY <1>1, <1>7, <2>5 DEF Unsent
<1>9. /\ AskedNamed'
      /\ \A v \in asked : Still(v)' => Still(v)
      /\ \A v \in asked : Still(v)' => \A l : Reaches(l, v.id) => Reaches(l, v.id)'
  <2>1. \A v \in asked : Still(v)' => v.id \in DOMAIN apps /\ apps'[v.id] = apps[v.id]
    BY <1>3 DEF Still
  <2> QED
    BY <1>1, <2>1, NamesLast DEF FanoutInv
<1>10. Accounted'
  <2>1. {v.id : v \in served'} = {v.id : v \in served} \cup {id}
    BY <1>1, <1>2
  <2>2. \A j \in DOMAIN rpcs' : rpcs'[j].ids \subseteq {v.id : v \in served'}
    BY <1>5, <1>6, <2>1 DEF FanoutInv, Accounted
  <2>3. ASSUME NEW v \in served'
        PROVE  \E j \in DOMAIN rpcs' : v.id \in rpcs'[j].ids \/ rpcs'[j].err
    <3>1. CASE v = v0
      BY <1>2, <1>5, <1>6, <3>1
    <3>2. CASE v \in served
      <4>1. PICK j \in DOMAIN rpcs : v.id \in rpcs[j].ids \/ rpcs[j].err
        BY <3>2 DEF FanoutInv, Accounted
      <4> QED
        BY <1>5, <1>6, <4>1
    <3> QED
      BY <1>1, <3>1, <3>2
  <2> QED
    BY <2>2, <2>3 DEF Accounted
<1>11. Answered' /\ Merged'
  <2>1. rpcs[i].answer # "ok"
    BY <1>7 DEF FanoutInv, Answered
  <2>2. Answered'
    BY <1>1, <1>5, <1>6, <1>7, <2>1 DEF FanoutInv, Answered, F!Lenient
  <2>3. \A j \in DOMAIN rpcs : /\ rpcs'[j].answer = rpcs[j].answer
                               /\ rpcs[j].answer = "ok" => rpcs'[j].ids = rpcs[j].ids
    BY <1>5, <1>6, <2>1
  <2>4. F!MergeIDs(rpcs') = F!MergeIDs(rpcs)
    BY <1>6, <2>3 DEF F!MergeIDs
  <2>5. Merged'
    BY <1>1, <1>6, <2>3, <2>4 DEF FanoutInv, Merged
  <2> QED
    BY <2>2, <2>5
<1>12. \A j \in DOMAIN rpcs : rpcs'[j].sel = rpcs[j].sel /\ rpcs'[j].left = rpcs[j].left
                               /\ rpcs'[j].todo \subseteq rpcs[j].todo
  BY <1>5, <1>6
<1>13. Covered'
  <2> SUFFICES ASSUME ~F!Mixed, NEW v \in asked, Still(v)'
               PROVE  OnTheWay(v)'
    BY <1>1, <1>6, <1>12 DEF Covered, F!Mixed
  <2>1. Still(v) /\ OnTheWay(v)
    BY <1>7, <1>9 DEF FanoutInv, Covered
  <2>2. CASE v \in served
    BY <1>1, <2>2 DEF OnTheWay
  <2>3. ASSUME NEW j \in DOMAIN rpcs,
               rpcs[j].err \/ v.id \in rpcs[j].todo \/ Reaches(rpcs[j].left, v.id)
        PROVE  OnTheWay(v)'
    <3>1. CASE v.id = id
      <4>1. v = [id |-> v.id, serial |-> v.serial] /\ v.serial = apps[id].serial
        BY <2>1, <3>1 DEF FanoutInv, FanoutTypeOK, Still
      <4>2. v = v0
        BY <1>2, <3>1, <4>1
      <4> QED
        BY <1>1, <4>2 DEF OnTheWay
    <3>2. CASE v.id # id
      <4>1. rpcs'[j].err \/ v.id \in rpcs'[j].todo \/ Reaches(rpcs'[j].left, v.id)
        BY <1>5, <1>6, <1>12, <2>3, <3>2
      <4>2. PICK l : l = rpcs'[j].left
        OBVIOUS
      <4>3. Reaches(l, v.id) => Reaches(l, v.id)'
        BY <1>9
      <4> QED
        BY <1>6, <4>1, <4>2, <4>3 DEF OnTheWay, Reaches
    <3> QED
      BY <3>1, <3>2
  <2> QED
    BY <2>1, <2>2, <2>3 DEF OnTheWay
<1>14. Apart' /\ Within'
  <2>1. Single' = Single
    BY <1>1 DEF Single, F!Selection, F!TargetSet
  <2>2. Apart'
    BY <1>6, <1>12, <2>1 DEF FanoutInv, Apart
  <2>3. Within'
    BY <1>6, <1>12 DEF FanoutInv, Within
  <2> QED
    BY <2>2, <2>3
<1>15. ServedOnce'
  <2>1. Single' = Single
    BY <1>1 DEF Single, F!Selection, F!TargetSet
  <2> SUFFICES ASSUME Single
               PROVE  ~twice' /\ \A v \in served' : Spent(v)'
    BY <2>1 DEF ServedOnce
  <2>2. \A j \in DOMAIN rpcs : j # i => id \in rpcs[i].sel.ids /\ id \notin rpcs[j].sel.ids
    BY DEF FanoutInv, Apart, Within
  <2>3. ASSUME NEW v \in served
        PROVE  v.id # id /\ Spent(v)'
    <3>1. PICK j \in DOMAIN rpcs :
             /\ rpcs[j].left = F!Nothing /\ v.id \notin rpcs[j].todo
             /\ \A k \in DOMAIN rpcs : k # j => v.id \notin rpcs[k].sel.ids
      BY DEF FanoutInv, ServedOnce, Spent
    <3>2. v.id # id
      BY <2>2, <3>1
    <3> QED
      BY <1>6, <1>12, <3>1, <3>2 DEF Spent
  <2>4. v0 \notin served
    BY <1>2, <2>3
  <2>5. Spent(v0)'
    <3>1. rpcs'[i].left = F!Nothing /\ v0.id \notin rpcs'[i].todo
      BY <1>1, <1>2, <1>5, <1>6
    <3>2. \A k \in DOMAIN rpcs' : k # i => v0.id \notin rpcs'[k].sel.ids
      BY <1>2, <1>6, <1>12, <2>2
    <3> QED
      BY <1>6, <3>1, <3>2 DEF Spent, F!Nothing, F!Sel
  <2> QED
    BY <1>1, <2>3, <2>4, <2>5 DEF FanoutInv, ServedOnce
<1> QED
  BY <1>8, <1>9, <1>10, <1>11, <1>13, <1>14, <1>15 DEF FanoutInv

(* RPC i goes on without serving an app, or is answered.                    *)
LEMMA ForwardKeeps ==
  ASSUME FanoutInv, NEW i \in DOMAIN rpcs, NEW c \in Calls, rpcs' = [rpcs EXCEPT ![i] = c],
         UNCHANGED <<F!registry, cmd, stage, result, F!past>>,
         c.sel = rpcs[i].sel, c.left = rpcs[i].left, c.ids = rpcs[i].ids,
         c.todo \subseteq rpcs[i].todo, rpcs[i].err => c.err,
         \A id \in rpcs[i].todo \ c.todo : c.err \/ id \notin DOMAIN apps,
         rpcs[i].answer # "none" => c.answer = rpcs[i].answer,
         c.answer = "ok" => c.ended /\ (~c.err \/ F!Lenient),
         c.ended => c.left = F!Nothing /\ c.todo = {}
  PROVE  FanoutInv'
<1>1. /\ apps' = apps /\ nextID' = nextID /\ serial' = serial /\ cmd' = cmd
      /\ result' = result /\ asked' = asked /\ served' = served /\ twice' = twice
      /\ stage' = stage
  BY DEF F!registry, F!past
<1>2. /\ DOMAIN rpcs' = DOMAIN rpcs /\ rpcs' \in [DOMAIN rpcs' -> Calls]
      /\ rpcs'[i] = c /\ \A j \in DOMAIN rpcs : j # i => rpcs'[j] = rpcs[j]
  BY OneCall DEF FanoutInv
<1>3. \A j \in DOMAIN rpcs :
        /\ rpcs'[j].sel = rpcs[j].sel /\ rpcs'[j].left = rpcs[j].left
        /\ rpcs'[j].ids = rpcs[j].ids /\ rpcs'[j].todo \subseteq rpcs[j].todo
        /\ rpcs[j].err => rpcs'[j].err
        /\ rpcs[j].answer # "none" => rpcs'[j].answer = rpcs[j].answer
  BY <1>2
<1>4. FanoutTypeOK' /\ Unsent'
  BY <1>1, <1>2 DEF FanoutInv, FanoutTypeOK, Unsent
<1>5. AskedNamed'
  BY <1>1 DEF FanoutInv, AskedNamed, Still, F!Named, F!TargetSet
<1>6. Accounted' /\ Answered'
  <2>1. F!Lenient' = F!Lenient
    BY <1>1 DEF F!Lenient
  <2>2. Answered'
    BY <1>2, <2>1 DEF FanoutInv, Answered
  <2>3. Accounted'
    BY <1>1, <1>2, <1>3 DEF FanoutInv, Accounted
  <2> QED
    BY <2>2, <2>3
<1>7. Merged'
  <2> SUFFICES ASSUME stage = "done"
               PROVE  Merged'
    BY <1>1 DEF Merged
  <2>1. \A j \in DOMAIN rpcs : rpcs'[j].answer = rpcs[j].answer
    BY <1>3 DEF FanoutInv, Merged
  <2>2. F!MergeIDs(rpcs') = F!MergeIDs(rpcs)
    BY <1>2, <1>3, <2>1 DEF F!MergeIDs
  <2> QED
    BY <1>1, <1>2, <2>1, <2>2 DEF FanoutInv, Merged
<1>8. Covered'
  <2> SUFFICES ASSUME stage # "start", ~F!Mixed, NEW v \in asked, Still(v)
               PROVE  OnTheWay(v)'
    BY <1>1, <1>2, <1>3 DEF Covered, Still, F!Mixed
  <2>1. OnTheWay(v)
    BY DEF FanoutInv, Covered
  <2>2. CASE v \in served
    BY <1>1, <2>2 DEF OnTheWay
  <2>3. ASSUME NEW j \in DOMAIN rpcs,
               rpcs[j].err \/ v.id \in rpcs[j].todo \/ Reaches(rpcs[j].left, v.id)
        PROVE  OnTheWay(v)'
    <3>1. rpcs'[j].err \/ v.id \in rpcs'[j].todo \/ Reaches(rpcs'[j].left, v.id)
      BY <1>2, <1>3, <2>3 DEF Still
    <3> QED
      BY <1>1, <1>2, <3>1 DEF OnTheWay, Reaches
  <2> QED
    BY <2>1, <2>2, <2>3 DEF OnTheWay
<1>9. Apart' /\ Within' /\ ServedOnce'
  <2>1. Single' = Single
    BY <1>1 DEF Single, F!Selection, F!TargetSet
  <2>2. Apart'
    BY <1>2, <1>3, <2>1 DEF FanoutInv, Apart
  <2>3. Within'
    BY <1>2, <1>3 DEF FanoutInv, Within
  <2>4. ASSUME NEW v \in served, Spent(v)
        PROVE  Spent(v)'
    BY <1>2, <1>3, <2>4 DEF Spent, F!Nothing, F!Sel
  <2>5. ServedOnce'
    BY <1>1, <2>1, <2>4 DEF FanoutInv, ServedOnce
  <2> QED
    BY <2>2, <2>3, <2>5
<1> QED
  BY <1>4, <1>5, <1>6, <1>7, <1>8, <1>9 DEF FanoutInv

LEMMA ServeGoneKeeps ==
  ASSUME FanoutInv, NEW i \in DOMAIN rpcs, NEW id \in rpcs[i].todo, F!ServeGone(i, id)
  PROVE  FanoutInv'
<1> DEFINE rest == IF cmd.op = "reload" THEN rpcs[i].todo \ {id} ELSE {}
           c == [rpcs[i] EXCEPT !.todo = rest, !.err = TRUE]
<1>1. rpcs[i] \in Calls
  BY DEF FanoutInv, FanoutTypeOK
<1>2. /\ rpcs' = [rpcs EXCEPT ![i] = c]
      /\ UNCHANGED <<F!registry, cmd, stage, result, F!past>>
  BY DEF F!ServeGone, F!ServedErr
<1>3. rest \in SUBSET Int /\ rest \subseteq rpcs[i].todo
  BY <1>1 DEF Calls
<1> HIDE DEF rest
<1>4. /\ c \in Calls /\ c.todo = rest
      /\ c.sel = rpcs[i].sel /\ c.ids = rpcs[i].ids /\ c.err = TRUE
      /\ c.ended = rpcs[i].ended /\ c.answer = rpcs[i].answer /\ c.left = rpcs[i].left
  BY <1>1, <1>3 DEF Calls
<1>5. ~rpcs[i].ended /\ rpcs[i].answer # "ok"
  BY DEF FanoutInv, Answered
<1> HIDE DEF c
<1> QED
  BY <1>2, <1>3, <1>4, <1>5, ForwardKeeps

LEMMA ReplyKeeps ==
  ASSUME FanoutInv, NEW i \in DOMAIN rpcs, F!Reply(i)
  PROVE  FanoutInv'
<1> DEFINE ok == rpcs[i].ids # {} /\ (~rpcs[i].err \/ F!Lenient)
           ans == IF rpcs[i].answer # "none" THEN rpcs[i].answer
                  ELSE IF ok THEN "ok" ELSE "err"
           c == [rpcs[i] EXCEPT !.ended = TRUE, !.answer = ans]
<1>1. rpcs[i] \in Calls
  BY DEF FanoutInv, FanoutTypeOK
<1>2. /\ rpcs' = [rpcs EXCEPT ![i] = c]
      /\ rpcs[i].left = F!Nothing /\ rpcs[i].todo = {} /\ ~rpcs[i].ended
      /\ UNCHANGED <<F!registry, cmd, stage, result, F!past>>
  BY DEF F!Reply
<1>3. /\ ans \in {"none", "ok", "err"} /\ (rpcs[i].answer # "none" => ans = rpcs[i].answer)
      /\ ans = "ok" /\ rpcs[i].answer = "none" => ~rpcs[i].err \/ F!Lenient
  BY <1>1 DEF Calls
<1>4. rpcs[i].answer # "ok"
  BY <1>2 DEF FanoutInv, Answered
<1> HIDE DEF ans
<1>5. /\ c \in Calls /\ c.ended = TRUE /\ c.answer = ans
      /\ c.sel = rpcs[i].sel /\ c.ids = rpcs[i].ids /\ c.err = rpcs[i].err
      /\ c.todo = rpcs[i].todo /\ c.left = rpcs[i].left
  BY <1>1, <1>3 DEF Calls
<1> HIDE DEF c
<1>6. /\ rpcs[i].answer # "none" => c.answer = rpcs[i].answer
      /\ c.answer = "ok" => c.ended /\ (~c.err \/ F!Lenient)
      /\ c.ended => c.left = F!Nothing /\ c.todo = {}
  BY <1>2, <1>3, <1>4, <1>5
<1>7. c.todo \subseteq rpcs[i].todo /\ (rpcs[i].err => c.err)
  BY <1>5
<1> QED
  BY <1>2, <1>5, <1>6, <1>7, ForwardKeeps

LEMMA DeadlineKeeps ==
  ASSUME FanoutInv, NEW i \in DOMAIN rpcs, F!Deadline(i)
  PROVE  FanoutInv'
<1> DEFINE c == [rpcs[i] EXCEPT !.answer = "err"]
<1>1. rpcs[i] \in Calls
  BY DEF FanoutInv, FanoutTypeOK
<1>2. /\ rpcs' = [rpcs EXCEPT ![i] = c] /\ rpcs[i].answer = "none"
      /\ UNCHANGED <<F!registry, cmd, stage, result, F!past>>
  BY DEF F!Deadline
<1>3. /\ c \in Calls /\ c.ended = rpcs[i].ended /\ c.answer = "err"
      /\ c.sel = rpcs[i].sel /\ c.ids = rpcs[i].ids /\ c.err = rpcs[i].err
      /\ c.todo = rpcs[i].todo /\ c.left = rpcs[i].left
  BY <1>1 DEF Calls
<1>4. c.ended => c.left = F!Nothing /\ c.todo = {}
  BY <1>3 DEF FanoutInv, Answered
<1> HIDE DEF c
<1> QED
  BY <1>2, <1>3, <1>4, ForwardKeeps

LEMMA MergeKeeps ==
  ASSUME FanoutInv, F!Merge
  PROVE  FanoutInv'
<1>1. /\ apps' = apps /\ nextID' = nextID /\ serial' = serial /\ cmd' = cmd
      /\ asked' = asked /\ served' = served /\ twice' = twice
      /\ rpcs' = rpcs /\ stage = "calls" /\ stage' = "done"
      /\ result' = [ids |-> F!MergeIDs(rpcs),
                    err |-> \E i \in DOMAIN rpcs : rpcs[i].answer = "err"]
      /\ \A i \in DOMAIN rpcs : rpcs[i].answer # "none"
  BY DEF F!Merge, F!registry, F!past
<1>2. result' \in [ids : SUBSET Int, err : BOOLEAN]
  <2>1. F!MergeIDs(rpcs) \in SUBSET Int
    <3>1. \A i \in DOMAIN rpcs : rpcs[i].ids \in SUBSET Int
      BY DEF FanoutInv, FanoutTypeOK, Calls
    <3> QED
      BY <3>1 DEF F!MergeIDs
  <2>2. (\E i \in DOMAIN rpcs : rpcs[i].answer = "err") \in BOOLEAN
    OBVIOUS
  <2> QED
    BY <1>1, <2>1, <2>2
<1>3. FanoutTypeOK' /\ Unsent'
  BY <1>1, <1>2 DEF FanoutInv, FanoutTypeOK, Unsent
<1>4. AskedNamed' /\ Accounted' /\ Answered' /\ Within'
  <2>1. AskedNamed'
    BY <1>1 DEF FanoutInv, AskedNamed, Still, F!Named, F!TargetSet
  <2>2. Accounted' /\ Answered' /\ Within'
    BY <1>1 DEF FanoutInv, Accounted, Answered, F!Lenient, Within
  <2> QED
    BY <2>1, <2>2
<1>5. Merged'
  BY <1>1 DEF Merged
<1>6. Covered'
  BY <1>1 DEF FanoutInv, Covered, F!Mixed, Still, OnTheWay, Reaches
<1>7. Apart' /\ ServedOnce'
  BY <1>1 DEF FanoutInv, Apart, Single, ServedOnce, Spent, F!Selection, F!TargetSet
<1> QED
  BY <1>3, <1>4, <1>5, <1>6, <1>7 DEF FanoutInv

(* Another client's start or delete: no app asked for gets another name.    *)
LEMMA OthersKeep ==
  ASSUME FanoutInv, UNCHANGED <<cmd, stage, rpcs, result, F!past>>,
         DOMAIN apps' \subseteq F!Ids, nextID' \in Nat, serial' \in Nat, serial <= serial',
         \A id \in DOMAIN apps' : apps'[id].serial \in Nat /\ apps'[id].serial <= serial',
         \A v \in asked : Still(v)' => v.id \in DOMAIN apps /\ apps'[v.id] = apps[v.id]
  PROVE  FanoutInv'
<1>1. /\ cmd' = cmd /\ asked' = asked /\ served' = served /\ twice' = twice
      /\ rpcs' = rpcs /\ stage' = stage /\ result' = result
  BY DEF F!past
<1>2. FanoutTypeOK' /\ Unsent'
  <2>1. \A v \in asked' \cup served' : v.serial \in Nat /\ v.serial <= serial'
    BY <1>1 DEF FanoutInv, FanoutTypeOK
  <2> QED
    BY <1>1, <2>1 DEF FanoutInv, FanoutTypeOK, Unsent
<1>3. /\ AskedNamed'
      /\ \A v \in asked : Still(v)' => Still(v)
      /\ \A v \in asked : Still(v)' => \A l : Reaches(l, v.id) => Reaches(l, v.id)'
  BY <1>1, NamesLast DEF FanoutInv
<1>4. Accounted' /\ Answered' /\ Merged' /\ Apart' /\ Within' /\ ServedOnce'
  BY <1>1 DEF FanoutInv, Accounted, Answered, F!Lenient, Merged, Apart, Single, Within,
              ServedOnce, Spent, F!Selection, F!TargetSet
<1>5. Covered'
  <2> SUFFICES ASSUME stage # "start", ~F!Mixed, NEW v \in asked, Still(v)'
               PROVE  OnTheWay(v)'
    BY <1>1 DEF Covered, F!Mixed
  <2>1. OnTheWay(v)
    BY <1>3 DEF FanoutInv, Covered
  <2>2. \A l : Reaches(l, v.id) => Reaches(l, v.id)'
    BY <1>3
  <2> QED
    BY <1>1, <2>1, <2>2 DEF OnTheWay, Reaches
<1> QED
  BY <1>2, <1>3, <1>4, <1>5 DEF FanoutInv

LEMMA OtherStartsKeeps ==
  ASSUME FanoutInv, F!OtherStarts
  PROVE  FanoutInv'
<1>1. /\ UNCHANGED <<cmd, stage, rpcs, result, F!past>>
      /\ nextID \in F!Ids /\ nextID' = nextID + 1 /\ serial' = serial + 1
  BY DEF F!OtherStarts
<1>2. PICK name \in StartNames :
        apps' = [j \in DOMAIN apps \cup {nextID} |->
                   IF j = nextID THEN [name |-> name, serial |-> serial + 1] ELSE apps[j]]
  BY DEF F!OtherStarts
<1>3. nextID \in Nat /\ serial \in Nat /\ DOMAIN apps' = DOMAIN apps \cup {nextID}
  BY <1>2 DEF FanoutInv, FanoutTypeOK
<1>4. /\ apps'[nextID].serial = serial + 1
      /\ \A id \in DOMAIN apps' : id # nextID => id \in DOMAIN apps /\ apps'[id] = apps[id]
  BY <1>2, <1>3
<1>5. \A id \in DOMAIN apps' : apps'[id].serial \in Nat /\ apps'[id].serial <= serial'
  BY <1>1, <1>3, <1>4 DEF FanoutInv, FanoutTypeOK
<1>6. ASSUME NEW v \in asked, Still(v)'
      PROVE  v.id \in DOMAIN apps /\ apps'[v.id] = apps[v.id]
  <2>1. v.serial \in Nat /\ v.serial <= serial
    BY DEF FanoutInv, FanoutTypeOK
  <2>2. v.id \in DOMAIN apps' /\ apps'[v.id].serial = v.serial
    BY <1>6 DEF Still
  <2>3. v.id # nextID
    BY <1>3, <1>4, <2>1, <2>2
  <2> QED
    BY <1>4, <2>2, <2>3
<1>7. DOMAIN apps' \subseteq F!Ids
  BY <1>1, <1>3 DEF FanoutInv, FanoutTypeOK
<1> QED
  BY <1>1, <1>3, <1>5, <1>6, <1>7, OthersKeep

LEMMA OtherDeletesKeeps ==
  ASSUME FanoutInv, F!OtherDeletes
  PROVE  FanoutInv'
<1>1. /\ UNCHANGED <<cmd, stage, rpcs, result, F!past>>
      /\ \E id \in DOMAIN apps : F!Unregister(id)
  BY DEF F!OtherDeletes
<1>2. /\ DOMAIN apps' \subseteq DOMAIN apps /\ nextID' \in Nat /\ serial' = serial
      /\ \A id \in DOMAIN apps' : apps'[id] = apps[id]
  BY <1>1 DEF F!Unregister, FanoutInv, FanoutTypeOK
<1>3. /\ DOMAIN apps' \subseteq F!Ids /\ serial' \in Nat /\ serial <= serial'
      /\ \A id \in DOMAIN apps' : apps'[id].serial \in Nat /\ apps'[id].serial <= serial'
  BY <1>2 DEF FanoutInv, FanoutTypeOK
<1>4. \A v \in asked : Still(v)' => v.id \in DOMAIN apps /\ apps'[v.id] = apps[v.id]
  BY <1>2 DEF Still
<1> QED
  BY <1>1, <1>2, <1>3, <1>4, OthersKeep

-----------------------------------------------------------------------------
(* The invariant holds at first, and is kept.                               *)
LEMMA FanoutInit ==
  ASSUME F!Init
  PROVE  FanoutInv
<1>1. PICK reg \in Registries, k \in 0 .. MaxId + 1 :
        /\ DOMAIN reg = 0 .. k - 1 /\ nextID = k /\ serial = k
        /\ apps = [id \in DOMAIN reg |-> [name |-> reg[id], serial |-> id + 1]]
  BY DEF F!Init
<1>2. /\ cmd \in Commands /\ stage = "start" /\ DOMAIN rpcs = {} /\ rpcs = <<>>
      /\ result = [ids |-> {}, err |-> FALSE]
      /\ asked = F!Apps(F!Named(F!TargetSet)) /\ served = {} /\ twice = FALSE
  BY DEF F!Init
<1>3. k \in Nat /\ DOMAIN apps = 0 .. k - 1 /\ DOMAIN apps \subseteq F!Ids
      /\ \A id \in DOMAIN apps : apps[id].serial = id + 1
  BY <1>1, FanoutAssumption DEF F!Ids
<1>4. \A id \in DOMAIN apps : apps[id].serial \in Nat /\ apps[id].serial <= serial
  BY <1>1, <1>3
<1>5. F!Named(F!TargetSet) \subseteq DOMAIN apps
  BY DEF F!Named
<1>6. \A v \in asked : \E id \in F!Named(F!TargetSet) :
         v = [id |-> id, serial |-> apps[id].serial]
  BY <1>2 DEF F!Apps, F!App
<1>7. rpcs \in [DOMAIN rpcs -> Calls]
  BY <1>2
<1>8. \A v \in asked \cup served : /\ v.serial \in Nat /\ v.serial <= serial
                                   /\ v = [id |-> v.id, serial |-> v.serial]
  BY <1>2, <1>4, <1>5, <1>6
<1>9. FanoutTypeOK
  BY <1>1, <1>2, <1>3, <1>4, <1>7, <1>8 DEF FanoutTypeOK
<1>10. AskedNamed
  BY <1>6 DEF AskedNamed
<1>11. Unsent /\ Accounted /\ Answered /\ Merged /\ Covered /\ Apart /\ Within /\ ServedOnce
  BY <1>2 DEF Unsent, Accounted, Answered, Merged, Covered, Apart, Within, ServedOnce
<1> QED
  BY <1>9, <1>10, <1>11 DEF FanoutInv

LEMMA FanoutNext ==
  ASSUME FanoutInv, F!Next
  PROVE  FanoutInv'
<1>1. CASE F!Direct \/ F!SendUnlisted
  BY <1>1, SendWhole DEF F!Direct, F!SendUnlisted, F!Parallel
<1>2. CASE F!SendSplit
  BY <1>2, SendSplitKeeps
<1>3. CASE F!SendListed
  BY <1>3, SendListedKeeps
<1>4. CASE F!Merge
  BY <1>4, MergeKeeps
<1>5. ASSUME NEW i \in DOMAIN rpcs, F!Daemon(i) \/ F!Deadline(i)
      PROVE  FanoutInv'
  BY <1>5, ResolveKeeps, ServeKeeps, ServeGoneKeeps, ReplyKeeps, DeadlineKeeps
     DEF F!Daemon
<1>6. CASE F!OtherStarts \/ F!OtherDeletes
  BY <1>6, OtherStartsKeeps, OtherDeletesKeeps
<1> QED
  BY <1>1, <1>2, <1>3, <1>4, <1>5, <1>6 DEF F!Next

(* A stutter, or a step of Cron or of Options.                              *)
LEMMA FanoutUnchanged ==
  ASSUME FanoutInv, UNCHANGED fanoutVars
  PROVE  FanoutInv'
<1>1. /\ apps' = apps /\ nextID' = nextID /\ serial' = serial /\ cmd' = cmd
      /\ stage' = stage /\ rpcs' = rpcs /\ result' = result /\ asked' = asked
      /\ served' = served /\ twice' = twice
  BY DEF fanoutVars
<1>2. FanoutTypeOK' /\ Unsent' /\ AskedNamed'
  <2>1. FanoutTypeOK' /\ Unsent'
    BY <1>1 DEF FanoutInv, FanoutTypeOK, Unsent
  <2>2. AskedNamed'
    BY <1>1 DEF FanoutInv, AskedNamed, Still, F!Named, F!TargetSet
  <2> QED
    BY <2>1, <2>2
<1>3. Accounted' /\ Answered' /\ Merged' /\ Within'
  BY <1>1 DEF FanoutInv, Accounted, Answered, F!Lenient, Merged, Within
<1>4. Covered'
  BY <1>1 DEF FanoutInv, Covered, F!Mixed, Still, OnTheWay, Reaches
<1>5. Apart' /\ ServedOnce'
  BY <1>1 DEF FanoutInv, Apart, Single, ServedOnce, Spent, F!Selection, F!TargetSet
<1> QED
  BY <1>2, <1>3, <1>4, <1>5 DEF FanoutInv

(* Fanout's part of a behaviour keeps FanoutInv from its first state on.         *)
RequestsInv == stage = "rest" \/ FanoutInv

THEOREM FanoutInvariance == RequestsSpec => []RequestsInv
<1>1. RequestsInit => RequestsInv
  BY FanoutInit DEF RequestsInit, RequestsInv, FanoutRests
<1>2. RequestsInv /\ [RequestsNext]_<<vars, optionVars, fanoutVars>> => RequestsInv'
  <2> SUFFICES ASSUME RequestsInv, [RequestsNext]_<<vars, optionVars, fanoutVars>>
               PROVE  RequestsInv'
    OBVIOUS
  <2>1. UNCHANGED fanoutVars \/ (stage # "rest" /\ F!Next)
    BY DEF RequestsNext
  <2>2. CASE UNCHANGED fanoutVars
    BY <2>2, FanoutUnchanged DEF RequestsInv, fanoutVars
  <2>3. CASE stage # "rest" /\ F!Next
    BY <2>3, FanoutNext DEF RequestsInv
  <2> QED
    BY <2>1, <2>2, <2>3
<1> QED
  BY <1>1, <1>2, PTL DEF RequestsSpec

(* When every RPC has answered "ok", none has anything left.                *)
LEMMA AllThrough ==
  ASSUME FanoutInv, stage = "done", ~result.err, ~F!Lenient, NEW i \in DOMAIN rpcs
  PROVE  /\ rpcs[i].answer = "ok" /\ ~rpcs[i].err
         /\ rpcs[i].left = F!Nothing /\ rpcs[i].todo = {}
<1>1. rpcs[i].answer \in {"none", "ok", "err"}
  BY DEF FanoutInv, FanoutTypeOK, Calls
<1>2. rpcs[i].answer # "none" /\ rpcs[i].answer # "err"
  BY DEF FanoutInv, Merged
<1> QED
  BY <1>1, <1>2 DEF FanoutInv, Answered

(* SuccessCovers: a command that reports no error has reached every app its *)
(* targets named at the start and that is still registered (client.go:      *)
(* 161-239), for every registry, command, --parallel and other client.      *)
THEOREM SuccessMeansAll == RequestsSpec => []SuccessCovers
<1>1. RequestsInv => SuccessCovers
  <2> SUFFICES ASSUME FanoutInv, stage = "done", ~result.err, ~F!Mixed, ~F!Lenient,
                      NEW v \in asked, v \in F!Apps(DOMAIN apps)
               PROVE  v \in served
    BY DEF RequestsInv, SuccessCovers, F!SuccessCovers
  <2>1. Still(v)
    BY DEF F!Apps, F!App, Still
  <2>2. OnTheWay(v)
    BY <2>1 DEF FanoutInv, Covered
  <2>3. \A i \in DOMAIN rpcs :
          ~rpcs[i].err /\ rpcs[i].todo = {} /\ ~Reaches(rpcs[i].left, v.id)
    BY AllThrough DEF Reaches, F!Nothing, F!Sel
  <2> QED
    BY <2>2, <2>3 DEF OnTheWay
<1> QED
  BY <1>1, FanoutInvariance, PTL

(* ReportHonest: a command reports what its RPCs have served, no more and,  *)
(* without an error, no less; and serves no app twice unless a target was   *)
(* (client.go:161-340).                                                     *)
THEOREM ReportsAreHonest == RequestsSpec => []ReportHonest
<1>1. RequestsInv => ReportHonest
  <2> SUFFICES ASSUME FanoutInv, stage = "done"
               PROVE  /\ result.ids \subseteq {v.id : v \in served}
                      /\ ~result.err /\ ~F!Lenient => result.ids = {v.id : v \in served}
                      /\ Single => ~twice
    BY DEF RequestsInv, ReportHonest, F!ReportHonest, Single
  <2>1. result.ids = F!MergeIDs(rpcs)
    BY DEF FanoutInv, Merged
  <2>2. F!MergeIDs(rpcs) \subseteq {v.id : v \in served}
    BY DEF FanoutInv, Accounted, F!MergeIDs
  <2>3. ASSUME ~result.err, ~F!Lenient, NEW v \in served
        PROVE  v.id \in F!MergeIDs(rpcs)
    <3>1. PICK i \in DOMAIN rpcs : v.id \in rpcs[i].ids \/ rpcs[i].err
      BY DEF FanoutInv, Accounted
    <3>2. rpcs[i].answer = "ok" /\ ~rpcs[i].err
      BY <2>3, AllThrough
    <3> QED
      BY <3>1, <3>2 DEF F!MergeIDs
  <2>4. Single => ~twice
    BY DEF FanoutInv, ServedOnce
  <2> QED
    BY <2>1, <2>2, <2>3, <2>4
<1> QED
  BY <1>1, FanoutInvariance, PTL

-----------------------------------------------------------------------------
(* Options.                                                                 *)

(* o holds what request r gave: an option that fits the wire is kept, one   *)
(* not given has its default, rotation that was turned off is off.          *)
Holds(r, o) ==
  /\ \A f \in O!Fields :
       /\ f \notin DOMAIN r.opts => o[f] = Defaults[f]
       /\ f \in DOMAIN r.opts /\ O!Fits(f, r.opts[f]) => o[f] = r.opts[f]
  /\ "log_rotate_max_bytes" \in DOMAIN r.opts =>
       (r.opts["log_rotate_max_bytes"] = O!Off(r) => o["log_rotate_max_bytes"] = 0)

Keys ==
  {"name", "instance", "mode", "merge", "out", "err", "pid", "env", "opts", "from"}

(* A config on its way into the registry, or in it.                         *)
KeptConfig(a) ==
  /\ DOMAIN a = Keys /\ a.from \in Requests
  /\ a.opts \in [O!Fields -> Int] /\ a.opts["log_rotate_max_bytes"] >= 0
  /\ Holds(a.from, a.opts)
  /\ a.merge => a.err = a.out

ConfigsInv ==
  /\ configID \in Nat /\ DOMAIN configs \subseteq 0 .. MaxConfigId
  /\ \A id \in DOMAIN configs : KeptConfig(configs[id])

-----------------------------------------------------------------------------
LEMMA FieldFacts ==
  /\ "log_rotate_max_bytes" \in O!Fields /\ "instances" \in O!Fields
  /\ "log_rotate_max_bytes" \notin O!Int32Fields
  /\ "log_rotate_max_bytes" \notin O!Lifted
  /\ O!LiftedOnLoad \subseteq O!Lifted
  /\ "log_rotate_retain" \in O!Lifted /\ "restart_delay" \notin O!Lifted
  /\ "log_rotate_retain" # "log_rotate_max_bytes"
  /\ "restart_delay" # "log_rotate_max_bytes"
  /\ "instances" \in O!Lifted
  /\ \A f \in O!Fields :
       /\ Defaults[f] \in Nat
       /\ f \in O!Int32Fields => Defaults[f] < WireRange \div 2
       /\ f \notin O!Lifted /\ f # "log_rotate_max_bytes" => Defaults[f] = 0
BY OptionsAssumption DEF O!Fields, O!Int32Fields, O!Lifted, O!LiftedOnLoad

LEMMA Narrowing ==
  ASSUME NEW f, NEW x \in Int
  PROVE  /\ O!Narrow(f, x) \in Int
         /\ x >= 0 /\ (f \in O!Int32Fields => x < WireRange \div 2) => O!Narrow(f, x) = x
         /\ f \notin O!Int32Fields => O!Narrow(f, x) = x
<1>1. CASE f \notin O!Int32Fields
  BY <1>1 DEF O!Narrow
<1>2. CASE f \in O!Int32Fields
  <2>1. O!Narrow(f, x) = O!Int32(x)
    BY <1>2 DEF O!Narrow
  <2>2. O!Int32(x) \in Int
    BY OptionsAssumption DEF O!Int32
  <2>3. x >= 0 /\ x < WireRange \div 2 => O!Int32(x) = x
    BY OptionsAssumption DEF O!Int32
  <2> QED
    BY <1>2, <2>1, <2>2, <2>3
<1> QED
  BY <1>1, <1>2

LEMMA Lifting ==
  ASSUME NEW f \in O!Fields, NEW x \in Int
  PROVE  /\ O!Lift(f, x) \in Int /\ (x > 0 => O!Lift(f, x) = x)
         /\ f \notin O!Lifted => O!Lift(f, x) = x
         /\ f \in O!Lifted /\ x <= 0 => O!Lift(f, x) = Defaults[f]
         /\ x = Defaults[f] => O!Lift(f, x) = x
         /\ f \in O!Lifted => O!Lift(f, x) >= 0
BY FieldFacts DEF O!Lift

LEMMA Rotation ==
  ASSUME NEW x \in Int
  PROVE  /\ O!MemRotateMax(x) \in Int /\ O!MemRotateMax(x) >= 0
         /\ x > 0 => O!MemRotateMax(x) = x
         /\ x = 0 => O!MemRotateMax(x) = Defaults["log_rotate_max_bytes"]
         /\ x = -1 => O!MemRotateMax(x) = 0
         /\ O!WireRotateMax(x) \in Int
         /\ x >= 0 => O!MemRotateMax(O!WireRotateMax(x)) = x
BY FieldFacts DEF O!MemRotateMax, O!WireRotateMax

(* From the file, or the flags, over the wire.                              *)
LEMMA OptionsHold ==
  ASSUME NEW r \in Requests
  PROVE  /\ O!OptionsOf(r) \in [O!Fields -> Int]
         /\ O!OptionsOf(r)["log_rotate_max_bytes"] >= 0
         /\ O!OptionsOf(r)["instances"] >= 0
         /\ Holds(r, O!OptionsOf(r))
<1> DEFINE file == r.via = "file"
           Given(f) == IF f \in DOMAIN r.opts THEN r.opts[f]
                       ELSE IF file THEN Defaults[f] ELSE 0
           spec1 == IF file THEN O!SpecFromFile(r) ELSE O!SpecFromFlags(r)
<1>1. /\ r.via \in {"file", "flags"} /\ \A f \in DOMAIN r.opts : r.opts[f] \in Int
  BY OptionsAssumption
<1>2. \A f \in O!Fields : Given(f) \in Int
  BY <1>1, FieldFacts
<1>3. spec1["log_rotate_max_bytes"]
        = IF file THEN O!WireRotateMax(Given("log_rotate_max_bytes"))
          ELSE Given("log_rotate_max_bytes")
  BY <1>2, FieldFacts, Narrowing
     DEF O!SpecFromFile, O!SpecFromFlags, O!FileOptions
<1>4. ASSUME NEW f \in O!Fields, f # "log_rotate_max_bytes"
      PROVE  spec1[f] = O!Narrow(f, Given(f)) \/ (Given(f) <= 0 /\ spec1[f] = 0)
  BY <1>2, <1>4 DEF O!SpecFromFile, O!SpecFromFlags, O!FileOptions
<1>5. O!OptionsOf(r) = [f \in O!Fields |->
         IF f = "log_rotate_max_bytes" THEN O!MemRotateMax(spec1[f])
         ELSE O!Lift(f, spec1[f])]
  BY DEF O!OptionsOf, O!SpecToConfig
<1> HIDE DEF spec1
<1>6. \A f \in O!Fields : spec1[f] \in Int
  BY <1>2, <1>3, <1>4, Narrowing, Rotation, FieldFacts
<1>7. \A f \in O!Fields : O!OptionsOf(r)[f] =
         IF f = "log_rotate_max_bytes" THEN O!MemRotateMax(spec1[f])
         ELSE O!Lift(f, spec1[f])
  BY <1>5
<1>8. O!OptionsOf(r) \in [O!Fields -> Int]
  <2>1. \A f \in O!Fields : O!MemRotateMax(spec1[f]) \in Int /\ O!Lift(f, spec1[f]) \in Int
    BY <1>6, Lifting, Rotation
  <2> QED
    BY <1>5, <2>1
<1>9. /\ O!OptionsOf(r)["log_rotate_max_bytes"] >= 0 /\ O!OptionsOf(r)["instances"] >= 0
  BY <1>6, <1>7, FieldFacts, Lifting, Rotation DEF O!Lifted
<1>10. ASSUME NEW f \in O!Fields, f \notin DOMAIN r.opts
       PROVE  O!OptionsOf(r)[f] = Defaults[f]
  <2>1. CASE f = "log_rotate_max_bytes"
    <3>1. Defaults[f] \in Nat /\ Given(f) = IF file THEN Defaults[f] ELSE 0
      BY <1>10, FieldFacts
    <3> HIDE DEF Given, file
    <3> QED
      BY <1>3, <1>7, <2>1, <3>1, Rotation
  <2>2. CASE f # "log_rotate_max_bytes"
    <3>1. Given(f) = (IF file THEN Defaults[f] ELSE 0) /\ Defaults[f] \in Nat
      BY <1>10, FieldFacts
    <3>2. O!Narrow(f, Given(f)) = Given(f)
      <4>1. O!Narrow(f, Defaults[f]) = Defaults[f]
        BY FieldFacts, Narrowing
      <4>2. O!Narrow(f, 0) = 0
        BY OptionsAssumption, Narrowing
      <4> QED
        BY <3>1, <4>1, <4>2
    <3>3. spec1[f] \in {0, Defaults[f]}
      BY <1>4, <2>2, <3>1, <3>2
    <3>4. O!Lift(f, spec1[f]) = Defaults[f]
      BY <2>2, <3>3, FieldFacts, Lifting
    <3> QED
      BY <1>7, <2>2, <3>4
  <2> QED
    BY <2>1, <2>2
<1>11. ASSUME NEW f \in O!Fields, f \in DOMAIN r.opts, O!Fits(f, r.opts[f])
       PROVE  O!OptionsOf(r)[f] = r.opts[f]
  <2>1. /\ Given(f) = r.opts[f] /\ r.opts[f] \in Int /\ r.opts[f] > 0
        /\ f \in O!Int32Fields => r.opts[f] < WireRange \div 2
    BY <1>1, <1>11 DEF O!Fits
  <2>2. CASE f = "log_rotate_max_bytes"
    <3> HIDE DEF Given, file
    <3> QED
      BY <1>3, <1>7, <2>1, <2>2, Rotation
  <2>3. CASE f # "log_rotate_max_bytes"
    <3>1. O!Narrow(f, Given(f)) = r.opts[f]
      BY <2>1, Narrowing
    <3>2. spec1[f] = r.opts[f]
      BY <1>4, <2>1, <2>3, <3>1
    <3> QED
      BY <1>7, <2>1, <2>3, <3>2, Lifting
  <2> QED
    BY <2>2, <2>3
<1>12. ASSUME "log_rotate_max_bytes" \in DOMAIN r.opts,
              r.opts["log_rotate_max_bytes"] = O!Off(r)
       PROVE  O!OptionsOf(r)["log_rotate_max_bytes"] = 0
  <2>1. Given("log_rotate_max_bytes") = IF file THEN 0 ELSE -1
    BY <1>12 DEF O!Off
  <2> HIDE DEF Given, file
  <2>2. spec1["log_rotate_max_bytes"] = -1
    BY <1>3, <2>1 DEF O!WireRotateMax
  <2> QED
    BY <1>7, <2>2, FieldFacts, Rotation
<1> QED
  BY <1>8, <1>9, <1>10, <1>11, <1>12 DEF Holds

-----------------------------------------------------------------------------
LEMMA ConfigEntry ==
  ASSUME NEW r \in Requests
  PROVE  KeptConfig(O!Config(r)) /\ O!Config(r).opts["instances"] \in Nat
<1>1. /\ DOMAIN O!Config(r) = Keys /\ O!Config(r).from = r
      /\ O!Config(r).opts = O!OptionsOf(r) /\ O!Config(r).out = r.out
      /\ O!Config(r).merge = r.merge
      /\ O!Config(r).err = IF r.merge THEN r.out ELSE <<>>
  BY DEF O!Config, Keys
<1>2. O!OptionsOf(r)["instances"] \in Int
  BY OptionsHold, FieldFacts
<1> QED
  BY <1>1, <1>2, OptionsHold DEF KeptConfig

LEMMA InstanceEntry ==
  ASSUME NEW a, KeptConfig(a), NEW base, NEW i
  PROVE  KeptConfig(O!Instance(a, base, i))
<1>1. CASE a.mode = "cluster"
  <2>1. O!Instance(a, base, i) = [a EXCEPT !.instance = i]
    BY <1>1 DEF O!Instance
  <2> QED
    BY <2>1 DEF KeptConfig, Keys
<1>2. CASE a.mode # "cluster"
  <2>1. O!Instance(a, base, i) = [a EXCEPT !.name = Append(base, i)]
    BY <1>2 DEF O!Instance
  <2> QED
    BY <2>1 DEF KeptConfig, Keys
<1> QED
  BY <1>1, <1>2

LEMMA FillEntry ==
  ASSUME NEW a, KeptConfig(a), NEW id
  PROVE  KeptConfig(O!FillPaths(a, id))
<1> DEFINE out == IF a.out = <<>> THEN O!LogPath(a, "out") ELSE a.out
           err == IF a.merge /\ a.out = <<>> THEN out
                  ELSE IF a.err = <<>> THEN O!LogPath(a, "error") ELSE a.err
           b == O!FillPaths(a, id)
<1>1. b = [a EXCEPT !.out = out, !.err = err,
             !.pid = IF @ = <<>> THEN a.name \o <<"pid", id>> ELSE @]
  BY DEF O!FillPaths
<1>2. a.merge => err = out
  BY DEF KeptConfig
<1> HIDE DEF out, err
<1>3. /\ DOMAIN b = Keys /\ b.from = a.from /\ b.opts = a.opts
      /\ b.merge = a.merge /\ b.out = out /\ b.err = err
  BY <1>1 DEF KeptConfig, Keys
<1> QED
  BY <1>2, <1>3 DEF KeptConfig

LEMMA EnvEntry ==
  ASSUME NEW a, KeptConfig(a), NEW e
  PROVE  KeptConfig([a EXCEPT !.env = e])
BY DEF KeptConfig, Keys

(* The dump and back.                                                       *)
LEMMA ReloadEntry ==
  ASSUME NEW a, KeptConfig(a)
  PROVE  KeptConfig(O!RecordToApp(O!AppToRecord(a)))
<1> DEFINE b == O!AppToRecord(a)
           c == O!RecordToApp(b)
           lrm == "log_rotate_max_bytes"
<1>1. /\ a.opts \in [O!Fields -> Int] /\ a.opts[lrm] >= 0 /\ lrm \in O!Fields
  BY FieldFacts DEF KeptConfig
<1>2. b = [a EXCEPT !.opts = [a.opts EXCEPT ![lrm] = O!WireRotateMax(a.opts[lrm])]]
  BY DEF O!AppToRecord, KeptConfig, Keys
<1>3. /\ DOMAIN b = Keys /\ b.from = a.from /\ b.merge = a.merge
      /\ b.out = a.out /\ b.err = a.err
      /\ \A f \in O!Fields : b.opts[f] = IF f = lrm THEN O!WireRotateMax(a.opts[lrm])
                                         ELSE a.opts[f]
  BY <1>1, <1>2 DEF KeptConfig, Keys
<1> HIDE DEF b
<1>4. /\ DOMAIN c = Keys /\ c.from = a.from /\ c.merge = a.merge
      /\ c.out = a.out /\ c.err = a.err
      /\ c.opts = [f \in O!Fields |->
                     IF f = lrm THEN O!MemRotateMax(b.opts[f])
                     ELSE IF f \in O!LiftedOnLoad THEN O!Lift(f, b.opts[f])
                     ELSE b.opts[f]]
  BY <1>3 DEF O!RecordToApp, Keys
<1>5. \A f \in O!Fields :
        c.opts[f] = IF f # lrm /\ f \in O!LiftedOnLoad THEN O!Lift(f, a.opts[f])
                    ELSE a.opts[f]
  <2> SUFFICES ASSUME NEW f \in O!Fields
               PROVE  c.opts[f] = IF f # lrm /\ f \in O!LiftedOnLoad
                                  THEN O!Lift(f, a.opts[f]) ELSE a.opts[f]
    OBVIOUS
  <2>1. CASE f = lrm
    <3>1. c.opts[f] = O!MemRotateMax(O!WireRotateMax(a.opts[lrm]))
      BY <1>3, <1>4, <2>1
    <3> QED
      BY <1>1, <2>1, <3>1, Rotation
  <2>2. CASE f # lrm
    BY <1>3, <1>4, <2>2
  <2> QED
    BY <2>1, <2>2
<1>6. \A f \in O!Fields : O!Lift(f, a.opts[f]) \in Int
  BY <1>1, Lifting
<1>7. c.opts \in [O!Fields -> Int] /\ c.opts[lrm] >= 0
  <2>1. \A f \in O!Fields : c.opts[f] \in Int
    BY <1>1, <1>5, <1>6
  <2>2. DOMAIN c.opts = O!Fields /\ c.opts = [f \in O!Fields |-> c.opts[f]]
    BY <1>4
  <2> QED
    BY <1>1, <1>5, <2>1, <2>2
<1> HIDE DEF c
<1>8. ASSUME NEW f \in O!Fields, f \notin DOMAIN a.from.opts
      PROVE  c.opts[f] = Defaults[f]
  <2>1. a.opts[f] = Defaults[f]
    BY <1>8 DEF KeptConfig, Holds
  <2> QED
    BY <1>1, <1>5, <2>1, Lifting
<1>9. ASSUME NEW f \in O!Fields, f \in DOMAIN a.from.opts, O!Fits(f, a.from.opts[f])
      PROVE  c.opts[f] = a.from.opts[f]
  <2>1. a.opts[f] = a.from.opts[f] /\ a.opts[f] > 0
    BY <1>9 DEF KeptConfig, Holds, O!Fits
  <2> QED
    BY <1>1, <1>5, <2>1, Lifting
<1>10. c.opts[lrm] = a.opts[lrm]
  BY <1>1, <1>5
<1>11. Holds(a.from, c.opts)
  BY <1>8, <1>9, <1>10 DEF Holds, KeptConfig
<1>12. a.from \in Requests /\ (a.merge => a.err = a.out)
  BY DEF KeptConfig
<1>13. c.from \in Requests /\ Holds(c.from, c.opts) /\ (c.merge => c.err = c.out)
  BY <1>4, <1>11, <1>12
<1>14. KeptConfig(c)
  BY <1>4, <1>7, <1>13 DEF KeptConfig
<1> QED
  BY <1>14 DEF b, c

LEMMA ExpandEntry ==
  ASSUME NEW r \in Requests
  PROVE  /\ Len(O!Expand(r)) \in Nat /\ DOMAIN O!Expand(r) = 1 .. Len(O!Expand(r))
         /\ \A k \in 1 .. Len(O!Expand(r)) : KeptConfig(O!Expand(r)[k])
<1> DEFINE a == O!Config(r)
           n == a.opts["instances"]
<1>1. KeptConfig(a) /\ n \in Nat
  BY ConfigEntry
<1>2. O!Expand(r) = IF n = 1 THEN <<a>>
                    ELSE [k \in 1 .. n |-> O!Instance(a, a.name, k - 1)]
  BY DEF O!Expand
<1> HIDE DEF a, n
<1>3. CASE n = 1
  BY <1>1, <1>2, <1>3
<1>4. CASE n # 1
  <2>1. O!Expand(r) = [k \in 1 .. n |-> O!Instance(a, a.name, k - 1)]
    BY <1>2, <1>4
  <2>2. \A k \in 1 .. n : KeptConfig(O!Instance(a, a.name, k - 1))
    BY <1>1, InstanceEntry
  <2>3. DOMAIN O!Expand(r) = 1 .. n /\ Len(O!Expand(r)) = n
    BY <1>1, <2>1
  <2> QED
    BY <1>1, <2>1, <2>2, <2>3
<1> QED
  BY <1>3, <1>4

-----------------------------------------------------------------------------
LEMMA StartAppsKeep ==
  ASSUME ConfigsInv, NEW seq, Len(seq) \in Nat,
         \A k \in 1 .. Len(seq) : KeptConfig(seq[k]), O!StartApps(seq)
  PROVE  ConfigsInv'
<1> DEFINE n == Len(seq)
           block == configID .. configID + n - 1
<1>1. /\ block \subseteq 0 .. MaxConfigId /\ configID' = configID + n
      /\ configs' = [id \in DOMAIN configs \cup block |->
                       IF id \in block THEN O!FillPaths(seq[id - configID + 1], id)
                       ELSE configs[id]]
  BY DEF O!StartApps, O!Ids
<1>2. configID \in Nat /\ n \in Nat
  BY DEF ConfigsInv
<1>3. \A id \in block : KeptConfig(O!FillPaths(seq[id - configID + 1], id))
  <2> SUFFICES ASSUME NEW id \in block
               PROVE  KeptConfig(O!FillPaths(seq[id - configID + 1], id))
    OBVIOUS
  <2>1. id - configID + 1 \in 1 .. n
    BY <1>2
  <2>2. KeptConfig(seq[id - configID + 1])
    BY <2>1
  <2> QED
    BY <2>2, FillEntry
<1> HIDE DEF n, block
<1>4. DOMAIN configs' \subseteq 0 .. MaxConfigId
  BY <1>1 DEF ConfigsInv
<1>5. \A id \in DOMAIN configs' : KeptConfig(configs'[id])
  BY <1>1, <1>3 DEF ConfigsInv
<1>6. configID' \in Nat
  BY <1>1, <1>2
<1> QED
  BY <1>4, <1>5, <1>6 DEF ConfigsInv

-----------------------------------------------------------------------------
LEMMA LeastNatural ==
  ASSUME NEW S \in SUBSET Nat, S # {}
  PROVE  \E x \in S : \A y \in S : x <= y
<1>1. PICK x \in S : \A y \in S : ~ (<<y, x>> \in OpToRel(<, Nat))
  BY NatLessThanWellFounded, WFMin
<1>2. \A y \in S : ~ (y < x)
  BY <1>1 DEF OpToRel
<1> QED
  BY <1>2

LEMMA LowestConfig ==
  ASSUME NEW S \in SUBSET (0 .. MaxConfigId), S # {}
  PROVE  O!Lowest(S) \in S
<1>1. S \in SUBSET Nat
  BY OptionsAssumption
<1>2. \E x \in S : \A y \in S : x <= y
  BY <1>1, LeastNatural
<1> QED
  BY <1>2 DEF O!Lowest

LEMMA HighestConfig ==
  ASSUME NEW S \in SUBSET (0 .. MaxConfigId), S # {}
  PROVE  O!Highest(S) \in S
<1> DEFINE T == {MaxConfigId - x : x \in S}
<1>0. /\ MaxConfigId \in Nat
      /\ \A x \in S : x \in Int /\ 0 <= x /\ x <= MaxConfigId
  BY OptionsAssumption
<1>1. T \in SUBSET Nat /\ T # {}
  <2>1. \A x \in S : MaxConfigId - x \in Nat
    BY <1>0
  <2> QED
    BY <2>1
<1>2. PICK x \in T : \A y \in T : x <= y
  BY <1>1, LeastNatural
<1>3. PICK z \in S : x = MaxConfigId - z
  BY <1>2
<1>4. \A y \in S : z >= y
  <2> SUFFICES ASSUME NEW y \in S
               PROVE  z >= y
    OBVIOUS
  <2>1. x <= MaxConfigId - y
    BY <1>2
  <2> QED
    BY <1>0, <1>3, <2>1
<1> QED
  BY <1>4 DEF O!Highest

LEMMA RemoveKeeps ==
  ASSUME ConfigsInv, NEW id, O!Remove(id)
  PROVE  ConfigsInv'
<1>1. /\ configs' = [j \in DOMAIN configs \ {id} |-> configs[j]]
      /\ configID' \in {0, configID}
  BY DEF O!Remove
<1>2. configID' \in Nat
  BY <1>1 DEF ConfigsInv
<1>3. DOMAIN configs' \subseteq 0 .. MaxConfigId
  BY <1>1 DEF ConfigsInv
<1>4. \A j \in DOMAIN configs' : KeptConfig(configs'[j])
  BY <1>1 DEF ConfigsInv
<1> QED
  BY <1>2, <1>3, <1>4 DEF ConfigsInv

LEMMA ConfigsStep == ConfigsInv /\ O!Next => ConfigsInv'
<1> SUFFICES ASSUME ConfigsInv, O!Next
             PROVE  ConfigsInv'
  OBVIOUS
<1>1. ASSUME NEW r \in Requests, O!Start(r)
      PROVE  ConfigsInv'
  <2>1. O!StartApps(O!Expand(r))
    BY <1>1 DEF O!Start
  <2> QED
    BY <2>1, ExpandEntry, StartAppsKeep
<1>2. ASSUME NEW r \in Requests, O!RestartExisting(r)
      PROVE  ConfigsInv'
  <2>1. /\ configs' = [id \in DOMAIN configs |->
                        IF id \in O!Family(<<r.name>>)
                        THEN [configs[id] EXCEPT !.env = r.env] ELSE configs[id]]
        /\ configID' = configID
    BY <1>2 DEF O!RestartExisting
  <2>2. DOMAIN configs' = DOMAIN configs
    BY <2>1
  <2>3. \A id \in DOMAIN configs : KeptConfig([configs[id] EXCEPT !.env = r.env])
    BY EnvEntry DEF ConfigsInv
  <2>4. \A id \in DOMAIN configs' : KeptConfig(configs'[id])
    BY <2>1, <2>3 DEF ConfigsInv
  <2> QED
    BY <2>1, <2>2, <2>4 DEF ConfigsInv
<1>3. ASSUME NEW name, O!ScaleUp(name)
      PROVE  ConfigsInv'
  <2> DEFINE family == O!Family(name)
             base == configs[O!Lowest(family)]
             i == O!Highest({O!Index(configs[id], name) : id \in family}) + 1
             seq == <<O!Instance(base, name, i)>>
  <2>1. family # {} /\ O!StartApps(seq)
    BY <1>3 DEF O!ScaleUp
  <2>2. family \subseteq DOMAIN configs
    BY DEF O!Family
  <2>3. O!Lowest(family) \in DOMAIN configs
    BY <2>1, <2>2, LowestConfig DEF ConfigsInv
  <2>4. KeptConfig(base)
    BY <2>3 DEF ConfigsInv
  <2> HIDE DEF base, i
  <2>5. KeptConfig(O!Instance(base, name, i))
    BY <2>4, InstanceEntry
  <2>6. Len(seq) \in Nat /\ \A k \in 1 .. Len(seq) : KeptConfig(seq[k])
    BY <2>5
  <2> HIDE DEF seq
  <2> QED
    BY <2>1, <2>6, StartAppsKeep
<1>4. ASSUME NEW name, O!ScaleDown(name)
      PROVE  ConfigsInv'
  BY <1>4, RemoveKeeps DEF O!ScaleDown
<1>5. ASSUME NEW id, O!Delete(id)
      PROVE  ConfigsInv'
  BY <1>5, RemoveKeeps DEF O!Delete
<1>6. ASSUME O!Resurrect
      PROVE  ConfigsInv'
  <2>1. /\ DOMAIN configs # {}
        /\ configs' = [id \in DOMAIN configs |->
                        O!RecordToApp(O!AppToRecord(configs[id]))]
        /\ configID' = O!Highest(DOMAIN configs) + 1
    BY <1>6 DEF O!Resurrect
  <2>2. configID' \in Nat
    BY <2>1, HighestConfig, OptionsAssumption DEF ConfigsInv
  <2>3. \A id \in DOMAIN configs : KeptConfig(O!RecordToApp(O!AppToRecord(configs[id])))
    BY ReloadEntry DEF ConfigsInv
  <2>4. \A id \in DOMAIN configs' : KeptConfig(configs'[id])
    BY <2>1, <2>3
  <2>5. DOMAIN configs' \subseteq 0 .. MaxConfigId
    BY <2>1 DEF ConfigsInv
  <2> QED
    BY <2>2, <2>4, <2>5 DEF ConfigsInv
<1> QED
  BY <1>1, <1>2, <1>3, <1>4, <1>5, <1>6 DEF O!Next

LEMMA ConfigsHold == RequestsSpec => []ConfigsInv
<1>1. RequestsInit => ConfigsInv
  <2>1. O!Init => ConfigsInv
    BY OptionsAssumption DEF O!Init, ConfigsInv
  <2> QED
    BY <2>1 DEF RequestsInit
<1>2. ConfigsInv /\ [RequestsNext]_<<vars, optionVars, fanoutVars>> => ConfigsInv'
  <2>1. ConfigsInv /\ UNCHANGED optionVars => ConfigsInv'
    BY DEF ConfigsInv, optionVars
  <2>2. [RequestsNext]_<<vars, optionVars, fanoutVars>> => O!Next \/ UNCHANGED optionVars
    BY DEF RequestsNext
  <2> QED
    BY <2>1, <2>2, ConfigsStep
<1> QED
  BY <1>1, <1>2, PTL DEF RequestsSpec

(* Whatever starts, scaling, restarts from a file and daemon restarts there *)
(* were, a registered config holds the options its request gave.            *)
THEOREM OptionsAreKept == RequestsSpec => []OptionsKept
<1>1. ConfigsInv => OptionsKept
  BY DEF ConfigsInv, KeptConfig, Holds, OptionsKept, O!OptionsKept
<1> QED
  BY <1>1, ConfigsHold, PTL
=============================================================================
