----------------------------- MODULE LogBusProofs -----------------------------
(***************************************************************************)
(* Proofs about LogBus and LogTail, for every capacity and any number of   *)
(* lines.                                                                  *)
(*                                                                         *)
(* LogBus: the route and the client may end a subscription in either       *)
(* order, or both, and its channel is closed once, after the last send.    *)
(* What the client is sent is in order and complete, or the gap is         *)
(* counted: each queue on the way is in order, the lines of a later queue  *)
(* come before those of an earlier one, and the snapshot ends where the    *)
(* live lines begin.                                                       *)
(* And it is what LogFeed promises: nothing is in two places of the way,   *)
(* and what was fanned out since the subscription is all there when the    *)
(* snapshot is taken.                                                      *)
(*                                                                         *)
(* LogTail, in the second half: the pump is at one place of the app's      *)
(* output, the lines captured end before it and the carry is the rest;     *)
(* what is unread is newer than what was captured, whichever file it is    *)
(* in; and each archive begins where the one before it ended.              *)
(***************************************************************************)
EXTENDS MCLogs, FiniteSetTheorems, WellFoundedInduction, TLAPS

(* Who may still close the channel: the subscription, while it is in the    *)
(* route, then Close's list, then nobody.                                   *)
Closers ==
  /\ closed \in BOOLEAN /\ subscribed \in BOOLEAN /\ closing \in BOOLEAN
  /\ closes \in {0, 1}
  /\ subscribed => closes = 0 /\ ~closing /\ ~closed
  /\ closing => closes = 0
  /\ spc = "start" => ~subscribed /\ ~closing /\ closes = 0

(* Sends are made under the mutex, so no subscription goes in the middle of *)
(* a fan-out.                                                               *)
FanoutHolds == pump # "idle" => subscribed

CInv == Closers /\ FanoutHolds

LEMMA InitHasCInv == Init => CInv
  BY DEF Init, CInv, Closers, FanoutHolds

(* The pumps and the client's side of the channel leave its closers alone.  *)
LEMMA TrafficKeepsCInv ==
  ASSUME CInv,
         \/ Pump \/ Clear \/ Snapshot \/ SendBacklog \/ BacklogEnds \/ Forwarder \/ Sender \/ ClientLeaves
         \/ \E s \in Streams : AppendLine(s)
  PROVE  CInv'
<1>1. UNCHANGED <<closed, subscribed, closing, closes>>
  BY DEF Pump, FanoutMarker, FanoutLine, Clear, Snapshot, SendBacklog, BacklogEnds, Forwarder, Receive,
     Forward, ForwarderEnds, Sender, Send, StreamEnds, ClientLeaves, AppendLine,
     routeVars, subVars
<1>2. spc' = "start" => spc = "start"
  BY DEF Pump, FanoutMarker, FanoutLine, Clear, Snapshot, SendBacklog, BacklogEnds, Forwarder, Receive,
     Forward, ForwarderEnds, Sender, Send, StreamEnds, ClientLeaves, AppendLine,
     streamVars
<1>3. pump' # "idle" => subscribed
  BY DEF Pump, FanoutMarker, FanoutLine, Clear, Snapshot, SendBacklog, BacklogEnds, Forwarder, Receive,
     Forward, ForwarderEnds, Sender, Send, StreamEnds, ClientLeaves, AppendLine,
     CInv, FanoutHolds
<1> QED
  BY <1>1, <1>2, <1>3 DEF CInv, Closers, FanoutHolds

(* Those that close it, or hand it on.                                      *)
LEMMA ClosersKeepCInv ==
  ASSUME CInv, CloseRoute \/ CloseChannel \/ Subscribe \/ Unsubscribe
  PROVE  CInv'
<1> USE DEF CInv, Closers, FanoutHolds, Unlocked
<1>1. CASE CloseRoute
  <2>1. CASE subscribed
    BY <1>1, <2>1 DEF CloseRoute, streamVars
  <2>2. CASE ~subscribed
    <3>1. subscribed' = FALSE /\ closing' = FALSE /\ closed' = TRUE
      BY <1>1, <2>2 DEF CloseRoute
    <3> QED
      BY <1>1, <3>1 DEF CloseRoute, streamVars
  <2> QED
    BY <2>1, <2>2
<1>2. CASE CloseChannel
  <2>1. closes = 0 /\ ~subscribed /\ spc # "start"
    BY <1>2 DEF CloseChannel
  <2>2. closes' = 1 /\ closing' = FALSE /\ UNCHANGED <<closed, pump, subscribed, spc>>
    BY <1>2, <2>1 DEF CloseChannel, routeVars, streamVars
  <2> QED
    BY <2>1, <2>2
<1>3. CASE Subscribe
  <2>1. CASE closed
    <3>1. subscribed' = FALSE
      BY <1>3, <2>1 DEF Subscribe
    <3> QED
      BY <1>3, <2>1, <3>1 DEF Subscribe, routeVars
  <2>2. CASE ~closed
    <3>1. subscribed' = TRUE
      BY <1>3, <2>2 DEF Subscribe
    <3> QED
      BY <1>3, <2>2, <3>1 DEF Subscribe, routeVars
  <2> QED
    BY <2>1, <2>2
<1>4. CASE Unsubscribe
  <2>1. closes' = (IF subscribed THEN 1 ELSE closes) /\ subscribed' = FALSE
    BY <1>4 DEF Unsubscribe
  <2>2. spc' = "ended" /\ pump = "idle" /\ UNCHANGED <<closed, pump, closing>>
    BY <1>4 DEF Unsubscribe, routeVars
  <2> QED
    BY <2>1, <2>2
<1> QED
  BY <1>1, <1>2, <1>3, <1>4

THEOREM ClosersInvariance == Spec => []CInv
<1>1. CInv /\ UNCHANGED vars => CInv'
  BY DEF vars, routeVars, subVars, streamVars, CInv, Closers, FanoutHolds
<1>2. CInv /\ Next => CInv'
  BY TrafficKeepsCInv, ClosersKeepCInv DEF Next, Route, Attach
<1> QED
  BY <1>1, <1>2, InitHasCInv, PTL DEF Spec

-----------------------------------------------------------------------------
(* Queues of entries.  L is the stream of every line.                       *)
InOrder(L, s) ==
  \A i, j \in DOMAIN s :
    i < j /\ IsLine(s[i]) /\ IsLine(s[j]) /\ L[s[i].seq] = L[s[j].seq] =>
      s[i].seq < s[j].seq
Ahead(L, A, B) ==
  \A x \in A, y \in B :
    IsLine(x) /\ IsLine(y) /\ L[x.seq] = L[y.seq] => x.seq < y.seq

LEMMA AppendElements ==
  ASSUME NEW S, NEW s \in Seq(S), NEW e \in S
  PROVE  Elements(Append(s, e)) = Elements(s) \cup {e}
<1>1. /\ DOMAIN s = 1 .. Len(s) /\ Len(s) \in Nat
      /\ DOMAIN Append(s, e) = 1 .. Len(s) + 1
      /\ Append(s, e)[Len(s) + 1] = e
      /\ \A i \in 1 .. Len(s) : Append(s, e)[i] = s[i]
  OBVIOUS
<1>2. \A x \in Elements(Append(s, e)) : x \in Elements(s) \cup {e}
  BY <1>1 DEF Elements
<1>3. \A x \in Elements(s) : x \in Elements(Append(s, e))
  BY <1>1 DEF Elements
<1>4. e \in Elements(Append(s, e))
  BY <1>1 DEF Elements
<1> QED
  BY <1>2, <1>3, <1>4

LEMMA AppendFacts ==
  ASSUME NEW S, NEW s \in Seq(S), NEW e \in S, NEW L
  PROVE  /\ Append(s, e) \in Seq(S) /\ Len(Append(s, e)) = Len(s) + 1
         /\ Elements(Append(s, e)) = Elements(s) \cup {e}
         /\ InOrder(L, s) /\ Ahead(L, Elements(s), {e}) => InOrder(L, Append(s, e))
<1>1. /\ Append(s, e) \in Seq(S) /\ Len(Append(s, e)) = Len(s) + 1
      /\ DOMAIN s = 1 .. Len(s) /\ Len(s) \in Nat
      /\ DOMAIN Append(s, e) = 1 .. Len(s) + 1
      /\ Append(s, e)[Len(s) + 1] = e
      /\ \A i \in 1 .. Len(s) : Append(s, e)[i] = s[i]
  OBVIOUS
<1>2. Elements(Append(s, e)) = Elements(s) \cup {e}
  BY AppendElements
<1>3. ASSUME InOrder(L, s), Ahead(L, Elements(s), {e}) PROVE InOrder(L, Append(s, e))
  <2>1. \A i \in 1 .. Len(s) : s[i] \in Elements(s)
    BY <1>1 DEF Elements
  <2> QED
    BY <1>1, <1>3, <2>1 DEF InOrder, Ahead
<1> QED
  BY <1>1, <1>2, <1>3

LEMMA TailFacts ==
  ASSUME NEW S, NEW s \in Seq(S), s # << >>, NEW L
  PROVE  /\ Tail(s) \in Seq(S) /\ Head(s) \in S /\ Len(Tail(s)) < Len(s)
         /\ Elements(s) = {Head(s)} \cup Elements(Tail(s))
         /\ InOrder(L, s) => /\ InOrder(L, Tail(s))
                             /\ Ahead(L, {Head(s)}, Elements(Tail(s)))
<1>1. /\ Tail(s) \in Seq(S) /\ Head(s) \in S /\ Len(Tail(s)) = Len(s) - 1
      /\ DOMAIN s = 1 .. Len(s) /\ Len(s) \in Nat /\ Len(s) >= 1
      /\ DOMAIN Tail(s) = 1 .. Len(s) - 1 /\ Head(s) = s[1]
      /\ \A i \in 1 .. Len(s) - 1 : Tail(s)[i] = s[i + 1]
  OBVIOUS
<1>2. Elements(s) = {Head(s)} \cup Elements(Tail(s))
  <2>1. ASSUME NEW i \in 1 .. Len(s) PROVE s[i] \in {Head(s)} \cup Elements(Tail(s))
    <3>1. CASE i = 1
      BY <1>1, <3>1
    <3>2. CASE i # 1
      <4>1. i - 1 \in DOMAIN Tail(s) /\ Tail(s)[i - 1] = s[i]
        BY <1>1, <3>2
      <4> QED
        BY <4>1 DEF Elements
    <3> QED
      BY <3>1, <3>2
  <2>2. \A x \in Elements(Tail(s)) : x \in Elements(s)
    BY <1>1 DEF Elements
  <2>3. Head(s) \in Elements(s)
    BY <1>1 DEF Elements
  <2> QED
    BY <1>1, <2>1, <2>2, <2>3 DEF Elements
<1>3. ASSUME InOrder(L, s)
      PROVE  InOrder(L, Tail(s)) /\ Ahead(L, {Head(s)}, Elements(Tail(s)))
  <2>1. InOrder(L, Tail(s))
    BY <1>1, <1>3 DEF InOrder
  <2>2. Ahead(L, {Head(s)}, Elements(Tail(s)))
    BY <1>1, <1>3 DEF InOrder, Ahead, Elements
  <2> QED
    BY <2>1, <2>2
<1> QED
  BY <1>1, <1>2, <1>3

LEMMA ElementsTyped ==
  ASSUME NEW S, NEW s \in Seq(S)
  PROVE  Elements(s) \in SUBSET S /\ Elements(<< >>) = {}
BY DEF Elements

LEMMA OneElement ==
  ASSUME NEW S, NEW s \in Seq(S), Len(s) <= 1, s # << >>
  PROVE  s[1] \in S /\ Elements(s) = {s[1]}
<1>1. Len(s) = 1 /\ DOMAIN s = 1 .. 1 /\ s[1] \in S
  OBVIOUS
<1> QED
  BY <1>1 DEF Elements

(* A set of naturals has a least member, a bounded one a greatest.          *)
LEMMA LeastNatural ==
  ASSUME NEW S \in SUBSET Nat, S # {}
  PROVE  \E x \in S : \A y \in S : x <= y
<1>1. PICK x \in S : \A y \in S : ~ (<<y, x>> \in OpToRel(<, Nat))
  BY NatLessThanWellFounded, WFMin
<1>2. \A y \in S : ~ (y < x)
  BY <1>1 DEF OpToRel
<1> QED
  BY <1>2

LEMMA LeastMember ==
  ASSUME NEW S \in SUBSET Nat, S # {}
  PROVE  Least(S) \in S /\ \A y \in S : Least(S) <= y
BY LeastNatural DEF Least

LEMMA GreatestNatural ==
  ASSUME NEW n \in Nat, NEW S \in SUBSET (0 .. n), S # {}
  PROVE  \E x \in S : \A y \in S : y <= x
<1> DEFINE R == {n - x : x \in S}
<1>0. \A x \in S : x \in 0 .. n /\ n - x \in Nat
  OBVIOUS
<1>1. R \in SUBSET Nat /\ R # {}
  BY <1>0
<1>2. PICK z \in R : \A y \in R : z <= y
  BY <1>1, LeastNatural
<1>3. PICK x \in S : z = n - x
  BY <1>2
<1>4. \A y \in S : n - x <= n - y
  BY <1>2, <1>3
<1> QED
  BY <1>0, <1>4

-----------------------------------------------------------------------------
(* From a line of P on, the lines of its stream are in P, owed in D, or     *)
(* counted in P, up to line n.                                              *)
Accounted(L, n, D, P) ==
  \A e \in P : IsLine(e) =>
    \A i \in e.seq .. n : L[i] = L[e.seq] =>
      Line(i) \in P \/ i \in D[L[i]] \/ \E m \in P : i \in m.dropped

Queued == Elements(sent) \cup Onward \cup Elements(ch)

(* Nothing is in a queue before it was fanned out, and the backlog ends     *)
(* there.                                                                   *)
Bounded ==
  /\ pump # "idle" => Newest >= 1
  /\ pump = "marker" => pending[log[Newest]] # {}
  /\ maxSeq <= FannedOut /\ \A i \in back : i <= maxSeq
  /\ \A e \in Queued : e.seq <= Newest /\ (IsLine(e) => e.seq <= FannedOut)
  /\ \A s \in Streams : \A i \in pending[s] : i <= FannedOut /\ log[i] = s
  /\ \A e \in Elements(ch) :
       \A i \in e.dropped : i <= FannedOut /\ log[i] = log[e.seq]

(* The queues fill one after the other.                                     *)
Staged ==
  /\ spc = "start" => ch = << >>
  /\ spc \in {"start", "subscribed"} => sent = << >> /\ back = {} /\ maxSeq = 0
  /\ spc \in {"start", "subscribed", "backlog"} => merged = << >> /\ fwd = << >>

Ordered ==
  /\ InOrder(log, ch) /\ InOrder(log, merged) /\ InOrder(log, sent)
  /\ Ahead(log, Elements(sent), Onward)
  /\ Ahead(log, Elements(merged), Elements(fwd))
  /\ spc = "follow" => Ahead(log, Elements(sent) \cup Onward, Live)
  /\ spc = "backlog" =>
       \A x \in Elements(sent) : IsLine(x) =>
         x.seq <= maxSeq /\ \A i \in back : log[x.seq] = log[i] => x.seq < i

Complete ==
  /\ spc = "subscribed" /\ subscribed =>
       Accounted(log, FannedOut, pending, Elements(ch))
  /\ spc \in {"backlog", "follow"} /\ subscribed =>
       Accounted(log, FannedOut, pending, Pipe)

(* Nothing is on its way that the client did not ask for.                   *)
Chosen == \A e \in Pipe : Wanted(e)

LInv == TypeOK /\ CInv /\ Bounded /\ Staged /\ Ordered /\ Complete /\ Chosen

LEMMA LineFacts ==
  \A i : IsLine(Line(i)) /\ Line(i).seq = i /\ Line(i).dropped = {}
BY DEF IsLine, Line

LEMMA QueueFacts ==
  ASSUME TypeOK
  PROVE  /\ Elements(ch) \in SUBSET Entries /\ Elements(fwd) \in SUBSET Entries
         /\ Elements(merged) \in SUBSET Entries /\ Elements(sent) \in SUBSET Entries
         /\ Elements(<< >>) = {} /\ Newest \in Nat /\ Newest <= MaxLines
         /\ \A e \in Entries : e.seq \in 1 .. MaxLines /\ e.dropped \in SUBSET (1 .. MaxLines)
         /\ \A i \in 1 .. MaxLines : Line(i) \in Entries
         /\ \A i \in 1 .. Newest : log[i] \in Streams
<1>1. /\ ch \in Seq(Entries) /\ fwd \in Seq(Entries) /\ merged \in Seq(Entries)
      /\ sent \in Seq(Entries) /\ log \in Seq(Streams) /\ Len(log) <= MaxLines
  BY DEF TypeOK
<1>2. /\ Elements(ch) \in SUBSET Entries /\ Elements(fwd) \in SUBSET Entries
      /\ Elements(merged) \in SUBSET Entries /\ Elements(sent) \in SUBSET Entries
      /\ Elements(<< >>) = {}
  BY <1>1, ElementsTyped
<1>3. Newest \in Nat /\ Newest <= MaxLines /\ \A i \in 1 .. Newest : log[i] \in Streams
  BY <1>1 DEF Newest
<1> QED
  BY <1>2, <1>3 DEF Entries, Line

LEMMA InitHasLInv == Init => LInv
<1> SUFFICES ASSUME Init PROVE LInv
  OBVIOUS
<1> USE LogBusAssumption
<1>0. /\ count = 0 /\ closed = FALSE /\ pump = "idle" /\ subscribed = FALSE
      /\ closing = FALSE /\ closes = 0 /\ pending = [s \in Streams |-> {}]
      /\ spc = "start" /\ back = {} /\ maxSeq = 0 /\ fdone = FALSE
  BY Zenon DEF Init
<1>a. log = << >> /\ ch = << >> /\ fwd = << >> /\ merged = << >> /\ sent = << >>
  BY Zenon DEF Init
<1>1. TypeOK
  <2>1. req \in Requests
    BY Zenon DEF Init
  <2>2. /\ log \in Seq(Streams) /\ ch \in Seq(Entries) /\ fwd \in Seq(Entries)
        /\ merged \in Seq(Entries) /\ sent \in Seq(Entries)
        /\ Len(log) = 0 /\ Len(ch) = 0 /\ Len(fwd) = 0 /\ Len(merged) = 0
    BY <1>a
  <2>3. pending \in [Streams -> SUBSET (1 .. MaxLines)]
    BY <1>0
  <2>4. /\ count \in 0 .. RingLines /\ count <= Len(log) /\ Len(log) <= MaxLines
        /\ Len(ch) <= SubBuffer /\ Len(fwd) <= 1 /\ Len(merged) <= MergedBuffer
        /\ closes \in 0 .. 2 /\ maxSeq \in 0 .. MaxLines
    BY <1>0, <2>2
  <2>5. /\ closed \in BOOLEAN /\ pump \in {"idle", "marker", "line"}
        /\ subscribed \in BOOLEAN /\ closing \in BOOLEAN
        /\ spc \in {"start", "subscribed", "backlog", "follow", "leaving", "ended"}
        /\ back \in SUBSET (1 .. MaxLines) /\ fdone \in BOOLEAN
    BY <1>0
  <2> QED
    BY <2>1, <2>2, <2>3, <2>4, <2>5 DEF TypeOK
<1>2. Elements(<< >>) = {} /\ Newest = 0 /\ FannedOut = 0
  BY <1>0, <1>a DEF Elements, Newest, FannedOut
<1>3. Bounded /\ Staged
  BY <1>0, <1>a, <1>2 DEF Bounded, Staged, Queued, Onward
<1>4. Ordered /\ Complete
  BY <1>0, <1>a, <1>2 DEF Ordered, Complete, InOrder, Ahead, Onward, Elements
<1>5. Chosen
  BY <1>0, <1>a, <1>2 DEF Chosen, Pipe
<1> QED
  BY <1>1, <1>3, <1>4, <1>5, InitHasCInv DEF LInv

-----------------------------------------------------------------------------
(* Steps that leave the queues alone.                                       *)
LEMMA QueuesRestKeep ==
  ASSUME LInv, TypeOK', CInv',
         UNCHANGED <<log, pump, ch, pending, req, back, maxSeq, merged, sent>>,
         fwd' = fwd \/ fwd' = << >>,
         \/ spc' = spc
         \/ spc = "start" /\ spc' = "subscribed"
         \/ spc' \in {"leaving", "ended"}
         \/ spc = "backlog" /\ back = {} /\ spc' = "follow",
         subscribed' => subscribed \/ spc = "start",
         fwd' # fwd => spc' = "leaving"
  PROVE  LInv'
<1>1. UNCHANGED <<Newest, FannedOut>> /\ Elements(<< >>) = {}
  BY DEF Newest, FannedOut, Elements
<1>2. /\ Elements(ch)' = Elements(ch) /\ Elements(sent)' = Elements(sent)
      /\ Elements(merged)' = Elements(merged)
      /\ Elements(fwd)' = Elements(fwd) \/ Elements(fwd)' = {}
      /\ Live' = Live /\ Onward' \in SUBSET Onward /\ Queued' \in SUBSET Queued
  BY <1>1 DEF Elements, Live, Fresh, Wanted, Onward, Queued
<1>3. Bounded'
  BY <1>1, <1>2 DEF LInv, Bounded
<1>4. Staged'
  BY DEF LInv, Staged
<1>5. Ordered'
  <2>1. /\ InOrder(log, ch)' /\ InOrder(log, merged)' /\ InOrder(log, sent)'
    BY DEF LInv, Ordered
  <2>2. /\ Ahead(log, Elements(sent), Onward)'
        /\ Ahead(log, Elements(merged), Elements(fwd))'
    BY <1>1, <1>2 DEF LInv, Ordered, Ahead
  <2>3. (spc = "follow" => Ahead(log, Elements(sent) \cup Onward, Live))'
    <3>1. CASE spc = "follow"
      BY <1>2, <3>1 DEF LInv, Ordered, Ahead
    <3>2. CASE spc = "backlog" /\ spc' = "follow"
      <4>1. Onward = {}
        BY <1>1, <3>2 DEF LInv, Staged, Onward
      <4>2. \A x \in Elements(sent), y \in Live : IsLine(x) /\ IsLine(y) => x.seq < y.seq
        <5> SUFFICES ASSUME NEW x \in Elements(sent), NEW y \in Live, IsLine(x), IsLine(y)
                     PROVE  x.seq < y.seq
          OBVIOUS
        <5>1. x.seq <= maxSeq /\ y.seq > maxSeq
          BY <3>2 DEF LInv, Ordered, Live, Fresh, IsLine
        <5>2. x.seq \in Int /\ y.seq \in Int /\ maxSeq \in Int
          BY QueueFacts DEF LInv, TypeOK, Live
        <5> QED
          BY <5>1, <5>2
      <4> QED
        BY <1>2, <4>1, <4>2 DEF Ahead
    <3> QED
      BY <3>1, <3>2
  <2>4. (spc = "backlog" =>
           \A x \in Elements(sent) : IsLine(x) =>
             x.seq <= maxSeq /\ \A i \in back : log[x.seq] = log[i] => x.seq < i)'
    BY <1>2 DEF LInv, Ordered
  <2> QED
    BY <2>1, <2>2, <2>3, <2>4 DEF Ordered
<1>6. Complete'
  <2>1. CASE spc' = "subscribed" /\ subscribed'
    <3>1. CASE spc = "start"
      <4>1. Elements(ch)' = {}
        BY <1>1, <1>2, <3>1 DEF LInv, Staged
      <4> QED
        BY <2>1, <4>1 DEF Complete, Accounted
    <3>2. CASE spc = "subscribed"
      BY <1>1, <1>2, <2>1, <3>2 DEF LInv, Complete
    <3> QED
      BY <2>1, <3>1, <3>2
  <2>2. CASE spc' \in {"backlog", "follow"} /\ subscribed'
    <3>1. spc \in {"backlog", "follow"} /\ subscribed /\ fwd' = fwd
      BY <2>2 DEF LInv, CInv, Closers
    <3>2. Pipe' = Pipe
      BY <3>1 DEF Pipe, Elements, Fresh, Wanted
    <3> QED
      BY <1>1, <2>2, <3>1, <3>2 DEF LInv, Complete
  <2> QED
    BY <2>1, <2>2 DEF Complete
<1>7. Chosen'
  <2>1. Pipe' \in SUBSET Pipe
    BY <1>2 DEF Pipe, Live
  <2> QED
    BY <2>1 DEF LInv, Chosen, Wanted
<1> QED
  BY <1>3, <1>4, <1>5, <1>6, <1>7 DEF LInv

-----------------------------------------------------------------------------
(* Types.                                                                   *)
LEMMA PumpTyped ==
  ASSUME LInv, Pump \/ (\E s \in Streams : AppendLine(s)) \/ Clear
  PROVE  TypeOK'
<1> USE LogBusAssumption
<1>0. TypeOK /\ Newest \in Nat /\ Newest <= MaxLines /\ log \in Seq(Streams)
  BY QueueFacts DEF LInv, TypeOK
<1>1. ASSUME NEW s \in Streams, AppendLine(s) PROVE TypeOK'
  <2>1. /\ Len(log) < MaxLines /\ log' = Append(log, s)
        /\ UNCHANGED <<closed, subscribed, closing, ch, closes, pending, req, spc, back,
                       maxSeq, fwd, fdone, merged, sent>>
    BY <1>1 DEF AppendLine, subVars, streamVars
  <2>2. log' \in Seq(Streams) /\ Len(log') = Len(log) + 1 /\ Len(log) \in Nat
    BY <1>0, <2>1
  <2>3. count' \in 0 .. RingLines /\ count' <= Len(log')
    BY <1>0, <1>1, <2>2 DEF AppendLine, PushRing, TypeOK
  <2>4. pump' \in {"idle", "marker", "line"}
    BY <1>1 DEF AppendLine
  <2> QED
    BY <1>0, <2>1, <2>2, <2>3, <2>4 DEF TypeOK
<1>2. CASE Clear
  <2>1. count' = 0 /\ UNCHANGED <<log, closed, pump, subscribed, closing, ch, closes, pending,
                                  req, spc, back, maxSeq, fwd, fdone, merged, sent>>
    BY <1>2 DEF Clear, subVars, streamVars
  <2>2. count' \in 0 .. RingLines /\ count' <= Len(log')
    BY <1>0, <2>1
  <2> QED
    BY <1>0, <2>1, <2>2 DEF TypeOK
<1>3. CASE Pump
  <2>1. /\ UNCHANGED <<log, count, closed, subscribed, closing, closes, req, spc, back,
                       maxSeq, fwd, fdone, merged, sent>>
        /\ pump' \in {"idle", "line"} /\ pump # "idle"
    BY <1>3 DEF Pump, FanoutMarker, FanoutLine, routeVars, streamVars
  <2>2. Newest \in 1 .. MaxLines /\ log[Newest] \in Streams
    BY <1>0, <2>1, QueueFacts DEF LInv, Bounded
  <2>3. pending' \in [Streams -> SUBSET (1 .. MaxLines)]
    <3> DEFINE t == log[Newest]
    <3>1. /\ pending \in [Streams -> SUBSET (1 .. MaxLines)]
          /\ t \in Streams /\ pending[t] \in SUBSET (1 .. MaxLines)
      BY <2>2, <1>0 DEF TypeOK
    <3>2. \/ pending' = pending \/ pending' = [pending EXCEPT ![t] = {}]
          \/ pending' = [pending EXCEPT ![t] = @ \cup {Newest}]
      BY <1>3 DEF Pump, FanoutMarker, FanoutLine
    <3> HIDE DEF t
    <3> QED
      BY <2>2, <3>1, <3>2
  <2>4. ch' = ch \/ \E e \in Entries : ch' = Append(ch, e) /\ ~ Full
    <3>1. Line(Newest) \in Entries /\ Marker(Newest, pending[log[Newest]]) \in Entries
      BY <1>0, <2>2 DEF Entries, Line, Marker, TypeOK
    <3> QED
      BY <1>3, <3>1 DEF Pump, FanoutMarker, FanoutLine
  <2>5. ch' \in Seq(Entries) /\ Len(ch') <= SubBuffer
    <3>1. ch \in Seq(Entries) /\ Len(ch) \in Nat /\ Len(ch) <= SubBuffer /\ SubBuffer \in Nat
      BY <1>0 DEF TypeOK
    <3>2. \A e \in Entries :
            Append(ch, e) \in Seq(Entries) /\ Len(Append(ch, e)) = Len(ch) + 1
      BY <3>1
    <3> QED
      BY <2>4, <3>1, <3>2 DEF Full
  <2> QED
    BY <1>0, <2>1, <2>3, <2>5 DEF TypeOK
<1> QED
  BY <1>1, <1>2, <1>3

(* The backlog is made of lines of the ring.                                *)
LEMMA BacklogFacts ==
  ASSUME LInv
  PROVE  /\ Ring \in SUBSET (1 .. Newest)
         /\ Backlog \in SUBSET {i \in Ring : Wanted(Line(i))}
         /\ Covered \in 0 .. Newest
         /\ \A i \in Ring : Wanted(Line(i)) => i <= Covered
         /\ \A i \in Backlog, j \in Ring : log[i] = log[j] /\ i <= j => j \in Backlog
<1> USE LogBusAssumption
<1>0. TypeOK /\ Newest \in Nat /\ Newest <= MaxLines
  BY QueueFacts DEF LInv
<1>1. Ring \in SUBSET (1 .. Newest)
  BY <1>0 DEF Ring, Newest, TypeOK
<1>2. Backlog \in SUBSET {i \in Ring : Wanted(Line(i))}
  BY LineFacts DEF Backlog, Recent, Captured, Wanted
<1>3. Covered \in 0 .. Newest /\ \A i \in Ring : Wanted(Line(i)) => i <= Covered
  <2> DEFINE seen == {i \in Ring : Wanted(Line(i))}
  <2>1. CASE seen = {}
    BY <1>0, <2>1 DEF Covered
  <2>2. CASE seen # {}
    <3>1. seen \in SUBSET (0 .. Newest)
      <4>1. seen \in SUBSET (1 .. Newest)
        BY <1>1
      <4> HIDE DEF seen
      <4> QED
        BY <1>0, <4>1
    <3>2. \E x \in seen : \A y \in seen : y <= x
      BY <1>0, <2>2, <3>1, GreatestNatural
    <3>3. Covered = CHOOSE i \in seen : \A j \in seen : j <= i
      BY <2>2 DEF Covered
    <3>4. Covered \in seen /\ \A j \in seen : j <= Covered
      BY <3>2, <3>3
    <3> QED
      BY <3>1, <3>4
  <2> QED
    BY <2>1, <2>2
<1>4. ASSUME NEW i \in Backlog, NEW j \in Ring, log[i] = log[j], i <= j
      PROVE  j \in Backlog
  <2> DEFINE st == log[i]
             After(k) == {m \in Captured(st) : m >= k}
  <2>1. i \in Ring /\ i \in Captured(st) /\ j \in Captured(st)
    BY <1>2, <1>4 DEF Captured
  <2>2. Captured(st) \in SUBSET (1 .. Newest)
    BY <1>1 DEF Captured
  <2>3. After(j) \subseteq After(i)
    BY <1>0, <1>4, <2>1, <2>2
  <2>4. IsFiniteSet(After(i))
    <3>1. IsFiniteSet(1 .. Newest)
      BY <1>0, FS_Interval
    <3>2. After(i) \subseteq 1 .. Newest
      BY <2>2
    <3> QED
      BY <3>1, <3>2, FS_Subset
  <2>5. IsFiniteSet(After(j)) /\ Cardinality(After(j)) <= Cardinality(After(i))
    BY <2>3, <2>4, FS_Subset
  <2>6. Cardinality(After(i)) \in Nat /\ Cardinality(After(j)) \in Nat
    BY <2>4, <2>5, FS_CardinalityType
  <2>7. req.lines \in Int
    <3>1. req \in Requests /\ Backlogs \subseteq Nat
      BY <1>0 DEF TypeOK
    <3>2. \A r \in Requests : r.lines \in Backlogs
      BY DEF Requests
    <3>3. req.lines \in Backlogs
      BY <3>1, <3>2
    <3>4. \A x \in Backlogs : x \in Int
      BY <3>1
    <3> QED
      BY <3>3, <3>4, Zenon
  <2>8. /\ i \in Recent(st) /\ (st = "out" \/ (st = "err" /\ req.stderr))
    BY <1>4 DEF Backlog, Recent, Captured
  <2>9. Cardinality(After(i)) <= req.lines
    BY <2>8 DEF Recent
  <2>10. Cardinality(After(j)) <= req.lines
    BY <2>5, <2>6, <2>7, <2>9
  <2>11. j \in Recent(st)
    BY <2>1, <2>10 DEF Recent
  <2> QED
    BY <2>8, <2>11 DEF Backlog
<1> QED
  BY <1>1, <1>2, <1>3, <1>4

(* The next line of the backlog is the first of its stream.                 *)
LEMMA NextLine ==
  ASSUME LInv, back # {}
  PROVE  LET outs == {i \in back : log[i] = "out"}
             i == Least(IF outs # {} THEN outs ELSE back)
         IN  i \in back /\ \A j \in back : log[j] = log[i] => i <= j
<1> DEFINE outs == {i \in back : log[i] = "out"}
           i == Least(IF outs # {} THEN outs ELSE back)
<1>1. back \in SUBSET Nat
  BY LogBusAssumption DEF LInv, TypeOK
<1>2. CASE outs # {}
  <2>1. outs \in SUBSET Nat /\ i = Least(outs)
    BY <1>1, <1>2
  <2>2. i \in outs /\ \A j \in outs : i <= j
    BY <1>2, <2>1, LeastMember
  <2> QED
    BY <2>2
<1>3. CASE outs = {}
  <2>1. i = Least(back)
    BY <1>3
  <2> QED
    BY <1>1, <2>1, LeastMember
<1> QED
  BY <1>2, <1>3

-----------------------------------------------------------------------------
(* Types of the client's side.                                              *)
LEMMA SubscriptionTyped ==
  ASSUME LInv, CInv',
         Subscribe \/ Unsubscribe \/ CloseRoute \/ CloseChannel
  PROVE  TypeOK'
<1>1. TypeOK
  BY DEF LInv
<1>2. /\ UNCHANGED <<log, count, pump, ch, pending, req, back, maxSeq, fwd, fdone, merged, sent>>
      /\ spc' \in {spc, "subscribed", "ended"}
  BY DEF Subscribe, Unsubscribe, CloseRoute, CloseChannel, routeVars, streamVars
<1>3. /\ closed' \in BOOLEAN /\ subscribed' \in BOOLEAN /\ closing' \in BOOLEAN
      /\ closes' \in 0 .. 2
  BY DEF CInv, Closers
<1> QED
  BY <1>1, <1>2, <1>3 DEF TypeOK

LEMMA AttachTyped ==
  ASSUME LInv, Snapshot \/ SendBacklog \/ BacklogEnds
  PROVE  TypeOK'
<1> USE LogBusAssumption
<1>1. TypeOK /\ Newest \in Nat /\ Newest <= MaxLines
  BY QueueFacts DEF LInv
<1>2. /\ UNCHANGED <<log, count, closed, pump, subscribed, closing, ch, closes, pending,
                     req, fwd, merged>>
      /\ spc' \in {"subscribed", "backlog", "follow", "leaving"} /\ fdone' \in BOOLEAN
  BY <1>1 DEF Snapshot, SendBacklog, BacklogEnds, routeVars, subVars, TypeOK
<1>3. back' \in SUBSET (1 .. MaxLines) /\ maxSeq' \in 0 .. MaxLines
  <2>1. back \in SUBSET (1 .. MaxLines) /\ maxSeq \in 0 .. MaxLines
    BY <1>1 DEF TypeOK
  <2>2. Backlog \in SUBSET (1 .. MaxLines) /\ Covered \in 0 .. MaxLines
    BY <1>1, BacklogFacts
  <2>3. \/ UNCHANGED <<back, maxSeq>>
        \/ back' = Backlog /\ maxSeq' = Covered
        \/ (\E i : back' = back \ {i}) /\ maxSeq' = maxSeq
    BY DEF Snapshot, SendBacklog, BacklogEnds
  <2> QED
    BY <2>1, <2>2, <2>3
<1>4. sent' \in Seq(Entries)
  <2>1. sent \in Seq(Entries)
    BY <1>1 DEF TypeOK
  <2>2. CASE SendBacklog
    <3>1. \E i \in back : sent' = Append(sent, Line(i))
      BY <2>2, NextLine DEF SendBacklog
    <3>2. \A i \in back : Line(i) \in Entries
      BY <1>1, QueueFacts DEF TypeOK
    <3> QED
      BY <2>1, <3>1, <3>2
  <2>3. CASE Snapshot \/ BacklogEnds
    BY <2>1, <2>3 DEF Snapshot, BacklogEnds
  <2> QED
    BY <2>2, <2>3
<1> QED
  BY <1>1, <1>2, <1>3, <1>4 DEF TypeOK

LEMMA FollowTyped ==
  ASSUME LInv, Forwarder \/ Sender \/ ClientLeaves
  PROVE  TypeOK'
<1> USE LogBusAssumption
<1>1. TypeOK
  BY DEF LInv
<1>2. /\ UNCHANGED <<log, count, closed, pump, subscribed, closing, closes, pending,
                     req, back, maxSeq>>
      /\ spc' \in {spc, "leaving"} /\ fdone' \in {fdone, TRUE}
  BY DEF Forwarder, Receive, Forward, ForwarderEnds, Sender, Send, StreamEnds, ClientLeaves,
         routeVars, subVars
<1>3. /\ ch \in Seq(Entries) /\ Len(ch) <= SubBuffer /\ fwd \in Seq(Entries) /\ Len(fwd) <= 1
      /\ merged \in Seq(Entries) /\ Len(merged) <= MergedBuffer /\ sent \in Seq(Entries)
      /\ SubBuffer \in Nat /\ MergedBuffer \in Nat
  BY <1>1 DEF TypeOK
<1>4. /\ ch' \in Seq(Entries) /\ Len(ch') <= SubBuffer
      /\ fwd' \in Seq(Entries) /\ Len(fwd') <= 1
  <2>0. << >> \in Seq(Entries) /\ Len(<< >>) = 0
    OBVIOUS
  <2>1. CASE Receive
    <3>1. ch # << >> /\ ch' = Tail(ch) /\ fwd' \in {<<Head(ch)>>, << >>}
      BY <2>1 DEF Receive
    <3>2. Tail(ch) \in Seq(Entries) /\ Len(Tail(ch)) = Len(ch) - 1 /\ Head(ch) \in Entries
      BY <1>3, <3>1
    <3>3. <<Head(ch)>> \in Seq(Entries) /\ Len(<<Head(ch)>>) = 1
      BY <3>2
    <3>4. ch' \in Seq(Entries) /\ Len(ch') <= SubBuffer
      <4>1. \A n \in Nat : n <= SubBuffer => n - 1 <= SubBuffer
        BY <1>3
      <4>2. Len(ch) \in Nat
        BY <1>3
      <4> QED
        BY <1>3, <3>1, <3>2, <4>1, <4>2, Zenon
    <3>5. fwd' \in Seq(Entries) /\ Len(fwd') <= 1
      <4>1. \A n : n = 0 \/ n = 1 => n <= 1
        OBVIOUS
      <4>2. \/ fwd' \in Seq(Entries) /\ Len(fwd') = 0
            \/ fwd' \in Seq(Entries) /\ Len(fwd') = 1
        BY <2>0, <3>1, <3>3, Zenon
      <4> QED
        BY <4>1, <4>2
    <3> QED
      BY <3>4, <3>5
  <2>2. CASE ~Receive
    <3>1. ch' = ch /\ (fwd' = fwd \/ fwd' = << >>)
      BY <2>2 DEF Forwarder, Forward, ForwarderEnds, Sender, Send, StreamEnds, ClientLeaves,
                  subVars
    <3>2. CASE fwd' = fwd
      BY <1>3, <3>1, <3>2
    <3>3. CASE fwd' = << >>
      <4>1. fwd' \in Seq(Entries) /\ Len(fwd') = 0
        BY <2>0, <3>3, Zenon
      <4> QED
        BY <1>3, <3>1, <4>1
    <3> QED
      BY <3>1, <3>2, <3>3
  <2> QED
    BY <2>1, <2>2
<1>5. /\ merged' \in Seq(Entries) /\ Len(merged') <= MergedBuffer /\ sent' \in Seq(Entries)
  <2>1. CASE Forward
    <3>1. /\ fwd # << >> /\ Len(merged) < MergedBuffer /\ sent' = sent
          /\ merged' = Append(merged, fwd[1])
      BY <2>1 DEF Forward
    <3>2. fwd[1] \in Entries
      BY <1>3, <3>1
    <3> QED
      BY <1>3, <3>1, <3>2
  <2>2. CASE Send
    <3>1. merged # << >> /\ merged' = Tail(merged) /\ sent' = Append(sent, Head(merged))
      BY <2>2 DEF Send
    <3>2. /\ Tail(merged) \in Seq(Entries) /\ Len(Tail(merged)) = Len(merged) - 1
          /\ Head(merged) \in Entries
      BY <1>3, <3>1
    <3> QED
      BY <1>3, <3>1, <3>2
  <2>3. CASE ~Forward /\ ~Send
    <3>1. merged' = merged /\ sent' = sent
      BY <2>3 DEF Forwarder, Receive, ForwarderEnds, Sender, StreamEnds, ClientLeaves
    <3> QED
      BY <1>3, <3>1
  <2> QED
    BY <2>1, <2>2, <2>3
<1> QED
  BY <1>1, <1>2, <1>4, <1>5 DEF TypeOK

-----------------------------------------------------------------------------
(* What a fan-out, and a longer log, do to the accounts.                    *)
LEMMA MarkerAccounts ==
  ASSUME NEW L, NEW n \in Nat, NEW D, NEW E, NEW P, NEW Q, NEW t \in Streams,
         Accounted(L, n, D, P),
         \A i \in 1 .. n : L[i] \in Streams,
         \A s \in Streams : s # t => E[s] = D[s],
         \A e \in P : e.seq \in Nat \ {0},
         P \subseteq Q, \A e \in Q : IsLine(e) => e \in P,
         \/ \E m \in Q : m.dropped = D[t]
         \/ \A e \in P : IsLine(e) => L[e.seq] # t
  PROVE  Accounted(L, n, E, Q)
<1> SUFFICES ASSUME NEW e \in Q, IsLine(e), NEW i \in e.seq .. n, L[i] = L[e.seq]
             PROVE  Line(i) \in Q \/ i \in E[L[i]] \/ \E m \in Q : i \in m.dropped
  BY DEF Accounted
<1>1. e \in P /\ i \in 1 .. n
  OBVIOUS
<1>2. Line(i) \in P \/ i \in D[L[i]] \/ \E m \in P : i \in m.dropped
  BY <1>1 DEF Accounted
<1>3. CASE i \in D[L[i]]
  <2>1. CASE L[i] # t
    BY <1>1, <1>3, <2>1
  <2>2. CASE L[i] = t
    BY <1>1, <1>3, <2>2
  <2> QED
    BY <2>1, <2>2
<1> QED
  BY <1>2, <1>3

LEMMA LineAccounts ==
  ASSUME NEW L, NEW n \in Nat, NEW k, k = n + 1, NEW D, NEW E, NEW P, NEW Q,
         Accounted(L, n, D, P),
         \A i \in 1 .. k : L[i] \in Streams,
         \A s \in Streams : D[s] \subseteq E[s],
         \A e \in P : e.seq \in Nat \ {0},
         P \subseteq Q, \A e \in Q : e \in P \/ e = Line(k),
         \/ Line(k) \in Q \/ k \in E[L[k]]
         \/ \A e \in P : IsLine(e) => L[e.seq] # L[k]
  PROVE  Accounted(L, k, E, Q)
<1> SUFFICES ASSUME NEW e \in Q, IsLine(e), NEW i \in e.seq .. k, L[i] = L[e.seq]
             PROVE  Line(i) \in Q \/ i \in E[L[i]] \/ \E m \in Q : i \in m.dropped
  BY DEF Accounted
<1>1. CASE e \in P
  <2>1. i \in 1 .. k
    BY <1>1
  <2>2. CASE i = k
    BY <1>1, <2>2
  <2>3. CASE i # k
    <3>1. i \in e.seq .. n
      BY <1>1, <2>1, <2>3
    <3>2. Line(i) \in P \/ i \in D[L[i]] \/ \E m \in P : i \in m.dropped
      BY <1>1, <3>1 DEF Accounted
    <3> QED
      BY <2>1, <3>2
  <2> QED
    BY <2>2, <2>3
<1>2. CASE e = Line(k)
  <2>1. i = k
    BY <1>2, LineFacts
  <2> QED
    BY <1>2, <2>1
<1> QED
  BY <1>1, <1>2

LEMMA SameStreams ==
  ASSUME NEW L, NEW M, NEW n \in Nat, \A i \in 1 .. n : M[i] = L[i]
  PROVE  /\ \A s : (\A e \in Elements(s) : e.seq \in 1 .. n) /\ InOrder(L, s) => InOrder(M, s)
         /\ \A A, B : (\A e \in A \cup B : e.seq \in 1 .. n) /\ Ahead(L, A, B) => Ahead(M, A, B)
         /\ \A D, P : \A k \in 0 .. n :
              (\A e \in P : e.seq \in 1 .. n) /\ Accounted(L, k, D, P) => Accounted(M, k, D, P)
<1>1. ASSUME NEW s, \A e \in Elements(s) : e.seq \in 1 .. n, InOrder(L, s)
      PROVE  InOrder(M, s)
  <2>1. \A i \in DOMAIN s : M[s[i].seq] = L[s[i].seq]
    BY <1>1 DEF Elements
  <2> QED
    BY <1>1, <2>1 DEF InOrder
<1>2. ASSUME NEW A, NEW B, \A e \in A \cup B : e.seq \in 1 .. n, Ahead(L, A, B)
      PROVE  Ahead(M, A, B)
  BY <1>2 DEF Ahead
<1>3. ASSUME NEW D, NEW P, NEW k \in 0 .. n, \A e \in P : e.seq \in 1 .. n,
             Accounted(L, k, D, P)
      PROVE  Accounted(M, k, D, P)
  <2> SUFFICES ASSUME NEW e \in P, IsLine(e), NEW i \in e.seq .. k, M[i] = M[e.seq]
               PROVE  Line(i) \in P \/ i \in D[M[i]] \/ \E m \in P : i \in m.dropped
    BY DEF Accounted
  <2>1. i \in 1 .. n /\ e.seq \in 1 .. n
    BY <1>3
  <2>2. M[i] = L[i] /\ M[e.seq] = L[e.seq]
    BY <2>1
  <2> QED
    BY <1>3, <2>2 DEF Accounted
<1> QED
  BY <1>1, <1>2, <1>3

LEMMA PipeFacts ==
  ASSUME LInv
  PROVE  /\ TypeOK /\ Newest \in Nat /\ Newest <= MaxLines /\ FannedOut \in 0 .. Newest
         /\ FannedOut = (IF pump = "idle" THEN Newest ELSE Newest - 1)
         /\ \A i \in 1 .. Newest : log[i] \in Streams
         /\ \A e \in Pipe \cup Queued :
              /\ e.seq \in 1 .. Newest /\ (IsLine(e) => e.seq <= FannedOut)
              /\ e.dropped \in SUBSET Nat
         /\ \A i \in back : i \in 1 .. FannedOut /\ i \in Nat
         /\ maxSeq \in 0 .. FannedOut
         /\ Pipe = Elements(sent) \cup Onward \cup {Line(i) : i \in back} \cup Live
<1>1. TypeOK /\ Bounded
  BY DEF LInv
<1>2. FannedOut = (IF pump = "idle" THEN Newest ELSE Newest - 1)
  BY DEF FannedOut
<1>3. Newest \in Nat /\ Newest <= MaxLines /\ FannedOut \in 0 .. Newest
  BY <1>1, <1>2, QueueFacts DEF Bounded
<1>4. maxSeq \in 0 .. FannedOut
  <2>1. maxSeq \in Nat /\ maxSeq <= FannedOut
    BY <1>1, LogBusAssumption DEF TypeOK, Bounded
  <2> QED
    BY <1>3, <2>1
<1>5. \A i \in back : i \in 1 .. FannedOut /\ i \in Nat
  <2>1. \A i \in back : i \in Nat /\ i >= 1 /\ i <= maxSeq
    BY <1>1, LogBusAssumption DEF TypeOK, Bounded
  <2> QED
    BY <1>3, <1>4, <2>1
<1>6. Pipe = Elements(sent) \cup Onward \cup {Line(i) : i \in back} \cup Live
  BY DEF Pipe, Onward, Live
<1>7. ASSUME NEW e \in Queued
      PROVE  /\ e.seq \in 1 .. Newest /\ (IsLine(e) => e.seq <= FannedOut)
             /\ e.dropped \in SUBSET Nat
  <2>1. e \in Entries
    BY <1>1, QueueFacts DEF Queued, Onward
  <2>2. e.seq \in 1 .. MaxLines /\ e.dropped \in SUBSET (1 .. MaxLines)
    BY <1>1, <2>1, QueueFacts
  <2>3. e.seq <= Newest /\ (IsLine(e) => e.seq <= FannedOut)
    BY <1>1, <1>7 DEF Bounded
  <2> QED
    BY <1>3, <2>2, <2>3
<1>8. \A e \in Pipe : e \in Queued \/ \E i \in back : e = Line(i)
  BY <1>6 DEF Queued, Live
<1>9. ASSUME NEW i \in back
      PROVE  /\ Line(i).seq \in 1 .. Newest /\ Line(i).seq <= FannedOut
             /\ Line(i).dropped \in SUBSET Nat
  BY <1>3, <1>5, LineFacts
<1>10. \A i \in 1 .. Newest : log[i] \in Streams
  BY <1>1, QueueFacts
<1> QED
  BY <1>1, <1>2, <1>3, <1>4, <1>5, <1>6, <1>7, <1>8, <1>9, <1>10

-----------------------------------------------------------------------------
(* The pumps.                                                               *)
LEMMA AppendLineKeeps ==
  ASSUME LInv, CInv', NEW s \in Streams, AppendLine(s)
  PROVE  LInv'
<1>0. TypeOK'
  BY PumpTyped
<1>1. /\ pump = "idle" /\ log' = Append(log, s)
      /\ pump' = IF ~subscribed THEN "idle" ELSE IF pending[s] # {} THEN "marker" ELSE "line"
      /\ UNCHANGED <<subscribed, ch, pending, req, spc, back, maxSeq, fwd, merged, sent>>
  BY DEF AppendLine, Unlocked, subVars, streamVars
<1>2. /\ Newest \in Nat /\ Newest' = Newest + 1 /\ log'[Newest'] = s
      /\ \A i \in 1 .. Newest : log'[i] = log[i]
  <2>1. log \in Seq(Streams)
    BY DEF LInv, TypeOK
  <2> QED
    BY <1>1, <2>1 DEF Newest
<1>3. /\ FannedOut = Newest
      /\ FannedOut' = (IF pump' = "idle" THEN Newest + 1 ELSE Newest)
      /\ subscribed => FannedOut' = Newest
  BY <1>1, <1>2 DEF FannedOut
<1>4. /\ UNCHANGED <<Elements(ch), Elements(sent), Elements(merged), Elements(fwd)>>
      /\ UNCHANGED <<Onward, Queued>>
  BY <1>1 DEF Elements, Onward, Queued
<1>5. \A e \in Pipe \cup Queued : Wanted(e)' = Wanted(e) /\ Fresh(e)' = Fresh(e)
  BY <1>1, <1>2, PipeFacts DEF Wanted, Fresh
<1>6. Live' = Live /\ Pipe' = Pipe
  <2>1. Live' = Live
    BY <1>4, <1>5 DEF Live, Queued
  <2> QED
    BY <1>1, <1>4, <2>1 DEF Pipe, Live
<1>7. Bounded'
  <2>1. pump' # "idle" => Newest' >= 1
    BY <1>2
  <2>2. (pump = "marker" => pending[log[Newest]] # {})'
    BY <1>1, <1>2
  <2>3. FannedOut <= FannedOut' /\ Newest <= Newest' /\ FannedOut' \in Nat
    BY <1>2, <1>3
  <2>4. maxSeq' <= FannedOut' /\ \A i \in back' : i <= maxSeq'
    BY <1>1, <2>3, PipeFacts DEF LInv, Bounded
  <2>5. (\A e \in Queued : e.seq <= Newest /\ (IsLine(e) => e.seq <= FannedOut))'
    BY <1>2, <1>3, <1>4, <2>3, PipeFacts DEF IsLine
  <2>6. (\A t \in Streams : \A i \in pending[t] : i <= FannedOut /\ log[i] = t)'
    <3> SUFFICES ASSUME NEW t \in Streams, NEW i \in pending[t]
                 PROVE  i <= FannedOut' /\ log'[i] = t
      BY <1>1
    <3>1. i \in Nat \ {0} /\ i <= FannedOut /\ log[i] = t
      BY DEF LInv, TypeOK, Bounded
    <3> QED
      BY <1>2, <1>3, <2>3, <3>1
  <2>7. (\A e \in Elements(ch) :
           \A i \in e.dropped : i <= FannedOut /\ log[i] = log[e.seq])'
    <3> SUFFICES ASSUME NEW e \in Elements(ch), NEW i \in e.dropped
                 PROVE  i <= FannedOut' /\ log'[i] = log'[e.seq]
      BY <1>4
    <3>1. i <= FannedOut /\ log[i] = log[e.seq]
      BY DEF LInv, Bounded
    <3>2. e.seq \in 1 .. Newest /\ i \in Nat \ {0}
      <4>1. e \in Entries
        BY QueueFacts DEF LInv
      <4>2. e.dropped \in SUBSET (1 .. MaxLines)
        BY <4>1, QueueFacts DEF LInv
      <4>3. e.seq \in 1 .. Newest
        BY PipeFacts DEF Queued
      <4> QED
        BY <4>2, <4>3
    <3> QED
      BY <1>2, <1>3, <2>3, <3>1, <3>2
  <2> QED
    BY <2>1, <2>2, <2>4, <2>5, <2>6, <2>7 DEF Bounded
<1>8. Staged'
  BY <1>1 DEF LInv, Staged
<1>9. Ordered'
  <2>1. \A e \in Queued : e.seq \in 1 .. Newest
    BY PipeFacts
  <2>2. /\ InOrder(log', ch) /\ InOrder(log', merged) /\ InOrder(log', sent)
    <3>1. \A e \in Elements(ch) \cup Elements(merged) \cup Elements(sent) : e.seq \in 1 .. Newest
      BY <2>1 DEF Queued, Onward
    <3>2. InOrder(log, ch) /\ InOrder(log, merged) /\ InOrder(log, sent)
      BY DEF LInv, Ordered
    <3> QED
      BY <1>2, <3>1, <3>2, SameStreams
  <2>3. /\ Ahead(log', Elements(sent), Onward)
        /\ Ahead(log', Elements(merged), Elements(fwd))
        /\ spc = "follow" => Ahead(log', Elements(sent) \cup Onward, Live)
    <3>1. \A e \in Elements(sent) \cup Onward \cup Elements(merged) \cup Elements(fwd) \cup Live :
            e.seq \in 1 .. Newest
      BY <2>1 DEF Queued, Onward, Live
    <3>2. /\ Ahead(log, Elements(sent), Onward)
          /\ Ahead(log, Elements(merged), Elements(fwd))
          /\ spc = "follow" => Ahead(log, Elements(sent) \cup Onward, Live)
      BY DEF LInv, Ordered
    <3> QED
      BY <1>2, <3>1, <3>2, SameStreams
  <2>4. ASSUME spc = "backlog", NEW x \in Elements(sent), IsLine(x)
        PROVE  x.seq <= maxSeq /\ \A i \in back : log'[x.seq] = log'[i] => x.seq < i
    <3>1. x.seq <= maxSeq /\ \A i \in back : log[x.seq] = log[i] => x.seq < i
      BY <2>4 DEF LInv, Ordered
    <3>2. x.seq \in 1 .. Newest /\ \A i \in back : i \in 1 .. Newest
      BY <1>3, PipeFacts DEF Queued
    <3> QED
      BY <1>2, <3>1, <3>2
  <2> QED
    BY <1>1, <1>4, <1>6, <2>2, <2>3, <2>4 DEF Ordered
<1>10. Complete'
  <2>1. ASSUME NEW P, P \subseteq Pipe \cup Queued, subscribed,
               Accounted(log, FannedOut, pending, P)
        PROVE  Accounted(log', FannedOut', pending, P)
    <3>1. \A e \in P : e.seq \in 1 .. Newest
      BY <2>1, PipeFacts
    <3>2. FannedOut' = FannedOut /\ FannedOut \in 0 .. Newest
      BY <1>2, <1>3, <2>1
    <3> QED
      BY <1>2, <2>1, <3>1, <3>2, SameStreams
  <2>2. Elements(ch) \subseteq Queued
    BY DEF Queued
  <2> QED
    BY <1>1, <1>4, <1>6, <2>1, <2>2 DEF LInv, Complete
<1>11. Chosen'
  BY <1>5, <1>6 DEF LInv, Chosen
<1> QED
  BY <1>0, <1>7, <1>8, <1>9, <1>10, <1>11 DEF LInv

(* An entry is put into the channel.                                        *)
LEMMA ChannelFills ==
  ASSUME LInv, pump # "idle", NEW x \in Entries, x.seq = Newest, ch' = Append(ch, x),
         UNCHANGED <<log, spc, req, back, maxSeq, fwd, merged, sent>>
  PROVE  /\ Elements(ch)' = Elements(ch) \cup {x} /\ Queued' = Queued \cup {x}
         /\ Pipe' = Pipe \cup (IF Fresh(x) THEN {x} ELSE {})
         /\ Staged' /\ Ordered' /\ Chosen'
<1>1. /\ ch \in Seq(Entries) /\ Newest \in Nat \ {0} /\ FannedOut = Newest - 1
      /\ spc # "start"
  BY PipeFacts DEF LInv, TypeOK, Bounded, CInv, Closers, FanoutHolds
<1>2. Elements(ch)' = Elements(ch) \cup {x}
  BY <1>1, AppendElements
<1>3. /\ UNCHANGED <<Elements(sent), Elements(merged), Elements(fwd), Onward>>
      /\ \A e : Fresh(e)' = Fresh(e) /\ Wanted(e)' = Wanted(e)
  BY DEF Elements, Onward, Fresh, Wanted
<1>4. Live' = Live \cup (IF Fresh(x) THEN {x} ELSE {})
  BY <1>2, <1>3 DEF Live
<1>5. Pipe' = Pipe \cup (IF Fresh(x) THEN {x} ELSE {})
  BY <1>3, <1>4 DEF Pipe, Live
<1>6. Queued' = Queued \cup {x}
  BY <1>2, <1>3 DEF Queued
<1>7. \A e \in Queued : IsLine(e) => e.seq < x.seq
  BY <1>1, PipeFacts
<1>8. Ordered'
  <2>1. InOrder(log, ch)'
    <3>1. InOrder(log, ch) /\ Ahead(log, Elements(ch), {x})
      BY <1>7 DEF LInv, Ordered, Ahead, Queued
    <3>2. InOrder(log, Append(ch, x))
      BY <1>1, <3>1, AppendFacts
    <3> QED
      BY <3>2
  <2>2. spc = "follow" => Ahead(log, Elements(sent) \cup Onward, Live')
    BY <1>4, <1>7 DEF LInv, Ordered, Ahead, Queued
  <2> QED
    BY <1>3, <2>1, <2>2 DEF LInv, Ordered
<1>9. Staged'
  BY <1>1 DEF LInv, Staged
<1>10. Chosen'
  BY <1>3, <1>5 DEF LInv, Chosen, Fresh
<1> QED
  BY <1>2, <1>5, <1>6, <1>8, <1>9, <1>10

(* What is not wanted has no line of its stream on the way.                 *)
LEMMA Unwanted ==
  ASSUME LInv, NEW x, x.seq \in 1 .. Newest, ~ Wanted(x)
  PROVE  \A e \in Pipe : log[e.seq] # log[x.seq]
BY DEF LInv, Chosen, Wanted

LEMMA FanoutMarkerKeeps ==
  ASSUME LInv, CInv', FanoutMarker
  PROVE  LInv'
<1>0. TypeOK'
  BY PumpTyped DEF Pump
<1> DEFINE t == log[Newest]
           x == Marker(Newest, pending[t])
<1>1. /\ pump = "marker" /\ pump' = "line"
      /\ UNCHANGED <<log, subscribed, req, spc, back, maxSeq, fwd, merged, sent>>
  BY DEF FanoutMarker, routeVars, streamVars
<1>2. /\ Newest \in Nat \ {0} /\ FannedOut = Newest - 1 /\ Newest' = Newest
      /\ FannedOut' = FannedOut /\ t \in Streams
  BY <1>1, PipeFacts DEF LInv, Bounded, Newest, FannedOut
<1>3. CASE Full
  <2>1. UNCHANGED <<ch, pending>>
    BY <1>3 DEF FanoutMarker
  <2>2. /\ UNCHANGED <<Elements(ch), Elements(sent), Elements(merged), Elements(fwd)>>
        /\ UNCHANGED <<Onward, Queued, Pipe, Live>>
    BY <1>1, <2>1 DEF Elements, Onward, Queued, Pipe, Live, Fresh, Wanted
  <2>3. Bounded'
    BY <1>1, <1>2, <2>1, <2>2 DEF LInv, Bounded
  <2>4. Staged' /\ Ordered'
    BY <1>1, <2>1, <2>2 DEF LInv, Staged, Ordered
  <2>5. Complete' /\ Chosen'
    BY <1>1, <1>2, <2>1, <2>2 DEF LInv, Complete, Chosen, Wanted
  <2> QED
    BY <1>0, <2>3, <2>4, <2>5 DEF LInv
<1>4. CASE ~Full
  <2>1. ch' = Append(ch, x) /\ pending' = [pending EXCEPT ![t] = {}]
    BY <1>4 DEF FanoutMarker
  <2>2. /\ pending \in [Streams -> SUBSET (1 .. MaxLines)] /\ pending[t] # {}
        /\ \A i \in pending[t] : i <= FannedOut /\ log[i] = t
    BY <1>1, <1>2 DEF LInv, TypeOK, Bounded
  <2>3. x \in Entries /\ x.seq = Newest /\ x.dropped = pending[t] /\ ~ IsLine(x)
    BY <1>2, <2>2, PipeFacts DEF Entries, Marker, IsLine
  <2>4. \A s \in Streams : pending'[s] = IF s = t THEN {} ELSE pending[s]
    BY <2>1, <2>2
  <2> HIDE DEF x, t
  <2>5. /\ Elements(ch)' = Elements(ch) \cup {x} /\ Queued' = Queued \cup {x}
        /\ Pipe' = Pipe \cup (IF Fresh(x) THEN {x} ELSE {})
        /\ Staged' /\ Ordered' /\ Chosen'
    BY <1>1, <2>1, <2>3, ChannelFills
  <2>6. Bounded'
    <3>1. maxSeq' <= FannedOut' /\ \A i \in back' : i <= maxSeq'
      BY <1>1, <1>2 DEF LInv, Bounded
    <3>2. (\A e \in Queued : e.seq <= Newest /\ (IsLine(e) => e.seq <= FannedOut))'
      BY <1>2, <2>3, <2>5, PipeFacts
    <3>3. (\A s \in Streams : \A i \in pending[s] : i <= FannedOut /\ log[i] = s)'
      BY <1>1, <1>2, <2>4 DEF LInv, Bounded
    <3>4. (\A e \in Elements(ch) :
             \A i \in e.dropped : i <= FannedOut /\ log[i] = log[e.seq])'
      BY <1>1, <1>2, <2>2, <2>3, <2>5 DEF LInv, Bounded, t
    <3> QED
      BY <1>1, <1>2, <3>1, <3>2, <3>3, <3>4 DEF Bounded
  <2>7. ASSUME NEW P, P \subseteq Pipe \cup Queued, NEW Q,
               Accounted(log, FannedOut, pending, P),
               \/ Q = P \cup {x}
               \/ Q = P /\ \A e \in P : IsLine(e) => log[e.seq] # t
        PROVE  Accounted(log, FannedOut, pending', Q)
    <3>1. /\ \A i \in 1 .. FannedOut : log[i] \in Streams
          /\ \A e \in P : e.seq \in Nat \ {0}
      BY <1>2, <2>7, PipeFacts
    <3>2. /\ P \subseteq Q /\ \A e \in Q : IsLine(e) => e \in P
          /\ \/ \E m \in Q : m.dropped = pending[t]
             \/ \A e \in P : IsLine(e) => log[e.seq] # t
      BY <2>3, <2>7
    <3>3. FannedOut \in Nat
      BY <1>2
    <3>5. Accounted(log, FannedOut, pending, P)
      BY <2>7
    <3>4. \A s \in Streams : s # t => pending'[s] = pending[s]
      BY <2>4
    <3>6. t \in Streams
      BY <1>2
    <3> QED
      BY <3>1, <3>2, <3>3, <3>4, <3>5, <3>6, MarkerAccounts, ZenonT(40)
  <2>8. Complete'
    <3>1. CASE spc = "subscribed" /\ subscribed
      <4>1. Accounted(log, FannedOut, pending, Elements(ch)) /\ Elements(ch) \subseteq Queued
        BY <3>1 DEF LInv, Complete, Queued
      <4>2. Accounted(log, FannedOut, pending', Elements(ch)')
        BY <2>5, <2>7, <4>1
      <4> QED
        BY <1>1, <1>2, <3>1, <4>2 DEF Complete
    <3>2. CASE spc \in {"backlog", "follow"} /\ subscribed
      <4>1. Accounted(log, FannedOut, pending, Pipe)
        BY <3>2 DEF LInv, Complete
      <4>2. Fresh(x) \/ \A e \in Pipe : log[e.seq] # t
        <5>1. Fresh(x) \/ ~ Wanted(x)
          BY <2>3 DEF Fresh, IsLine
        <5>2. ~ Wanted(x) => \A e \in Pipe : log[e.seq] # log[x.seq]
          BY <1>2, <2>3, Unwanted
        <5> QED
          BY <2>3, <5>1, <5>2 DEF t
      <4>3. Accounted(log, FannedOut, pending', Pipe')
        BY <2>5, <2>7, <4>1, <4>2
      <4> QED
        BY <1>1, <1>2, <3>2, <4>3 DEF Complete
    <3> QED
      BY <1>1, <3>1, <3>2 DEF Complete
  <2> QED
    BY <1>0, <2>5, <2>6, <2>8 DEF LInv
<1> QED
  BY <1>3, <1>4

LEMMA FanoutLineKeeps ==
  ASSUME LInv, CInv', FanoutLine
  PROVE  LInv'
<1>0. TypeOK'
  BY PumpTyped DEF Pump
<1> DEFINE t == log[Newest]
           x == Line(Newest)
<1>1. /\ pump = "line" /\ pump' = "idle"
      /\ UNCHANGED <<log, subscribed, req, spc, back, maxSeq, fwd, merged, sent>>
  BY DEF FanoutLine, routeVars, streamVars
<1>2. /\ Newest \in Nat \ {0} /\ FannedOut = Newest - 1 /\ Newest' = Newest
      /\ FannedOut' = Newest /\ t \in Streams /\ maxSeq < Newest /\ FannedOut \in Nat
      /\ maxSeq \in Nat
  BY <1>1, PipeFacts DEF LInv, Bounded, Newest, FannedOut
<1>3. /\ pending \in [Streams -> SUBSET (1 .. MaxLines)]
      /\ x \in Entries /\ x.seq = Newest /\ x.dropped = {} /\ IsLine(x)
  BY <1>2, PipeFacts, QueueFacts, LineFacts DEF TypeOK
<1>4. \A s \in Streams : pending[s] \subseteq pending'[s]
  BY <1>2, <1>3 DEF FanoutLine
<1>5. \A s \in Streams : \A i \in pending'[s] : i \in pending[s] \/ (i = Newest /\ s = t)
  BY <1>2, <1>3 DEF FanoutLine
<1>6. \/ ch' = Append(ch, x)
      \/ ch' = ch /\ Newest \in pending'[t]
  BY <1>2, <1>3 DEF FanoutLine
<1> HIDE DEF x, t
<1>7. /\ Elements(ch)' = Elements(ch) \cup (IF ch' = ch THEN {} ELSE {x})
      /\ Queued' \subseteq Queued \cup {x}
      /\ Pipe' = Pipe \cup (IF ch' # ch /\ Fresh(x) THEN {x} ELSE {})
      /\ Staged' /\ Ordered' /\ Chosen'
  <2>1. CASE ch' = ch
    <3>1. /\ UNCHANGED <<Elements(ch), Elements(sent), Elements(merged), Elements(fwd)>>
          /\ UNCHANGED <<Onward, Queued, Pipe, Live>>
      BY <1>1, <2>1 DEF Elements, Onward, Queued, Pipe, Live, Fresh, Wanted
    <3> QED
      BY <1>1, <2>1, <3>1 DEF LInv, Staged, Ordered, Chosen, Wanted
  <2>2. CASE ch' # ch
    BY <1>1, <1>3, <1>6, <2>2, ChannelFills
  <2> QED
    BY <2>1, <2>2
<1>8. Bounded'
  <2>1. maxSeq' <= FannedOut' /\ \A i \in back' : i <= maxSeq'
    BY <1>1, <1>2 DEF LInv, Bounded
  <2>2. (\A e \in Queued : e.seq <= Newest /\ (IsLine(e) => e.seq <= FannedOut))'
    BY <1>2, <1>3, <1>7, PipeFacts
  <2>3. (\A s \in Streams : \A i \in pending[s] : i <= FannedOut /\ log[i] = s)'
    <3> SUFFICES ASSUME NEW s \in Streams, NEW i \in pending'[s]
                 PROVE  i <= Newest /\ log[i] = s
      BY <1>1, <1>2
    <3>1. CASE i \in pending[s]
      <4>1. i \in Nat /\ i <= FannedOut /\ log[i] = s
        BY <1>3, <3>1 DEF LInv, Bounded
      <4> QED
        BY <1>2, <4>1
    <3>2. CASE i = Newest /\ s = t
      BY <1>2, <3>2 DEF t
    <3> QED
      BY <1>5, <3>1, <3>2
  <2>4. (\A e \in Elements(ch) :
           \A i \in e.dropped : i <= FannedOut /\ log[i] = log[e.seq])'
    <3> SUFFICES ASSUME NEW e \in Elements(ch)', NEW i \in e.dropped
                 PROVE  i <= Newest /\ log[i] = log[e.seq]
      BY <1>1, <1>2
    <3>1. e \in Elements(ch)
      BY <1>3, <1>7
    <3>2. i <= FannedOut /\ log[i] = log[e.seq] /\ i \in Nat
      BY <3>1, PipeFacts DEF LInv, Bounded, Queued
    <3> QED
      BY <1>2, <3>2
  <2> QED
    BY <1>1, <1>2, <2>1, <2>2, <2>3, <2>4 DEF Bounded
<1>9. ASSUME NEW P, P \subseteq Pipe \cup Queued, NEW Q,
             Accounted(log, FannedOut, pending, P), P \subseteq Q, Q \subseteq P \cup {x},
             x \in Q \/ Newest \in pending'[t] \/ \A e \in P : IsLine(e) => log[e.seq] # t
      PROVE  Accounted(log, Newest, pending', Q)
  <2>1. /\ \A i \in 1 .. Newest : log[i] \in Streams
        /\ \A e \in P : e.seq \in Nat \ {0}
    BY <1>2, <1>9, PipeFacts
  <2>2. \A e \in Q : e \in P \/ e = Line(Newest)
    BY <1>9 DEF x
  <2>3. \/ Line(Newest) \in Q \/ Newest \in pending'[log[Newest]]
        \/ \A e \in P : IsLine(e) => log[e.seq] # log[Newest]
    BY <1>9 DEF x, t
  <2>4. Newest = FannedOut + 1
    BY <1>2
  <2> QED
    BY <1>2, <1>4, <1>9, <2>1, <2>2, <2>3, <2>4, LineAccounts
<1>10. Complete'
  <2>1. CASE spc = "subscribed" /\ subscribed
    <3>1. Accounted(log, FannedOut, pending, Elements(ch)) /\ Elements(ch) \subseteq Queued
      BY <2>1 DEF LInv, Complete, Queued
    <3>2. Accounted(log, Newest, pending', Elements(ch)')
      BY <1>6, <1>7, <1>9, <3>1
    <3> QED
      BY <1>1, <1>2, <2>1, <3>2 DEF Complete
  <2>2. CASE spc \in {"backlog", "follow"} /\ subscribed
    <3>1. Accounted(log, FannedOut, pending, Pipe)
      BY <2>2 DEF LInv, Complete
    <3>2. Fresh(x) \/ \A e \in Pipe : log[e.seq] # t
      <4>1. Fresh(x) \/ ~ Wanted(x)
        BY <1>2, <1>3 DEF Fresh
      <4>2. ~ Wanted(x) => \A e \in Pipe : log[e.seq] # log[x.seq]
        BY <1>2, <1>3, Unwanted
      <4> QED
        BY <1>3, <4>1, <4>2 DEF t
    <3>3. Accounted(log, Newest, pending', Pipe')
      BY <1>6, <1>7, <1>9, <3>1, <3>2
    <3> QED
      BY <1>1, <1>2, <2>2, <3>3 DEF Complete
  <2> QED
    BY <1>1, <2>1, <2>2 DEF Complete
<1> QED
  BY <1>0, <1>7, <1>8, <1>10 DEF LInv

-----------------------------------------------------------------------------
(* The client's side.                                                       *)
LEMMA SnapshotKeeps ==
  ASSUME LInv, CInv', Snapshot
  PROVE  LInv'
<1>0. TypeOK'
  BY AttachTyped
<1>1. /\ spc = "subscribed" /\ spc' = "backlog" /\ pump = "idle"
      /\ UNCHANGED <<log, pump, subscribed, ch, pending, req, fwd, merged, sent>>
      /\ \/ back' = {} /\ maxSeq' = 0
         \/ back' = Backlog /\ maxSeq' = Covered
  BY DEF Snapshot, Unlocked, routeVars, subVars, LInv, Staged
<1>2. /\ Newest \in Nat /\ FannedOut = Newest /\ UNCHANGED <<Newest, FannedOut>>
  BY <1>1, PipeFacts DEF Newest, FannedOut
<1>3. /\ sent = << >> /\ merged = << >> /\ fwd = << >> /\ Elements(<< >>) = {}
  BY <1>1, QueueFacts DEF LInv, Staged
<1>4. /\ back' \in SUBSET Ring /\ Ring \in SUBSET (1 .. Newest)
      /\ maxSeq' \in 0 .. Newest
      /\ \A i \in back' : i <= maxSeq' /\ Wanted(Line(i))
      /\ \A i \in back', j \in Ring : log[i] = log[j] /\ i <= j => j \in back'
  <2>1. CASE back' = {} /\ maxSeq' = 0
    BY <1>2, <2>1, BacklogFacts
  <2>2. CASE back' = Backlog /\ maxSeq' = Covered
    BY <2>2, BacklogFacts
  <2> QED
    BY <1>1, <2>1, <2>2
<1>5. /\ UNCHANGED Elements(ch) /\ UNCHANGED Queued
      /\ Elements(sent)' = {} /\ Elements(merged)' = {} /\ Elements(fwd)' = {} /\ Onward' = {}
      /\ \A e : Wanted(e)' = Wanted(e)
      /\ \A e : Fresh(e)' <=> (IsLine(e) => e.seq > maxSeq') /\ Wanted(e)
  BY <1>1, <1>3 DEF Elements, Queued, Onward, Wanted, Fresh, IsLine
<1>6. \A e : e \in Pipe' <=> \/ \E i \in back' : e = Line(i)
                             \/ e \in Elements(ch) /\ (IsLine(e) => e.seq > maxSeq') /\ Wanted(e)
  BY <1>5 DEF Pipe
<1>7. Bounded'
  BY <1>1, <1>2, <1>4, <1>5 DEF LInv, Bounded
<1>8. Staged'
  BY <1>1, <1>3 DEF Staged
<1>9. Ordered'
  BY <1>1, <1>3, <1>5 DEF LInv, Ordered, Ahead
<1>10. Chosen'
  BY <1>4, <1>5, <1>6 DEF Chosen
<1>11. Complete'
  <2>1. SUFFICES ASSUME subscribed PROVE Accounted(log, Newest, pending, Pipe')
    BY <1>1, <1>2 DEF Complete
  <2>2. Accounted(log, Newest, pending, Elements(ch))
    BY <1>1, <1>2, <2>1 DEF LInv, Complete
  <2>3. SUFFICES ASSUME NEW e \in Pipe', IsLine(e), NEW i \in e.seq .. Newest, log[i] = log[e.seq]
                 PROVE  Line(i) \in Pipe' \/ i \in pending[log[i]] \/ \E m \in Pipe' : i \in m.dropped
    BY DEF Accounted
  <2>4. CASE \E j \in back' : e = Line(j)
    <3>1. PICK j \in back' : e = Line(j) /\ e.seq = j
      BY <2>4, LineFacts
    <3>2. i \in Ring
      <4>1. /\ count \in Nat /\ j \in Newest - count + 1 .. Newest /\ i \in j .. Newest
            /\ Newest \in Nat
        BY <1>2, <1>4, <2>3, <3>1, LogBusAssumption DEF LInv, TypeOK, Ring
      <4> QED
        BY <4>1 DEF Ring
    <3>3. j \in Int /\ i \in Int /\ j <= i /\ log[i] = log[j]
      BY <1>2, <1>4, <2>3, <3>1
    <3>4. i \in back'
      BY <1>4, <3>1, <3>2, <3>3
    <3> QED
      BY <1>6, <3>4
  <2>5. CASE e \in Elements(ch) /\ e.seq > maxSeq' /\ Wanted(e)
    <3>1. /\ e.seq \in 1 .. Newest /\ i \in Nat /\ i >= e.seq /\ i <= Newest /\ i > maxSeq'
      BY <1>2, <1>4, <2>3, <2>5, PipeFacts DEF Queued
    <3>2. \/ Line(i) \in Elements(ch) \/ i \in pending[log[i]]
          \/ \E m \in Elements(ch) : i \in m.dropped
      BY <2>2, <2>3, <2>5 DEF Accounted
    <3>3. CASE Line(i) \in Elements(ch)
      <4>1. Wanted(Line(i))
        BY <2>3, <2>5, LineFacts DEF Wanted
      <4> QED
        BY <1>6, <3>1, <3>3, <4>1, LineFacts
    <3>4. ASSUME NEW m \in Elements(ch), i \in m.dropped PROVE m \in Pipe'
      <4>1. log[i] = log[m.seq] /\ ~ IsLine(m)
        BY <3>4 DEF LInv, Bounded, IsLine
      <4>2. Wanted(m)
        BY <2>3, <2>5, <4>1 DEF Wanted
      <4> QED
        BY <1>6, <4>1, <4>2
    <3> QED
      BY <3>2, <3>3, <3>4
  <2> QED
    BY <1>6, <2>3, <2>4, <2>5
<1> QED
  BY <1>0, <1>7, <1>8, <1>9, <1>10, <1>11 DEF LInv

LEMMA SendBacklogKeeps ==
  ASSUME LInv, CInv', SendBacklog
  PROVE  LInv'
<1>0. TypeOK'
  BY AttachTyped
<1>1. /\ spc = "backlog"
      /\ UNCHANGED <<log, pump, subscribed, ch, pending, req, spc, maxSeq, fwd, merged>>
  BY DEF SendBacklog, routeVars, subVars
<1>2. PICK i \in back : /\ sent' = Append(sent, Line(i)) /\ back' = back \ {i}
                        /\ \A j \in back : log[j] = log[i] => i <= j
  BY NextLine DEF SendBacklog
<1>3. /\ sent \in Seq(Entries) /\ Line(i) \in Entries /\ i \in Nat /\ \A j \in back : j \in Nat
      /\ UNCHANGED <<Newest, FannedOut>> /\ FannedOut \in Nat /\ maxSeq \in Nat
      /\ i <= maxSeq /\ i <= FannedOut /\ i <= Newest /\ Newest \in Nat
  <2>1. \A j \in back : j \in 1 .. MaxLines /\ j \in 1 .. FannedOut /\ j <= maxSeq
    BY PipeFacts DEF LInv, TypeOK, Bounded
  <2>2. sent \in Seq(Entries) /\ Line(i) \in Entries
    BY <2>1, QueueFacts DEF LInv, TypeOK
  <2> QED
    BY <1>1, <2>1, <2>2, PipeFacts DEF Newest, FannedOut
<1>4. /\ Elements(sent)' = Elements(sent) \cup {Line(i)}
      /\ UNCHANGED <<Elements(ch), Elements(merged), Elements(fwd), Onward>>
      /\ \A e : Fresh(e)' = Fresh(e) /\ Wanted(e)' = Wanted(e)
  <2>1. Elements(Append(sent, Line(i))) = Elements(sent) \cup {Line(i)}
    BY <1>3, AppendElements
  <2>2. Elements(sent)' = Elements(sent) \cup {Line(i)}
    BY <1>2, <2>1, Zenon DEF Elements
  <2> QED
    BY <1>1, <2>2 DEF Elements, Onward, Fresh, Wanted
<1>5. Pipe' = Pipe /\ Queued' = Queued \cup {Line(i)}
  BY <1>2, <1>4 DEF Pipe, Queued
<1>6. Bounded'
  <2>1. (\A e \in Queued : e.seq <= Newest /\ (IsLine(e) => e.seq <= FannedOut))'
    BY <1>3, <1>5, LineFacts DEF LInv, Bounded
  <2> QED
    BY <1>1, <1>2, <1>3, <1>4, <2>1 DEF LInv, Bounded
<1>7. Staged'
  BY <1>1 DEF LInv, Staged
<1>8. Ordered'
  <2>1. Onward = {}
    BY <1>1, QueueFacts DEF LInv, Staged, Onward
  <2>2. InOrder(log, sent)'
    <3>1. InOrder(log, sent) /\ Ahead(log, Elements(sent), {Line(i)})
      BY <1>1, LineFacts DEF LInv, Ordered, Ahead
    <3> QED
      BY <1>1, <1>2, <1>3, <3>1, AppendFacts
  <2>3. (\A x \in Elements(sent) : IsLine(x) =>
           x.seq <= maxSeq /\ \A j \in back : log[x.seq] = log[j] => x.seq < j)'
    <3>1. \A x \in Elements(sent) : IsLine(x) =>
            x.seq <= maxSeq /\ \A j \in back : log[x.seq] = log[j] => x.seq < j
      BY <1>1 DEF LInv, Ordered
    <3>2. \A j \in back' : j \in back /\ j # i
      BY <1>2
    <3>3. \A j \in back' : log[i] = log[j] => i < j
      BY <1>2, <1>3, <3>2
    <3> QED
      BY <1>1, <1>3, <1>4, <3>1, <3>2, <3>3, LineFacts
  <2>4. (InOrder(log, ch) /\ InOrder(log, merged))'
    BY <1>1 DEF LInv, Ordered
  <2> QED
    BY <1>1, <1>4, <2>1, <2>2, <2>3, <2>4 DEF LInv, Ordered, Ahead
<1>9. Complete'
  BY <1>1, <1>3, <1>5 DEF LInv, Complete
<1>10. Chosen'
  BY <1>4, <1>5 DEF LInv, Chosen
<1> QED
  BY <1>0, <1>6, <1>7, <1>8, <1>9, <1>10 DEF LInv

LEMMA ReceiveKeeps ==
  ASSUME LInv, CInv', Receive
  PROVE  LInv'
<1>0. TypeOK'
  BY FollowTyped DEF Forwarder
<1> DEFINE x == Head(ch)
<1>1. /\ spc = "follow" /\ fwd = << >> /\ ch # << >> /\ ch' = Tail(ch)
      /\ fwd' = IF Fresh(x) THEN <<x>> ELSE << >>
      /\ UNCHANGED <<log, pump, subscribed, pending, req, spc, back, maxSeq, merged, sent>>
  BY DEF Receive, routeVars
<1>2. /\ ch \in Seq(Entries) /\ Elements(ch) = {x} \cup Elements(ch)'
      /\ InOrder(log, ch) /\ InOrder(log, ch') /\ Ahead(log, {x}, Elements(ch)')
      /\ UNCHANGED <<Newest, FannedOut>>
  <2>1. ch \in Seq(Entries) /\ InOrder(log, ch)
    BY DEF LInv, TypeOK, Ordered
  <2> QED
    BY <1>1, <2>1, TailFacts DEF Newest, FannedOut
<1>3. /\ Elements(fwd) = {} /\ Elements(fwd)' = (IF Fresh(x) THEN {x} ELSE {})
      /\ UNCHANGED <<Elements(sent), Elements(merged)>>
      /\ \A e : Fresh(e)' = Fresh(e) /\ Wanted(e)' = Wanted(e)
  <2>1. Elements(<< >>) = {} /\ Elements(<<x>>) = {x}
    BY DEF Elements
  <2>2. Elements(fwd') = (IF Fresh(x) THEN {x} ELSE {}) /\ Elements(fwd) = {}
    BY <1>1, <2>1, Zenon
  <2> QED
    BY <1>1, <2>2 DEF Elements, Fresh, Wanted
<1> HIDE DEF x
<1>4. /\ Onward' = Onward \cup (IF Fresh(x) THEN {x} ELSE {})
      /\ Live = Live' \cup (IF Fresh(x) THEN {x} ELSE {})
      /\ Live' \subseteq Elements(ch)' /\ Live' \subseteq Live
  BY <1>2, <1>3 DEF Onward, Live
<1>5. Pipe' = Pipe /\ Queued' \subseteq Queued
  <2>1. Pipe = Elements(sent) \cup Onward \cup {Line(i) : i \in back} \cup Live
    BY DEF Pipe, Onward, Live
  <2>2. Pipe' = Elements(sent) \cup Onward' \cup {Line(i) : i \in back} \cup Live'
    BY <1>1, <1>3 DEF Pipe, Onward, Live
  <2> QED
    BY <1>2, <1>3, <1>4, <2>1, <2>2 DEF Queued
<1>6. Bounded'
  BY <1>1, <1>2, <1>5 DEF LInv, Bounded
<1>7. Staged'
  BY <1>1 DEF LInv, Staged
<1>8. Ordered'
  <2>1. /\ Ahead(log, Elements(sent) \cup Onward, Live) /\ Ahead(log, Elements(sent), Onward)
        /\ InOrder(log, merged) /\ InOrder(log, sent) /\ Elements(merged) \subseteq Onward
    BY <1>1 DEF LInv, Ordered, Onward
  <2>2. Ahead(log, Elements(sent), Onward')
    BY <1>4, <2>1 DEF Ahead
  <2>3. Ahead(log, Elements(merged), Elements(fwd)')
    BY <1>3, <1>4, <2>1 DEF Ahead
  <2>4. Ahead(log, Elements(sent) \cup Onward', Live')
    BY <1>2, <1>4, <2>1 DEF Ahead
  <2> QED
    BY <1>1, <1>2, <1>3, <2>1, <2>2, <2>3, <2>4 DEF Ordered
<1>9. Complete'
  BY <1>1, <1>2, <1>5 DEF LInv, Complete
<1>10. Chosen'
  BY <1>3, <1>5 DEF LInv, Chosen
<1> QED
  BY <1>0, <1>6, <1>7, <1>8, <1>9, <1>10 DEF LInv

(* An entry goes on: from the forwarder to the merged channel, and from     *)
(* there to the client.                                                     *)
LEMMA OnwardKeeps ==
  ASSUME LInv, CInv', Forward \/ Send
  PROVE  LInv'
<1>0. TypeOK'
  BY FollowTyped DEF Forwarder, Sender
<1>1. /\ spc = "follow"
      /\ UNCHANGED <<log, pump, subscribed, ch, pending, req, spc, back, maxSeq>>
      /\ UNCHANGED <<Newest, FannedOut>>
  BY DEF Forward, Send, routeVars, subVars, Newest, FannedOut
<1>2. /\ merged \in Seq(Entries) /\ sent \in Seq(Entries) /\ fwd \in Seq(Entries)
      /\ Len(fwd) <= 1
      /\ InOrder(log, merged) /\ InOrder(log, sent) /\ InOrder(log, ch)
      /\ Ahead(log, Elements(sent), Onward) /\ Ahead(log, Elements(merged), Elements(fwd))
      /\ Ahead(log, Elements(sent) \cup Onward, Live)
  BY <1>1 DEF LInv, TypeOK, Ordered
<1>3. /\ Onward' \subseteq Onward /\ Elements(sent)' \cup Onward' = Elements(sent) \cup Onward
      /\ InOrder(log, merged') /\ InOrder(log, sent')
      /\ Ahead(log, Elements(sent)', Onward')
      /\ Ahead(log, Elements(merged)', Elements(fwd)')
  <2>1. CASE Forward
    <3> DEFINE x == fwd[1]
    <3>1. fwd # << >> /\ merged' = Append(merged, x) /\ fwd' = << >> /\ sent' = sent
      BY <2>1 DEF Forward
    <3>2. x \in Entries /\ Elements(fwd) = {x}
      <4>1. fwd # << >> /\ fwd \in Seq(Entries) /\ Len(fwd) <= 1
        BY <1>2, <3>1, Zenon
      <4> QED
        BY <4>1, OneElement
    <3>3. Elements(fwd)' = {} /\ Elements(sent)' = Elements(sent)
      BY <3>1, QueueFacts DEF LInv, Elements
    <3> HIDE DEF x
    <3>4. Elements(merged)' = Elements(merged) \cup {x} /\ InOrder(log, merged')
      <4>1. merged \in Seq(Entries) /\ InOrder(log, merged) /\ Ahead(log, Elements(merged), {x})
        BY <1>2, <3>2
      <4>2. /\ Elements(Append(merged, x)) = Elements(merged) \cup {x}
            /\ InOrder(log, Append(merged, x))
        BY <3>2, <4>1, AppendFacts, SMTT(30)
      <4> QED
        BY <3>1, <4>2, Zenon
    <3>5. Onward' = Onward
      BY <3>2, <3>3, <3>4 DEF Onward
    <3> QED
      BY <1>2, <3>1, <3>3, <3>4, <3>5 DEF Ahead
  <2>2. CASE Send
    <3> DEFINE x == Head(merged)
    <3>1. merged # << >> /\ merged' = Tail(merged) /\ fwd' = fwd /\ sent' = Append(sent, x)
      BY <2>2 DEF Send
    <3>2. /\ x \in Entries /\ Elements(merged) = {x} \cup Elements(merged)'
          /\ InOrder(log, merged') /\ Ahead(log, {x}, Elements(merged)')
      BY <1>2, <3>1, TailFacts
    <3>3. Elements(fwd)' = Elements(fwd)
      BY <3>1 DEF Elements
    <3> HIDE DEF x
    <3>4. Ahead(log, Elements(sent), {x})
      BY <1>2, <3>2 DEF Ahead, Onward
    <3>5. Elements(sent)' = Elements(sent) \cup {x} /\ InOrder(log, sent')
      <4>1. sent \in Seq(Entries) /\ InOrder(log, sent)
        BY <1>2
      <4>2. /\ Elements(Append(sent, x)) = Elements(sent) \cup {x}
            /\ InOrder(log, Append(sent, x))
        BY <3>2, <3>4, <4>1, AppendFacts
      <4> QED
        BY <3>1, <4>2, Zenon
    <3>6. Onward' \subseteq Onward /\ Onward = Onward' \cup {x}
      BY <3>2, <3>3 DEF Onward
    <3>7. Ahead(log, {x}, Onward')
      BY <1>2, <3>2, <3>3 DEF Ahead, Onward
    <3>8. Ahead(log, Elements(sent)', Onward')
      BY <1>2, <3>5, <3>6, <3>7 DEF Ahead
    <3>9. Ahead(log, Elements(merged)', Elements(fwd)')
      BY <1>2, <3>2, <3>3 DEF Ahead
    <3> QED
      BY <1>2, <3>1, <3>2, <3>5, <3>6, <3>8, <3>9
  <2> QED
    BY <2>1, <2>2
<1>4. /\ UNCHANGED <<Elements(ch), Live>> /\ \A e : Wanted(e)' = Wanted(e)
      /\ Pipe' = Pipe /\ Queued' = Queued
  <2>1. UNCHANGED <<Elements(ch), Live>> /\ \A e : Wanted(e)' = Wanted(e)
    BY <1>1 DEF Elements, Live, Fresh, Wanted
  <2>2. Pipe = Elements(sent) \cup Onward \cup {Line(i) : i \in back} \cup Live
    BY DEF Pipe, Onward, Live
  <2>3. Pipe' = Elements(sent)' \cup Onward' \cup {Line(i) : i \in back} \cup Live'
    BY <1>1 DEF Pipe, Onward, Live
  <2> QED
    BY <1>3, <2>1, <2>2, <2>3 DEF Queued
<1>5. Bounded'
  BY <1>1, <1>4 DEF LInv, Bounded
<1>6. Staged'
  BY <1>1 DEF LInv, Staged
<1>7. Ordered'
  BY <1>1, <1>2, <1>3, <1>4 DEF Ordered
<1>8. Complete' /\ Chosen'
  BY <1>1, <1>4 DEF LInv, Complete, Chosen
<1> QED
  BY <1>0, <1>5, <1>6, <1>7, <1>8 DEF LInv

(* The rest.                                                                *)
LEMMA OthersKeep ==
  ASSUME LInv, CInv',
         \/ Clear \/ CloseRoute \/ CloseChannel \/ Subscribe \/ BacklogEnds \/ ForwarderEnds
         \/ StreamEnds \/ ClientLeaves \/ Unsubscribe
  PROVE  LInv'
<1>0. TypeOK'
  BY PumpTyped, SubscriptionTyped, AttachTyped, FollowTyped DEF Forwarder, Sender
<1>1. UNCHANGED <<log, pump, ch, pending, req, back, maxSeq, merged, sent>>
  BY DEF Clear, CloseRoute, CloseChannel, Subscribe, BacklogEnds, ForwarderEnds, StreamEnds,
         ClientLeaves, Unsubscribe, routeVars, subVars, streamVars
<1>2. (fwd' = fwd \/ fwd' = << >>) /\ (fwd' # fwd => spc' = "leaving")
  BY DEF Clear, CloseRoute, CloseChannel, Subscribe, BacklogEnds, ForwarderEnds, StreamEnds,
         ClientLeaves, Unsubscribe, streamVars
<1>3. /\ \/ spc' = spc
         \/ spc = "start" /\ spc' = "subscribed"
         \/ spc' \in {"leaving", "ended"}
         \/ spc = "backlog" /\ back = {} /\ spc' = "follow"
      /\ subscribed' => subscribed \/ spc = "start"
  BY DEF Clear, CloseRoute, CloseChannel, Subscribe, BacklogEnds, ForwarderEnds, StreamEnds,
         ClientLeaves, Unsubscribe, subVars, streamVars
<1> QED
  BY <1>0, <1>1, <1>2, <1>3, QueuesRestKeep

THEOREM LogBusInvariance == Spec => []LInv
<1>1. ASSUME LInv, [Next]_vars PROVE LInv'
  <2>0. CInv'
    <3>1. CInv /\ UNCHANGED vars => CInv'
      BY DEF vars, routeVars, subVars, streamVars, CInv, Closers, FanoutHolds
    <3>2. CInv /\ Next => CInv'
      BY TrafficKeepsCInv, ClosersKeepCInv DEF Next, Route, Attach
    <3> QED
      BY <1>1, <3>1, <3>2 DEF LInv
  <2>1. CASE UNCHANGED vars
    <3>1. UNCHANGED <<log, count, closed, pump, subscribed, closing, ch, closes, pending, req,
                      spc, back, maxSeq, fwd, fdone, merged, sent>>
      BY <2>1 DEF vars, routeVars, subVars, streamVars
    <3>2. TypeOK'
      BY <1>1, <3>1 DEF LInv, TypeOK
    <3> QED
      BY <1>1, <2>0, <3>1, <3>2, QueuesRestKeep
  <2>2. CASE Next
    <3>1. \/ FanoutMarker \/ FanoutLine \/ \E s \in Streams : AppendLine(s)
          \/ Snapshot \/ SendBacklog \/ Receive \/ Forward \/ Send
          \/ Clear \/ CloseRoute \/ CloseChannel \/ Subscribe \/ BacklogEnds \/ ForwarderEnds
          \/ StreamEnds \/ ClientLeaves \/ Unsubscribe
      BY <2>2 DEF Next, Pump, Route, Attach, Forwarder, Sender
    <3> QED
      BY <1>1, <2>0, <3>1, AppendLineKeeps, FanoutMarkerKeeps, FanoutLineKeeps, SnapshotKeeps,
         SendBacklogKeeps, ReceiveKeeps, OnwardKeeps, OthersKeep
  <2> QED
    BY <1>1, <2>1, <2>2
<1> QED
  BY <1>1, InitHasLInv, PTL DEF Spec

-----------------------------------------------------------------------------
(* Every queue keeps to its capacity and every entry is one of the log.     *)
THEOREM LogBusTyped == Spec => []TypeOK
<1>1. LInv => TypeOK
  BY DEF LInv
<1> QED
  BY <1>1, LogBusInvariance, PTL

(* No line is delivered twice across the attach, and the lines of a stream  *)
(* come in the order they were captured.                                    *)
THEOREM DeliveredOnceInOrder == Spec => []DeliveredOnce
<1>1. LInv => DeliveredOnce
  BY DEF LInv, Ordered, InOrder, DeliveredOnce, SameStream
<1> QED
  BY <1>1, LogBusInvariance, PTL

(* From the first line of a stream that a client sees, every later one is   *)
(* on its way or counted in a marker that is, or in one that is owed.       *)
THEOREM LossesAreAnnounced == Spec => []LossAnnounced
<1>1. LInv => LossAnnounced
  BY DEF LInv, Complete, Accounted, LossAnnounced
<1> QED
  BY <1>1, LogBusInvariance, PTL

-----------------------------------------------------------------------------
(* No channel is closed twice, and no subscribed one is closed.             *)
THEOREM ChannelsAreSafe == Spec => []ChannelSafe
<1>1. CInv => ChannelSafe
  BY DEF CInv, Closers, ChannelSafe
<1> QED
  BY <1>1, ClosersInvariance, PTL

(* Nothing is sent on a closed channel: a fan-out in progress has a         *)
(* subscription, whose channel is open, from its first send to its last.    *)
THEOREM NoSendOnClosed == Spec => [](pump # "idle" => closes = 0)
<1>1. CInv => (pump # "idle" => closes = 0)
  BY DEF CInv, Closers, FanoutHolds
<1> QED
  BY <1>1, ClosersInvariance, PTL

-----------------------------------------------------------------------------
(* The contract, LogFeed.  Nothing is in two places of the way: a line, or  *)
(* one that a marker counts, is in one entry or in the drops to report.     *)
Apart(A, B) == \A x \in A, y \in B : Content(x) \cap Content(y) = {}
ApartIn(s) == \A i, j \in DOMAIN s : i < j => Content(s[i]) \cap Content(s[j]) = {}

MarksSent == {e \in Elements(sent) : ~IsLine(e)}
Drops == UNION {pending[s] : s \in Streams}
Handed == MarksSent \cup Onward \cup Elements(ch)

Once ==
  /\ ApartIn(ch) /\ ApartIn(merged)
  /\ Apart(Elements(merged), Elements(fwd))
  /\ Apart(Onward, Elements(ch)) /\ Apart(MarksSent, Onward \cup Elements(ch))
  /\ \A e \in Handed : Content(e) \cap Drops = {}

Known == \A e \in Queued : Content(e) \subseteq 1 .. FannedOut

(* Until the snapshot, all that was fanned out since the subscription is in *)
(* the channel or to be reported.                                           *)
Gone == Contents(Elements(ch)) \cup Drops
SinceAttached ==
  /\ spc = "start" => Drops = {}
  /\ spc = "subscribed" /\ subscribed =>
       \A i \in Gone, j \in 1 .. FannedOut : i <= j => j \in Gone

(* What goes on to the client is wanted, and newer than the backlog.        *)
Asking ==
  /\ \A e \in Onward : Fresh(e)
  /\ spc = "follow" => req.follow
  /\ spc \in {"start", "subscribed", "backlog"} => MarksSent = {}

FInv == Once /\ Known /\ SinceAttached /\ Asking

LEMMA ContentFacts ==
  /\ \A e : IsLine(e) => Content(e) = {e.seq}
  /\ \A e : ~IsLine(e) => Content(e) = e.dropped
  /\ \A i : Content(Line(i)) = {i}
  /\ \A A, i : i \in Contents(A) <=> \E e \in A : i \in Content(e)
BY LineFacts DEF Content, Contents

LEMMA ApartAppend ==
  ASSUME NEW S, NEW s \in Seq(S), NEW e \in S, ApartIn(s), Apart(Elements(s), {e})
  PROVE  ApartIn(Append(s, e))
<1>1. /\ DOMAIN s = 1 .. Len(s) /\ Len(s) \in Nat
      /\ DOMAIN Append(s, e) = 1 .. Len(s) + 1
      /\ Append(s, e)[Len(s) + 1] = e
      /\ \A i \in 1 .. Len(s) : Append(s, e)[i] = s[i]
  OBVIOUS
<1>2. \A i \in 1 .. Len(s) : Content(s[i]) \cap Content(e) = {}
  BY <1>1 DEF Elements, Apart
<1> SUFFICES ASSUME NEW i \in 1 .. Len(s) + 1, NEW j \in 1 .. Len(s) + 1, i < j
             PROVE  Content(Append(s, e)[i]) \cap Content(Append(s, e)[j]) = {}
  BY <1>1 DEF ApartIn
<1>3. i \in 1 .. Len(s) /\ Append(s, e)[i] = s[i]
  BY <1>1
<1>4. CASE j = Len(s) + 1
  BY <1>1, <1>2, <1>3, <1>4
<1>5. CASE j # Len(s) + 1
  <2>1. j \in 1 .. Len(s) /\ Append(s, e)[j] = s[j]
    BY <1>1, <1>5
  <2> QED
    BY <1>1, <1>3, <2>1 DEF ApartIn
<1> QED
  BY <1>4, <1>5

LEMMA ApartTail ==
  ASSUME NEW S, NEW s \in Seq(S), s # << >>, ApartIn(s)
  PROVE  ApartIn(Tail(s)) /\ Apart({Head(s)}, Elements(Tail(s)))
<1>1. /\ DOMAIN s = 1 .. Len(s) /\ Len(s) \in Nat /\ Len(s) >= 1
      /\ DOMAIN Tail(s) = 1 .. Len(s) - 1 /\ Head(s) = s[1]
      /\ \A i \in 1 .. Len(s) - 1 : Tail(s)[i] = s[i + 1]
  OBVIOUS
<1>2. \A i \in 1 .. Len(s) - 1 : i + 1 \in 1 .. Len(s) /\ 1 < i + 1
  BY <1>1
<1>3. ApartIn(Tail(s))
  <2> SUFFICES ASSUME NEW i \in 1 .. Len(s) - 1, NEW j \in 1 .. Len(s) - 1, i < j
               PROVE  Content(Tail(s)[i]) \cap Content(Tail(s)[j]) = {}
    BY <1>1 DEF ApartIn
  <2>1. i + 1 \in DOMAIN s /\ j + 1 \in DOMAIN s /\ i + 1 < j + 1
    BY <1>1
  <2> QED
    BY <1>1, <2>1 DEF ApartIn
<1>4. Apart({Head(s)}, Elements(Tail(s)))
  <2>1. \A i \in DOMAIN Tail(s) : Content(s[1]) \cap Content(Tail(s)[i]) = {}
    BY <1>1, <1>2 DEF ApartIn
  <2> QED
    BY <1>1, <2>1 DEF Apart, Elements
<1> QED
  BY <1>3, <1>4

LEMMA InitHasFInv == Init => FInv
<1> SUFFICES ASSUME Init PROVE FInv
  OBVIOUS
<1>1. /\ ch = << >> /\ fwd = << >> /\ merged = << >> /\ sent = << >> /\ spc = "start"
      /\ pending = [s \in Streams |-> {}]
  BY Zenon DEF Init
<1>2. Elements(<< >>) = {} /\ DOMAIN << >> = {}
  BY DEF Elements
<1>3. /\ Elements(ch) = {} /\ Onward = {} /\ MarksSent = {} /\ Handed = {} /\ Queued = {}
      /\ Elements(merged) = {} /\ Elements(fwd) = {}
  BY <1>1, <1>2 DEF Onward, MarksSent, Handed, Queued
<1>4. Drops = {}
  BY <1>1 DEF Drops
<1>5. ApartIn(ch) /\ ApartIn(merged)
  BY <1>1, <1>2 DEF ApartIn
<1> QED
  BY <1>1, <1>3, <1>4, <1>5 DEF FInv, Once, Known, SinceAttached, Asking, Apart

-----------------------------------------------------------------------------
(* Drops to report are lines already fanned out, each of its stream.        *)
LEMMA DropFacts ==
  ASSUME LInv
  PROVE  /\ \A i : i \in Drops <=> \E s \in Streams : i \in pending[s]
         /\ Drops \subseteq 1 .. FannedOut
         /\ \A s \in Streams : \A i \in pending[s] : log[i] = s
<1>1. \A i : i \in Drops <=> \E s \in Streams : i \in pending[s]
  BY DEF Drops
<1>2. ASSUME NEW s \in Streams, NEW i \in pending[s]
      PROVE  i \in 1 .. FannedOut /\ log[i] = s
  <2>1. i \in 1 .. MaxLines /\ i <= FannedOut /\ log[i] = s /\ MaxLines \in Nat
    BY LogBusAssumption DEF LInv, TypeOK, Bounded
  <2>2. FannedOut \in 0 .. Newest /\ Newest \in Nat
    BY PipeFacts
  <2> QED
    BY <2>1, <2>2
<1> QED
  BY <1>1, <1>2

(* Steps that move no entry.                                                *)
LEMMA QueuesRestKeepFInv ==
  ASSUME LInv, FInv,
         UNCHANGED <<log, pump, ch, pending, req, maxSeq, merged, sent>>,
         fwd' = fwd \/ fwd' = << >>,
         \/ spc' = spc
         \/ spc = "start" /\ spc' = "subscribed"
         \/ spc' \in {"leaving", "ended"}
         \/ spc = "backlog" /\ spc' = "follow" /\ req.follow,
         subscribed' => subscribed \/ spc = "start"
  PROVE  FInv'
<1>1. /\ UNCHANGED <<Newest, FannedOut, Elements(ch), Elements(merged), Elements(sent)>>
      /\ Elements(fwd)' \subseteq Elements(fwd)
      /\ UNCHANGED <<MarksSent, Drops, Gone>>
      /\ \A e : Fresh(e)' = Fresh(e)
  BY DEF Newest, FannedOut, Elements, MarksSent, Drops, Gone, Contents, Fresh, Wanted
<1>2. /\ Onward' \subseteq Onward /\ Queued' \subseteq Queued /\ Handed' \subseteq Handed
  BY <1>1 DEF Onward, Queued, Handed
<1>3. Once'
  BY <1>1, <1>2 DEF FInv, Once, ApartIn, Apart
<1>4. Known'
  BY <1>1, <1>2 DEF FInv, Known
<1>5. SinceAttached'
  <2>1. spc = "start" => Gone = {} /\ Drops = {}
    <3>1. spc = "start" => Elements(ch) = {} /\ Drops = {}
      BY QueueFacts DEF LInv, Staged, FInv, SinceAttached
    <3> QED
      BY <3>1 DEF Gone, Contents
  <2>2. spc' = "start" => Drops' = {}
    BY <1>1, <2>1
  <2>3. ASSUME spc' = "subscribed", subscribed'
        PROVE  \A i \in Gone, j \in 1 .. FannedOut : i <= j => j \in Gone
    <3>1. CASE spc = "start"
      BY <2>1, <3>1
    <3>2. CASE spc = "subscribed"
      BY <2>3, <3>2 DEF FInv, SinceAttached
    <3> QED
      BY <2>3, <3>1, <3>2
  <2> QED
    BY <1>1, <2>2, <2>3 DEF SinceAttached
<1>6. Asking'
  BY <1>1, <1>2 DEF FInv, Asking
<1> QED
  BY <1>3, <1>4, <1>5, <1>6 DEF FInv

LEMMA AppendLineKeepsFInv ==
  ASSUME LInv, FInv, NEW s \in Streams, AppendLine(s)
  PROVE  FInv'
<1>1. /\ pump = "idle" /\ log' = Append(log, s)
      /\ pump' = IF ~subscribed THEN "idle" ELSE IF pending[s] # {} THEN "marker" ELSE "line"
      /\ UNCHANGED <<subscribed, ch, pending, req, spc, back, maxSeq, fwd, merged, sent>>
  BY DEF AppendLine, Unlocked, subVars, streamVars
<1>2. /\ Newest \in Nat /\ Newest' = Newest + 1
      /\ \A i \in 1 .. Newest : log'[i] = log[i]
  <2>1. log \in Seq(Streams)
    BY DEF LInv, TypeOK
  <2> QED
    BY <1>1, <2>1 DEF Newest
<1>3. /\ FannedOut = Newest /\ FannedOut' \in {Newest, Newest + 1}
      /\ subscribed => FannedOut' = FannedOut
  BY <1>1, <1>2 DEF FannedOut
<1>4. UNCHANGED <<Elements(ch), Elements(merged), Elements(fwd), Elements(sent), Onward, Queued,
                  MarksSent, Handed, Drops, Gone>>
  BY <1>1 DEF Elements, Onward, Queued, MarksSent, Handed, Drops, Gone, Contents
<1>5. \A e \in Queued : Fresh(e)' = Fresh(e)
  BY <1>1, <1>2, PipeFacts DEF Fresh, Wanted
<1>6. Once'
  BY <1>1, <1>4 DEF FInv, Once, ApartIn
<1>7. Known'
  <2>1. 1 .. FannedOut \subseteq 1 .. FannedOut'
    BY <1>2, <1>3
  <2> QED
    BY <1>4, <2>1 DEF FInv, Known
<1>8. SinceAttached'
  BY <1>1, <1>3, <1>4 DEF FInv, SinceAttached
<1>9. Asking'
  <2>1. Onward \subseteq Queued
    BY DEF Queued
  <2> QED
    BY <1>1, <1>4, <1>5, <2>1 DEF FInv, Asking
<1> QED
  BY <1>6, <1>7, <1>8, <1>9 DEF FInv

(* An entry is put into the channel, of what no entry had yet.              *)
LEMMA ChannelFillsFInv ==
  ASSUME LInv, FInv, NEW x \in Entries, ch' = Append(ch, x),
         \A e \in Handed : Content(e) \cap Content(x) = {},
         UNCHANGED <<log, req, spc, maxSeq, fwd, merged, sent>>
  PROVE  /\ Elements(ch)' = Elements(ch) \cup {x}
         /\ Handed' = Handed \cup {x} /\ Queued' = Queued \cup {x}
         /\ Asking' /\ (Handed \cup Elements(ch) = Handed)
         /\ (\A e \in Handed' : Content(e) \cap Drops' = {}) => Once'
<1>1. ch \in Seq(Entries)
  BY DEF LInv, TypeOK
<1>2. Elements(ch)' = Elements(ch) \cup {x}
  BY <1>1, AppendElements
<1>3. /\ UNCHANGED <<Elements(sent), Elements(merged), Elements(fwd), Onward, MarksSent>>
      /\ \A e : Fresh(e)' = Fresh(e)
  BY DEF Elements, Onward, MarksSent, Fresh, Wanted
<1>4. Handed' = Handed \cup {x} /\ Queued' = Queued \cup {x} /\ (Handed \cup Elements(ch) = Handed)
  BY <1>2, <1>3 DEF Handed, Queued
<1>5. ApartIn(ch)'
  <2>1. ApartIn(ch) /\ Apart(Elements(ch), {x})
    BY DEF FInv, Once, Apart, Handed
  <2>2. ApartIn(Append(ch, x))
    BY <1>1, <2>1, ApartAppend
  <2> QED
    BY <2>2 DEF ApartIn
<1>6. Apart(Onward, Elements(ch)')
  BY <1>2 DEF FInv, Once, Apart, Handed
<1>7. Apart(MarksSent, Onward \cup Elements(ch)')
  BY <1>2 DEF FInv, Once, Apart, Handed
<1>8. ASSUME \A e \in Handed' : Content(e) \cap Drops' = {} PROVE Once'
  BY <1>3, <1>5, <1>6, <1>7, <1>8 DEF FInv, Once, ApartIn, Apart
<1>9. Asking'
  BY <1>3 DEF FInv, Asking
<1> QED
  BY <1>2, <1>4, <1>8, <1>9

LEMMA FanoutMarkerKeepsFInv ==
  ASSUME LInv, FInv, FanoutMarker
  PROVE  FInv'
<1> DEFINE t == log[Newest]
           x == Marker(Newest, pending[t])
<1>1. /\ pump = "marker" /\ pump' = "line"
      /\ UNCHANGED <<log, subscribed, req, spc, back, maxSeq, fwd, merged, sent>>
  BY DEF FanoutMarker, routeVars, streamVars
<1>2. /\ Newest \in Nat \ {0} /\ UNCHANGED <<Newest, FannedOut>> /\ t \in Streams
      /\ subscribed /\ spc # "start"
  BY <1>1, PipeFacts DEF LInv, Bounded, Newest, FannedOut, CInv, FanoutHolds, Closers
<1>3. CASE Full
  <2>1. UNCHANGED <<ch, pending>>
    BY <1>3 DEF FanoutMarker
  <2>2. UNCHANGED <<Elements(ch), Elements(merged), Elements(fwd), Elements(sent), Onward, Queued,
                    MarksSent, Handed, Drops, Gone>>
    BY <1>1, <2>1 DEF Elements, Onward, Queued, MarksSent, Handed, Drops, Gone, Contents
  <2>3. \A e : Fresh(e)' = Fresh(e)
    BY <1>1 DEF Fresh, Wanted
  <2>4. Once' /\ Known'
    BY <1>1, <1>2, <2>1, <2>2 DEF FInv, Once, ApartIn, Known
  <2>5. SinceAttached' /\ Asking'
    BY <1>1, <1>2, <2>2, <2>3 DEF FInv, SinceAttached, Asking
  <2> QED
    BY <2>4, <2>5 DEF FInv
<1>4. CASE ~Full
  <2>1. ch' = Append(ch, x) /\ pending' = [pending EXCEPT ![t] = {}]
    BY <1>4 DEF FanoutMarker
  <2>2. /\ pending \in [Streams -> SUBSET (1 .. MaxLines)] /\ pending[t] # {}
    BY <1>1, <1>2 DEF LInv, TypeOK, Bounded
  <2>3. x \in Entries /\ Content(x) = pending[t]
    <3>1. x \in Entries /\ x.dropped = pending[t] /\ ~ IsLine(x)
      BY <1>2, <2>2, PipeFacts DEF Entries, Marker, IsLine
    <3> QED
      BY <3>1, ContentFacts
  <2>4. \A s \in Streams : pending'[s] = IF s = t THEN {} ELSE pending[s]
    BY <2>1, <2>2
  <2> HIDE DEF x, t
  <2>5. /\ \A i : i \in Drops' <=> \E s \in Streams : i \in pending'[s]
        /\ Drops' \subseteq Drops /\ Content(x) \subseteq Drops /\ Drops \subseteq 1 .. FannedOut
        /\ Content(x) \cap Drops' = {}
        /\ \A i \in Drops : i \in Content(x) \/ i \in Drops'
    <3>1. \A i : i \in Drops' <=> \E s \in Streams : i \in pending'[s]
      BY DEF Drops
    <3> QED
      BY <1>2, <2>3, <2>4, <3>1, DropFacts
  <2>6. \A e \in Handed : Content(e) \cap Content(x) = {}
    BY <2>5 DEF FInv, Once
  <2>7. /\ Elements(ch)' = Elements(ch) \cup {x}
        /\ Handed' = Handed \cup {x} /\ Queued' = Queued \cup {x} /\ Asking'
        /\ (\A e \in Handed' : Content(e) \cap Drops' = {}) => Once'
    BY <1>1, <2>1, <2>3, <2>6, ChannelFillsFInv
  <2>8. Once'
    BY <2>5, <2>7 DEF FInv, Once
  <2>9. Known'
    BY <1>2, <2>5, <2>7 DEF FInv, Known
  <2>10. SinceAttached'
    <3>1. \A i : i \in Gone' <=> i \in Gone
      <4>1. \A i : i \in Gone <=> i \in Drops \/ \E e \in Elements(ch) : i \in Content(e)
        BY ContentFacts DEF Gone
      <4>2. \A i : i \in Gone' <=> i \in Drops' \/ \E e \in Elements(ch)' : i \in Content(e)
        BY DEF Gone, Contents
      <4> QED
        BY <2>5, <2>7, <4>1, <4>2
    <3> QED
      BY <1>1, <1>2, <3>1 DEF FInv, SinceAttached
  <2> QED
    BY <2>7, <2>8, <2>9, <2>10 DEF FInv
<1> QED
  BY <1>3, <1>4

LEMMA FanoutLineKeepsFInv ==
  ASSUME LInv, FInv, FanoutLine
  PROVE  FInv'
<1> DEFINE t == log[Newest]
           x == Line(Newest)
<1>1. /\ pump = "line" /\ pump' = "idle"
      /\ UNCHANGED <<log, subscribed, req, spc, back, maxSeq, fwd, merged, sent>>
  BY DEF FanoutLine, routeVars, streamVars
<1>2. /\ Newest \in Nat \ {0} /\ FannedOut = Newest - 1 /\ FannedOut' = Newest
      /\ t \in Streams /\ spc # "start" /\ FannedOut \in Nat
  BY <1>1, PipeFacts DEF LInv, Bounded, Newest, FannedOut, CInv, FanoutHolds, Closers
<1>3. /\ pending \in [Streams -> SUBSET (1 .. MaxLines)]
      /\ x \in Entries /\ Content(x) = {Newest}
  BY <1>2, PipeFacts, QueueFacts, ContentFacts DEF TypeOK
<1>4. \/ ch' = Append(ch, x) /\ pending' = pending
      \/ /\ ch' = ch
         /\ \A s \in Streams : pending'[s] = pending[s] \cup (IF s = t THEN {Newest} ELSE {})
  BY <1>2, <1>3 DEF FanoutLine
<1>5. /\ Drops \subseteq 1 .. FannedOut /\ Newest \notin 1 .. FannedOut
      /\ \A i : i \in 1 .. Newest <=> i \in 1 .. FannedOut \/ i = Newest
      /\ \A i : i \in Drops <=> \E s \in Streams : i \in pending[s]
      /\ \A i : i \in Drops' <=> \E s \in Streams : i \in pending'[s]
  <2>1. \A i : i \in Drops' <=> \E s \in Streams : i \in pending'[s]
    BY DEF Drops
  <2> QED
    BY <1>2, <2>1, DropFacts
<1> HIDE DEF x, t
<1>6. /\ Once' /\ Known' /\ Asking'
      /\ \A i : i \in Gone' <=> i \in Gone \/ i = Newest
  <2>1. \A e \in Handed : Content(e) \subseteq 1 .. FannedOut
    BY DEF FInv, Known, Handed, MarksSent, Queued
  <2>2. /\ \A i : i \in Gone <=> i \in Drops \/ \E e \in Elements(ch) : i \in Content(e)
        /\ \A i : i \in Gone' <=> i \in Drops' \/ \E e \in Elements(ch)' : i \in Content(e)
    BY DEF Gone, Contents
  <2>3. CASE ch' = Append(ch, x) /\ pending' = pending
    <3>1. \A e \in Handed : Content(e) \cap Content(x) = {}
      BY <1>3, <1>5, <2>1
    <3>2. /\ Elements(ch)' = Elements(ch) \cup {x}
          /\ Handed' = Handed \cup {x} /\ Queued' = Queued \cup {x} /\ Asking'
          /\ (\A e \in Handed' : Content(e) \cap Drops' = {}) => Once'
      BY <1>1, <1>3, <2>3, <3>1, ChannelFillsFInv
    <3>3. Drops' = Drops
      BY <2>3 DEF Drops
    <3>4. Once'
      BY <1>3, <1>5, <3>2, <3>3 DEF FInv, Once
    <3>5. Known'
      BY <1>2, <1>3, <1>5, <3>2 DEF FInv, Known
    <3>6. \A i : i \in Gone' <=> i \in Gone \/ i = Newest
      BY <1>3, <2>2, <3>2, <3>3
    <3> QED
      BY <3>2, <3>4, <3>5, <3>6
  <2>4. CASE /\ ch' = ch
             /\ \A s \in Streams : pending'[s] = pending[s] \cup (IF s = t THEN {Newest} ELSE {})
    <3>1. /\ UNCHANGED <<Elements(ch), Elements(merged), Elements(fwd), Elements(sent), Onward,
                         Queued, MarksSent, Handed>>
          /\ \A e : Fresh(e)' = Fresh(e)
      BY <1>1, <2>4 DEF Elements, Onward, Queued, MarksSent, Handed, Fresh, Wanted
    <3>2. \A i : i \in Drops' <=> i \in Drops \/ i = Newest
      BY <1>2, <1>5, <2>4
    <3>3. Once'
      BY <1>1, <1>5, <2>1, <2>4, <3>1, <3>2 DEF FInv, Once, ApartIn
    <3>4. Known'
      BY <1>2, <1>5, <3>1 DEF FInv, Known
    <3>5. Asking'
      BY <1>1, <3>1 DEF FInv, Asking
    <3>6. \A i : i \in Gone' <=> i \in Gone \/ i = Newest
      BY <2>2, <3>1, <3>2
    <3> QED
      BY <3>3, <3>4, <3>5, <3>6
  <2> QED
    BY <1>4, <2>3, <2>4
<1>7. SinceAttached'
  <2>1. ASSUME NEW i \in Gone PROVE i \in 1 .. FannedOut
    <3>1. i \in Drops \/ \E e \in Elements(ch) : i \in Content(e)
      BY ContentFacts DEF Gone
    <3> QED
      BY <1>5, <3>1 DEF FInv, Known, Queued
  <2> SUFFICES ASSUME spc = "subscribed", subscribed, NEW i \in Gone', NEW j \in 1 .. Newest, i <= j
               PROVE  j \in Gone'
    BY <1>1, <1>2 DEF SinceAttached
  <2>2. CASE j = Newest
    BY <1>6, <2>2
  <2>3. CASE j \in 1 .. FannedOut
    <3>1. i # Newest
      BY <1>2, <2>3
    <3> QED
      BY <1>6, <2>3, <3>1 DEF FInv, SinceAttached
  <2> QED
    BY <1>5, <2>2, <2>3
<1> QED
  BY <1>6, <1>7 DEF FInv

(* The snapshot moves no entry, but the backlog ends elsewhere.             *)
LEMMA SnapshotKeepsFInv ==
  ASSUME LInv, FInv, Snapshot
  PROVE  FInv'
<1>1. /\ spc = "subscribed" /\ spc' = "backlog"
      /\ UNCHANGED <<log, pump, subscribed, ch, pending, req, fwd, merged, sent>>
  BY DEF Snapshot, routeVars, subVars
<1>2. UNCHANGED <<FannedOut, Elements(ch), Elements(merged), Elements(fwd), Elements(sent), Onward,
                  Queued, MarksSent, Handed, Drops>>
  BY <1>1 DEF FannedOut, Newest, Elements, Onward, Queued, MarksSent, Handed, Drops
<1>3. Onward = {}
  BY <1>1, QueueFacts DEF LInv, Staged, Onward
<1> QED
  BY <1>1, <1>2, <1>3 DEF FInv, Once, ApartIn, Known, SinceAttached, Asking

LEMMA SendBacklogKeepsFInv ==
  ASSUME LInv, FInv, SendBacklog
  PROVE  FInv'
<1>1. /\ spc = "backlog" /\ UNCHANGED <<log, pump, ch, pending, req, spc, maxSeq, fwd, merged>>
  BY DEF SendBacklog, routeVars, subVars
<1>2. PICK i \in back : sent' = Append(sent, Line(i))
  BY NextLine DEF SendBacklog
<1>3. i \in 1 .. FannedOut /\ sent \in Seq(Entries) /\ Line(i) \in Entries
  <2>1. i \in 1 .. MaxLines
    BY DEF LInv, TypeOK
  <2> QED
    BY <2>1, PipeFacts, QueueFacts DEF LInv, TypeOK
<1>4. /\ UNCHANGED <<FannedOut, Elements(ch), Elements(merged), Elements(fwd), Onward, Drops>>
      /\ \A e : Fresh(e)' = Fresh(e)
  BY <1>1 DEF FannedOut, Newest, Elements, Onward, Drops, Fresh, Wanted
<1>5. Elements(sent)' = Elements(sent) \cup {Line(i)}
  <2>1. Elements(Append(sent, Line(i))) = Elements(sent) \cup {Line(i)}
    BY <1>3, AppendElements
  <2> QED
    BY <1>2, <2>1, Zenon DEF Elements
<1>6. MarksSent' = MarksSent
  BY <1>5, LineFacts DEF MarksSent
<1>7. Handed' = Handed /\ Queued' = Queued \cup {Line(i)}
  BY <1>4, <1>5, <1>6 DEF Handed, Queued
<1>8. Once'
  BY <1>1, <1>4, <1>6, <1>7 DEF FInv, Once, ApartIn
<1>9. Known'
  BY <1>3, <1>4, <1>7, ContentFacts DEF FInv, Known
<1> QED
  BY <1>1, <1>4, <1>6, <1>8, <1>9 DEF FInv, SinceAttached, Asking

LEMMA ReceiveKeepsFInv ==
  ASSUME LInv, FInv, Receive
  PROVE  FInv'
<1> DEFINE x == Head(ch)
<1>1. /\ spc = "follow" /\ fwd = << >> /\ ch # << >> /\ ch' = Tail(ch)
      /\ fwd' = IF Fresh(x) THEN <<x>> ELSE << >>
      /\ UNCHANGED <<log, pump, pending, req, spc, maxSeq, merged, sent>>
  BY DEF Receive, routeVars
<1>2. /\ Elements(ch) = {x} \cup Elements(ch)' /\ ApartIn(ch)' /\ Apart({x}, Elements(ch)')
  <2>1. ch \in Seq(Entries) /\ ApartIn(ch)
    BY DEF LInv, TypeOK, FInv, Once
  <2>2. ApartIn(Tail(ch)) /\ Apart({x}, Elements(Tail(ch)))
    BY <1>1, <2>1, ApartTail
  <2>3. Elements(ch) = {x} \cup Elements(Tail(ch))
    BY <1>1, <2>1, TailFacts
  <2> QED
    BY <1>1, <2>2, <2>3
<1>3. /\ Elements(fwd) = {} /\ Elements(fwd)' = (IF Fresh(x) THEN {x} ELSE {})
      /\ UNCHANGED <<Elements(sent), Elements(merged), MarksSent, Drops, FannedOut>>
      /\ \A e : Fresh(e)' = Fresh(e)
  <2>1. Elements(<< >>) = {} /\ Elements(<<x>>) = {x}
    BY DEF Elements
  <2>2. Elements(fwd') = (IF Fresh(x) THEN {x} ELSE {}) /\ Elements(fwd) = {}
    BY <1>1, <2>1, Zenon
  <2> QED
    BY <1>1, <2>2 DEF Elements, Fresh, Wanted, MarksSent, Drops, FannedOut, Newest
<1> HIDE DEF x
<1>4. /\ Onward = Elements(merged) /\ Onward' = Onward \cup (IF Fresh(x) THEN {x} ELSE {})
      /\ Handed' \subseteq Handed /\ Queued' \subseteq Queued /\ Elements(ch)' \subseteq Elements(ch)
      /\ x \in Elements(ch)
  BY <1>2, <1>3 DEF Onward, Handed, Queued
<1>5. Once'
  <2>1. Apart(Elements(merged), Elements(fwd)')
    BY <1>3, <1>4 DEF FInv, Once, Apart
  <2>2. Apart(Onward', Elements(ch)')
    BY <1>2, <1>4 DEF FInv, Once, Apart
  <2>3. Apart(MarksSent, Onward' \cup Elements(ch)')
    BY <1>4 DEF FInv, Once, Apart
  <2>4. \A e \in Handed' : Content(e) \cap Drops' = {}
    BY <1>3, <1>4 DEF FInv, Once
  <2> QED
    BY <1>1, <1>2, <1>3, <2>1, <2>2, <2>3, <2>4 DEF FInv, Once, ApartIn
<1>6. Known' /\ SinceAttached' /\ Asking'
  BY <1>1, <1>3, <1>4 DEF FInv, Known, SinceAttached, Asking
<1> QED
  BY <1>5, <1>6 DEF FInv

LEMMA ForwardKeepsFInv ==
  ASSUME LInv, FInv, Forward
  PROVE  FInv' /\ Onward' = Onward
<1> DEFINE x == fwd[1]
<1>1. /\ spc = "follow" /\ fwd # << >> /\ merged' = Append(merged, x) /\ fwd' = << >>
      /\ UNCHANGED <<log, pump, ch, pending, req, spc, maxSeq, sent>>
  BY DEF Forward, routeVars, subVars
<1>2. merged \in Seq(Entries) /\ x \in Entries /\ Elements(fwd) = {x}
  <2>1. fwd \in Seq(Entries) /\ Len(fwd) <= 1 /\ merged \in Seq(Entries)
    BY DEF LInv, TypeOK
  <2> QED
    BY <1>1, <2>1, OneElement
<1>3. Elements(fwd)' = {} /\ UNCHANGED <<Elements(sent), Elements(ch), MarksSent, Drops, FannedOut>>
      /\ \A e : Fresh(e)' = Fresh(e)
  <2>1. Elements(<< >>) = {}
    BY DEF Elements
  <2> QED
    BY <1>1, <2>1 DEF Elements, Fresh, Wanted, MarksSent, Drops, FannedOut, Newest
<1> HIDE DEF x
<1>4. Elements(merged)' = Elements(merged) \cup {x} /\ ApartIn(merged)'
  <2>1. ApartIn(merged) /\ Apart(Elements(merged), {x})
    BY <1>2 DEF FInv, Once
  <2>2. ApartIn(Append(merged, x)) /\ Elements(Append(merged, x)) = Elements(merged) \cup {x}
    BY <1>2, <2>1, ApartAppend, AppendElements
  <2> QED
    BY <1>1, <2>2, Zenon DEF ApartIn, Elements
<1>5. Onward' = Onward /\ Handed' = Handed /\ Queued' = Queued
  BY <1>2, <1>3, <1>4 DEF Onward, Handed, Queued
<1>6. Once'
  <2>1. Apart(Elements(merged), Elements(fwd))'
    BY <1>3 DEF Apart
  <2> QED
    BY <1>1, <1>3, <1>4, <1>5, <2>1 DEF FInv, Once, ApartIn, Apart
<1>7. Known' /\ SinceAttached' /\ Asking'
  BY <1>1, <1>3, <1>5 DEF FInv, Known, SinceAttached, Asking
<1> QED
  BY <1>5, <1>6, <1>7 DEF FInv

LEMMA SendKeepsFInv ==
  ASSUME LInv, FInv, Send
  PROVE  FInv'
<1> DEFINE x == Head(merged)
<1>1. /\ spc = "follow" /\ merged # << >> /\ merged' = Tail(merged) /\ sent' = Append(sent, x)
      /\ UNCHANGED <<log, pump, ch, pending, req, spc, maxSeq, fwd>>
  BY DEF Send, routeVars, subVars
<1>2. /\ x \in Entries /\ Elements(merged) = {x} \cup Elements(merged)'
      /\ ApartIn(merged)' /\ Apart({x}, Elements(merged)')
  <2>1. merged \in Seq(Entries) /\ ApartIn(merged)
    BY DEF LInv, TypeOK, FInv, Once
  <2>2. ApartIn(Tail(merged)) /\ Apart({x}, Elements(Tail(merged)))
    BY <1>1, <2>1, ApartTail
  <2>3. x \in Entries /\ Elements(merged) = {x} \cup Elements(Tail(merged))
    BY <1>1, <2>1, TailFacts
  <2> QED
    BY <1>1, <2>2, <2>3
<1> HIDE DEF x
<1>3. /\ UNCHANGED <<Elements(ch), Elements(fwd), Drops, FannedOut>>
      /\ \A e : Fresh(e)' = Fresh(e)
  BY <1>1 DEF Elements, Fresh, Wanted, Drops, FannedOut, Newest
<1>4. Elements(sent)' = Elements(sent) \cup {x}
  <2>1. sent \in Seq(Entries)
    BY DEF LInv, TypeOK
  <2>2. Elements(Append(sent, x)) = Elements(sent) \cup {x}
    BY <1>2, <2>1, AppendElements
  <2> QED
    BY <1>1, <2>2, Zenon DEF Elements
<1>5. /\ Onward = {x} \cup Onward' /\ Onward' \subseteq Onward
      /\ MarksSent' \subseteq MarksSent \cup {x} /\ Queued' = Queued
      /\ Handed' \subseteq Handed
  BY <1>2, <1>3, <1>4 DEF Onward, MarksSent, Queued, Handed
<1>6. Once'
  <2>1. Apart({x}, Onward')
    BY <1>2, <1>3 DEF FInv, Once, Apart, Onward
  <2>2. Apart(MarksSent', Onward' \cup Elements(ch))
    BY <1>5, <2>1 DEF FInv, Once, Apart
  <2>3. Apart(Elements(merged)', Elements(fwd)) /\ Apart(Onward', Elements(ch))
    BY <1>2, <1>5 DEF FInv, Once, Apart
  <2>4. \A e \in Handed' : Content(e) \cap Drops' = {}
    BY <1>3, <1>5 DEF FInv, Once
  <2> QED
    BY <1>1, <1>2, <1>3, <2>2, <2>3, <2>4 DEF FInv, Once, ApartIn
<1>7. Known' /\ SinceAttached' /\ Asking'
  BY <1>1, <1>3, <1>5 DEF FInv, Known, SinceAttached, Asking
<1> QED
  BY <1>6, <1>7 DEF FInv

LEMMA OthersKeepFInv ==
  ASSUME LInv, FInv,
         \/ Clear \/ CloseRoute \/ CloseChannel \/ Subscribe \/ BacklogEnds \/ ForwarderEnds
         \/ StreamEnds \/ ClientLeaves \/ Unsubscribe \/ UNCHANGED vars
  PROVE  FInv'
<1>1. UNCHANGED <<log, pump, ch, pending, req, maxSeq, merged, sent>>
  BY DEF Clear, CloseRoute, CloseChannel, Subscribe, BacklogEnds, ForwarderEnds, StreamEnds,
         ClientLeaves, Unsubscribe, vars, routeVars, subVars, streamVars
<1>2. fwd' = fwd \/ fwd' = << >>
  BY DEF Clear, CloseRoute, CloseChannel, Subscribe, BacklogEnds, ForwarderEnds, StreamEnds,
         ClientLeaves, Unsubscribe, vars, streamVars
<1>3. /\ \/ spc' = spc
         \/ spc = "start" /\ spc' = "subscribed"
         \/ spc' \in {"leaving", "ended"}
         \/ spc = "backlog" /\ spc' = "follow" /\ req.follow
      /\ subscribed' => subscribed \/ spc = "start"
  BY DEF Clear, CloseRoute, CloseChannel, Subscribe, BacklogEnds, ForwarderEnds, StreamEnds,
         ClientLeaves, Unsubscribe, vars, subVars, streamVars
<1> QED
  BY <1>1, <1>2, <1>3, QueuesRestKeepFInv

LEMMA AllSteps ==
  Next <=> \/ FanoutMarker \/ FanoutLine \/ \E s \in Streams : AppendLine(s)
           \/ Snapshot \/ SendBacklog \/ Receive \/ Forward \/ Send
           \/ Clear \/ CloseRoute \/ CloseChannel \/ Subscribe \/ BacklogEnds \/ ForwarderEnds
           \/ StreamEnds \/ ClientLeaves \/ Unsubscribe
BY DEF Next, Pump, Route, Attach, Forwarder, Sender

THEOREM FeedInvariance == Spec => [](LInv /\ FInv)
<1>1. LInv /\ FInv /\ [Next]_vars => FInv'
  BY AllSteps, AppendLineKeepsFInv, FanoutMarkerKeepsFInv, FanoutLineKeepsFInv,
     SnapshotKeepsFInv, SendBacklogKeepsFInv, ReceiveKeepsFInv, ForwardKeepsFInv, SendKeepsFInv,
     OthersKeepFInv
<1> QED
  BY <1>1, InitHasFInv, LogBusInvariance, PTL DEF Spec

-----------------------------------------------------------------------------
(* What the mapping makes of the state.                                     *)
LEMMA PledgedFacts ==
  \A i : i \in Pledged <=>
    \/ \E e \in Onward \cup Live : i \in Content(e)
    \/ i = Newest /\ pump # "idle" /\ log[i] \in Asked
    \/ subscribed /\ \E s \in Asked : i \in pending[s]
BY ContentFacts DEF Pledged, InHand

LEMMA DueFacts ==
  /\ ~ Attached => Follows = {} /\ Due = {}
  /\ \A i : i \in Due <=>
       /\ Attached /\ i \notin Settled
       /\ i \in back \/ (req.follow /\ i > maxSeq /\ i \in Pledged)
BY DEF Due, Follows

LEMMA SettledFacts ==
  /\ \A i : i \in Feed!Lines <=> \E e \in Elements(sent) : IsLine(e) /\ i = e.seq
  /\ \A i : i \in Feed!Reported <=> \E e \in MarksSent : i \in Content(e)
  /\ \A i : i \in Settled <=> i \in Feed!Lines \/ i \in Feed!Reported
<1>1. \A i : i \in Feed!Lines <=> \E e \in Elements(sent) : IsLine(e) /\ i = e.seq
  BY DEF Feed!Lines, Elements, IsLine
<1>2. \A i : i \in Feed!Reported <=> \E e \in Elements(sent) : i \in e.dropped
  BY DEF Feed!Reported, Elements
<1>3. \A i : i \in Feed!Reported <=> \E e \in MarksSent : i \in Content(e)
  BY <1>2 DEF MarksSent, IsLine, Content
<1>4. \A i : i \in Settled <=> i \in Feed!Lines \/ i \in Feed!Reported
  BY <1>1, <1>2 DEF Settled
<1> QED
  BY <1>1, <1>3, <1>4

(* Lines settled, and lines pledged, were fanned out, but for the one in    *)
(* the pump's hands.                                                        *)
LEMMA FeedKnown ==
  ASSUME LInv, FInv
  PROVE  /\ \A i \in Settled : i \in 1 .. FannedOut
         /\ \A i \in Pledged : i \in 1 .. Newest
         /\ Newest \in Nat /\ FannedOut \in 0 .. Newest
<1>1. Newest \in Nat /\ FannedOut \in 0 .. Newest /\ (pump # "idle" => Newest \in 1 .. Newest)
  BY PipeFacts DEF LInv, Bounded
<1>2. \A e \in Queued : Content(e) \subseteq 1 .. FannedOut
  BY DEF FInv, Known
<1>3. ASSUME NEW i \in Settled PROVE i \in 1 .. FannedOut
  <2>1. \E e \in Elements(sent) : i \in Content(e)
    BY SettledFacts, ContentFacts DEF MarksSent
  <2> QED
    BY <1>2, <2>1 DEF Queued
<1>4. ASSUME NEW i \in Pledged PROVE i \in 1 .. Newest
  <2>1. CASE \E e \in Onward \cup Live : i \in Content(e)
    <3>1. \A j \in 1 .. FannedOut : j \in 1 .. Newest
      BY <1>1
    <3>2. i \in 1 .. FannedOut
      BY <1>2, <2>1 DEF Queued, Live
    <3> QED
      BY <3>1, <3>2
  <2>2. CASE i = Newest /\ pump # "idle"
    BY <1>1, <2>2
  <2>3. CASE \E s \in Asked : i \in pending[s]
    <3>1. \A j \in 1 .. FannedOut : j \in 1 .. Newest
      BY <1>1
    <3> QED
      BY <2>3, <3>1, DropFacts DEF Asked
  <2> QED
    BY <1>4, <2>1, <2>2, <2>3, PledgedFacts
<1> QED
  BY <1>1, <1>3, <1>4

(* A step that keeps the client's side, and what is pledged.                *)
LEMMA Stutters ==
  ASSUME UNCHANGED <<log, req, back, maxSeq, subscribed, sent>>, Pledged' = Pledged,
         Attached' <=> Attached
  PROVE  UNCHANGED Feed!vars
<1>1. UNCHANGED <<Settled, Asked>>
  BY DEF Settled, Elements, Asked, IsLine
<1>2. Follows' = Follows
  BY <1>1 DEF Follows
<1>3. Due' = Due
  BY <1>1 DEF Due
<1> QED
  BY <1>2, <1>3 DEF Feed!vars

(* A step in which the client is not, or no longer, attached.               *)
LEMMA Detaches ==
  ASSUME UNCHANGED <<log, sent>>, ~ Attached'
  PROVE  Feed!End
<1>1. Follows' = {} /\ Due' = {}
  BY DEF Follows, Due
<1> QED
  BY <1>1 DEF Feed!End

LEMMA OthersStep ==
  ASSUME LInv,
         \/ Clear \/ CloseRoute \/ CloseChannel \/ Subscribe \/ BacklogEnds \/ ForwarderEnds
         \/ StreamEnds \/ ClientLeaves \/ Unsubscribe \/ UNCHANGED vars
  PROVE  [Feed!Next]_(Feed!vars)
<1>1. CASE \/ Clear \/ CloseChannel \/ ForwarderEnds \/ UNCHANGED vars
           \/ BacklogEnds /\ req.follow
  <2>1. /\ UNCHANGED <<log, pump, ch, pending, req, back, maxSeq, subscribed, merged, fwd, sent>>
        /\ Attached' <=> Attached
    BY <1>1 DEF Clear, CloseChannel, ForwarderEnds, BacklogEnds, Attached, vars, routeVars, subVars,
                streamVars
  <2>2. Pledged' = Pledged
    BY <2>1 DEF Pledged, Contents, Onward, Live, Elements, InHand, Asked, Newest, Fresh, Wanted
  <2> QED
    BY <2>1, <2>2, Stutters
<1>2. CASE Subscribe \/ Unsubscribe
  <2>1. UNCHANGED <<log, sent>> /\ ~ Attached /\ ~ Attached'
    BY <1>2 DEF Subscribe, Unsubscribe, Attached, routeVars, streamVars
  <2>2. Follows' = Follows /\ Due' = Due
    BY <2>1 DEF Follows, Due
  <2> QED
    BY <2>1, <2>2 DEF Feed!vars
<1>3. CASE CloseRoute
  <2>1. /\ UNCHANGED <<log, pump, ch, pending, req, spc, back, maxSeq, merged, fwd, sent>>
        /\ subscribed' = FALSE
    BY <1>3 DEF CloseRoute, streamVars
  <2>2. UNCHANGED <<Contents(Onward), Contents(Live), InHand, Asked, Settled>>
    BY <2>1 DEF Contents, Onward, Live, Elements, InHand, Asked, Newest, Fresh, Wanted, Settled,
                IsLine
  <2>3. Pledged' \subseteq Pledged
    BY <2>1, <2>2 DEF Pledged
  <2>4. Follows' = {} /\ Due' \subseteq Due
    BY <2>1, <2>2, <2>3 DEF Follows, Due, Attached
  <2> QED
    BY <2>1, <2>4 DEF Feed!Next, Feed!End
<1>4. CASE StreamEnds \/ ClientLeaves \/ (BacklogEnds /\ ~ req.follow)
  <2>1. UNCHANGED <<log, sent>> /\ ~ Attached'
    BY <1>4 DEF StreamEnds, ClientLeaves, BacklogEnds, Attached, routeVars, streamVars
  <2> QED
    BY <2>1, Detaches DEF Feed!Next
<1> QED
  BY <1>1, <1>2, <1>3, <1>4

(* A captured line is due to who follows its stream.                        *)
LEMMA AppendLineStep ==
  ASSUME LInv, FInv, NEW s \in Streams, AppendLine(s)
  PROVE  Feed!Capture(s)
<1>1. /\ pump = "idle" /\ log' = Append(log, s)
      /\ pump' = IF ~subscribed THEN "idle" ELSE IF pending[s] # {} THEN "marker" ELSE "line"
      /\ UNCHANGED <<subscribed, ch, pending, req, spc, back, maxSeq, fwd, merged, sent>>
  BY DEF AppendLine, Unlocked, subVars, streamVars
<1>2. /\ Newest \in Nat /\ Newest' = Newest + 1 /\ log'[Newest'] = s
      /\ \A i \in 1 .. Newest : log'[i] = log[i]
      /\ Newest = Len(log) /\ maxSeq \in 0 .. Newest
  <2>1. log \in Seq(Streams)
    BY DEF LInv, TypeOK
  <2>2. FannedOut = Newest /\ maxSeq \in 0 .. FannedOut
    BY <1>1, PipeFacts DEF FannedOut
  <2> QED
    BY <1>1, <2>1, <2>2 DEF Newest
<1>3. UNCHANGED <<Onward, Asked, Settled, Follows>> /\ (Attached' <=> Attached)
  BY <1>1 DEF Onward, Elements, Asked, Settled, IsLine, Follows, Attached
<1>4. Live' = Live
  <2>1. \A e \in Elements(ch) : Fresh(e)' = Fresh(e)
    BY <1>1, <1>2, PipeFacts DEF Fresh, Wanted, Queued
  <2>2. Elements(ch)' = Elements(ch)
    BY <1>1 DEF Elements
  <2> QED
    BY <2>1, <2>2 DEF Live
<1>5. \A i : i \in Pledged' <=> i \in Pledged \/ (i = Newest' /\ subscribed /\ s \in Asked)
  <2>1. \A i : i \in Pledged' <=>
           \/ \E e \in Onward' \cup Live' : i \in Content(e)
           \/ i = Newest' /\ pump' # "idle" /\ log'[i] \in Asked'
           \/ subscribed' /\ \E u \in Asked' : i \in pending'[u]
    BY DEF Pledged, InHand, Contents
  <2>2. pump' # "idle" <=> subscribed
    BY <1>1
  <2> QED
    BY <1>1, <1>2, <1>3, <1>4, <2>1, <2>2, PledgedFacts
<1>6. \A i : i \in Due' <=> i \in Due \/ (i = Newest' /\ s \in Follows)
  <2>1. \A i : i \in Due' <=>
          /\ Attached' /\ i \notin Settled'
          /\ i \in back' \/ (req'.follow /\ i > maxSeq' /\ i \in Pledged')
    BY DEF Due
  <2>2. Newest' > maxSeq /\ Newest' \notin Settled
    <3>1. \A i \in Settled : i \in 1 .. Newest
      BY <1>1, FeedKnown DEF FannedOut
    <3> QED
      BY <1>2, <3>1
  <2>3. s \in Follows <=> Attached /\ req.follow /\ subscribed /\ s \in Asked
    BY DEF Follows
  <2> QED
    BY <1>1, <1>3, <1>5, <2>1, <2>2, <2>3, DueFacts
<1>7. Due' = IF s \in Follows THEN Due \cup {Len(log) + 1} ELSE Due
  BY <1>2, <1>6
<1> QED
  BY <1>1, <1>3, <1>7 DEF Feed!Capture

(* A fan-out puts what was in the pump's hands, or owed, into the channel,  *)
(* or adds it to what is owed.                                              *)
LEMMA FanoutStep ==
  ASSUME LInv, FInv, Pump
  PROVE  UNCHANGED Feed!vars
<1> DEFINE t == log[Newest]
<1>1. /\ pump # "idle" /\ subscribed
      /\ UNCHANGED <<log, subscribed, req, spc, back, maxSeq, fwd, merged, sent>>
  BY DEF Pump, FanoutMarker, FanoutLine, routeVars, streamVars, LInv, CInv, FanoutHolds
<1>2. /\ Newest \in Nat \ {0} /\ Newest' = Newest /\ FannedOut = Newest - 1 /\ t \in Streams
      /\ maxSeq \in 0 .. FannedOut
      /\ pending \in [Streams -> SUBSET (1 .. MaxLines)] /\ ch \in Seq(Entries)
  BY <1>1, PipeFacts DEF LInv, TypeOK, Bounded, Newest, FannedOut
<1>3. /\ UNCHANGED <<Onward, Asked>> /\ (Attached' <=> Attached)
      /\ \A e : Fresh(e)' = Fresh(e)
      /\ \A x : Wanted(x) /\ log[x.seq] \in Streams <=> log[x.seq] \in Asked
  BY <1>1 DEF Onward, Elements, Asked, Attached, Fresh, Wanted
<1>4. /\ \A i : i \in Pledged <=>
           \/ \E e \in Onward \cup Live : i \in Content(e)
           \/ i = Newest /\ t \in Asked
           \/ \E s \in Asked : i \in pending[s]
      /\ \A i : i \in Pledged' <=>
           \/ \E e \in Onward \cup Live' : i \in Content(e)
           \/ i = Newest /\ pump' # "idle" /\ t \in Asked
           \/ \E s \in Asked : i \in pending'[s]
  <2>1. \A i : i \in Pledged <=>
           \/ \E e \in Onward \cup Live : i \in Content(e)
           \/ i = Newest /\ t \in Asked
           \/ \E s \in Asked : i \in pending[s]
    BY <1>1, PledgedFacts
  <2>2. \A i : i \in Pledged' <=>
           \/ \E e \in Onward' \cup Live' : i \in Content(e)
           \/ i = Newest' /\ pump' # "idle" /\ log'[i] \in Asked'
           \/ subscribed' /\ \E s \in Asked' : i \in pending'[s]
    BY DEF Pledged, InHand, Contents
  <2> QED
    BY <1>1, <1>2, <1>3, <2>1, <2>2
<1>5. ASSUME NEW x \in Entries, ch' = Append(ch, x), x.seq = Newest,
             IsLine(x) => Newest > maxSeq
      PROVE  Live' = Live \cup (IF t \in Asked THEN {x} ELSE {})
  <2>1. Elements(ch)' = Elements(ch) \cup {x}
    <3>1. Elements(Append(ch, x)) = Elements(ch) \cup {x}
      BY <1>2, AppendElements
    <3> QED
      BY <1>5, <3>1, Zenon DEF Elements
  <2>2. Fresh(x) <=> t \in Asked
    BY <1>2, <1>3, <1>5 DEF Fresh, IsLine
  <2> QED
    BY <1>3, <2>1, <2>2 DEF Live
<1>6. ASSUME ch' = ch PROVE Live' = Live
  BY <1>3, <1>6 DEF Live, Elements
<1> DEFINE m == Marker(Newest, pending[t])
<1>7. Asked \subseteq Streams
  BY DEF Asked
<1>8. \A i : i \in Pledged' <=> i \in Pledged
  <2>1. CASE FanoutMarker
    <3>1. pump' # "idle"
      BY <2>1 DEF FanoutMarker
    <3>2. CASE Full
      <4>1. UNCHANGED <<ch, pending>>
        BY <2>1, <3>2 DEF FanoutMarker
      <4> QED
        BY <1>4, <1>6, <3>1, <4>1
    <3>3. CASE ~ Full
      <4>1. ch' = Append(ch, m) /\ pending' = [pending EXCEPT ![t] = {}] /\ pending[t] # {}
        BY <2>1, <3>3 DEF FanoutMarker, LInv, Bounded
      <4>2. m \in Entries /\ m.seq = Newest /\ ~ IsLine(m) /\ Content(m) = pending[t]
        <5>1. Newest \in 1 .. MaxLines /\ pending[t] \in SUBSET (1 .. MaxLines)
          BY <1>2, PipeFacts DEF LInv, TypeOK
        <5> QED
          BY <4>1, <5>1 DEF Marker, Entries, IsLine, Content
      <4>3. \A s \in Streams : pending'[s] = IF s = t THEN {} ELSE pending[s]
        BY <1>2, <4>1
      <4>4. Live' = Live \cup (IF t \in Asked THEN {m} ELSE {})
        BY <1>5, <4>1, <4>2
      <4> HIDE DEF m, t
      <4> QED
        BY <1>4, <1>7, <3>1, <4>2, <4>3, <4>4
    <3> QED
      BY <3>2, <3>3
  <2>2. CASE FanoutLine
    <3>1. pump' = "idle"
      BY <2>2 DEF FanoutLine
    <3>2. CASE Full
      <4>1. ch' = ch /\ pending' = [pending EXCEPT ![t] = @ \cup {Newest}]
        BY <2>2, <3>2 DEF FanoutLine
      <4>2. \A s \in Streams : pending'[s] = pending[s] \cup (IF s = t THEN {Newest} ELSE {})
        BY <1>2, <4>1
      <4>3. Live' = Live
        BY <1>6, <4>1
      <4> HIDE DEF m, t
      <4> QED
        BY <1>4, <1>7, <3>1, <4>2, <4>3
    <3>3. CASE ~ Full
      <4>1. ch' = Append(ch, Line(Newest)) /\ pending' = pending
        BY <2>2, <3>3 DEF FanoutLine
      <4>2. Line(Newest) \in Entries /\ Line(Newest).seq = Newest /\ Newest > maxSeq
        BY <1>2, PipeFacts, QueueFacts, LineFacts
      <4>3. Live' = Live \cup (IF t \in Asked THEN {Line(Newest)} ELSE {})
        BY <1>5, <4>1, <4>2
      <4>4. Content(Line(Newest)) = {Newest}
        BY ContentFacts
      <4> DEFINE y == Line(Newest)
      <4> HIDE DEF m, t, y
      <4>5. CASE t \in Asked
        <5>1. Live' = Live \cup {y} /\ Content(y) = {Newest}
          BY <4>3, <4>4, <4>5 DEF y
        <5> QED
          BY <1>4, <3>1, <4>1, <4>5, <5>1
      <4>6. CASE t \notin Asked
        <5>1. Live' = Live
          BY <4>3, <4>6
        <5> QED
          BY <1>4, <3>1, <4>1, <4>6, <5>1
      <4> QED
        BY <4>5, <4>6
    <3> QED
      BY <3>2, <3>3
  <2> QED
    BY <2>1, <2>2 DEF Pump
<1>9. Pledged' = Pledged
  BY <1>8
<1> QED
  BY <1>1, <1>3, <1>9, Stutters

(* The forwarder moves what is pledged along.                               *)
LEMMA ForwarderStep ==
  ASSUME LInv, FInv, Receive \/ Forward
  PROVE  UNCHANGED Feed!vars
<1>1. /\ UNCHANGED <<log, pump, subscribed, pending, req, spc, back, maxSeq, sent>>
      /\ Attached' <=> Attached
  BY DEF Receive, Forward, routeVars, subVars, Attached
<1>2. Onward' \cup Live' = Onward \cup Live
  <2>1. CASE Receive
    <3> DEFINE x == Head(ch)
    <3>1. /\ fwd = << >> /\ ch # << >> /\ ch' = Tail(ch) /\ merged' = merged
          /\ fwd' = IF Fresh(x) THEN <<x>> ELSE << >>
      BY <2>1 DEF Receive
    <3>2. Elements(ch) = {x} \cup Elements(ch)'
      <4>1. ch \in Seq(Entries)
        BY DEF LInv, TypeOK
      <4> QED
        BY <3>1, <4>1, TailFacts
    <3>3. Elements(fwd) = {} /\ Elements(fwd)' = (IF Fresh(x) THEN {x} ELSE {})
      <4>1. Elements(<< >>) = {} /\ Elements(<<x>>) = {x}
        BY DEF Elements
      <4>2. Elements(fwd') = (IF Fresh(x) THEN {x} ELSE {}) /\ Elements(fwd) = {}
        BY <3>1, <4>1, Zenon
      <4> QED
        BY <4>2 DEF Elements
    <3>4. Elements(merged)' = Elements(merged) /\ \A e : Fresh(e)' = Fresh(e)
      BY <1>1, <3>1 DEF Elements, Fresh, Wanted
    <3> HIDE DEF x
    <3> QED
      BY <3>2, <3>3, <3>4 DEF Onward, Live
  <2>2. CASE Forward
    <3>1. Onward' = Onward
      BY <2>2, ForwardKeepsFInv
    <3>2. Live' = Live
      BY <2>2 DEF Forward, subVars, routeVars, Live, Elements, Fresh, Wanted
    <3> QED
      BY <3>1, <3>2
  <2> QED
    BY <2>1, <2>2
<1>3. Pledged' = Pledged
  <2>1. UNCHANGED <<InHand, Asked>>
    BY <1>1 DEF InHand, Asked, Newest
  <2>2. Contents(Onward') \cup Contents(Live') = Contents(Onward) \cup Contents(Live)
    BY <1>2 DEF Contents
  <2> QED
    BY <1>1, <2>1, <2>2 DEF Pledged, Contents
<1> QED
  BY <1>1, <1>3, Stutters

(* The client attaches.  What its backlog leaves out is in the channel or   *)
(* owed, from the subscription on, and the ring reaches to the newest line. *)
LEMMA SnapshotStep ==
  ASSUME LInv, FInv, Snapshot
  PROVE  Feed!Attach
<1>1. /\ spc = "subscribed" /\ spc' = "backlog" /\ pump = "idle"
      /\ UNCHANGED <<log, pump, subscribed, ch, pending, req, fwd, merged, sent>>
      /\ \/ back' = {} /\ maxSeq' = 0
         \/ back' = Backlog /\ maxSeq' = Covered
  BY DEF Snapshot, Unlocked, routeVars, subVars, LInv, Staged
<1>2. /\ Newest \in Nat /\ FannedOut = Newest /\ UNCHANGED <<Newest, Asked>>
      /\ Newest = Len(log)
  BY <1>1, PipeFacts DEF Newest, FannedOut, Asked
<1>3. /\ sent = << >> /\ Due = {} /\ Follows' \subseteq Asked /\ Asked \subseteq Streams
      /\ Settled' = {} /\ Onward' = {}
  <2>1. sent = << >> /\ merged = << >> /\ fwd = << >> /\ Elements(<< >>) = {}
    BY <1>1, QueueFacts DEF LInv, Staged
  <2>2. Settled' = {} /\ Onward' = {}
    BY <1>1, <2>1 DEF Settled, Elements, Onward
  <2>3. Due = {}
    BY <1>1 DEF Due, Attached
  <2>4. Follows' \subseteq Asked /\ Asked \subseteq Streams
    BY <1>2 DEF Follows, Asked
  <2> QED
    BY <2>1, <2>2, <2>3, <2>4
<1>4. /\ Ring \in SUBSET (1 .. Newest)
      /\ \A i \in Ring, j \in 1 .. Newest : i <= j => j \in Ring
      /\ back' \subseteq Ring /\ maxSeq' \in 0 .. Newest
      /\ \A i \in back' : i <= maxSeq'
      /\ \A i \in back', j \in Ring : log[i] = log[j] /\ i <= j => j \in back'
      /\ maxSeq' # 0 => back' = Backlog /\ maxSeq' = Covered
  <2>1. \A i \in Ring, j \in 1 .. Newest : i <= j => j \in Ring
    <3>1. count \in Nat
      BY LogBusAssumption DEF LInv, TypeOK
    <3> QED
      BY <1>2, <3>1 DEF Ring
  <2>2. CASE back' = {} /\ maxSeq' = 0
    BY <1>2, <2>1, <2>2, BacklogFacts
  <2>3. CASE back' = Backlog /\ maxSeq' = Covered
    BY <2>1, <2>3, BacklogFacts
  <2> QED
    BY <1>1, <2>2, <2>3
<1>5. \A i : i \in Due' <=>
        i \in back' \/ (req.follow /\ i > maxSeq' /\ i \in Pledged')
  <2>1. \A i : i \in Due' <=>
          /\ Attached' /\ i \notin Settled'
          /\ i \in back' \/ (req'.follow /\ i > maxSeq' /\ i \in Pledged')
    BY DEF Due
  <2>2. Attached'
    BY <1>1 DEF Attached
  <2> QED
    BY <1>1, <1>3, <2>1, <2>2
<1>6. \A i : i \in Pledged' <=>
        \/ \E e \in Live' : i \in Content(e)
        \/ subscribed /\ \E s \in Asked : i \in pending[s]
  <2>1. \A i : i \in Pledged' <=>
           \/ \E e \in Onward' \cup Live' : i \in Content(e)
           \/ i = Newest' /\ pump' # "idle" /\ log'[i] \in Asked'
           \/ subscribed' /\ \E s \in Asked' : i \in pending'[s]
    BY DEF Pledged, InHand, Contents
  <2> QED
    BY <1>1, <1>2, <1>3, <2>1
<1>7. \A e : e \in Live' <=>
        e \in Elements(ch) /\ (IsLine(e) => e.seq > maxSeq') /\ Wanted(e)
  <2>1. Elements(ch)' = Elements(ch) /\ \A e : Wanted(e)' = Wanted(e)
    BY <1>1 DEF Elements, Wanted
  <2> QED
    BY <2>1 DEF Live, Fresh, IsLine
<1>8. ASSUME NEW i \in Pledged' PROVE i \in Gone
  <2>1. CASE \E e \in Live' : i \in Content(e)
    BY <1>7, <2>1, ContentFacts DEF Gone
  <2>2. CASE \E s \in Asked : i \in pending[s]
    BY <1>3, <2>2, DropFacts DEF Gone
  <2> QED
    BY <1>6, <1>8, <2>1, <2>2
<1>9. ASSUME NEW j \in Gone, j > maxSeq', log[j] \in Asked, subscribed PROVE j \in Pledged'
  <2>1. CASE j \in Drops
    <3>1. PICK s \in Streams : j \in pending[s] /\ log[j] = s
      BY <2>1, DropFacts
    <3> QED
      BY <1>6, <1>9, <3>1
  <2>2. CASE \E e \in Elements(ch) : j \in Content(e)
    <3>1. PICK e \in Elements(ch) : j \in Content(e)
      BY <2>2
    <3>2. log[e.seq] = log[j] /\ (IsLine(e) => e.seq > maxSeq')
      <4>1. CASE IsLine(e)
        BY <1>9, <3>1, <4>1, ContentFacts
      <4>2. CASE ~ IsLine(e)
        <5>1. j \in e.dropped
          BY <3>1, <4>2, ContentFacts
        <5> QED
          BY <4>2, <5>1 DEF LInv, Bounded
      <4> QED
        BY <4>1, <4>2
    <3>3. Wanted(e)
      BY <1>9, <3>2 DEF Wanted, Asked
    <3> QED
      BY <1>6, <1>7, <3>1, <3>2, <3>3
  <2> QED
    BY <1>9, <2>1, <2>2, ContentFacts DEF Gone
<1>10. \A i \in Gone : i \in 1 .. Newest
  <2> SUFFICES ASSUME NEW i \in Gone PROVE i \in 1 .. Newest
    OBVIOUS
  <2>1. i \in Drops \/ \E e \in Elements(ch) : i \in Content(e)
    BY ContentFacts DEF Gone
  <2> QED
    BY <1>2, <2>1, DropFacts DEF FInv, Known, Queued
<1>11. ASSUME NEW i \in Due'
       PROVE  /\ i \in 1 .. Newest
              /\ \A j \in i .. Newest : log[j] = log[i] /\ log[i] \in Follows' => j \in Due'
  <2>1. i \in 1 .. Newest
    BY <1>4, <1>5, <1>8, <1>10, <1>11
  <2> SUFFICES ASSUME NEW j \in i .. Newest, log[j] = log[i], log[i] \in Follows'
               PROVE  j \in Due'
    BY <2>1
  <2>2. j \in 1 .. Newest /\ i <= j /\ i \in Nat /\ j \in Nat /\ maxSeq' \in Nat
    BY <1>2, <1>4, <2>1
  <2>3. req.follow /\ subscribed /\ log[j] \in Asked
    BY <1>1, <1>3 DEF Follows
  <2>4. CASE j <= maxSeq'
    <3>1. i \in back'
      BY <1>5, <1>11, <2>2, <2>4
    <3> QED
      BY <1>4, <1>5, <2>2, <3>1
  <2>5. CASE j > maxSeq'
    <3>1. CASE i \in back'
      <4>1. i \in Ring /\ j \in Ring
        BY <1>4, <2>2, <3>1
      <4> QED
        BY <1>4, <1>5, <2>2, <3>1, <4>1
    <3>2. CASE i \in Pledged'
      <4>1. j \in Gone
        BY <1>1, <1>2, <1>8, <2>2, <2>3, <3>2 DEF FInv, SinceAttached
      <4>2. j \in Pledged'
        BY <1>9, <2>3, <2>5, <4>1
      <4> QED
        BY <1>5, <2>3, <2>5, <4>2
    <3> QED
      BY <1>5, <1>11, <3>1, <3>2
  <2> QED
    BY <2>2, <2>4, <2>5
<1> QED
  BY <1>1, <1>2, <1>3, <1>11 DEF Feed!Attach

(* An entry is sent: what it shows, or counts, is no longer due.            *)
LEMMA SendsSettle ==
  ASSUME LInv, NEW x \in Entries, sent' = Append(sent, x)
  PROVE  \A i : i \in Settled' <=> i \in Settled \/ i \in Content(x)
<1>1. Elements(sent)' = Elements(sent) \cup {x}
  <2>1. Elements(Append(sent, x)) = Elements(sent) \cup {x}
    BY AppendElements DEF LInv, TypeOK
  <2> QED
    BY <2>1, Zenon DEF Elements
<1>2. /\ \A i : i \in Settled <=> \E e \in Elements(sent) : (IsLine(e) /\ i = e.seq) \/ i \in e.dropped
      /\ \A i : i \in Settled' <=> \E e \in Elements(sent)' : (IsLine(e) /\ i = e.seq) \/ i \in e.dropped
  BY DEF Settled, IsLine
<1>3. \A i : i \in Content(x) <=> (IsLine(x) /\ i = x.seq) \/ i \in x.dropped
  BY DEF Content, IsLine
<1> QED
  BY <1>1, <1>2, <1>3

LEMMA FeedEntry ==
  ASSUME LInv, NEW x \in Entries, x.seq \in 1 .. Newest, x.dropped \subseteq 1 .. Newest
  PROVE  x \in [seq : 1 .. Len(log), dropped : SUBSET (1 .. Len(log))]
BY DEF Entries, Newest

LEMMA SendBacklogStep ==
  ASSUME LInv, FInv, SendBacklog
  PROVE  Feed!Next
<1>1. /\ spc = "backlog"
      /\ UNCHANGED <<log, pump, subscribed, ch, pending, req, spc, maxSeq, fwd, merged>>
  BY DEF SendBacklog, routeVars, subVars
<1>2. PICK i \in back : sent' = Append(sent, Line(i)) /\ back' = back \ {i}
  BY NextLine DEF SendBacklog
<1> DEFINE x == Line(i)
<1>3. i \in 1 .. Newest /\ x \in Entries
  <2>1. i \in 1 .. MaxLines /\ i \in 1 .. FannedOut /\ FannedOut \in 0 .. Newest /\ Newest \in Nat
    BY PipeFacts DEF LInv, TypeOK
  <2>2. x \in Entries
    BY <2>1, QueueFacts DEF LInv
  <2> QED
    BY <2>1, <2>2
<1>4. /\ \A j \in Feed!Lines : log[j] = log[i] => j < i
      /\ Feed!Reported = {}
  <2>1. \A e \in Elements(sent) : IsLine(e) => \A j \in back : log[e.seq] = log[j] => e.seq < j
    BY <1>1 DEF LInv, Ordered
  <2>2. MarksSent = {}
    BY <1>1 DEF FInv, Asking
  <2> QED
    BY <2>1, <2>2, SettledFacts
<1>5. i \in Due
  <2>1. i \notin Feed!Lines
    BY <1>3, <1>4
  <2> QED
    BY <1>1, <1>4, <2>1, SettledFacts, DueFacts DEF Attached
<1>6. UNCHANGED <<Pledged, Follows>> /\ (Attached' <=> Attached)
  BY <1>1 DEF Pledged, Contents, Onward, Live, Elements, InHand, Asked, Newest, Fresh, Wanted,
              Follows, Attached
<1>7. Due' = Due \ {i}
  <2>1. \A j : j \in Settled' <=> j \in Settled \/ j = i
    BY <1>2, <1>3, SendsSettle, ContentFacts
  <2>2. \A j : j \in Due' <=>
          /\ Attached' /\ j \notin Settled'
          /\ j \in back' \/ (req'.follow /\ j > maxSeq' /\ j \in Pledged')
    BY DEF Due
  <2>3. \A j : j \in Due' <=> j \in Due /\ j # i
    BY <1>1, <1>2, <1>6, <2>1, <2>2, DueFacts
  <2> QED
    BY <2>3
<1>8. x.dropped = {} /\ x.seq = i
  BY LineFacts
<1>9. Feed!Show(x)
  BY <1>1, <1>2, <1>4, <1>5, <1>6, <1>7, <1>8 DEF Feed!Show
<1>10. x \in [seq : 1 .. Len(log), dropped : SUBSET (1 .. Len(log))]
  BY <1>3, <1>8, FeedEntry
<1> HIDE DEF x
<1> QED
  BY <1>9, <1>10 DEF Feed!Next

LEMMA SendStep ==
  ASSUME LInv, FInv, Send
  PROVE  Feed!Next
<1> DEFINE x == Head(merged)
<1>1. /\ spc = "follow" /\ merged # << >> /\ merged' = Tail(merged) /\ sent' = Append(sent, x)
      /\ UNCHANGED <<log, pump, subscribed, ch, pending, req, spc, back, maxSeq, fwd>>
  BY DEF Send, routeVars, subVars
<1>2. x \in Entries /\ Elements(merged) = {x} \cup Elements(merged)'
  <2>1. merged \in Seq(Entries)
    BY DEF LInv, TypeOK
  <2> QED
    BY <1>1, <2>1, TailFacts
<1> HIDE DEF x
<1>3. /\ x \in Onward /\ Onward = {x} \cup Onward' /\ Live' = Live
      /\ UNCHANGED <<InHand, Asked, Follows>> /\ (Attached' <=> Attached) /\ Attached
  BY <1>1, <1>2 DEF Onward, Elements, Live, Fresh, Wanted, InHand, Newest, Asked, Follows, Attached
<1>4. \A i \in Content(x) : i \in Pledged
  BY <1>3, PledgedFacts
<1>5. \A i : i \in Pledged <=> i \in Pledged' \/ i \in Content(x)
  <2>1. \A i : i \in Pledged' <=>
           \/ \E e \in Onward' \cup Live' : i \in Content(e)
           \/ i = Newest' /\ pump' # "idle" /\ log'[i] \in Asked'
           \/ subscribed' /\ \E s \in Asked' : i \in pending'[s]
    BY DEF Pledged, InHand, Contents
  <2>2. Newest' = Newest
    BY <1>1 DEF Newest
  <2> QED
    BY <1>1, <1>3, <2>1, <2>2, PledgedFacts
<1>6. Due' = Due \ Content(x)
  <2>1. \A i : i \in Settled' <=> i \in Settled \/ i \in Content(x)
    BY <1>1, <1>2, SendsSettle
  <2>2. \A i : i \in Due' <=>
          /\ Attached' /\ i \notin Settled'
          /\ i \in back' \/ (req'.follow /\ i > maxSeq' /\ i \in Pledged')
    BY DEF Due
  <2>3. \A i : i \in Due' <=> i \in Due /\ i \notin Content(x)
    BY <1>1, <1>3, <1>5, <2>1, <2>2, DueFacts
  <2> QED
    BY <2>3
<1>7. Content(x) \cap Feed!Reported = {}
  <2>1. \A e \in MarksSent : Content(e) \cap Content(x) = {}
    BY <1>3 DEF FInv, Once, Apart
  <2> QED
    BY <2>1, SettledFacts
<1>8. x.seq \in 1 .. Newest /\ x.dropped \subseteq 1 .. Newest
  <2>1. x \in Queued
    BY <1>3 DEF Queued
  <2>2. x.seq \in 1 .. Newest /\ FannedOut \in 0 .. Newest /\ Newest \in Nat
    BY <2>1, PipeFacts
  <2>3. Content(x) \subseteq 1 .. FannedOut
    BY <2>1 DEF FInv, Known
  <2>4. x.dropped \subseteq Content(x)
    BY DEF Content, IsLine
  <2> QED
    BY <2>2, <2>3, <2>4
<1>9. CASE IsLine(x)
  <2>1. Content(x) = {x.seq} /\ x.dropped = {}
    BY <1>9, ContentFacts DEF IsLine
  <2>2. \A i \in Feed!Lines : log[i] = log[x.seq] => i < x.seq
    <3>1. Ahead(log, Elements(sent), Onward)
      BY DEF LInv, Ordered
    <3>2. \A e \in Elements(sent) : IsLine(e) /\ log[e.seq] = log[x.seq] => e.seq < x.seq
      BY <1>3, <1>9, <3>1 DEF Ahead
    <3> QED
      BY <3>2, SettledFacts
  <2>3. x.seq \in Due
    <3>1. x.seq \notin Settled
      BY <1>7, <1>8, <2>1, <2>2, SettledFacts
    <3>2. req.follow /\ x.seq > maxSeq
      BY <1>1, <1>3, <1>9 DEF FInv, Asking, Fresh, IsLine
    <3> QED
      BY <1>3, <1>4, <2>1, <3>1, <3>2, DueFacts
  <2>4. Feed!Show(x)
    BY <1>1, <1>3, <1>6, <2>1, <2>2, <2>3 DEF Feed!Show
  <2> QED
    BY <1>2, <1>8, <2>4, FeedEntry DEF Feed!Next
<1>10. CASE ~ IsLine(x)
  <2>1. Content(x) = x.dropped /\ x.dropped # {}
    BY <1>10, ContentFacts DEF IsLine
  <2>2. Feed!Tell(x)
    BY <1>1, <1>3, <1>6, <1>7, <2>1 DEF Feed!Tell
  <2> QED
    BY <1>2, <1>8, <2>2, FeedEntry DEF Feed!Next
<1> QED
  BY <1>9, <1>10

(* The stream of logs keeps its contract: from where it attaches and as     *)
(* long as it follows, the client is shown every line of its streams in     *)
(* order and once, or is told once that it was dropped                      *)
(* (logtail_linux.go:10-21), for every capacity of ring and channels and    *)
(* every race of pumps, deletion, subscription and snapshot.                *)
THEOREM StreamKeepsFeed == Spec => KeepsFeed
<1>1. Init => Feed!Init
  <2> SUFFICES ASSUME Init PROVE Feed!Init
    OBVIOUS
  <2>1. log = << >> /\ sent = << >> /\ spc = "start"
    BY Zenon DEF Init
  <2>2. Follows = {} /\ Due = {}
    BY <2>1, DueFacts DEF Attached
  <2> QED
    BY <2>1, <2>2 DEF Feed!Init
<1>2. LInv /\ FInv /\ [Next]_vars => [Feed!Next]_(Feed!vars)
  <2> SUFFICES ASSUME LInv, FInv, [Next]_vars PROVE [Feed!Next]_(Feed!vars)
    OBVIOUS
  <2>1. CASE \E s \in Streams : AppendLine(s)
    BY <2>1, AppendLineStep DEF Feed!Next
  <2>2. CASE Snapshot
    BY <2>2, SnapshotStep DEF Feed!Next
  <2>3. CASE FanoutMarker \/ FanoutLine \/ Receive \/ Forward
    BY <2>3, FanoutStep, ForwarderStep DEF Pump
  <2>4. CASE SendBacklog \/ Send
    BY <2>4, SendBacklogStep, SendStep
  <2>5. CASE \/ Clear \/ CloseRoute \/ CloseChannel \/ Subscribe \/ BacklogEnds \/ ForwarderEnds
             \/ StreamEnds \/ ClientLeaves \/ Unsubscribe \/ UNCHANGED vars
    BY <2>5, OthersStep
  <2> QED
    BY <2>1, <2>2, <2>3, <2>4, <2>5, AllSteps
<1> QED
  BY <1>1, <1>2, FeedInvariance, PTL DEF Spec, KeepsFeed, Feed!Spec

-----------------------------------------------------------------------------
(* The kth element of a finite set of numbers.                              *)
UpTo(S, i) == {j \in S : j <= i}

LEMMA SameCardinality == \A S : T!Cardinality(S) = Cardinality(S)
  BY DEF T!Cardinality, Cardinality

LEMMA RankGrows ==
  ASSUME NEW S, IsFiniteSet(S), S \subseteq Nat, NEW i \in Nat, NEW j \in S, i < j
  PROVE  /\ Cardinality(UpTo(S, i)) \in Nat /\ Cardinality(UpTo(S, j)) \in Nat
         /\ Cardinality(UpTo(S, i)) < Cardinality(UpTo(S, j))
<1>1. /\ UpTo(S, j) \in SUBSET S /\ UpTo(S, i) \in SUBSET UpTo(S, j)
      /\ j \in UpTo(S, j) /\ j \notin UpTo(S, i)
  <2>1. /\ \A x \in S : x \in Nat /\ (x <= i => x <= j)
        /\ j <= j /\ ~(j <= i)
    OBVIOUS
  <2> QED
    BY <2>1, Zenon DEF UpTo
<1>2. IsFiniteSet(UpTo(S, j))
  BY <1>1, FS_Subset
<1>3. /\ IsFiniteSet(UpTo(S, i)) /\ Cardinality(UpTo(S, i)) <= Cardinality(UpTo(S, j))
      /\ Cardinality(UpTo(S, j)) = Cardinality(UpTo(S, i)) => UpTo(S, j) = UpTo(S, i)
  BY <1>1, <1>2, FS_Subset
<1>4. Cardinality(UpTo(S, i)) \in Nat /\ Cardinality(UpTo(S, j)) \in Nat
  BY <1>2, <1>3, FS_CardinalityType
<1> QED
  BY <1>1, <1>3, <1>4

LEMMA RankIsBounded ==
  ASSUME NEW S, IsFiniteSet(S), S \subseteq Nat, NEW i \in S
  PROVE  Cardinality(UpTo(S, i)) \in 1 .. Cardinality(S)
<1>1. UpTo(S, i) \in SUBSET S /\ i \in UpTo(S, i)
  <2>1. i <= i
    OBVIOUS
  <2> QED
    BY <2>1, Zenon DEF UpTo
<1>2. IsFiniteSet(UpTo(S, i)) /\ Cardinality(UpTo(S, i)) <= Cardinality(S)
  BY <1>1, FS_Subset
<1>3. Cardinality(UpTo(S, i)) # 0
  BY <1>1, <1>2, FS_EmptySet
<1> QED
  BY <1>2, <1>3, FS_CardinalityType

(* Every rank is that of an element, as there are as many of both.          *)
LEMMA NthIsElement ==
  ASSUME NEW S, IsFiniteSet(S), S \subseteq Nat, NEW k \in 1 .. Cardinality(S)
  PROVE  T!Nth(S, k) \in S /\ Cardinality(UpTo(S, T!Nth(S, k))) = k
<1> DEFINE n == Cardinality(S)
           rank == [i \in S |-> Cardinality(UpTo(S, i))]
<1>1. n \in Nat
  BY FS_CardinalityType
<1>2. rank \in [S -> 1 .. n]
  BY RankIsBounded
<1>3. \A i, j \in S : i # j => rank[i] # rank[j]
  <2> SUFFICES ASSUME NEW i \in S, NEW j \in S, i # j PROVE rank[i] # rank[j]
    OBVIOUS
  <2>1. CASE i < j
    <3>1. i \in Nat /\ j \in Nat
      OBVIOUS
    <3>2. /\ Cardinality(UpTo(S, i)) \in Nat /\ Cardinality(UpTo(S, j)) \in Nat
          /\ Cardinality(UpTo(S, i)) < Cardinality(UpTo(S, j))
      BY <2>1, <3>1, RankGrows
    <3> QED
      BY <3>2
  <2>2. CASE j < i
    <3>1. i \in Nat /\ j \in Nat
      OBVIOUS
    <3>2. /\ Cardinality(UpTo(S, i)) \in Nat /\ Cardinality(UpTo(S, j)) \in Nat
          /\ Cardinality(UpTo(S, j)) < Cardinality(UpTo(S, i))
      BY <2>2, <3>1, RankGrows
    <3> QED
      BY <3>2
  <2> QED
    BY <2>1, <2>2
<1>4. IsFiniteSet(1 .. n) /\ Cardinality(1 .. n) = n
  BY <1>1, FS_Interval
<1> HIDE DEF rank
<1>5. rank \in Injection(S, 1 .. n)
  BY <1>2, <1>3 DEF Injection, IsInjective
<1>6. rank \in Surjection(S, 1 .. n)
  BY <1>4, <1>5, FS_Injection
<1>7. \E i \in S : rank[i] = k
  BY <1>6 DEF Surjection
<1>8. \E i \in S : Cardinality({j \in S : j <= i}) = k
  BY <1>7 DEF rank, UpTo
<1> QED
  BY <1>8, SameCardinality DEF T!Nth, UpTo

LEMMA NthIsUnique ==
  ASSUME NEW S, IsFiniteSet(S), S \subseteq Nat, NEW i \in S, NEW k,
         Cardinality(UpTo(S, i)) = k
  PROVE  T!Nth(S, k) = i
<1>1. k \in 1 .. Cardinality(S)
  BY RankIsBounded
<1>2. T!Nth(S, k) \in S /\ Cardinality(UpTo(S, T!Nth(S, k))) = k
  BY <1>1, NthIsElement
<1> DEFINE j == T!Nth(S, k)
<1> HIDE DEF j
<1>3. j \in S /\ Cardinality(UpTo(S, j)) = k /\ i \in Nat /\ j \in Nat
  BY <1>2 DEF j
<1>4. ASSUME i < j PROVE FALSE
  <2>1. Cardinality(UpTo(S, i)) \in Nat /\ Cardinality(UpTo(S, i)) < Cardinality(UpTo(S, j))
    BY <1>3, <1>4, RankGrows
  <2> QED
    BY <1>3, <2>1
<1>5. ASSUME j < i PROVE FALSE
  <2>1. Cardinality(UpTo(S, i)) \in Nat /\ Cardinality(UpTo(S, j)) < Cardinality(UpTo(S, i))
    BY <1>3, <1>5, RankGrows
  <2> QED
    BY <1>3, <2>1
<1> QED
  BY <1>3, <1>4, <1>5 DEF j

(* The elements come in order, with none in between and none after the last. *)
LEMMA NthIncreases ==
  ASSUME NEW S, IsFiniteSet(S), S \subseteq Nat,
         NEW k \in 1 .. Cardinality(S), NEW l \in 1 .. Cardinality(S), k < l
  PROVE  T!Nth(S, k) < T!Nth(S, l)
<1> DEFINE i == T!Nth(S, k)
           j == T!Nth(S, l)
<1>1. i \in S /\ j \in S /\ Cardinality(UpTo(S, i)) = k /\ Cardinality(UpTo(S, j)) = l
  BY NthIsElement
<1> HIDE DEF i, j
<1>2. i \in Nat /\ j \in Nat /\ k \in Nat /\ l \in Nat
  BY <1>1, FS_CardinalityType
<1>3. ASSUME j < i PROVE FALSE
  <2>1. Cardinality(UpTo(S, j)) < Cardinality(UpTo(S, i))
    BY <1>1, <1>2, <1>3, RankGrows
  <2> QED
    BY <1>1, <1>2, <2>1
<1>4. i # j
  BY <1>1, <1>2
<1> QED
  BY <1>2, <1>3, <1>4 DEF i, j

LEMMA NthIsNext ==
  ASSUME NEW S, IsFiniteSet(S), S \subseteq Nat, NEW i \in S
  PROVE  LET k == Cardinality(UpTo(S, i))
         IN  /\ k \in 1 .. Cardinality(S) /\ i = T!Nth(S, k)
             /\ k < Cardinality(S) => i < T!Nth(S, k + 1)
<1> DEFINE k == Cardinality(UpTo(S, i))
<1>1. k \in 1 .. Cardinality(S) /\ T!Nth(S, k) = i
  BY RankIsBounded, NthIsUnique
<1> HIDE DEF k
<1>2. k < Cardinality(S) => T!Nth(S, k) < T!Nth(S, k + 1)
  <2> SUFFICES ASSUME k < Cardinality(S) PROVE T!Nth(S, k) < T!Nth(S, k + 1)
    OBVIOUS
  <2>1. Cardinality(S) \in Nat
    BY FS_CardinalityType
  <2>2. k + 1 \in 1 .. Cardinality(S) /\ k < k + 1
    BY <1>1, <2>1
  <2> QED
    BY <1>1, <2>2, NthIncreases
<1> QED
  BY <1>1, <1>2 DEF k

-----------------------------------------------------------------------------
(* The lines of a piece of the output.                                      *)
Newlines(s) == Cardinality(T!Ends(s))
Shorter(n) == IF MaxLine < n THEN MaxLine ELSE n

LEMMA EndsAreFinite ==
  ASSUME NEW s \in Seq(Nat)
  PROVE  /\ IsFiniteSet(T!Ends(s)) /\ T!Ends(s) \subseteq Nat /\ Newlines(s) \in Nat
         /\ T!Ends(s) \subseteq 1 .. Len(s) /\ Len(s) \in Nat
         /\ T!Cardinality(T!Ends(s)) = Newlines(s)
<1>1. /\ T!Ends(s) \subseteq 1 .. Len(s) /\ T!Ends(s) \subseteq Nat /\ Len(s) \in Nat
  BY DEF T!Ends
<1>2. IsFiniteSet(1 .. Len(s))
  BY <1>1, FS_Interval
<1>3. IsFiniteSet(T!Ends(s))
  BY <1>1, <1>2, FS_Subset
<1> QED
  BY <1>1, <1>3, FS_CardinalityType, SameCardinality DEF Newlines

LEMMA EndFacts ==
  ASSUME NEW s \in Seq(Nat)
  PROVE  /\ T!End(s, 0) = 0
         /\ \A k \in 0 .. Newlines(s) : T!End(s, k) \in 0 .. Len(s)
         /\ \A k \in 1 .. Newlines(s) :
              /\ T!End(s, k) \in T!Ends(s) /\ T!End(s, k - 1) < T!End(s, k)
              /\ Cardinality(UpTo(T!Ends(s), T!End(s, k))) = k
              /\ \A j \in T!Ends(s) : j <= T!End(s, k - 1) \/ T!End(s, k) <= j
         /\ \A j \in T!Ends(s) : j <= T!End(s, Newlines(s))
<1> DEFINE E == T!Ends(s)
           n == Newlines(s)
<1>1. IsFiniteSet(E) /\ E \subseteq Nat /\ n \in Nat /\ E \subseteq 1 .. Len(s) /\ Len(s) \in Nat
  BY EndsAreFinite
<1>2. n = Cardinality(E)
  BY DEF Newlines
<1>3. T!End(s, 0) = 0
  BY DEF T!End
<1>4. \A k \in 1 .. n : T!End(s, k) = T!Nth(E, k)
  BY <1>1 DEF T!End
<1> HIDE DEF E, n
<1>5. \A k \in 1 .. n : T!End(s, k) \in E /\ Cardinality(UpTo(E, T!End(s, k))) = k
  BY <1>1, <1>2, <1>4, NthIsElement
<1>6. \A k \in 0 .. n : T!End(s, k) \in 0 .. Len(s)
  <2>1. \A k \in 0 .. n : k = 0 \/ k \in 1 .. n
    BY <1>1
  <2>2. \A k \in 1 .. n : T!End(s, k) \in 0 .. Len(s)
    <3>1. E \subseteq 0 .. Len(s)
      BY <1>1
    <3> QED
      BY <1>5, <3>1, Zenon
  <2>3. 0 \in 0 .. Len(s)
    BY <1>1
  <2> QED
    BY <1>3, <2>1, <2>2, <2>3
<1>7. ASSUME NEW k \in 1 .. n PROVE T!End(s, k - 1) < T!End(s, k)
  <2>1. CASE k = 1
    <3>1. T!End(s, k) \in 1 .. Len(s)
      BY <1>1, <1>5
    <3> QED
      BY <1>1, <1>3, <2>1, <3>1
  <2>2. CASE k # 1
    <3>1. k - 1 \in 1 .. n /\ k - 1 < k
      BY <1>1, <2>2
    <3> QED
      BY <1>1, <1>2, <1>4, <3>1, NthIncreases
  <2> QED
    BY <2>1, <2>2
<1>8. ASSUME NEW k \in 1 .. n, NEW j \in E
      PROVE  j <= T!End(s, k - 1) \/ T!End(s, k) <= j
  <2> SUFFICES ASSUME T!End(s, k - 1) < j, j < T!End(s, k) PROVE FALSE
    <3>1. j \in Nat /\ k - 1 \in 0 .. n /\ k \in 0 .. n
      BY <1>1
    <3>2. T!End(s, k) \in Nat /\ T!End(s, k - 1) \in Nat
      BY <1>6, <3>1
    <3> QED
      BY <3>1, <3>2
  <2>1. j \in Nat /\ k \in Nat
    BY <1>1
  <2>2. /\ Cardinality(UpTo(E, j)) \in Nat
        /\ Cardinality(UpTo(E, j)) < Cardinality(UpTo(E, T!End(s, k)))
    BY <1>1, <1>5, <2>1, RankGrows
  <2>3. Cardinality(UpTo(E, j)) < k
    BY <1>5, <2>2
  <2>4. Cardinality(UpTo(E, j)) >= 1
    <3>1. Cardinality(UpTo(E, j)) \in 1 .. Cardinality(E)
      BY <1>1, RankIsBounded
    <3> QED
      BY <3>1
  <2>5. k - 1 \in 1 .. n
    BY <1>1, <2>2, <2>3, <2>4
  <2>6. T!End(s, k - 1) \in Nat
    BY <1>1, <1>5, <2>5
  <2>7. Cardinality(UpTo(E, T!End(s, k - 1))) < Cardinality(UpTo(E, j))
    BY <1>1, <2>6, RankGrows
  <2> QED
    BY <1>5, <2>1, <2>2, <2>3, <2>5, <2>7
<1>9. ASSUME NEW j \in E PROVE j <= T!End(s, n)
  <2>1. /\ Cardinality(UpTo(E, j)) \in 1 .. n /\ j \in Nat
    BY <1>1, <1>2, RankIsBounded
  <2>2. n \in 1 .. n
    BY <1>1, <2>1
  <2>3. T!End(s, n) \in Nat
    BY <1>1, <1>5, <2>2
  <2>4. CASE T!End(s, n) < j
    <3>1. Cardinality(UpTo(E, T!End(s, n))) < Cardinality(UpTo(E, j))
      BY <1>1, <2>3, <2>4, RankGrows
    <3> QED
      BY <1>1, <1>5, <2>1, <2>2, <3>1
  <2> QED
    BY <2>1, <2>3, <2>4
<1> QED
  BY <1>3, <1>5, <1>6, <1>7, <1>8, <1>9 DEF E, n

LEMMA PieceFacts ==
  ASSUME NEW S, NEW s \in Seq(S), NEW i \in 1 .. Len(s) + 1, NEW j \in 0 .. Len(s), i <= j + 1
  PROVE  /\ SubSeq(s, i, j) \in Seq(S) /\ Len(SubSeq(s, i, j)) = j - i + 1
         /\ \A k \in 1 .. j - i + 1 : SubSeq(s, i, j)[k] = s[i + k - 1]
<1>1. \A k \in 1 .. j - i + 1 : i + k - 1 \in 1 .. Len(s) /\ s[i + k - 1] \in S
  OBVIOUS
<1>2. SubSeq(s, i, j) = [k \in 1 .. j - i + 1 |-> s[i + k - 1]]
  OBVIOUS
<1>3. j - i + 1 \in Nat
  OBVIOUS
<1> QED
  BY <1>1, <1>2, <1>3

LEMMA NextPiece ==
  ASSUME NEW S, NEW s \in Seq(S), NEW a \in 0 .. Len(s), NEW m \in 0 .. Len(s) - a
  PROVE  /\ SubSeq(s, a + 1, a + m) \in Seq(S) /\ Len(SubSeq(s, a + 1, a + m)) = m
         /\ \A k \in 1 .. m : SubSeq(s, a + 1, a + m)[k] = s[a + k]
<1>1. /\ a + 1 \in 1 .. Len(s) + 1 /\ a + m \in 0 .. Len(s) /\ a + 1 <= a + m + 1
      /\ a + m - (a + 1) + 1 = m /\ \A k \in 1 .. m : a + 1 + k - 1 = a + k
  OBVIOUS
<1> DEFINE i == a + 1
           j == a + m
<1> HIDE DEF i, j
<1>2. /\ SubSeq(s, i, j) \in Seq(S) /\ Len(SubSeq(s, i, j)) = j - i + 1
      /\ \A k \in 1 .. j - i + 1 : SubSeq(s, i, j)[k] = s[i + k - 1]
  BY <1>1, PieceFacts DEF i, j
<1> QED
  BY <1>1, <1>2 DEF i, j

LEMMA JoinFacts ==
  ASSUME NEW S, NEW s \in Seq(S), NEW t \in Seq(S)
  PROVE  /\ s \o t \in Seq(S) /\ Len(s \o t) = Len(s) + Len(t)
         /\ \A i \in 1 .. Len(s) : (s \o t)[i] = s[i]
         /\ \A i \in 1 .. Len(t) : (s \o t)[Len(s) + i] = t[i]
<1>1. Len(s) \in Nat /\ Len(t) \in Nat
  OBVIOUS
<1>2. /\ s \o t \in Seq(S) /\ Len(s \o t) = Len(s) + Len(t)
      /\ \A i \in 1 .. Len(s) : (s \o t)[i] = s[i]
      /\ \A i \in Len(s) + 1 .. Len(s) + Len(t) : (s \o t)[i] = t[i - Len(s)]
  OBVIOUS
<1>3. \A i \in 1 .. Len(t) : Len(s) + i \in Len(s) + 1 .. Len(s) + Len(t) /\ Len(s) + i - Len(s) = i
  BY <1>1
<1> QED
  BY <1>2, <1>3

LEMMA CutFacts ==
  ASSUME NEW l \in Seq(Nat)
  PROVE  /\ T!Cut(l) \in Seq(Nat) /\ Len(T!Cut(l)) = Shorter(Len(l))
         /\ \A i \in 1 .. Len(T!Cut(l)) : T!Cut(l)[i] = l[i]
  BY TailAssumption DEF T!Cut, Shorter

(* What is captured of a line of s.                                         *)
LEMMA LinesFacts ==
  ASSUME NEW s \in Seq(Nat), NEW k \in 1 .. Newlines(s)
  PROVE  LET c == T!Cut(T!Lines(s)[k])
         IN  /\ c \in Seq(Nat) /\ Len(c) = Shorter(T!End(s, k) - T!End(s, k - 1) - 1)
             /\ \A i \in 1 .. Len(c) : c[i] = s[T!End(s, k - 1) + i]
<1> DEFINE a == T!End(s, k - 1)
           b == T!End(s, k)
           l == SubSeq(s, a + 1, b - 1)
<1>1. a \in 0 .. Len(s) /\ b \in 1 .. Len(s) /\ a < b /\ Len(s) \in Nat
  <2>1. k - 1 \in 0 .. Newlines(s) /\ k \in 0 .. Newlines(s)
    BY EndsAreFinite
  <2> QED
    BY <2>1, EndFacts
<1>2. T!Lines(s)[k] = l
  BY EndsAreFinite DEF T!Lines
<1> HIDE DEF a, b
<1>3. l \in Seq(Nat) /\ Len(l) = b - a - 1 /\ \A i \in 1 .. Len(l) : l[i] = s[a + i]
  <2>1. a + 1 \in 1 .. Len(s) + 1 /\ b - 1 \in 0 .. Len(s) /\ a + 1 <= b
        /\ \A i \in 1 .. b - 1 - a : a + 1 + i - 1 = a + i
    BY <1>1
  <2> QED
    BY <1>1, <2>1, PieceFacts
<1> HIDE DEF l
<1>4. /\ T!Cut(l) \in Seq(Nat) /\ Len(T!Cut(l)) = Shorter(b - a - 1)
      /\ \A i \in 1 .. Len(T!Cut(l)) : T!Cut(l)[i] = l[i]
  BY <1>3, CutFacts
<1>5. Len(T!Cut(l)) <= Len(l) /\ Len(T!Cut(l)) \in Nat
  BY <1>1, <1>3, <1>4, TailAssumption DEF Shorter
<1>6. \A i \in 1 .. Len(T!Cut(l)) : T!Cut(l)[i] = s[a + i]
  BY <1>3, <1>4, <1>5
<1> QED
  BY <1>2, <1>4, <1>6 DEF a, b

-----------------------------------------------------------------------------
(* What the files, the copy and the carry are at each phase of the pump.    *)
Src == archives[Len(archives)]
Within(f) == \A i \in DOMAIN f : f[i] \in 1 .. Len(out)
Sorted(f) == \A i, j \in DOMAIN f : i < j => f[i] < f[j]
Broken(f) == \A i \in DOMAIN f : ~out[f[i]]

TailTypes ==
  /\ out \in Seq(BOOLEAN) /\ live \in Seq(Nat) /\ copy \in Seq(Nat) /\ carry \in Seq(Nat)
  /\ archives \in Seq(Seq(Nat)) /\ captured \in Seq(Seq(Nat))
  /\ pc \in {"idle", "copy", "again", "truncate", "read"}
  /\ rotated \in BOOLEAN /\ offset \in Int
  /\ Within(copy) /\ Within(carry)
  /\ \A k \in DOMAIN archives : Within(archives[k])
  /\ \A k \in DOMAIN captured : Within(captured[k])

(* The file is the end of the output.                                       *)
LiveIsLatest ==
  Len(live) <= Len(out) /\ \A i \in DOMAIN live : live[i] = Len(out) - Len(live) + i

(* The carry has no newline, and is there only before the first read of a   *)
(* new file.                                                                *)
CarryIsHalf ==
  /\ Len(carry) <= MaxLine /\ Broken(carry)
  /\ carry # << >> => offset = 0

(* The copy was made before the bytes that it has not.                      *)
CopyIsOlder ==
  /\ Sorted(copy)
  /\ \A i \in DOMAIN copy, j \in DOMAIN live : j > Len(copy) => copy[i] < live[j]

Phases ==
  /\ rotated => pc = "read" /\ archives # << >>
  /\ pc # "read" => offset >= 0
  /\ copy # << >> <=> pc \in {"again", "truncate"}

ShapeInv == TailTypes /\ LiveIsLatest /\ CarryIsHalf /\ CopyIsOlder /\ Phases

(* Every byte captured or carried is older than b.  A byte of a file is     *)
(* unread beyond the offset, or when the file has shrunk below it.          *)
Taken(b) ==
  /\ \A k \in DOMAIN captured : \A i \in DOMAIN captured[k] : captured[k][i] < b
  /\ \A i \in DOMAIN carry : carry[i] < b
Unread(f, j) == j \in DOMAIN f /\ (offset < j \/ Len(f) < offset)

CapturedInOrder ==
  \A k, l \in DOMAIN captured : \A i \in DOMAIN captured[k], j \in DOMAIN captured[l] :
    k < l \/ (k = l /\ i < j) => captured[k][i] < captured[l][j]

CarryIsNext ==
  /\ Sorted(carry)
  /\ \A k \in DOMAIN captured : \A i \in DOMAIN captured[k], j \in DOMAIN carry :
       captured[k][i] < carry[j]

(* The bytes that a later read may get are newer than those taken, in the   *)
(* file, in a copy that may become an archive, and in the archive that is   *)
(* read next, all of which is older than the new file.                      *)
UnreadIsNewer ==
  /\ ~rotated => \A j \in DOMAIN live : Unread(live, j) => Taken(live[j])
  /\ \A j \in DOMAIN copy : Unread(copy, j) => Taken(copy[j])
  /\ rotated =>
       /\ Sorted(Src) /\ \A j \in DOMAIN Src : Unread(Src, j) => Taken(Src[j])
       /\ \A j \in DOMAIN live : Taken(live[j]) /\ \A i \in DOMAIN Src : Src[i] < live[j]

OrderInv == "error" \notin losses => CapturedInOrder /\ CarryIsNext /\ UnreadIsNewer

(* Where what is being read begins in the output, how far it was read, and  *)
(* where the last captured line ends.                                       *)
Begin == Len(out) - Len(live) - (IF rotated THEN Len(Src) ELSE 0)
Place == Begin + offset
LastEnd == T!End(T!Output, Len(captured))

CapturedIsWritten ==
  /\ Len(captured) <= Newlines(T!Output)
  /\ \A k \in DOMAIN captured : captured[k] = T!Written[k]

(* No line ends between the last captured one and the place of the pump,    *)
(* and the carry is what is there, cut.                                     *)
CarryIsRest ==
  /\ LastEnd <= Place
  /\ \A b \in LastEnd + 1 .. Place : ~out[b]
  /\ Len(carry) = Shorter(Place - LastEnd)
  /\ \A i \in DOMAIN carry : carry[i] = LastEnd + i

(* The source of the next read holds the output from Begin on, and one read *)
(* gets all that an archive has left.                                       *)
NothingSkipped ==
  /\ 0 <= offset /\ 0 <= Begin
  /\ ~rotated => offset <= Len(live)
  /\ rotated =>
       /\ offset <= Len(Src) /\ Len(Src) - offset <= MaxBatch - Len(carry)
       /\ \A i \in DOMAIN Src : Src[i] = Begin + i
  /\ Len(copy) <= Len(live) /\ \A i \in DOMAIN copy : copy[i] = live[i]
  /\ pc \in {"again", "truncate"} => offset <= Len(copy)

LinesInv == losses = {} => CapturedIsWritten /\ CarryIsRest /\ NothingSkipped


-----------------------------------------------------------------------------
LEMMA EmptyFacts ==
  /\ << >> \in Seq(Nat) /\ << >> \in Seq(Seq(Nat)) /\ << >> \in Seq(BOOLEAN)
  /\ Len(<< >>) = 0 /\ DOMAIN << >> = {}
  OBVIOUS

LEMMA SizeFacts ==
  ASSUME TailTypes
  PROVE  /\ Len(out) \in Nat /\ DOMAIN out = 1 .. Len(out)
         /\ Len(live) \in Nat /\ DOMAIN live = 1 .. Len(live)
         /\ Len(copy) \in Nat /\ DOMAIN copy = 1 .. Len(copy)
         /\ Len(carry) \in Nat /\ DOMAIN carry = 1 .. Len(carry)
         /\ Len(archives) \in Nat /\ DOMAIN archives = 1 .. Len(archives)
         /\ Len(captured) \in Nat /\ DOMAIN captured = 1 .. Len(captured)
  BY DEF TailTypes

LEMMA InitHasShape == T!Init => ShapeInv
<1> SUFFICES ASSUME T!Init PROVE ShapeInv
  OBVIOUS
<1>1. TailTypes
  <2>1. /\ out \in Seq(BOOLEAN) /\ live \in Seq(Nat) /\ copy \in Seq(Nat) /\ carry \in Seq(Nat)
        /\ archives \in Seq(Seq(Nat)) /\ captured \in Seq(Seq(Nat))
        /\ DOMAIN copy = {} /\ DOMAIN carry = {} /\ DOMAIN archives = {} /\ DOMAIN captured = {}
    BY EmptyFacts, Zenon DEF T!Init
  <2>2. /\ pc \in {"idle", "copy", "again", "truncate", "read"} /\ rotated \in BOOLEAN
        /\ offset \in Int
    <3>1. rotated \in BOOLEAN
      BY Zenon DEF T!Init
    <3>2. pc = "idle" /\ offset = 0
      BY Zenon DEF T!Init
    <3> QED
      BY <3>1, <3>2
  <2> QED
    BY <2>1, <2>2 DEF TailTypes, Within
<1>2. LiveIsLatest /\ CarryIsHalf
  BY EmptyFacts, TailAssumption DEF T!Init, LiveIsLatest, CarryIsHalf, Broken
<1>3. CopyIsOlder /\ Phases
  BY EmptyFacts DEF T!Init, CopyIsOlder, Phases, Sorted
<1> QED
  BY <1>1, <1>2, <1>3 DEF ShapeInv

LEMMA WriteKeepsShape ==
  ASSUME ShapeInv, NEW newline \in BOOLEAN, T!Write(newline)
  PROVE  ShapeInv'
<1> USE DEF ShapeInv, TailTypes
<1>1. /\ out' = Append(out, newline) /\ live' = Append(live, Len(out) + 1)
      /\ UNCHANGED <<archives, pc, copy, rotated, offset, carry, captured>>
  BY DEF T!Write, T!pump
<1>2. /\ Len(out) \in Nat /\ Len(out') = Len(out) + 1 /\ out' \in Seq(BOOLEAN)
      /\ \A b \in 1 .. Len(out) : out'[b] = out[b]
      /\ live' \in Seq(Nat) /\ Len(live) \in Nat /\ Len(live') = Len(live) + 1
      /\ \A i \in 1 .. Len(live) : live'[i] = live[i]
      /\ live'[Len(live) + 1] = Len(out) + 1
      /\ DOMAIN live = 1 .. Len(live) /\ DOMAIN live' = 1 .. Len(live) + 1
      /\ DOMAIN copy = 1 .. Len(copy) /\ Len(copy) \in Nat
  BY <1>1
<1>3. TailTypes'
  BY <1>1, <1>2 DEF Within
<1>4. LiveIsLatest'
  <2>1. \A i \in 1 .. Len(live) + 1 : i \in 1 .. Len(live) \/ i = Len(live) + 1
    BY <1>2
  <2>2. \A i \in 1 .. Len(live) : live[i] = Len(out) - Len(live) + i
    BY <1>2 DEF LiveIsLatest
  <2>3. ASSUME NEW i \in 1 .. Len(live) + 1
        PROVE  live'[i] = (Len(out) + 1) - (Len(live) + 1) + i
    <3>1. CASE i \in 1 .. Len(live)
      <4>1. live'[i] = Len(out) - Len(live) + i
        BY <1>2, <2>2, <3>1
      <4> QED
        BY <1>2, <4>1
    <3>2. CASE i = Len(live) + 1
      BY <1>2, <3>2
    <3> QED
      BY <2>1, <3>1, <3>2
  <2> QED
    BY <1>2, <2>3 DEF LiveIsLatest
<1>5. CarryIsHalf'
  BY <1>1, <1>2 DEF CarryIsHalf, Broken, Within
<1>6. CopyIsOlder'
  <2>1. \A i \in DOMAIN copy : copy[i] < Len(out) + 1
    BY <1>2 DEF Within
  <2>2. \A j \in 1 .. Len(live) + 1 : j \in 1 .. Len(live) \/ j = Len(live) + 1
    BY <1>2
  <2>3. \A i \in DOMAIN copy, j \in DOMAIN live' : j > Len(copy) => copy[i] < live'[j]
    BY <1>2, <2>1, <2>2 DEF CopyIsOlder
  <2> QED
    BY <1>1, <2>3 DEF CopyIsOlder, Sorted
<1> QED
  BY <1>1, <1>3, <1>4, <1>5, <1>6 DEF Phases

LEMMA FlushKeepsShape ==
  ASSUME ShapeInv, T!Flush
  PROVE  ShapeInv'
<1> USE DEF ShapeInv, TailTypes
<1>1. UNCHANGED <<out, pc, copy, rotated, offset, carry, captured>>
  BY DEF T!Flush, T!pump
<1>2. /\ live' = live \/ live' = << >>
      /\ archives' = archives \/ \E i \in DOMAIN archives : archives' = [archives EXCEPT ![i] = << >>]
  BY DEF T!Flush
<1>3. /\ archives' \in Seq(Seq(Nat)) /\ \A k \in DOMAIN archives' : Within(archives'[k])
      /\ archives # << >> => archives' # << >>
  <2>1. CASE archives' = archives
    BY <2>1
  <2>2. ASSUME NEW i \in DOMAIN archives, archives' = [archives EXCEPT ![i] = << >>]
        PROVE  /\ archives' \in Seq(Seq(Nat)) /\ \A k \in DOMAIN archives' : Within(archives'[k])
               /\ archives' # << >>
    <3>1. /\ DOMAIN archives' = DOMAIN archives /\ archives'[i] = << >>
          /\ \A k \in DOMAIN archives : k # i => archives'[k] = archives[k]
      BY <2>2
    <3>2. archives' \in Seq(Seq(Nat))
      BY <2>2, EmptyFacts
    <3>3. archives' # << >>
      BY <2>2, <3>1, EmptyFacts
    <3>4. ASSUME NEW k \in DOMAIN archives PROVE Within(archives'[k])
      BY <3>1, EmptyFacts DEF Within
    <3>5. \A k \in DOMAIN archives' : Within(archives'[k])
      BY <3>1, <3>4
    <3>6. out' = out
      BY <1>1
    <3> QED
      BY <3>2, <3>3, <3>5, <3>6 DEF Within
  <2> QED
    BY <1>2, <2>1, <2>2, Zenon
<1>4. live' \in Seq(Nat) /\ LiveIsLatest' /\ CopyIsOlder'
  <2>1. CASE live' = live
    BY <1>1, <2>1 DEF LiveIsLatest, CopyIsOlder, Sorted
  <2>2. CASE live' = << >>
    <3>1. Len(live') = 0 /\ DOMAIN live' = {} /\ Len(out) \in Nat
      BY <2>2, EmptyFacts, SizeFacts
    <3> QED
      BY <1>1, <2>2, <3>1, EmptyFacts DEF LiveIsLatest, CopyIsOlder, Sorted
  <2> QED
    BY <1>2, <2>1, <2>2
<1> QED
  BY <1>1, <1>3, <1>4 DEF Within, CarryIsHalf, Broken, Phases

LEMMA LookFacts ==
  ASSUME carry \in Seq(Nat), NEW size \in Nat, NEW from \in Int, NEW lost, T!Look(size, from, lost)
  PROVE  /\ pc' = "read" /\ losses \subseteq losses' /\ lost \subseteq losses'
         /\ \/ /\ size - from > MaxBatch - Len(carry) /\ "skip" \in losses'
               /\ offset' = size - MaxBatch /\ carry' = << >>
            \/ /\ size - from <= MaxBatch - Len(carry) /\ losses' = losses \cup lost
               /\ offset' = from /\ carry' = carry
<1>1. Len(carry) \in Nat
  OBVIOUS
<1> QED
  BY <1>1, TailAssumption DEF T!Look

(* The steps that leave the files and the lines alone.                      *)
LEMMA QuietKeepsShape ==
  ASSUME ShapeInv, UNCHANGED <<out, live, archives, captured>>,
         carry' = carry \/ carry' = << >>, copy' = copy \/ copy' = << >>,
         pc' \in {"idle", "copy", "again", "truncate", "read"}, rotated' \in BOOLEAN,
         offset' \in Int, Phases', carry' # << >> => offset' = 0
  PROVE  ShapeInv'
<1>1. TailTypes'
  BY EmptyFacts DEF ShapeInv, TailTypes, Within
<1>2. LiveIsLatest'
  BY DEF ShapeInv, LiveIsLatest
<1>3. CarryIsHalf'
  BY EmptyFacts, TailAssumption DEF ShapeInv, CarryIsHalf, Broken
<1>4. CopyIsOlder'
  BY EmptyFacts DEF ShapeInv, CopyIsOlder, Sorted
<1> QED
  BY <1>1, <1>2, <1>3, <1>4 DEF ShapeInv

LEMMA PollKeepsShape ==
  ASSUME ShapeInv, T!PollEmpty \/ T!PollGrown \/ T!PollRotates
  PROVE  ShapeInv'
<1>1. /\ UNCHANGED <<out, live, archives, captured, copy, rotated>> /\ pc = "idle"
      /\ Len(live) \in Nat /\ offset \in Int /\ carry \in Seq(Nat)
      /\ offset >= 0 /\ (carry # << >> => offset = 0)
      /\ T!Resumed \in Int /\ T!Resumed >= 0 /\ (carry # << >> => T!Resumed = 0)
  BY DEF ShapeInv, TailTypes, Phases, CarryIsHalf, T!PollEmpty, T!PollGrown, T!PollRotates, T!file,
     T!Resumed
<1>2. CASE T!PollEmpty
  <2>1. UNCHANGED <<pc, carry>> /\ offset' = 0
    BY <1>2 DEF T!PollEmpty
  <2> QED
    BY <1>1, <2>1, QuietKeepsShape DEF ShapeInv, TailTypes, Phases
<1>3. CASE T!PollGrown
  <2>1. T!Look(Len(live), T!Resumed, {})
    BY <1>3 DEF T!PollGrown
  <2>2. /\ pc' = "read"
        /\ \/ offset' = Len(live) - MaxBatch /\ carry' = << >>
           \/ offset' = T!Resumed /\ carry' = carry
    BY <1>1, <2>1, LookFacts
  <2> QED
    BY <1>1, <2>2, TailAssumption, QuietKeepsShape DEF ShapeInv, TailTypes, Phases
<1>4. CASE T!PollRotates
  <2>1. UNCHANGED carry /\ offset' = T!Resumed /\ pc' = "copy"
    BY <1>4 DEF T!PollRotates
  <2> QED
    BY <1>1, <2>1, QuietKeepsShape DEF ShapeInv, TailTypes, Phases
<1> QED
  BY <1>2, <1>3, <1>4

LEMMA FailureKeepsShape ==
  ASSUME ShapeInv, T!NotDue \/ T!CopyFails \/ T!SeekFails \/ T!ReadFails
  PROVE  ShapeInv'
<1>1. CASE T!NotDue \/ T!CopyFails
  <2>1. /\ pc \in {"copy", "again", "truncate"} /\ T!GivesUp
    BY <1>1 DEF T!NotDue, T!CopyFails
  <2>2. /\ UNCHANGED <<out, live, archives, captured, rotated>> /\ copy' = << >>
        /\ Len(live) \in Nat /\ offset \in Int /\ offset >= 0 /\ carry \in Seq(Nat) /\ ~rotated
        /\ (carry # << >> => offset = 0)
    BY <2>1 DEF T!GivesUp, T!file, ShapeInv, TailTypes, Phases, CarryIsHalf
  <2>3. \/ pc' = "idle" /\ UNCHANGED <<offset, carry>>
        \/ T!Look(Len(live), offset, {})
    BY <2>1 DEF T!GivesUp
  <2>4. \/ pc' = "idle" /\ UNCHANGED <<offset, carry>>
        \/ pc' = "read" /\ offset' = Len(live) - MaxBatch /\ carry' = << >>
        \/ pc' = "read" /\ offset' = offset /\ carry' = carry
    BY <2>2, <2>3, LookFacts
  <2>5. carry' = carry \/ carry' = << >>
    BY <2>4
  <2>6. offset' \in Int /\ (carry' # << >> => offset' = 0)
    BY <2>2, <2>4, TailAssumption
  <2>7. pc' \in {"idle", "read"} /\ (pc' = "idle" => offset' >= 0)
    BY <2>2, <2>4
  <2>8. rotated' \in BOOLEAN /\ ~rotated'
    BY <2>2, Zenon DEF ShapeInv, TailTypes
  <2>9. Phases'
    BY <2>2, <2>7, <2>8 DEF Phases
  <2> QED
    BY <2>2, <2>5, <2>6, <2>7, <2>8, <2>9, QuietKeepsShape
<1>2. CASE T!SeekFails \/ T!ReadFails
  <2>1. /\ UNCHANGED <<out, live, archives, captured, copy, carry>>
        /\ pc = "read" /\ pc' = "idle" /\ rotated' = FALSE /\ offset' = 0
    BY <1>2 DEF T!SeekFails, T!ReadFails, T!StartsOver, T!file
  <2>2. Phases'
    BY <2>1 DEF ShapeInv, Phases
  <2>3. /\ carry' = carry /\ copy' = copy /\ (carry' # << >> => offset' = 0)
        /\ pc' \in {"idle", "copy", "again", "truncate", "read"}
        /\ offset' \in Int
    BY <2>1
  <2>4. rotated' \in BOOLEAN
    BY <2>1, Zenon
  <2> QED
    BY <2>1, <2>2, <2>3, <2>4, QuietKeepsShape
<1> QED
  BY <1>1, <1>2

-----------------------------------------------------------------------------
(* The second copy goes on where the first one ended.                       *)
LEMMA CopyFacts ==
  ASSUME copy \in Seq(Nat), live \in Seq(Nat)
  PROVE  LET c == copy \o T!Uncopied
         IN  /\ c \in Seq(Nat)
             /\ Len(c) = IF Len(copy) < Len(live) THEN Len(live) ELSE Len(copy)
             /\ \A i \in 1 .. Len(copy) : c[i] = copy[i]
             /\ \A i \in Len(copy) + 1 .. Len(live) : c[i] = live[i]
             /\ T!Uncopied # << >> <=> Len(copy) < Len(live)
<1> DEFINE u == T!Uncopied
           m == Len(copy)
           n == Len(live)
<1>1. m \in Nat /\ n \in Nat
  OBVIOUS
<1>2. CASE m < n
  <2>1. m + 1 \in 1 .. n + 1 /\ n \in 0 .. n /\ m + 1 <= n + 1
    BY <1>1, <1>2
  <2>2. /\ u \in Seq(Nat) /\ Len(u) = n - m
        /\ \A k \in 1 .. n - m : u[k] = live[m + k]
    <3>1. /\ u \in Seq(Nat) /\ Len(u) = n - (m + 1) + 1
          /\ \A k \in 1 .. n - (m + 1) + 1 : u[k] = live[m + 1 + k - 1]
      BY <2>1, PieceFacts DEF T!Uncopied
    <3>2. n - (m + 1) + 1 = n - m /\ \A k \in 1 .. n - m : m + 1 + k - 1 = m + k
      BY <1>1
    <3> QED
      BY <3>1, <3>2
  <2> HIDE DEF u
  <2>3. /\ copy \o u \in Seq(Nat) /\ Len(copy \o u) = n
        /\ \A i \in 1 .. m : (copy \o u)[i] = copy[i]
        /\ \A i \in m + 1 .. n : (copy \o u)[i] = u[i - m]
    BY <1>1, <1>2, <2>2, SMTT(30)
  <2>4. \A i \in m + 1 .. n : i - m \in 1 .. n - m /\ m + (i - m) = i
    BY <1>1
  <2>5. u # << >>
    BY <1>1, <1>2, <2>2, EmptyFacts
  <2> QED
    BY <1>2, <2>2, <2>3, <2>4, <2>5 DEF u
<1>3. CASE ~(m < n)
  <2>1. u = << >>
    BY <1>1, <1>3 DEF T!Uncopied
  <2> HIDE DEF u
  <2>2. copy \o u = copy
    BY <2>1
  <2>3. \A i \in m + 1 .. n : FALSE
    BY <1>1, <1>3
  <2> QED
    BY <1>3, <2>1, <2>2, <2>3 DEF u
<1> QED
  BY <1>2, <1>3

LEMMA CopyKeepsShape ==
  ASSUME ShapeInv, T!Copy \/ T!CopyAgain \/ T!Truncate
  PROVE  ShapeInv'
<1>1. /\ Len(live) \in Nat /\ DOMAIN live = 1 .. Len(live)
      /\ Len(copy) \in Nat /\ DOMAIN copy = 1 .. Len(copy)
      /\ Len(out) \in Nat /\ Len(archives) \in Nat /\ DOMAIN archives = 1 .. Len(archives)
      /\ Len(live) <= Len(out) /\ \A i \in 1 .. Len(live) : live[i] = Len(out) - Len(live) + i
  BY SizeFacts DEF ShapeInv, LiveIsLatest
<1>2. CASE T!Copy
  <2>1. /\ UNCHANGED <<out, live, archives, rotated, offset, carry, captured>>
        /\ pc = "copy" /\ pc' = "again" /\ copy' = live /\ live # << >>
    <3>1. UNCHANGED <<out, live, archives, rotated, offset, carry, captured>>
          /\ pc = "copy" /\ pc' = "again" /\ copy' = live /\ T!RotationDue
      BY <1>2 DEF T!Copy, T!file
    <3>2. Len(live) > 0
      BY <1>1, <3>1, TailAssumption DEF T!RotationDue
    <3> QED
      BY <3>1, <3>2, EmptyFacts
  <2>2. Sorted(live) /\ Within(live)
    BY <1>1 DEF Sorted, Within
  <2>3. TailTypes'
    BY <2>1, <2>2 DEF ShapeInv, TailTypes, Within
  <2>4. CopyIsOlder'
    BY <1>1, <2>1, <2>2 DEF CopyIsOlder, Sorted
  <2> QED
    BY <2>1, <2>3, <2>4 DEF ShapeInv, LiveIsLatest, CarryIsHalf, Broken, Phases
<1>3. CASE T!CopyAgain
  <2>1. /\ UNCHANGED <<out, live, archives, rotated, offset, carry, captured>>
        /\ pc = "again" /\ pc' = "truncate" /\ copy' = copy \o T!Uncopied
    BY <1>3 DEF T!CopyAgain, T!file
  <2> DEFINE c == copy \o T!Uncopied
             n == IF Len(copy) < Len(live) THEN Len(live) ELSE Len(copy)
  <2>2. /\ c \in Seq(Nat) /\ Len(c) = n
        /\ \A i \in 1 .. Len(copy) : c[i] = copy[i]
        /\ \A i \in Len(copy) + 1 .. Len(live) : c[i] = live[i]
    BY CopyFacts DEF ShapeInv, TailTypes
  <2>3. copy' = c
    BY <2>1
  <2> HIDE DEF c
  <2>4. /\ DOMAIN c = 1 .. n
        /\ \A i \in 1 .. n : i \in 1 .. Len(copy) \/ i \in Len(copy) + 1 .. Len(live)
    BY <1>1, <2>2
  <2>5. Within(c)
    <3> SUFFICES ASSUME NEW i \in 1 .. n PROVE c[i] \in 1 .. Len(out)
      BY <2>4 DEF Within
    <3>1. CASE i \in 1 .. Len(copy)
      BY <1>1, <2>2, <3>1 DEF Within, ShapeInv, TailTypes
    <3>2. CASE i \in Len(copy) + 1 .. Len(live)
      <4>1. c[i] = Len(out) - Len(live) + i /\ i \in Nat /\ i >= 1 /\ i <= Len(live)
        BY <1>1, <2>2, <3>2
      <4> QED
        BY <1>1, <4>1
    <3> QED
      BY <2>4, <3>1, <3>2
  <2>6. Sorted(c)
    <3> SUFFICES ASSUME NEW i \in 1 .. n, NEW j \in 1 .. n, i < j PROVE c[i] < c[j]
      BY <2>4 DEF Sorted
    <3>1. CASE j \in 1 .. Len(copy)
      <4>1. i \in 1 .. Len(copy)
        BY <1>1, <3>1
      <4>2. copy[i] < copy[j]
        BY <1>1, <3>1, <4>1 DEF ShapeInv, CopyIsOlder, Sorted
      <4> QED
        BY <2>2, <3>1, <4>1, <4>2
    <3>2. CASE i \in 1 .. Len(copy) /\ j \in Len(copy) + 1 .. Len(live)
      <4>1. j \in 1 .. Len(live) /\ j > Len(copy)
        BY <1>1, <3>2
      <4>2. copy[i] < live[j]
        BY <1>1, <3>2, <4>1 DEF ShapeInv, CopyIsOlder
      <4> QED
        BY <2>2, <3>2, <4>2
    <3>3. CASE i \in Len(copy) + 1 .. Len(live) /\ j \in Len(copy) + 1 .. Len(live)
      BY <1>1, <2>2, <3>3
    <3> QED
      BY <1>1, <2>4, <3>1, <3>2, <3>3
  <2>7. \A j \in DOMAIN live : ~(j > Len(c))
    BY <1>1, <2>2
  <2>8. c # << >>
    <3>1. copy # << >>
      BY <2>1 DEF ShapeInv, Phases
    <3>2. Len(copy) # 0
      BY <3>1 DEF ShapeInv, TailTypes
    <3> QED
      BY <1>1, <2>2, <3>2, EmptyFacts
  <2>9. TailTypes'
    BY <2>1, <2>2, <2>3, <2>5 DEF ShapeInv, TailTypes, Within
  <2>10. CopyIsOlder'
    BY <2>1, <2>3, <2>6, <2>7 DEF CopyIsOlder, Sorted
  <2>11. Phases'
    BY <2>1, <2>3, <2>8 DEF ShapeInv, Phases
  <2> QED
    BY <2>1, <2>9, <2>10, <2>11 DEF ShapeInv, LiveIsLatest, CarryIsHalf, Broken
<1>4. CASE T!Truncate
  <2>1. /\ pc = "truncate" /\ live' = << >> /\ archives' = Append(archives, copy)
        /\ copy' = << >> /\ rotated' = TRUE /\ UNCHANGED <<out, captured>>
        /\ T!Look(Len(copy), offset, IF T!Uncopied # << >> THEN {"window"} ELSE {})
    BY <1>4 DEF T!Truncate
  <2>2. /\ pc' = "read"
        /\ \/ offset' = Len(copy) - MaxBatch /\ carry' = << >>
           \/ offset' = offset /\ carry' = carry
    <3>1. carry \in Seq(Nat) /\ Len(copy) \in Nat /\ offset \in Int
      BY DEF ShapeInv, TailTypes
    <3> QED
      BY <2>1, <3>1, LookFacts
  <2>3. /\ Append(archives, copy) \in Seq(Seq(Nat)) /\ Append(archives, copy) # << >>
        /\ \A k \in DOMAIN Append(archives, copy) : Within(Append(archives, copy)[k])
    <3>1. /\ copy \in Seq(Nat) /\ archives \in Seq(Seq(Nat)) /\ Within(copy)
          /\ \A k \in 1 .. Len(archives) : Within(archives[k])
      BY <1>1 DEF ShapeInv, TailTypes
    <3> DEFINE a == Append(archives, copy)
    <3>2. /\ a \in Seq(Seq(Nat)) /\ Len(a) = Len(archives) + 1
          /\ DOMAIN a = 1 .. Len(archives) + 1 /\ a[Len(archives) + 1] = copy
          /\ \A k \in 1 .. Len(archives) : a[k] = archives[k]
      BY <1>1, <3>1
    <3> HIDE DEF a
    <3>3. a # << >>
      BY <1>1, <3>2, EmptyFacts
    <3>4. \A k \in 1 .. Len(archives) + 1 : k \in 1 .. Len(archives) \/ k = Len(archives) + 1
      BY <1>1
    <3>5. \A k \in DOMAIN a : Within(a[k])
      BY <3>1, <3>2, <3>4, Zenon
    <3> QED
      BY <3>2, <3>3, <3>5 DEF a
  <2>4. TailTypes'
    <3>1. offset' \in Int /\ carry' \in Seq(Nat) /\ Within(carry')
      <4>1. offset \in Int /\ carry \in Seq(Nat) /\ Within(carry)
        BY DEF ShapeInv, TailTypes
      <4>2. out' = out
        BY <2>1
      <4>3. CASE offset' = Len(copy) - MaxBatch /\ carry' = << >>
        BY <1>1, <4>2, <4>3, EmptyFacts, TailAssumption DEF Within
      <4>4. CASE offset' = offset /\ carry' = carry
        BY <4>1, <4>2, <4>4 DEF Within
      <4> QED
        BY <2>2, <4>3, <4>4
    <3>2. rotated' \in BOOLEAN
      BY <2>1, Zenon
    <3>3. live' \in Seq(Nat) /\ copy' \in Seq(Nat) /\ DOMAIN copy' = {}
      BY <2>1, EmptyFacts, Zenon
    <3> QED
      BY <2>1, <2>2, <2>3, <3>1, <3>2, <3>3 DEF ShapeInv, TailTypes, Within
  <2>5. LiveIsLatest' /\ CopyIsOlder'
    BY <1>1, <2>1, EmptyFacts DEF LiveIsLatest, CopyIsOlder, Sorted
  <2>6. CarryIsHalf'
    BY <2>1, <2>2, EmptyFacts, TailAssumption DEF ShapeInv, CarryIsHalf, Broken
  <2>7. Phases'
    BY <2>1, <2>2, <2>3 DEF Phases
  <2> QED
    BY <2>4, <2>5, <2>6, <2>7 DEF ShapeInv
<1> QED
  BY <1>2, <1>3, <1>4

-----------------------------------------------------------------------------
(* A read gets what is carried over, then the bytes from the offset on.     *)
Batch ==
  IF MaxBatch - Len(carry) < Len(T!Source) - T!From
  THEN MaxBatch - Len(carry) ELSE Len(T!Source) - T!From

LEMMA GotFacts ==
  ASSUME ShapeInv, T!From >= 0
  PROVE  /\ T!Source \in Seq(Nat) /\ Within(T!Source) /\ Len(T!Source) \in Nat
         /\ T!From \in 0 .. Len(T!Source)
         /\ T!From = IF Len(T!Source) < offset THEN 0 ELSE offset
         /\ Batch \in 0 .. Len(T!Source) - T!From
         /\ T!Got \in Seq(Nat) /\ Len(T!Got) = Len(carry) + Batch /\ Len(carry) \in Nat
         /\ \A i \in 1 .. Len(carry) : T!Got[i] = carry[i]
         /\ \A i \in 1 .. Batch : T!Got[Len(carry) + i] = T!Source[T!From + i]
         /\ Within(T!Got)
<1> DEFINE f == T!Source
           a == T!From
           n == Len(f)
           p == SubSeq(f, a + 1, a + Batch)
<1>1. carry \in Seq(Nat) /\ Len(carry) \in Nat /\ Len(carry) <= MaxLine /\ offset \in Int /\ Within(carry)
  BY DEF ShapeInv, TailTypes, CarryIsHalf
<1>2. f \in Seq(Nat) /\ Within(f)
  <2>1. CASE rotated
    <3>1. Len(archives) \in Nat /\ Len(archives) # 0 /\ archives \in Seq(Seq(Nat))
          /\ \A k \in DOMAIN archives : Within(archives[k])
      BY <2>1 DEF ShapeInv, TailTypes, Phases
    <3>2. Len(archives) \in DOMAIN archives
      BY <3>1
    <3> QED
      BY <2>1, <3>1, <3>2 DEF T!Source
  <2>2. CASE ~rotated
    <3>1. Len(live) \in Nat /\ DOMAIN live = 1 .. Len(live) /\ live \in Seq(Nat) /\ Len(out) \in Nat
      BY SizeFacts DEF ShapeInv, TailTypes
    <3>2. Within(live)
      BY <3>1 DEF Within, ShapeInv, LiveIsLatest
    <3> QED
      BY <2>2, <3>1, <3>2 DEF T!Source
  <2> QED
    BY <2>1, <2>2
<1>3. n \in Nat
  BY <1>2
<1>4. a = IF n < offset THEN 0 ELSE offset
  BY DEF T!From
<1> HIDE DEF f
<1>5. a \in 0 .. n
  BY <1>1, <1>3, <1>4
<1>6. /\ Batch \in 0 .. n - a
      /\ Batch = IF MaxBatch - Len(carry) < n - a THEN MaxBatch - Len(carry) ELSE n - a
  BY <1>1, <1>3, <1>5, TailAssumption DEF Batch, f
<1>7. T!Got = carry \o p
  <2>1. (IF a + MaxBatch - Len(carry) < n THEN a + MaxBatch - Len(carry) ELSE n) = a + Batch
    BY <1>1, <1>3, <1>5, <1>6, TailAssumption
  <2> QED
    BY <2>1 DEF T!Got, f
<1> HIDE DEF a
<1>8. /\ p \in Seq(Nat) /\ Len(p) = Batch /\ Batch \in Nat
      /\ \A k \in 1 .. Batch : p[k] = f[a + k]
  <2>1. a \in 0 .. Len(f) /\ Batch \in 0 .. Len(f) - a /\ Batch \in Nat
    BY <1>3, <1>5, <1>6
  <2> QED
    BY <1>2, <2>1, NextPiece
<1> HIDE DEF p
<1>9. /\ carry \o p \in Seq(Nat) /\ Len(carry \o p) = Len(carry) + Batch
      /\ \A i \in 1 .. Len(carry) : (carry \o p)[i] = carry[i]
      /\ \A i \in 1 .. Batch : (carry \o p)[Len(carry) + i] = p[i]
  <2>1. /\ carry \o p \in Seq(Nat) /\ Len(carry \o p) = Len(carry) + Len(p)
        /\ \A i \in 1 .. Len(carry) : (carry \o p)[i] = carry[i]
        /\ \A i \in 1 .. Len(p) : (carry \o p)[Len(carry) + i] = p[i]
    <3>1. PICK q : q = p
      OBVIOUS
    <3>2. carry \in Seq(Nat) /\ q \in Seq(Nat)
      BY <1>1, <1>8, <3>1
    <3>3. /\ carry \o q \in Seq(Nat) /\ Len(carry \o q) = Len(carry) + Len(q)
          /\ \A i \in 1 .. Len(carry) : (carry \o q)[i] = carry[i]
          /\ \A i \in 1 .. Len(q) : (carry \o q)[Len(carry) + i] = q[i]
      BY <3>2, JoinFacts
    <3> QED
      BY <3>1, <3>3
  <2> QED
    BY <1>8, <2>1
<1>10. Within(carry \o p)
  <2> SUFFICES ASSUME NEW i \in 1 .. Len(carry) + Batch
               PROVE  (carry \o p)[i] \in 1 .. Len(out)
    BY <1>1, <1>8, <1>9 DEF Within
  <2>1. CASE i \in 1 .. Len(carry)
    BY <1>1, <1>9, <2>1 DEF Within
  <2>2. CASE i - Len(carry) \in 1 .. Batch
    <3>1. a + (i - Len(carry)) \in 1 .. n
      BY <1>3, <1>5, <1>6, <2>2
    <3>2. f[a + (i - Len(carry))] \in 1 .. Len(out)
      BY <1>2, <3>1 DEF Within
    <3>3. i = Len(carry) + (i - Len(carry))
      BY <1>1
    <3> QED
      BY <1>8, <1>9, <2>2, <3>2, <3>3
  <2> QED
    BY <1>1, <1>8, <2>1, <2>2
<1> QED
  BY <1>1, <1>2, <1>3, <1>4, <1>5, <1>6, <1>7, <1>8, <1>9, <1>10 DEF f, a

(* What a read changes.                                                     *)
Used == T!End(T!Got, Newlines(T!Got))

LEMMA ReadFacts ==
  ASSUME ShapeInv, T!Read
  PROVE  /\ UNCHANGED <<out, live, copy, losses>> /\ pc = "read" /\ pc' = "idle" /\ ~rotated'
         /\ rotated' = FALSE /\ T!From >= 0
         /\ Used \in 0 .. Len(T!Got) /\ Newlines(T!Got) \in Nat
         /\ captured' \in Seq(Seq(Nat)) /\ Len(captured') = Len(captured) + Newlines(T!Got)
         /\ \A k \in 1 .. Len(captured) : captured'[k] = captured[k]
         /\ \A k \in 1 .. Newlines(T!Got) :
              captured'[Len(captured) + k] = T!Cut(T!Lines(T!Got)[k])
         /\ rotated =>
              /\ carry' = T!Cut(SubSeq(T!Got, Used + 1, Len(T!Got))) /\ offset' = 0
              /\ archives' = T!Prune(archives)
         /\ ~rotated =>
              /\ carry' = IF Used > 0 THEN << >> ELSE carry
              /\ offset' = T!From + IF Used > Len(carry) THEN Used - Len(carry) ELSE 0
              /\ archives' = archives
<1> DEFINE g == T!Got
           lines == T!Lines(g)
           n == Newlines(g)
           cut == [k \in DOMAIN lines |-> T!Cut(lines[k])]
<1>1. g \in Seq(Nat) /\ T!From >= 0
  <2>1. T!From >= 0
    BY DEF T!Read
  <2> QED
    BY <2>1, GotFacts
<1>2. n \in Nat /\ T!Consumed(g) = Used /\ DOMAIN lines = 1 .. n
  BY <1>1, EndsAreFinite DEF T!Consumed, T!Lines, Used
<1>3. Used \in 0 .. Len(g)
  <2>1. n \in 0 .. n
    BY <1>2
  <2> QED
    BY <1>1, <2>1, EndFacts DEF Used
<1>4. captured' = captured \o cut
  BY DEF T!Read
<1>5. cut \in Seq(Seq(Nat)) /\ Len(cut) = n /\ \A k \in 1 .. n : cut[k] = T!Cut(lines[k])
  <2>1. \A k \in 1 .. n : T!Cut(lines[k]) \in Seq(Nat)
    BY <1>1, LinesFacts
  <2> HIDE DEF n, lines
  <2> QED
    BY <1>2, <2>1
<1>6. captured \in Seq(Seq(Nat))
  BY DEF ShapeInv, TailTypes
<1> HIDE DEF cut
<1>7. /\ captured' \in Seq(Seq(Nat)) /\ Len(captured') = Len(captured) + n
      /\ \A k \in 1 .. Len(captured) : captured'[k] = captured[k]
      /\ \A k \in 1 .. n : captured'[Len(captured) + k] = cut[k]
  <2> HIDE DEF n
  <2>1. /\ captured \o cut \in Seq(Seq(Nat)) /\ Len(captured \o cut) = Len(captured) + n
        /\ \A k \in 1 .. Len(captured) : (captured \o cut)[k] = captured[k]
        /\ \A k \in 1 .. n : (captured \o cut)[Len(captured) + k] = cut[k]
    BY <1>2, <1>5, <1>6
  <2> QED
    BY <1>4, <2>1
<1>8. /\ UNCHANGED <<out, live, copy, losses>> /\ pc = "read" /\ pc' = "idle"
      /\ rotated' = FALSE
  BY DEF T!Read
<1>9. /\ rotated =>
           /\ carry' = T!Cut(SubSeq(g, T!Consumed(g) + 1, Len(g))) /\ offset' = 0
           /\ archives' = T!Prune(archives)
      /\ ~rotated =>
           /\ carry' = IF T!Consumed(g) > 0 THEN << >> ELSE carry
           /\ offset' = T!From + IF T!Consumed(g) > Len(carry) THEN T!Consumed(g) - Len(carry) ELSE 0
           /\ archives' = archives
  BY DEF T!Read
<1> QED
  BY <1>1, <1>2, <1>3, <1>5, <1>7, <1>8, <1>9

(* What is carried over, and what is kept of the archives.                  *)
LEMMA RestFacts ==
  ASSUME NEW s \in Seq(Nat), NEW a \in 0 .. Len(s)
  PROVE  LET r == T!Cut(SubSeq(s, a + 1, Len(s)))
         IN  /\ r \in Seq(Nat) /\ Len(r) = Shorter(Len(s) - a) /\ Len(r) \in 0 .. Len(s) - a
             /\ Len(r) <= MaxLine
             /\ \A i \in 1 .. Len(r) : r[i] = s[a + i]
<1> DEFINE m == Len(s) - a
<1>1. Len(s) \in Nat /\ m \in 0 .. Len(s) - a /\ a + m = Len(s) /\ m \in Nat
  OBVIOUS
<1> HIDE DEF m
<1>2. PICK p : p = SubSeq(s, a + 1, a + m)
  OBVIOUS
<1>3. /\ SubSeq(s, a + 1, a + m) \in Seq(Nat) /\ Len(SubSeq(s, a + 1, a + m)) = m
      /\ \A k \in 1 .. m : SubSeq(s, a + 1, a + m)[k] = s[a + k]
  BY <1>1, NextPiece
<1>4. p \in Seq(Nat) /\ Len(p) = m /\ \A k \in 1 .. m : p[k] = s[a + k]
  BY <1>2, <1>3, Zenon
<1>5. /\ T!Cut(p) \in Seq(Nat) /\ Len(T!Cut(p)) = Shorter(m)
      /\ \A i \in 1 .. Len(T!Cut(p)) : T!Cut(p)[i] = p[i]
  BY <1>4, CutFacts
<1>6. Shorter(m) \in 0 .. m /\ Shorter(m) <= MaxLine
  BY <1>1, TailAssumption DEF Shorter
<1>7. \A i \in 1 .. Len(T!Cut(p)) : T!Cut(p)[i] = s[a + i]
  BY <1>1, <1>4, <1>5, <1>6
<1>8. p = SubSeq(s, a + 1, Len(s)) /\ m = Len(s) - a
  BY <1>1, <1>2 DEF m
<1> QED
  BY <1>5, <1>6, <1>7, <1>8

LEMMA PruneFacts ==
  ASSUME NEW S, NEW a \in Seq(S)
  PROVE  \E d \in 0 .. Len(a) :
           /\ T!Prune(a) \in Seq(S) /\ Len(T!Prune(a)) = Len(a) - d
           /\ \A k \in 1 .. Len(a) - d : T!Prune(a)[k] = a[d + k]
           /\ d = 0 \/ Len(a) - d = Retain
<1>1. Len(a) \in Nat
  OBVIOUS
<1>2. CASE Len(a) > Retain
  <2>1. PICK d : d = Len(a) - Retain
    OBVIOUS
  <2>2. /\ d \in 0 .. Len(a) /\ Retain \in 0 .. Len(a) - d /\ Len(a) - d = Retain
        /\ d + Retain = Len(a) /\ Len(a) - Retain + 1 = d + 1
    BY <1>1, <1>2, <2>1, TailAssumption
  <2>3. T!Prune(a) = SubSeq(a, d + 1, d + Retain)
    BY <1>2, <2>2 DEF T!Prune
  <2>4. /\ SubSeq(a, d + 1, d + Retain) \in Seq(S) /\ Len(SubSeq(a, d + 1, d + Retain)) = Retain
        /\ \A k \in 1 .. Retain : SubSeq(a, d + 1, d + Retain)[k] = a[d + k]
    BY <2>2, NextPiece
  <2> QED
    BY <2>2, <2>3, <2>4
<1>3. CASE ~(Len(a) > Retain)
  <2>1. T!Prune(a) = a
    BY <1>3 DEF T!Prune
  <2>2. 0 \in 0 .. Len(a) /\ Len(a) - 0 = Len(a) /\ \A k \in 1 .. Len(a) : 0 + k = k
    BY <1>1
  <2> QED
    BY <2>1, <2>2
<1> QED
  BY <1>2, <1>3

LEMMA ReadKeepsShape ==
  ASSUME ShapeInv, T!Read
  PROVE  ShapeInv'
<1> DEFINE g == T!Got
<1>1. /\ UNCHANGED <<out, live, copy>> /\ pc = "read" /\ pc' = "idle" /\ rotated' = FALSE
      /\ T!From >= 0 /\ Used \in 0 .. Len(g) /\ Newlines(g) \in Nat
      /\ captured' \in Seq(Seq(Nat)) /\ Len(captured') = Len(captured) + Newlines(g)
      /\ \A k \in 1 .. Len(captured) : captured'[k] = captured[k]
      /\ \A k \in 1 .. Newlines(g) : captured'[Len(captured) + k] = T!Cut(T!Lines(g)[k])
  BY ReadFacts
<1>2. /\ g \in Seq(Nat) /\ Within(g) /\ Len(g) \in Nat /\ T!From \in Nat
      /\ T!From = IF Len(T!Source) < offset THEN 0 ELSE offset
  BY <1>1, GotFacts
<1>3. /\ Len(captured) \in Nat /\ DOMAIN captured = 1 .. Len(captured)
      /\ Len(carry) \in Nat /\ Len(carry) <= MaxLine /\ carry \in Seq(Nat) /\ Within(carry)
      /\ offset \in Int /\ (carry # << >> => offset = 0) /\ Broken(carry)
  BY SizeFacts DEF ShapeInv, TailTypes, CarryIsHalf
<1> HIDE DEF g
<1>4. \A k \in DOMAIN captured' : Within(captured'[k])
  <2> SUFFICES ASSUME NEW k \in 1 .. Len(captured) + Newlines(g) PROVE Within(captured'[k])
    BY <1>1
  <2>1. CASE k \in 1 .. Len(captured)
    BY <1>1, <1>3, <2>1 DEF ShapeInv, TailTypes
  <2>2. CASE k - Len(captured) \in 1 .. Newlines(g)
    <3>1. PICK l \in 1 .. Newlines(g) : k = Len(captured) + l
      BY <1>3, <2>2
    <3>2. PICK c : c = T!Cut(T!Lines(g)[l])
      OBVIOUS
    <3>3. PICK a : a = T!End(g, l - 1)
      OBVIOUS
    <3>4. PICK b : b = T!End(g, l)
      OBVIOUS
    <3>5. /\ c \in Seq(Nat) /\ Len(c) = Shorter(b - a - 1) /\ \A i \in 1 .. Len(c) : c[i] = g[a + i]
      BY <1>2, <3>2, <3>3, <3>4, LinesFacts
    <3>6. a \in 0 .. Len(g) /\ b \in 1 .. Len(g) /\ a < b
      <4>1. l - 1 \in 0 .. Newlines(g) /\ l \in 0 .. Newlines(g)
        BY <1>1
      <4> QED
        BY <1>2, <3>3, <3>4, <4>1, EndFacts
    <3>7. \A i \in 1 .. Len(c) : a + i \in 1 .. Len(g)
      <4>1. Len(c) \in Nat /\ Len(c) <= b - a - 1
        BY <1>2, <3>5, <3>6, TailAssumption DEF Shorter
      <4> QED
        BY <1>2, <3>6, <4>1
    <3>8. DOMAIN c = 1 .. Len(c) /\ DOMAIN g = 1 .. Len(g)
      BY <1>2, <3>5
    <3>9. Within(c)
      BY <1>2, <3>5, <3>7, <3>8 DEF Within
    <3> QED
      BY <1>1, <3>1, <3>2, <3>9
  <2> QED
    BY <1>1, <1>3, <2>1, <2>2
<1>5. /\ carry' \in Seq(Nat) /\ Len(carry') <= MaxLine /\ offset' \in Int /\ offset' >= 0
      /\ (carry' # << >> => offset' = 0) /\ Within(carry')
      /\ Broken(carry)'
      /\ archives' \in Seq(Seq(Nat)) /\ \A k \in DOMAIN archives' : Within(archives'[k])
  <2>1. CASE rotated
    <3>1. carry' = T!Cut(SubSeq(g, Used + 1, Len(g))) /\ offset' = 0 /\ archives' = T!Prune(archives)
      BY <2>1, ReadFacts DEF g
    <3>2. PICK r : r = T!Cut(SubSeq(g, Used + 1, Len(g)))
      OBVIOUS
    <3>3. /\ r \in Seq(Nat) /\ Len(r) \in 0 .. Len(g) - Used /\ Len(r) <= MaxLine
          /\ \A i \in 1 .. Len(r) : r[i] = g[Used + i]
      BY <1>1, <1>2, <3>2, RestFacts
    <3>4. \A i \in 1 .. Len(r) : Used + i \in 1 .. Len(g) /\ ~(Used + i <= Used)
      BY <1>1, <1>2, <3>3
    <3>5. \A j \in T!Ends(g) : j <= Used
      BY <1>2, EndFacts DEF Used, g
    <3>6. \A i \in 1 .. Len(r) : Used + i \notin T!Ends(g)
      BY <3>4, <3>5
    <3>7. \A i \in 1 .. Len(r) : g[Used + i] \in 1 .. Len(out)
      BY <1>2, <3>3, <3>4 DEF Within
    <3>8. \A i \in 1 .. Len(r) : ~out[g[Used + i]]
      <4>1. DOMAIN g = 1 .. Len(g)
        BY <1>2
      <4> QED
        BY <3>4, <3>6, <4>1, Zenon DEF T!Ends
    <3>9. DOMAIN r = 1 .. Len(r)
      BY <3>3
    <3>10. Within(r)
      BY <3>3, <3>7, <3>9 DEF Within
    <3>11. Broken(r)
      BY <3>3, <3>8, <3>9, Zenon DEF Broken
    <3>12. Within(r) /\ Broken(r)
      BY <3>10, <3>11
    <3>13. archives' \in Seq(Seq(Nat)) /\ \A k \in DOMAIN archives' : Within(archives'[k])
      <4>1. /\ archives \in Seq(Seq(Nat)) /\ Len(archives) \in Nat
            /\ \A k \in 1 .. Len(archives) : Within(archives[k])
        BY SizeFacts DEF ShapeInv, TailTypes
      <4>2. PICK d \in 0 .. Len(archives) :
              /\ T!Prune(archives) \in Seq(Seq(Nat)) /\ Len(T!Prune(archives)) = Len(archives) - d
              /\ \A k \in 1 .. Len(archives) - d : T!Prune(archives)[k] = archives[d + k]
        BY <4>1, PruneFacts
      <4>3. \A k \in 1 .. Len(archives) - d : d + k \in 1 .. Len(archives)
        BY <4>1
      <4>4. PICK p : p = T!Prune(archives)
        OBVIOUS
      <4>5. DOMAIN p = 1 .. Len(archives) - d /\ p \in Seq(Seq(Nat))
        BY <4>1, <4>2, <4>4
      <4>6. \A k \in DOMAIN p : Within(p[k])
        BY <4>1, <4>2, <4>3, <4>4, <4>5
      <4>7. archives' = p /\ out' = out
        BY <1>1, <3>1, <4>4
      <4> QED
        BY <4>5, <4>6, <4>7 DEF Within
    <3>14. carry' = r /\ offset' = 0 /\ out' = out
      BY <1>1, <3>1, <3>2
    <3>15. Within(carry') /\ Broken(carry)'
      BY <3>12, <3>14 DEF Within, Broken
    <3> QED
      BY <3>3, <3>13, <3>14, <3>15
  <2>2. CASE ~rotated
    <3>1. /\ carry' = IF Used > 0 THEN << >> ELSE carry
          /\ offset' = T!From + IF Used > Len(carry) THEN Used - Len(carry) ELSE 0
          /\ archives' = archives
      BY <2>2, ReadFacts DEF g
    <3>2. archives \in Seq(Seq(Nat)) /\ \A k \in DOMAIN archives : Within(archives[k])
      BY DEF ShapeInv, TailTypes
    <3>3. Used \in Nat
      BY <1>1
    <3>4. CASE Used > 0
      <4>1. carry' = << >>
        BY <3>1, <3>4
      <4>2. offset' \in Int /\ offset' >= 0
        <5>1. PICK u : u = IF Used > Len(carry) THEN Used - Len(carry) ELSE 0
          OBVIOUS
        <5>2. u \in Nat
          BY <1>3, <3>3, <5>1
        <5>3. offset' = T!From + u
          BY <3>1, <5>1
        <5> QED
          BY <1>2, <5>2, <5>3
      <4>3. Within(carry') /\ Broken(carry)' /\ carry' \in Seq(Nat) /\ Len(carry') <= MaxLine
        BY <4>1, EmptyFacts, TailAssumption DEF Within, Broken
      <4>4. archives' \in Seq(Seq(Nat)) /\ \A k \in DOMAIN archives' : Within(archives'[k])
        BY <1>1, <3>1, <3>2 DEF Within
      <4> QED
        BY <4>1, <4>2, <4>3, <4>4
    <3>5. CASE ~(Used > 0)
      <4>1. carry' = carry
        BY <3>1, <3>5
      <4>2. offset = 0 => T!From = 0
        BY <1>2
      <4>3. offset' = T!From
        <5>1. ~(Used > Len(carry))
          BY <1>3, <3>3, <3>5
        <5> QED
          BY <1>2, <3>1, <5>1
      <4>4. archives' \in Seq(Seq(Nat)) /\ \A k \in DOMAIN archives' : Within(archives'[k])
        BY <1>1, <3>1, <3>2 DEF Within
      <4>5. Within(carry') /\ Broken(carry)'
        BY <1>1, <1>3, <4>1 DEF Within, Broken
      <4> QED
        BY <1>2, <1>3, <4>1, <4>2, <4>3, <4>4, <4>5
    <3> QED
      BY <3>4, <3>5
  <2> QED
    BY <2>1, <2>2
<1>6. TailTypes'
  <2>1. rotated' \in BOOLEAN
    BY <1>1, Zenon
  <2> QED
    BY <1>1, <1>4, <1>5, <2>1 DEF ShapeInv, TailTypes, Within
<1>7. LiveIsLatest' /\ CopyIsOlder' /\ CarryIsHalf'
  BY <1>1, <1>5 DEF ShapeInv, LiveIsLatest, CopyIsOlder, Sorted, CarryIsHalf
<1>8. Phases'
  BY <1>1, <1>5 DEF ShapeInv, Phases
<1> QED
  BY <1>6, <1>7, <1>8 DEF ShapeInv

LEMMA StepKeepsShape ==
  ASSUME ShapeInv, T!Next
  PROVE  ShapeInv'
  BY WriteKeepsShape, FlushKeepsShape, PollKeepsShape, FailureKeepsShape, CopyKeepsShape,
     ReadKeepsShape DEF T!Next, T!Pump

-----------------------------------------------------------------------------
(* No byte is taken twice: what is unread is newer than what was taken.      *)
LEMMA InitHasOrder == T!Init => OrderInv
<1> SUFFICES ASSUME T!Init PROVE CapturedInOrder /\ CarryIsNext /\ UnreadIsNewer
  BY DEF OrderInv
<1>1. /\ DOMAIN live = {} /\ DOMAIN copy = {} /\ DOMAIN carry = {} /\ DOMAIN captured = {}
      /\ ~rotated
  BY EmptyFacts, Zenon DEF T!Init
<1> QED
  BY <1>1 DEF CapturedInOrder, CarryIsNext, UnreadIsNewer, Sorted

LEMMA TakenStays ==
  ASSUME captured' = captured, carry' = carry \/ carry' = << >>
  PROVE  \A b : Taken(b) => Taken(b)'
  BY EmptyFacts DEF Taken

LEMMA WriteKeepsOrder ==
  ASSUME ShapeInv, OrderInv, NEW newline \in BOOLEAN, T!Write(newline)
  PROVE  OrderInv'
<1> SUFFICES ASSUME "error" \notin losses
             PROVE  CapturedInOrder' /\ CarryIsNext' /\ UnreadIsNewer'
  BY DEF OrderInv, T!Write
<1>1. CapturedInOrder /\ CarryIsNext /\ UnreadIsNewer
  BY DEF OrderInv
<1>2. /\ live' = Append(live, Len(out) + 1)
      /\ UNCHANGED <<archives, pc, copy, rotated, offset, carry, captured>>
  BY DEF T!Write, T!pump
<1>3. /\ live' \in Seq(Nat) /\ Len(live) \in Nat /\ Len(live') = Len(live) + 1
      /\ \A i \in 1 .. Len(live) : live'[i] = live[i]
      /\ live'[Len(live) + 1] = Len(out) + 1 /\ Len(out) \in Nat
      /\ DOMAIN live = 1 .. Len(live) /\ DOMAIN live' = 1 .. Len(live) + 1
      /\ Len(archives) \in Nat /\ offset \in Int
  BY <1>2 DEF ShapeInv, TailTypes
<1>4. Taken(Len(out) + 1)
  <2>1. Within(carry) /\ \A k \in DOMAIN captured : Within(captured[k])
    BY DEF ShapeInv, TailTypes
  <2> QED
    BY <1>3, <2>1 DEF Taken, Within
<1>5. \A j \in 1 .. Len(live) + 1 : j \in 1 .. Len(live) \/ j = Len(live) + 1
  BY <1>3
<1>6. \A b : Taken(b) => Taken(b)'
  BY <1>2, TakenStays
<1>7. ASSUME ~rotated, NEW j \in DOMAIN live', Unread(live, j)' PROVE Taken(live[j])'
  <2>1. CASE j = Len(live) + 1
    BY <1>2, <1>3, <1>4, <2>1 DEF Taken
  <2>2. CASE j \in 1 .. Len(live)
    <3>1. Unread(live, j)
      BY <1>2, <1>3, <1>7, <2>2 DEF Unread
    <3>2. Taken(live[j])
      BY <1>1, <1>3, <1>7, <2>2, <3>1 DEF UnreadIsNewer
    <3> QED
      BY <1>2, <1>3, <2>2, <3>2 DEF Taken
  <2> QED
    BY <1>3, <1>5, <2>1, <2>2
<1>8. ASSUME rotated
      PROVE  \A j \in DOMAIN live' : Taken(live[j])' /\ \A i \in DOMAIN Src : Src[i] < live'[j]
  <2> SUFFICES ASSUME NEW j \in 1 .. Len(live) + 1
               PROVE  Taken(live[j])' /\ \A i \in DOMAIN Src : Src[i] < live'[j]
    BY <1>3
  <2>1. CASE j = Len(live) + 1
    <3>1. \A i \in DOMAIN Src : Src[i] < Len(out) + 1
      <4>1. Len(archives) \in DOMAIN archives
        BY <1>3, <1>8 DEF ShapeInv, TailTypes, Phases
      <4>2. Within(Src)
        BY <4>1 DEF Src, ShapeInv, TailTypes
      <4> QED
        BY <1>3, <4>2 DEF Within
    <3> QED
      BY <1>2, <1>3, <1>4, <2>1, <3>1 DEF Taken
  <2>2. CASE j \in 1 .. Len(live)
    <3>1. Taken(live[j]) /\ \A i \in DOMAIN Src : Src[i] < live[j]
      BY <1>1, <1>3, <1>8, <2>2 DEF UnreadIsNewer
    <3> QED
      BY <1>2, <1>3, <2>2, <3>1 DEF Taken
  <2> QED
    BY <1>5, <2>1, <2>2
<1>9. UnreadIsNewer'
  <2>1. ~rotated' => \A j \in DOMAIN live' : Unread(live, j)' => Taken(live[j])'
    BY <1>2, <1>7
  <2>2. \A j \in DOMAIN copy' : Unread(copy, j)' => Taken(copy[j])'
    BY <1>1, <1>2 DEF UnreadIsNewer, Unread, Taken
  <2>3. rotated' =>
          /\ Sorted(Src)' /\ \A j \in DOMAIN Src' : Unread(Src, j)' => Taken(Src[j])'
          /\ \A j \in DOMAIN live' : Taken(live[j])' /\ \A i \in DOMAIN Src' : Src'[i] < live'[j]
    <3> SUFFICES ASSUME rotated'
                 PROVE  <2>3!2
      OBVIOUS
    <3>1. rotated /\ Src' = Src
      BY <1>2 DEF Src
    <3>2. Sorted(Src)' /\ \A j \in DOMAIN Src' : Unread(Src, j)' => Taken(Src[j])'
      BY <1>1, <1>2, <3>1 DEF UnreadIsNewer, Unread, Taken, Sorted
    <3> QED
      BY <1>8, <3>1, <3>2
  <2> QED
    BY <2>1, <2>2, <2>3 DEF UnreadIsNewer
<1> QED
  BY <1>1, <1>2, <1>9 DEF CapturedInOrder, CarryIsNext, Sorted

(* What a look leaves to be read was unread before it.                      *)
LEMMA LookIsNewer ==
  ASSUME ShapeInv, NEW f \in Seq(Nat), NEW from \in Int, NEW lost, T!Look(Len(f), from, lost),
         from = offset \/ (Len(f) < offset /\ from = 0)
  PROVE  /\ \A j \in DOMAIN f : offset' < j \/ Len(f) < offset' => Unread(f, j)
         /\ carry' = carry \/ carry' = << >>
<1>1. /\ carry \in Seq(Nat) /\ Len(carry) \in Nat /\ offset \in Int /\ Len(f) \in Nat
      /\ DOMAIN f = 1 .. Len(f) /\ (Len(carry) # 0 => offset = 0)
  BY EmptyFacts DEF ShapeInv, TailTypes, CarryIsHalf
<1>2. \/ /\ Len(f) - from > MaxBatch - Len(carry) /\ offset' = Len(f) - MaxBatch /\ carry' = << >>
      \/ offset' = from /\ carry' = carry
  BY <1>1, LookFacts
<1>3. ASSUME NEW j \in DOMAIN f, offset' < j \/ Len(f) < offset' PROVE Unread(f, j)
  BY <1>1, <1>2, <1>3, TailAssumption DEF Unread
<1> QED
  BY <1>2, <1>3

(* The steps that take nothing, and leave of the file in use only what was  *)
(* unread.                                                                  *)
LEMMA QuietKeepsOrder ==
  ASSUME OrderInv, UNCHANGED <<live, captured>>, carry' = carry \/ carry' = << >>,
         "error" \in losses => "error" \in losses', copy' = << >>, ~rotated, ~rotated',
         \A j \in DOMAIN live : offset' < j \/ Len(live) < offset' => Unread(live, j)
  PROVE  OrderInv'
<1> SUFFICES ASSUME "error" \notin losses'
             PROVE  CapturedInOrder' /\ CarryIsNext' /\ UnreadIsNewer'
  BY DEF OrderInv
<1>1. CapturedInOrder /\ CarryIsNext /\ UnreadIsNewer
  BY DEF OrderInv
<1>2. CapturedInOrder' /\ CarryIsNext'
  BY <1>1, EmptyFacts DEF CapturedInOrder, CarryIsNext, Sorted
<1>3. \A j \in DOMAIN live' : Unread(live, j)' => Taken(live[j])'
  <2> SUFFICES ASSUME NEW j \in DOMAIN live, Unread(live, j)' PROVE Taken(live[j])'
    OBVIOUS
  <2>1. Taken(live[j])
    BY <1>1 DEF UnreadIsNewer, Unread
  <2> QED
    BY <2>1, EmptyFacts DEF Taken
<1>4. DOMAIN copy' = {}
  BY EmptyFacts
<1> QED
  BY <1>2, <1>3, <1>4 DEF UnreadIsNewer

LEMMA FlushKeepsOrder ==
  ASSUME ShapeInv, OrderInv, T!Flush
  PROVE  OrderInv'
<1>1. /\ UNCHANGED <<out, pc, copy, rotated, offset, carry, captured>>
      /\ "error" \notin losses' => "error" \notin losses
  BY DEF T!Flush, T!Fault, T!pump
<1> SUFFICES ASSUME "error" \notin losses
             PROVE  CapturedInOrder' /\ CarryIsNext' /\ UnreadIsNewer'
  BY <1>1 DEF OrderInv
<1>2. CapturedInOrder /\ CarryIsNext /\ UnreadIsNewer
  BY DEF OrderInv
<1>3. CapturedInOrder' /\ CarryIsNext'
  BY <1>1, <1>2 DEF CapturedInOrder, CarryIsNext, Sorted
<1>4. \A j \in DOMAIN copy' : Unread(copy, j)' => Taken(copy[j])'
  BY <1>1, <1>2 DEF UnreadIsNewer, Unread, Taken
<1>5. live' = live \/ (live' = << >> /\ DOMAIN live' = {})
  BY EmptyFacts DEF T!Flush
<1>6. ~rotated' => \A j \in DOMAIN live' : Unread(live, j)' => Taken(live[j])'
  BY <1>1, <1>2, <1>5 DEF UnreadIsNewer, Unread, Taken
<1>7. ASSUME rotated
      PROVE  /\ Src' = Src \/ Src' = << >>
             /\ live' = live \/ Src' = Src
  <2>1. /\ archives \in Seq(Seq(Nat)) /\ Len(archives) \in DOMAIN archives
    BY <1>7 DEF ShapeInv, TailTypes, Phases
  <2>2. CASE archives' = archives
    BY <2>2 DEF Src
  <2>3. CASE live' = live /\ \E i \in DOMAIN archives : archives' = [archives EXCEPT ![i] = << >>]
    BY <2>1, <2>3 DEF Src
  <2> QED
    BY <2>2, <2>3 DEF T!Flush
<1>8. rotated' =>
        /\ Sorted(Src)' /\ \A j \in DOMAIN Src' : Unread(Src, j)' => Taken(Src[j])'
        /\ \A j \in DOMAIN live' : Taken(live[j])' /\ \A i \in DOMAIN Src' : Src'[i] < live'[j]
  <2> SUFFICES ASSUME rotated
               PROVE  /\ Sorted(Src)' /\ \A j \in DOMAIN Src' : Unread(Src, j)' => Taken(Src[j])'
                      /\ \A j \in DOMAIN live' :
                           Taken(live[j])' /\ \A i \in DOMAIN Src' : Src'[i] < live'[j]
    BY <1>1
  <2>1. /\ Sorted(Src) /\ \A j \in DOMAIN Src : Unread(Src, j) => Taken(Src[j])
        /\ \A j \in DOMAIN live : Taken(live[j]) /\ \A i \in DOMAIN Src : Src[i] < live[j]
    BY <1>2 DEF UnreadIsNewer
  <2>2. \A j \in DOMAIN live' : Taken(live[j])'
    BY <1>1, <1>5, <2>1 DEF Taken
  <2>3. CASE Src' = Src
    BY <1>1, <1>5, <2>1, <2>2, <2>3 DEF Taken, Unread, Sorted
  <2>4. CASE Src' = << >>
    BY <2>2, <2>4, EmptyFacts DEF Sorted
  <2> QED
    BY <1>7, <2>3, <2>4
<1> QED
  BY <1>3, <1>4, <1>6, <1>8 DEF UnreadIsNewer

LEMMA PollKeepsOrder ==
  ASSUME ShapeInv, OrderInv, T!PollEmpty \/ T!PollGrown \/ T!PollRotates
  PROVE  OrderInv'
<1>1. /\ UNCHANGED <<live, captured, copy>> /\ pc = "idle"
      /\ live \in Seq(Nat) /\ Len(live) \in Nat /\ offset \in Int /\ carry \in Seq(Nat)
      /\ DOMAIN live = 1 .. Len(live) /\ copy = << >> /\ ~rotated /\ ~rotated'
  <2>1. UNCHANGED <<live, captured, copy>> /\ pc = "idle"
    BY DEF T!PollEmpty, T!PollGrown, T!PollRotates, T!file
  <2>2. /\ live \in Seq(Nat) /\ Len(live) \in Nat /\ offset \in Int /\ carry \in Seq(Nat)
        /\ DOMAIN live = 1 .. Len(live)
    BY DEF ShapeInv, TailTypes
  <2>3. copy = << >> /\ ~rotated
    BY <2>1 DEF ShapeInv, Phases
  <2>4. rotated' = rotated
    BY Zenon DEF T!PollEmpty, T!PollGrown, T!PollRotates
  <2>5. ~rotated'
    BY <2>3, <2>4, Zenon
  <2> QED
    BY <2>1, <2>2, <2>3, <2>5
<1>2. CASE T!PollEmpty
  <2>1. UNCHANGED <<carry, losses>> /\ DOMAIN live = {}
    BY <1>2, EmptyFacts DEF T!PollEmpty
  <2> QED
    BY <1>1, <2>1, QuietKeepsOrder
<1>3. T!Resumed \in Int /\ (T!Resumed = offset \/ (Len(live) < offset /\ T!Resumed = 0))
  BY <1>1 DEF T!Resumed
<1>4. CASE T!PollGrown
  <2>1. T!Look(Len(live), T!Resumed, {})
    BY <1>4 DEF T!PollGrown
  <2>2. losses \subseteq losses'
    BY <1>1, <1>3, <2>1, LookFacts
  <2>3. /\ carry' = carry \/ carry' = << >>
        /\ \A j \in DOMAIN live : offset' < j \/ Len(live) < offset' => Unread(live, j)
    BY <1>1, <1>3, <2>1, LookIsNewer
  <2> QED
    BY <1>1, <2>2, <2>3, QuietKeepsOrder
<1>5. CASE T!PollRotates
  <2>1. UNCHANGED <<carry, losses>> /\ offset' = T!Resumed
    BY <1>5 DEF T!PollRotates
  <2>2. \A j \in DOMAIN live : offset' < j \/ Len(live) < offset' => Unread(live, j)
    BY <1>1, <1>3, <2>1 DEF Unread
  <2> QED
    BY <1>1, <2>1, <2>2, QuietKeepsOrder
<1> QED
  BY <1>2, <1>4, <1>5

LEMMA FailureKeepsOrder ==
  ASSUME ShapeInv, OrderInv, T!NotDue \/ T!CopyFails \/ T!SeekFails \/ T!ReadFails
  PROVE  OrderInv'
<1>1. /\ live \in Seq(Nat) /\ Len(live) \in Nat /\ offset \in Int /\ carry \in Seq(Nat)
      /\ DOMAIN live = 1 .. Len(live)
  BY DEF ShapeInv, TailTypes
<1>2. CASE T!NotDue \/ T!CopyFails
  <2>1. /\ pc \in {"copy", "again", "truncate"} /\ T!GivesUp
    BY <1>2 DEF T!NotDue, T!CopyFails
  <2>2. /\ UNCHANGED <<live, captured>> /\ copy' = << >> /\ ~rotated /\ ~rotated'
    <3>1. UNCHANGED <<live, captured>> /\ copy' = << >>
      BY <2>1 DEF T!GivesUp, T!file
    <3>2. ~rotated
      BY <2>1 DEF ShapeInv, Phases
    <3>3. rotated' = rotated
      BY <2>1, Zenon DEF T!GivesUp
    <3>4. ~rotated'
      BY <3>2, <3>3, Zenon
    <3> QED
      BY <3>1, <3>2, <3>4
  <2>3. CASE UNCHANGED <<offset, carry, losses>>
    BY <2>2, <2>3, QuietKeepsOrder DEF Unread
  <2>4. CASE T!Look(Len(live), offset, {})
    <3>1. losses \subseteq losses'
      BY <1>1, <2>4, LookFacts
    <3>2. /\ carry' = carry \/ carry' = << >>
          /\ \A j \in DOMAIN live : offset' < j \/ Len(live) < offset' => Unread(live, j)
      BY <1>1, <2>4, LookIsNewer
    <3> QED
      BY <2>2, <3>1, <3>2, QuietKeepsOrder
  <2> QED
    BY <2>1, <2>3, <2>4 DEF T!GivesUp
<1>3. CASE T!SeekFails
  <2>1. /\ UNCHANGED <<live, archives, captured, copy, carry, losses>> /\ pc = "read"
        /\ rotated' = FALSE /\ offset' = 0 /\ T!From < 0
    BY <1>3 DEF T!SeekFails, T!StartsOver, T!file
  <2>2. offset < 0
    BY <1>1, <2>1 DEF T!From
  <2>3. copy = << >>
    BY <2>1 DEF ShapeInv, Phases
  <2>4. CASE ~rotated
    <3>1. \A j \in DOMAIN live : Unread(live, j)
      BY <1>1, <2>2 DEF Unread
    <3> QED
      BY <2>1, <2>3, <2>4, <3>1, QuietKeepsOrder
  <2>5. CASE rotated
    <3> SUFFICES ASSUME "error" \notin losses
                 PROVE  CapturedInOrder' /\ CarryIsNext' /\ UnreadIsNewer'
      BY <2>1 DEF OrderInv
    <3>1. CapturedInOrder /\ CarryIsNext /\ \A j \in DOMAIN live : Taken(live[j])
      BY <2>5 DEF OrderInv, UnreadIsNewer
    <3>2. CapturedInOrder' /\ CarryIsNext'
      BY <2>1, <3>1 DEF CapturedInOrder, CarryIsNext, Sorted
    <3>3. \A j \in DOMAIN live' : Taken(live[j])'
      BY <2>1, <3>1 DEF Taken
    <3>4. DOMAIN copy' = {} /\ ~rotated'
      BY <2>1, <2>3, EmptyFacts
    <3> QED
      BY <3>2, <3>3, <3>4 DEF UnreadIsNewer
  <2> QED
    BY <2>4, <2>5
<1>4. CASE T!ReadFails
  BY <1>4 DEF T!ReadFails, T!Fault, OrderInv
<1> QED
  BY <1>2, <1>3, <1>4

LEMMA CopyKeepsOrder ==
  ASSUME ShapeInv, OrderInv, T!Copy \/ T!CopyAgain \/ T!Truncate
  PROVE  OrderInv'
<1>1. /\ live \in Seq(Nat) /\ Len(live) \in Nat /\ offset \in Int /\ carry \in Seq(Nat)
      /\ DOMAIN live = 1 .. Len(live)
      /\ copy \in Seq(Nat) /\ Len(copy) \in Nat /\ DOMAIN copy = 1 .. Len(copy)
      /\ pc # "read" => ~rotated
  BY DEF ShapeInv, TailTypes, Phases
<1>2. CASE T!Copy
  <2>1. UNCHANGED <<live, archives, rotated, offset, carry, captured, losses>> /\ pc = "copy"
        /\ copy' = live
    BY <1>2 DEF T!Copy, T!file
  <2> SUFFICES ASSUME "error" \notin losses
               PROVE  CapturedInOrder' /\ CarryIsNext' /\ UnreadIsNewer'
    BY <2>1 DEF OrderInv
  <2>2. /\ CapturedInOrder /\ CarryIsNext /\ ~rotated
        /\ \A j \in DOMAIN live : Unread(live, j) => Taken(live[j])
    BY <1>1, <2>1 DEF OrderInv, UnreadIsNewer
  <2>3. \A j \in DOMAIN live' : Unread(live, j)' => Taken(live[j])'
    BY <2>1, <2>2 DEF Unread, Taken
  <2>4. \A j \in DOMAIN copy' : Unread(copy, j)' => Taken(copy[j])'
    BY <2>1, <2>2 DEF Unread, Taken
  <2> QED
    BY <2>1, <2>2, <2>3, <2>4 DEF CapturedInOrder, CarryIsNext, UnreadIsNewer, Sorted
<1>3. CASE T!CopyAgain
  <2>1. UNCHANGED <<live, archives, rotated, offset, carry, captured, losses>> /\ pc = "again"
        /\ copy' = copy \o T!Uncopied
    BY <1>3 DEF T!CopyAgain, T!file
  <2> SUFFICES ASSUME "error" \notin losses
               PROVE  CapturedInOrder' /\ CarryIsNext' /\ UnreadIsNewer'
    BY <2>1 DEF OrderInv
  <2>2. /\ CapturedInOrder /\ CarryIsNext /\ ~rotated
        /\ \A j \in DOMAIN live : Unread(live, j) => Taken(live[j])
        /\ \A j \in DOMAIN copy : Unread(copy, j) => Taken(copy[j])
    BY <1>1, <2>1 DEF OrderInv, UnreadIsNewer
  <2>3. \A j \in DOMAIN live' : Unread(live, j)' => Taken(live[j])'
    BY <2>1, <2>2 DEF Unread, Taken
  <2>4. PICK c : c = copy \o T!Uncopied
    OBVIOUS
  <2>5. /\ c \in Seq(Nat) /\ Len(c) = IF Len(copy) < Len(live) THEN Len(live) ELSE Len(copy)
        /\ \A i \in 1 .. Len(copy) : c[i] = copy[i]
        /\ \A i \in Len(copy) + 1 .. Len(live) : c[i] = live[i]
    BY <1>1, <2>4, CopyFacts
  <2>6. ASSUME NEW j \in 1 .. Len(c), offset < j \/ Len(c) < offset PROVE Taken(c[j])
    <3>1. CASE j \in 1 .. Len(copy)
      <4>1. Unread(copy, j)
        BY <1>1, <2>5, <2>6, <3>1 DEF Unread
      <4> QED
        BY <1>1, <2>2, <2>5, <3>1, <4>1
    <3>2. CASE j \in Len(copy) + 1 .. Len(live)
      <4>1. Unread(live, j)
        BY <1>1, <2>5, <2>6, <3>2 DEF Unread
      <4>2. j \in DOMAIN live
        BY <1>1, <3>2
      <4> QED
        BY <2>2, <2>5, <3>2, <4>1, <4>2
    <3>3. j \in 1 .. Len(copy) \/ j \in Len(copy) + 1 .. Len(live)
      BY <1>1, <2>5
    <3> QED
      BY <3>1, <3>2, <3>3
  <2>7. DOMAIN c = 1 .. Len(c) /\ copy' = c
    BY <2>1, <2>4, <2>5
  <2>8. \A j \in DOMAIN copy' : Unread(copy, j)' => Taken(copy[j])'
    BY <2>1, <2>6, <2>7 DEF Unread, Taken
  <2> QED
    BY <2>1, <2>2, <2>3, <2>8 DEF CapturedInOrder, CarryIsNext, UnreadIsNewer, Sorted
<1>4. CASE T!Truncate
  <2>1. /\ pc = "truncate" /\ live' = << >> /\ archives' = Append(archives, copy)
        /\ copy' = << >> /\ rotated' = TRUE /\ UNCHANGED captured
        /\ T!Look(Len(copy), offset, IF T!Uncopied # << >> THEN {"window"} ELSE {})
    BY <1>4 DEF T!Truncate
  <2>2. losses \subseteq losses'
    BY <1>1, <2>1, LookFacts
  <2> SUFFICES ASSUME "error" \notin losses
               PROVE  CapturedInOrder' /\ CarryIsNext' /\ UnreadIsNewer'
    BY <2>2 DEF OrderInv
  <2>3. /\ CapturedInOrder /\ CarryIsNext
        /\ \A j \in DOMAIN copy : Unread(copy, j) => Taken(copy[j])
    BY DEF OrderInv, UnreadIsNewer
  <2>4. /\ carry' = carry \/ carry' = << >>
        /\ \A j \in DOMAIN copy : offset' < j \/ Len(copy) < offset' => Unread(copy, j)
    BY <1>1, <2>1, LookIsNewer
  <2>5. CapturedInOrder' /\ CarryIsNext'
    BY <2>1, <2>3, <2>4, EmptyFacts DEF CapturedInOrder, CarryIsNext, Sorted
  <2>6. Src' = copy
    <3>1. archives \in Seq(Seq(Nat)) /\ copy \in Seq(Nat)
      BY DEF ShapeInv, TailTypes
    <3>2. PICK a : a = Append(archives, copy)
      OBVIOUS
    <3>3. a[Len(a)] = copy
      BY <3>1, <3>2
    <3> QED
      BY <2>1, <3>2, <3>3 DEF Src
  <2>7. Sorted(Src)'
    BY <2>6 DEF ShapeInv, CopyIsOlder, Sorted
  <2>8. \A j \in DOMAIN Src' : Unread(Src, j)' => Taken(Src[j])'
    <3> SUFFICES ASSUME NEW j \in DOMAIN copy, Unread(Src, j)' PROVE Taken(Src[j])'
      BY <2>6
    <3>1. Taken(copy[j])
      BY <2>3, <2>4, <2>6 DEF Unread
    <3> QED
      BY <2>1, <2>4, <2>6, <3>1, EmptyFacts DEF Taken
  <2>9. DOMAIN live' = {} /\ DOMAIN copy' = {}
    BY <2>1, EmptyFacts
  <2>10. rotated'
    BY <2>1, Zenon
  <2> QED
    BY <2>5, <2>7, <2>8, <2>9, <2>10 DEF UnreadIsNewer
<1> QED
  BY <1>2, <1>3, <1>4

(* The bytes of a read are in order, and newer than what was captured.      *)
LEMMA EndsIncrease ==
  ASSUME NEW s \in Seq(Nat), NEW k \in 0 .. Newlines(s), NEW l \in 0 .. Newlines(s), k < l
  PROVE  T!End(s, k) < T!End(s, l)
<1>1. /\ IsFiniteSet(T!Ends(s)) /\ T!Ends(s) \subseteq Nat /\ Newlines(s) \in Nat
      /\ T!Ends(s) \subseteq 1 .. Len(s) /\ Len(s) \in Nat /\ Newlines(s) = Cardinality(T!Ends(s))
  BY EndsAreFinite DEF Newlines
<1>2. l \in 1 .. Newlines(s)
  BY <1>1
<1>3. CASE k = 0
  <2>1. T!End(s, l) \in T!Ends(s)
    BY <1>2, EndFacts
  <2>2. T!End(s, 0) = 0
    BY EndFacts
  <2> QED
    BY <1>1, <1>3, <2>1, <2>2
<1>4. CASE k # 0
  <2>1. k \in 1 .. Newlines(s)
    BY <1>1, <1>4
  <2>2. T!Nth(T!Ends(s), k) < T!Nth(T!Ends(s), l)
    BY <1>1, <1>2, <2>1, NthIncreases
  <2> QED
    BY <1>1, <1>2, <1>4, <2>2 DEF T!End
<1> QED
  BY <1>3, <1>4

LEMMA SourceIsNewer ==
  ASSUME ShapeInv, UnreadIsNewer, T!From >= 0
  PROVE  /\ Sorted(T!Source)
         /\ \A j \in DOMAIN T!Source : T!From < j => Taken(T!Source[j])
<1> PICK f : f = T!Source
  OBVIOUS
<1>1. /\ f \in Seq(Nat) /\ Len(f) \in Nat /\ DOMAIN f = 1 .. Len(f) /\ offset \in Int
      /\ T!From = IF Len(f) < offset THEN 0 ELSE offset
  BY GotFacts DEF ShapeInv, TailTypes
<1>2. Sorted(f) /\ \A j \in DOMAIN f : Unread(f, j) => Taken(f[j])
  <2>1. CASE rotated
    <3>1. f = Src
      BY <2>1 DEF T!Source, Src
    <3> QED
      BY <2>1, <3>1 DEF UnreadIsNewer
  <2>2. CASE ~rotated
    <3>1. f = live
      BY <2>2 DEF T!Source
    <3>2. \A i \in DOMAIN f : f[i] = Len(out) - Len(f) + i
      BY <3>1 DEF ShapeInv, LiveIsLatest
    <3>3. Len(out) \in Nat
      BY DEF ShapeInv, TailTypes
    <3>4. Sorted(f)
      BY <1>1, <3>2, <3>3 DEF Sorted
    <3> QED
      BY <2>2, <3>1, <3>4 DEF UnreadIsNewer
  <2> QED
    BY <2>1, <2>2
<1>3. \A j \in DOMAIN f : T!From < j => Unread(f, j)
  BY <1>1 DEF Unread
<1> QED
  BY <1>2, <1>3

LEMMA GotIsNewer ==
  ASSUME ShapeInv, CarryIsNext, UnreadIsNewer, T!From >= 0
  PROVE  /\ Sorted(T!Got)
         /\ \A k \in DOMAIN captured : \A i \in DOMAIN captured[k], j \in DOMAIN T!Got :
              captured[k][i] < T!Got[j]
<1>1. PICK g : g = T!Got
  OBVIOUS
<1>2. PICK f : f = T!Source
  OBVIOUS
<1>3. PICK a : a = T!From
  OBVIOUS
<1>4. PICK m : m = Len(carry)
  OBVIOUS
<1>5. PICK b : b = Batch
  OBVIOUS
<1>6. /\ f \in Seq(Nat) /\ Len(f) \in Nat /\ a \in 0 .. Len(f) /\ b \in 0 .. Len(f) - a
      /\ g \in Seq(Nat) /\ Len(g) = m + b /\ m \in Nat
      /\ \A i \in 1 .. m : g[i] = carry[i]
      /\ \A i \in 1 .. b : g[m + i] = f[a + i]
  BY <1>1, <1>2, <1>3, <1>4, <1>5, GotFacts
<1>7. /\ DOMAIN g = 1 .. m + b /\ DOMAIN f = 1 .. Len(f) /\ DOMAIN carry = 1 .. m
  BY <1>4, <1>6 DEF ShapeInv, TailTypes
<1>8. Sorted(f) /\ \A j \in DOMAIN f : a < j => Taken(f[j])
  BY <1>2, <1>3, SourceIsNewer
<1>9. \A i \in 1 .. b : a + i \in 1 .. Len(f) /\ a < a + i
  BY <1>6
<1>10. ASSUME NEW j \in 1 .. m + b
       PROVE  j \in 1 .. m \/ \E l \in 1 .. b : j = m + l
  <2>1. CASE j > m
    <3>1. j - m \in 1 .. b /\ j = m + (j - m)
      BY <1>6, <2>1
    <3> QED
      BY <3>1
  <2> QED
    BY <1>6, <2>1
<1>11. \A l \in 1 .. b : Taken(g[m + l])
  BY <1>6, <1>7, <1>8, <1>9
<1>12. ASSUME NEW i \in 1 .. m + b, NEW j \in 1 .. m + b, i < j
       PROVE  g[i] < g[j]
  <2>1. CASE j \in 1 .. m
    <3>1. i \in 1 .. m
      BY <1>6, <1>12, <2>1
    <3> QED
      BY <1>6, <1>7, <1>12, <2>1, <3>1 DEF CarryIsNext, Sorted
  <2>2. ASSUME NEW l \in 1 .. b, j = m + l PROVE g[i] < g[j]
    <3>1. CASE i \in 1 .. m
      BY <1>6, <1>7, <1>11, <2>2, <3>1 DEF Taken
    <3>2. ASSUME NEW k \in 1 .. b, i = m + k PROVE g[i] < g[j]
      <4>1. a + k < a + l
        BY <1>6, <1>12, <2>2, <3>2
      <4> QED
        BY <1>6, <1>7, <1>8, <1>9, <2>2, <3>2, <4>1 DEF Sorted
    <3> QED
      BY <1>10, <3>1, <3>2
  <2> QED
    BY <1>10, <2>1, <2>2
<1>13. Sorted(g)
  BY <1>7, <1>12 DEF Sorted
<1>14. ASSUME NEW k \in DOMAIN captured, NEW i \in DOMAIN captured[k], NEW j \in 1 .. m + b
       PROVE  captured[k][i] < g[j]
  <2>1. CASE j \in 1 .. m
    BY <1>6, <1>7, <2>1 DEF CarryIsNext
  <2>2. ASSUME NEW l \in 1 .. b, j = m + l PROVE captured[k][i] < g[j]
    BY <1>11, <2>2 DEF Taken
  <2> QED
    BY <1>10, <2>1, <2>2
<1> QED
  BY <1>1, <1>7, <1>13, <1>14

(* A line read is a piece of what is got, before the next one.              *)
LEMMA CutLineFacts ==
  ASSUME NEW g \in Seq(Nat), NEW k \in 1 .. Newlines(g)
  PROVE  LET c == T!Cut(T!Lines(g)[k])
         IN  /\ c \in Seq(Nat)
             /\ \A i \in 1 .. Len(c) :
                  /\ T!End(g, k - 1) + i \in 1 .. Len(g) /\ T!End(g, k - 1) + i < T!End(g, k)
                  /\ c[i] = g[T!End(g, k - 1) + i]
<1>1. PICK c : c = T!Cut(T!Lines(g)[k])
  OBVIOUS
<1>2. PICK a : a = T!End(g, k - 1)
  OBVIOUS
<1>3. PICK b : b = T!End(g, k)
  OBVIOUS
<1>4. /\ c \in Seq(Nat) /\ Len(c) = Shorter(b - a - 1) /\ \A i \in 1 .. Len(c) : c[i] = g[a + i]
  BY <1>1, <1>2, <1>3, LinesFacts
<1>5. a \in 0 .. Len(g) /\ b \in 1 .. Len(g) /\ a < b
  <2>1. k - 1 \in 0 .. Newlines(g) /\ k \in 0 .. Newlines(g)
    BY EndsAreFinite
  <2> QED
    BY <1>2, <1>3, <2>1, EndsAreFinite, EndFacts
<1>6. Len(c) \in Nat /\ Len(c) <= b - a - 1 /\ Len(g) \in Nat
  BY <1>4, <1>5, TailAssumption DEF Shorter
<1>7. \A i \in 1 .. Len(c) : a + i \in 1 .. Len(g) /\ a + i < b
  BY <1>5, <1>6
<1> QED
  BY <1>1, <1>2, <1>3, <1>4, <1>7

LEMMA UsedIsLast ==
  ASSUME ShapeInv, T!From >= 0
  PROVE  /\ Used \in 0 .. Len(T!Got) /\ Newlines(T!Got) \in Nat
         /\ \A k \in 1 .. Newlines(T!Got) : T!End(T!Got, k) <= Used
         /\ Used = 0 => Newlines(T!Got) = 0
<1>1. PICK g : g = T!Got
  OBVIOUS
<1>2. g \in Seq(Nat) /\ Newlines(g) \in Nat /\ Len(g) \in Nat
  BY <1>1, GotFacts, EndsAreFinite
<1>3. Used = T!End(g, Newlines(g))
  BY <1>1 DEF Used
<1>4. Newlines(g) \in 0 .. Newlines(g) /\ 0 \in 0 .. Newlines(g)
  BY <1>2
<1>5. \A k \in 0 .. Newlines(g) : T!End(g, k) \in 0 .. Len(g)
  BY <1>2, EndFacts
<1>6. ASSUME NEW k \in 1 .. Newlines(g) PROVE T!End(g, k) <= Used
  <2>1. k \in 0 .. Newlines(g)
    BY <1>2
  <2>2. CASE k = Newlines(g)
    BY <1>2, <1>3, <1>5, <2>1, <2>2
  <2>3. CASE k < Newlines(g)
    <3>1. T!End(g, k) < Used
      BY <1>2, <1>3, <1>4, <2>1, <2>3, EndsIncrease
    <3> QED
      BY <1>2, <1>3, <1>4, <1>5, <2>1, <3>1
  <2> QED
    BY <1>2, <2>2, <2>3
<1>7. ASSUME Newlines(g) # 0 PROVE Used # 0
  <2>1. 0 < Newlines(g)
    BY <1>2, <1>7
  <2>2. T!End(g, 0) < Used
    BY <1>2, <1>3, <1>4, <2>1, EndsIncrease
  <2>3. T!End(g, 0) = 0
    BY <1>2, EndFacts
  <2> QED
    BY <2>2, <2>3
<1> QED
  BY <1>1, <1>2, <1>3, <1>4, <1>5, <1>6, <1>7

LEMMA ReadKeepsOrder ==
  ASSUME ShapeInv, OrderInv, T!Read
  PROVE  OrderInv'
<1>1. losses' = losses /\ T!From >= 0
  BY ReadFacts
<1> SUFFICES ASSUME "error" \notin losses
             PROVE  CapturedInOrder' /\ CarryIsNext' /\ UnreadIsNewer'
  BY <1>1 DEF OrderInv
<1>2. CapturedInOrder /\ CarryIsNext /\ UnreadIsNewer
  BY DEF OrderInv
<1>3. PICK g : g = T!Got
  OBVIOUS
<1>4. PICK n : n = Len(captured)
  OBVIOUS
<1>5. PICK N : N = Newlines(g)
  OBVIOUS
<1>6. PICK u : u = Used
  OBVIOUS
<1>7. /\ g \in Seq(Nat) /\ Len(g) \in Nat /\ DOMAIN g = 1 .. Len(g)
      /\ u \in 0 .. Len(g) /\ N \in Nat /\ n \in Nat
      /\ u = 0 => N = 0
  <2>1. g \in Seq(Nat)
    BY <1>1, <1>3, GotFacts
  <2> QED
    BY <1>1, <1>3, <1>4, <1>5, <1>6, <2>1, UsedIsLast DEF ShapeInv, TailTypes
<1>8. /\ DOMAIN captured = 1 .. n /\ DOMAIN captured' = 1 .. n + N
      /\ \A k \in 1 .. n : captured'[k] = captured[k]
      /\ \A k \in 1 .. N : captured'[n + k] = T!Cut(T!Lines(g)[k])
      /\ live' = live /\ copy' = copy /\ pc = "read"
  <2>1. /\ captured' \in Seq(Seq(Nat)) /\ Len(captured') = n + N
        /\ \A k \in 1 .. n : captured'[k] = captured[k]
        /\ \A k \in 1 .. N : captured'[n + k] = T!Cut(T!Lines(g)[k])
        /\ live' = live /\ copy' = copy /\ pc = "read"
    BY <1>3, <1>4, <1>5, ReadFacts
  <2>2. DOMAIN captured = 1 .. n
    BY <1>4, SizeFacts DEF ShapeInv
  <2>3. DOMAIN captured' = 1 .. n + N
    BY <2>1
  <2> QED
    BY <2>1, <2>2, <2>3
<1>9. /\ Sorted(g)
      /\ \A k \in 1 .. n : \A i \in DOMAIN captured[k], j \in 1 .. Len(g) : captured[k][i] < g[j]
  BY <1>1, <1>2, <1>3, <1>7, <1>8, GotIsNewer
<1>10. ASSUME NEW k \in 1 .. N, NEW i \in DOMAIN captured'[n + k]
      PROVE  /\ i \in Nat \ {0} /\ T!End(g, k - 1) + i \in 1 .. Len(g)
             /\ T!End(g, k - 1) + i < T!End(g, k) /\ T!End(g, k - 1) + i < u
             /\ captured'[n + k][i] = g[T!End(g, k - 1) + i]
  <2>1. PICK c : c = captured'[n + k]
    OBVIOUS
  <2>2. /\ c \in Seq(Nat)
        /\ \A x \in 1 .. Len(c) :
             /\ T!End(g, k - 1) + x \in 1 .. Len(g) /\ T!End(g, k - 1) + x < T!End(g, k)
             /\ c[x] = g[T!End(g, k - 1) + x]
    <3>1. c = T!Cut(T!Lines(g)[k])
      BY <1>8, <2>1
    <3> QED
      BY <1>5, <1>7, <3>1, CutLineFacts
  <2>3. i \in 1 .. Len(c)
    BY <2>1, <2>2
  <2>4. T!End(g, k) <= u
    BY <1>1, <1>3, <1>5, <1>6, UsedIsLast
  <2>5. T!End(g, k) \in Nat /\ T!End(g, k - 1) \in Nat
    <3>1. k \in 0 .. N /\ k - 1 \in 0 .. N
      BY <1>7
    <3> QED
      BY <1>5, <1>7, <3>1, EndFacts
  <2>6. /\ T!End(g, k - 1) + i \in 1 .. Len(g) /\ T!End(g, k - 1) + i < T!End(g, k)
        /\ captured'[n + k][i] = g[T!End(g, k - 1) + i]
    BY <2>1, <2>2, <2>3
  <2>7. i \in Nat \ {0}
    BY <2>2, <2>3
  <2> QED
    BY <1>7, <2>4, <2>5, <2>6, <2>7
<1>11. ASSUME NEW k \in 1 .. n + N
       PROVE  k \in 1 .. n \/ \E x \in 1 .. N : k = n + x
  <2>1. CASE k > n
    <3>1. k - n \in 1 .. N /\ k = n + (k - n)
      BY <1>7, <2>1
    <3> QED
      BY <3>1
  <2> QED
    BY <1>7, <2>1
<1>12. ASSUME NEW k \in 1 .. n + N, NEW l \in 1 .. n + N,
              NEW i \in DOMAIN captured'[k], NEW j \in DOMAIN captured'[l],
              k < l \/ (k = l /\ i < j)
       PROVE  captured'[k][i] < captured'[l][j]
  <2>1. CASE k \in 1 .. n /\ l \in 1 .. n
    BY <1>2, <1>8, <1>12, <2>1 DEF CapturedInOrder
  <2>2. ASSUME k \in 1 .. n, NEW y \in 1 .. N, l = n + y
        PROVE  captured'[k][i] < captured'[l][j]
    BY <1>8, <1>9, <1>10, <2>2
  <2>3. ASSUME NEW x \in 1 .. N, k = n + x, NEW y \in 1 .. N, l = n + y
        PROVE  captured'[k][i] < captured'[l][j]
    <3>1. PICK a : a = T!End(g, x - 1) + i
      OBVIOUS
    <3>2. PICK b : b = T!End(g, y - 1) + j
      OBVIOUS
    <3>3. /\ a \in 1 .. Len(g) /\ a < T!End(g, x) /\ captured'[k][i] = g[a] /\ i \in Nat
          /\ b \in 1 .. Len(g) /\ captured'[l][j] = g[b] /\ j \in Nat \ {0}
      BY <1>10, <2>3, <3>1, <3>2
    <3>4. T!End(g, x) \in Nat /\ T!End(g, y - 1) \in Nat /\ T!End(g, x - 1) \in Nat
      <4>1. x \in 0 .. N /\ y - 1 \in 0 .. N /\ x - 1 \in 0 .. N
        BY <1>7
      <4> QED
        BY <1>5, <1>7, <4>1, EndFacts
    <3>5. a < b
      <4>1. CASE x = y
        <5>1. i < j
          BY <1>12, <2>3, <4>1
        <5>2. a = T!End(g, y - 1) + i
          BY <3>1, <4>1
        <5>3. i \in Nat /\ j \in Nat /\ T!End(g, y - 1) \in Nat
          BY <3>3, <3>4
        <5> QED
          BY <3>2, <5>1, <5>2, <5>3
      <4>2. CASE x < y
        <5>1. x \in 0 .. N /\ y - 1 \in 0 .. N /\ (x = y - 1 \/ x < y - 1)
          BY <1>7, <4>2
        <5>2. T!End(g, x) <= T!End(g, y - 1)
          <6>1. CASE x = y - 1
            BY <3>4, <6>1
          <6>2. CASE x < y - 1
            <7>1. T!End(g, x) < T!End(g, y - 1)
              BY <1>5, <1>7, <5>1, <6>2, EndsIncrease
            <7> QED
              BY <3>4, <7>1
          <6> QED
            BY <5>1, <6>1, <6>2
        <5> QED
          BY <3>2, <3>3, <3>4, <5>2
      <4> QED
        BY <1>7, <1>12, <2>3, <4>1, <4>2
    <3> QED
      BY <1>7, <1>9, <3>3, <3>5 DEF Sorted
  <2>4. ASSUME NEW x \in 1 .. N, k = n + x, l \in 1 .. n PROVE FALSE
    BY <1>7, <1>12, <2>4
  <2> QED
    BY <1>11, <2>1, <2>2, <2>3, <2>4
<1>13. CapturedInOrder'
  BY <1>8, <1>12 DEF CapturedInOrder
<1>14. CASE rotated
  <2>1. PICK r : r = T!Cut(SubSeq(g, u + 1, Len(g)))
    OBVIOUS
  <2>2. carry' = r
    BY <1>3, <1>6, <1>14, <2>1, ReadFacts
  <2>3. /\ DOMAIN r = 1 .. Len(r) /\ Len(r) \in 0 .. Len(g) - u
        /\ \A i \in 1 .. Len(r) : r[i] = g[u + i]
    <3>1. /\ r \in Seq(Nat) /\ Len(r) \in 0 .. Len(g) - u
          /\ \A i \in 1 .. Len(r) : r[i] = g[u + i]
      BY <1>7, <2>1, RestFacts
    <3> QED
      BY <3>1
  <2>4. \A i \in 1 .. Len(r) : u + i \in 1 .. Len(g) /\ u < u + i
    BY <1>7, <2>3
  <2>5. Sorted(r)
    <3> SUFFICES ASSUME NEW i \in 1 .. Len(r), NEW j \in 1 .. Len(r), i < j
                 PROVE  r[i] < r[j]
      BY <2>3 DEF Sorted
    <3>1. u + i < u + j
      BY <1>7, <2>3
    <3> QED
      BY <1>7, <1>9, <2>3, <2>4, <3>1 DEF Sorted
  <2>6. ASSUME NEW k \in 1 .. n + N, NEW i \in DOMAIN captured'[k], NEW j \in 1 .. Len(r)
        PROVE  captured'[k][i] < r[j]
    <3>1. CASE k \in 1 .. n
      BY <1>8, <1>9, <2>3, <2>4, <3>1
    <3>2. ASSUME NEW x \in 1 .. N, k = n + x PROVE captured'[k][i] < r[j]
      <4>1. PICK a : a = T!End(g, x - 1) + i
        OBVIOUS
      <4>2. a \in 1 .. Len(g) /\ a < u /\ captured'[k][i] = g[a]
        BY <1>10, <3>2, <4>1
      <4>3. a < u + j
        BY <1>7, <4>2
      <4> QED
        BY <1>7, <1>9, <2>3, <2>4, <4>2, <4>3 DEF Sorted
    <3> QED
      BY <1>11, <3>1, <3>2
  <2>7. CarryIsNext'
    BY <1>8, <2>2, <2>3, <2>5, <2>6 DEF CarryIsNext, Sorted
  <2>8. ASSUME NEW j \in DOMAIN live PROVE Taken(live[j])'
    <3>1. PICK b : b = live[j]
      OBVIOUS
    <3>2. Taken(b) /\ \A i \in DOMAIN Src : Src[i] < b
      BY <1>2, <1>14, <3>1 DEF UnreadIsNewer
    <3>3. \A x \in 1 .. Len(g) : g[x] < b
      <4>1. PICK m : m = Len(carry)
        OBVIOUS
      <4>2. T!Source = Src
        BY <1>14 DEF T!Source, Src
      <4>3. PICK f : f = Src
        OBVIOUS
      <4>4. PICK a : a = T!From
        OBVIOUS
      <4>5. PICK q : q = Batch
        OBVIOUS
      <4>6. /\ f \in Seq(Nat) /\ Len(f) \in Nat /\ a \in 0 .. Len(f) /\ q \in 0 .. Len(f) - a
            /\ Len(g) = m + q /\ m \in Nat
            /\ \A i \in 1 .. m : g[i] = carry[i]
            /\ \A i \in 1 .. q : g[m + i] = f[a + i]
        BY <1>1, <1>3, <4>1, <4>2, <4>3, <4>4, <4>5, GotFacts
      <4>7. /\ \A i \in 1 .. q : a + i \in DOMAIN f
            /\ DOMAIN carry = 1 .. m
        <5>1. f \in Seq(Nat) /\ Len(f) \in Nat /\ a \in 0 .. Len(f) /\ q \in 0 .. Len(f) - a
          BY <4>6
        <5>2. \A i \in 1 .. q : a + i \in 1 .. Len(f)
          BY <5>1
        <5>3. carry \in Seq(Nat)
          BY DEF ShapeInv, TailTypes
        <5> QED
          BY <4>1, <5>1, <5>2, <5>3
      <4>8. ASSUME NEW x \in 1 .. Len(g) PROVE x \in 1 .. m \/ (x - m \in 1 .. q /\ x = m + (x - m))
        BY <4>6
      <4>9. \A x \in 1 .. m : g[x] < b
        BY <3>2, <4>6, <4>7 DEF Taken
      <4>10. \A x \in 1 .. q : g[m + x] < b
        BY <3>2, <4>3, <4>6, <4>7
      <4> QED
        BY <4>8, <4>9, <4>10
    <3>4. \A k \in 1 .. n + N : \A i \in DOMAIN captured'[k] : captured'[k][i] < b
      <4> SUFFICES ASSUME NEW k \in 1 .. n + N, NEW i \in DOMAIN captured'[k]
                   PROVE  captured'[k][i] < b
        OBVIOUS
      <4>1. CASE k \in 1 .. n
        BY <1>8, <3>2, <4>1 DEF Taken
      <4>2. ASSUME NEW x \in 1 .. N, k = n + x PROVE captured'[k][i] < b
        BY <1>10, <3>3, <4>2
      <4> QED
        BY <1>11, <4>1, <4>2
    <3>5. \A i \in DOMAIN r : r[i] < b
      BY <2>3, <2>4, <3>3
    <3> QED
      BY <1>8, <2>2, <3>1, <3>4, <3>5 DEF Taken
  <2>9. DOMAIN copy' = {}
    BY <1>8, EmptyFacts DEF ShapeInv, Phases
  <2>10. ~rotated'
    BY ReadFacts
  <2>11. UnreadIsNewer'
    BY <1>8, <2>8, <2>9, <2>10 DEF UnreadIsNewer
  <2> QED
    BY <1>13, <2>7, <2>11
<1>15. CASE ~rotated
  <2>1. PICK m : m = Len(carry)
    OBVIOUS
  <2>2. PICK a : a = T!From
    OBVIOUS
  <2>3. PICK q : q = Batch
    OBVIOUS
  <2>4. /\ live \in Seq(Nat) /\ Len(live) \in Nat /\ DOMAIN live = 1 .. Len(live)
        /\ a \in 0 .. Len(live) /\ q \in 0 .. Len(live) - a
        /\ Len(g) = m + q /\ m \in Nat /\ DOMAIN carry = 1 .. m
        /\ \A i \in 1 .. m : g[i] = carry[i]
        /\ \A i \in 1 .. q : g[m + i] = live[a + i]
    <3>1. T!Source = live
      BY <1>15 DEF T!Source
    <3>2. /\ live \in Seq(Nat) /\ carry \in Seq(Nat)
      BY DEF ShapeInv, TailTypes
    <3> QED
      BY <1>1, <1>3, <2>1, <2>2, <2>3, <3>1, <3>2, GotFacts
  <2>5. PICK w : w = IF u > m THEN u - m ELSE 0
    OBVIOUS
  <2>6. carry' = (IF u > 0 THEN << >> ELSE carry) /\ offset' = a + w
    BY <1>3, <1>6, <1>15, <2>1, <2>2, <2>5, ReadFacts
  <2>7. w \in 0 .. q /\ \A x \in 1 .. q : m + x < u => x < w
    BY <1>7, <2>4, <2>5
  <2>8. CarryIsNext'
    <3>1. CASE u > 0
      <4>1. DOMAIN carry' = {}
        BY <2>6, <3>1, EmptyFacts
      <4> QED
        BY <4>1 DEF CarryIsNext, Sorted
    <3>2. CASE ~(u > 0)
      <4>1. N = 0 /\ carry' = carry /\ n + N = n
        BY <1>7, <2>6, <3>2
      <4> QED
        BY <1>2, <1>8, <4>1 DEF CarryIsNext, Sorted
    <3> QED
      BY <3>1, <3>2
  <2>9. Sorted(live) /\ \A j \in DOMAIN live : a < j => Taken(live[j])
    <3>1. T!Source = live
      BY <1>15 DEF T!Source
    <3> QED
      BY <1>1, <1>2, <2>2, <3>1, SourceIsNewer
  <2>10. ASSUME NEW j \in DOMAIN live, Unread(live, j)' PROVE Taken(live[j])'
    <3>1. j \in 1 .. Len(live) /\ a + w < j /\ a < j
      BY <1>8, <2>4, <2>6, <2>7, <2>10 DEF Unread
    <3>2. PICK b : b = live[j]
      OBVIOUS
    <3>3. Taken(b)
      BY <2>4, <2>9, <3>1, <3>2
    <3>4. ASSUME NEW x \in 1 .. Len(g), x < u PROVE g[x] < b
      <4>1. CASE x \in 1 .. m
        BY <2>4, <3>3, <4>1 DEF Taken
      <4>2. CASE x - m \in 1 .. q
        <5>1. PICK y \in 1 .. q : x = m + y
          BY <2>4, <4>2
        <5>2. y < w
          BY <2>7, <3>4, <5>1
        <5>3. a + y \in 1 .. Len(live)
          BY <2>4, <5>1
        <5>4. a + y < j
          BY <2>4, <2>7, <3>1, <5>1, <5>2
        <5> QED
          BY <2>4, <2>9, <3>1, <3>2, <5>1, <5>3, <5>4 DEF Sorted
      <4> QED
        BY <2>4, <4>1, <4>2
    <3>5. \A k \in 1 .. n + N : \A i \in DOMAIN captured'[k] : captured'[k][i] < b
      <4> SUFFICES ASSUME NEW k \in 1 .. n + N, NEW i \in DOMAIN captured'[k]
                   PROVE  captured'[k][i] < b
        OBVIOUS
      <4>1. CASE k \in 1 .. n
        BY <1>8, <3>3, <4>1 DEF Taken
      <4>2. ASSUME NEW x \in 1 .. N, k = n + x PROVE captured'[k][i] < b
        BY <1>10, <3>4, <4>2
      <4> QED
        BY <1>11, <4>1, <4>2
    <3>6. \A i \in DOMAIN carry' : carry'[i] < b
      BY <2>6, <3>3, EmptyFacts DEF Taken
    <3> QED
      BY <1>8, <3>2, <3>5, <3>6 DEF Taken
  <2>11. DOMAIN copy' = {}
    BY <1>8, EmptyFacts DEF ShapeInv, Phases
  <2>12. ~rotated'
    BY ReadFacts
  <2>13. UnreadIsNewer'
    BY <1>8, <2>10, <2>11, <2>12 DEF UnreadIsNewer
  <2> QED
    BY <1>13, <2>8, <2>13
<1> QED
  BY <1>14, <1>15

LEMMA StepKeepsOrder ==
  ASSUME ShapeInv, OrderInv, T!Next
  PROVE  OrderInv'
  BY WriteKeepsOrder, FlushKeepsOrder, PollKeepsOrder, FailureKeepsOrder, CopyKeepsOrder,
     ReadKeepsOrder DEF T!Next, T!Pump

-----------------------------------------------------------------------------
(* The app's output as one piece, and its lines.                            *)
OutputIsPiece ==
  /\ T!Output \in Seq(Nat) /\ Len(T!Output) = Len(out) /\ Len(out) \in Nat
  /\ \A b \in 1 .. Len(out) : T!Output[b] = b
  /\ \A b : b \in T!Ends(T!Output) <=> b \in 1 .. Len(out) /\ out[b]
  /\ IsFiniteSet(T!Ends(T!Output)) /\ T!Ends(T!Output) \subseteq Nat
  /\ Newlines(T!Output) = Cardinality(T!Ends(T!Output)) /\ Newlines(T!Output) \in Nat

WrittenIsLines ==
  /\ DOMAIN T!Written = 1 .. Newlines(T!Output) /\ Len(T!Written) = Newlines(T!Output)
  /\ \A k \in 1 .. Newlines(T!Output) :
       /\ T!Written[k] \in Seq(Nat)
       /\ Len(T!Written[k]) = Shorter(T!End(T!Output, k) - T!End(T!Output, k - 1) - 1)
       /\ \A i \in 1 .. Len(T!Written[k]) : T!Written[k][i] = T!End(T!Output, k - 1) + i

LEMMA OutputFacts == out \in Seq(BOOLEAN) => OutputIsPiece
<1> SUFFICES ASSUME out \in Seq(BOOLEAN) PROVE OutputIsPiece
  OBVIOUS
<1>1. Len(out) \in Nat /\ DOMAIN out = 1 .. Len(out)
  OBVIOUS
<1>2. /\ T!Output \in Seq(Nat) /\ Len(T!Output) = Len(out) /\ DOMAIN T!Output = 1 .. Len(out)
      /\ \A b \in 1 .. Len(out) : T!Output[b] = b
  BY <1>1 DEF T!Output
<1>3. \A b : b \in T!Ends(T!Output) <=> b \in 1 .. Len(out) /\ out[b]
  BY <1>2, Zenon DEF T!Ends
<1>4. /\ IsFiniteSet(T!Ends(T!Output)) /\ T!Ends(T!Output) \subseteq Nat
      /\ Newlines(T!Output) \in Nat
  BY <1>2, EndsAreFinite
<1> QED
  BY <1>1, <1>2, <1>3, <1>4 DEF Newlines, OutputIsPiece

LEMMA WrittenFacts == out \in Seq(BOOLEAN) => WrittenIsLines
<1> SUFFICES ASSUME out \in Seq(BOOLEAN) PROVE WrittenIsLines
  OBVIOUS
<1>1. PICK o : o = T!Output
  OBVIOUS
<1>2. /\ o \in Seq(Nat) /\ Newlines(o) \in Nat /\ Len(o) = Len(out) /\ Len(out) \in Nat
      /\ \A b \in 1 .. Len(out) : o[b] = b
  BY <1>1, OutputFacts DEF OutputIsPiece
<1>3. DOMAIN T!Lines(o) = 1 .. Newlines(o)
  BY <1>2, EndsAreFinite DEF T!Lines
<1>4. DOMAIN T!Written = 1 .. Newlines(o) /\ \A k \in 1 .. Newlines(o) : T!Written[k] = T!Cut(T!Lines(o)[k])
  BY <1>1, <1>3 DEF T!Written
<1>5. Len(T!Written) = Newlines(o)
  BY <1>1, <1>2, <1>3 DEF T!Written
<1>6. ASSUME NEW k \in 1 .. Newlines(o)
      PROVE  /\ T!Written[k] \in Seq(Nat)
             /\ Len(T!Written[k]) = Shorter(T!End(o, k) - T!End(o, k - 1) - 1)
             /\ \A i \in 1 .. Len(T!Written[k]) : T!Written[k][i] = T!End(o, k - 1) + i
  <2>1. PICK c : c = T!Cut(T!Lines(o)[k])
    OBVIOUS
  <2>2. c \in Seq(Nat) /\ Len(c) = Shorter(T!End(o, k) - T!End(o, k - 1) - 1)
    BY <1>2, <2>1, LinesFacts
  <2>3. \A i \in 1 .. Len(c) : T!End(o, k - 1) + i \in 1 .. Len(o) /\ c[i] = o[T!End(o, k - 1) + i]
    BY <1>2, <2>1, CutLineFacts
  <2>4. \A i \in 1 .. Len(c) : c[i] = T!End(o, k - 1) + i
    BY <1>2, <2>3
  <2> QED
    BY <1>4, <2>1, <2>2, <2>4
<1> QED
  BY <1>1, <1>4, <1>5, <1>6 DEF WrittenIsLines

LEMMA SamePiece ==
  ASSUME NEW v \in Seq(Nat), NEW w \in Seq(Nat), Len(v) = Len(w),
         \A i \in 1 .. Len(v) : v[i] = w[i]
  PROVE  v = w
<1>1. v = [i \in 1 .. Len(v) |-> v[i]] /\ w = [i \in 1 .. Len(v) |-> w[i]]
  OBVIOUS
<1> QED
  BY <1>1

(* What the app writes next leaves the lines before it what they are.       *)
LEMMA NthStays ==
  ASSUME NEW S, IsFiniteSet(S), S \subseteq Nat, NEW R, IsFiniteSet(R), R \subseteq Nat,
         S \subseteq R, \A i \in S, j \in R : j <= i => j \in S,
         NEW k \in 1 .. Cardinality(S)
  PROVE  T!Nth(R, k) = T!Nth(S, k)
<1>1. PICK i : i = T!Nth(S, k)
  OBVIOUS
<1>2. i \in S /\ Cardinality(UpTo(S, i)) = k
  BY <1>1, NthIsElement
<1>3. UpTo(R, i) = UpTo(S, i)
  <2>1. \A j : j \in R /\ j <= i <=> j \in S /\ j <= i
    BY <1>2
  <2> QED
    BY <2>1, Zenon DEF UpTo
<1>4. i \in R /\ Cardinality(UpTo(R, i)) = k
  <2>1. i \in R
    BY <1>2
  <2> QED
    BY <1>2, <1>3, <2>1
<1>5. T!Nth(R, k) = i
  BY <1>4, NthIsUnique
<1> QED
  BY <1>1, <1>5

LEMMA WrittenStays ==
  ASSUME out \in Seq(BOOLEAN), NEW newline \in BOOLEAN, out' = Append(out, newline)
  PROVE  /\ Newlines(T!Output) <= Newlines(T!Output)' /\ Newlines(T!Output)' \in Nat
         /\ \A k \in 0 .. Newlines(T!Output) : T!End(T!Output, k)' = T!End(T!Output, k)
         /\ \A k \in 1 .. Newlines(T!Output) : T!Written[k]' = T!Written[k]
<1>1. /\ out' \in Seq(BOOLEAN) /\ Len(out') = Len(out) + 1 /\ Len(out) \in Nat
      /\ \A b \in 1 .. Len(out) : out'[b] = out[b]
  OBVIOUS
<1>2. PICK S : S = T!Ends(T!Output)
  OBVIOUS
<1>3. PICK R : R = T!Ends(T!Output)'
  OBVIOUS
<1>4. /\ IsFiniteSet(S) /\ S \subseteq Nat /\ Newlines(T!Output) = Cardinality(S)
      /\ \A b : b \in S <=> b \in 1 .. Len(out) /\ out[b]
      /\ Cardinality(S) \in Nat
  BY <1>2, OutputFacts, FS_CardinalityType DEF OutputIsPiece
<1>5. /\ IsFiniteSet(R) /\ R \subseteq Nat /\ Newlines(T!Output)' = Cardinality(R)
      /\ \A b : b \in R <=> b \in 1 .. Len(out') /\ out'[b]
  <2>1. (out \in Seq(BOOLEAN) => OutputIsPiece)'
    BY OutputFacts, PTL
  <2>2. OutputIsPiece'
    BY <1>1, <2>1
  <2> QED
    BY <1>3, <2>2 DEF OutputIsPiece
<1>6. S \subseteq R /\ \A i \in S, j \in R : j <= i => j \in S
  <2>1. \A b \in 1 .. Len(out) : b \in 1 .. Len(out') /\ (b \in S <=> b \in R)
    <3>1. \A b \in 1 .. Len(out) : b \in 1 .. Len(out')
      BY <1>1
    <3> QED
      BY <1>1, <1>4, <1>5, <3>1, Zenon
  <2>2. \A b \in S : b \in 1 .. Len(out)
    BY <1>4
  <2>3. \A b \in R : b \in 1 .. Len(out')
    BY <1>5
  <2>4. \A i \in 1 .. Len(out), j \in 1 .. Len(out') : j <= i => j \in 1 .. Len(out)
    BY <1>1
  <2> QED
    BY <2>1, <2>2, <2>3, <2>4
<1>7. Cardinality(S) <= Cardinality(R) /\ Cardinality(R) \in Nat
  BY <1>5, <1>6, FS_Subset, FS_CardinalityType
<1>8. \A k \in 1 .. Cardinality(S) : T!Nth(R, k) = T!Nth(S, k)
  BY <1>4, <1>5, <1>6, NthStays
<1>9. ASSUME NEW k \in 0 .. Cardinality(S) PROVE T!End(T!Output, k)' = T!End(T!Output, k)
  <2>1. k = 0 \/ k \in 1 .. Cardinality(S)
    BY <1>4
  <2> QED
    BY <1>2, <1>3, <1>8, <2>1 DEF T!End
<1>10. ASSUME NEW k \in 1 .. Cardinality(S) PROVE T!Written[k]' = T!Written[k]
  <2>1. PICK v : v = T!Written[k]
    OBVIOUS
  <2>2. PICK w : w = T!Written[k]'
    OBVIOUS
  <2>3. k \in 0 .. Cardinality(S) /\ k - 1 \in 0 .. Cardinality(S) /\ k \in 1 .. Cardinality(R)
    BY <1>4, <1>7
  <2>4. PICK a : a = T!End(T!Output, k - 1)
    OBVIOUS
  <2>5. PICK b : b = T!End(T!Output, k)
    OBVIOUS
  <2>6. v \in Seq(Nat) /\ Len(v) = Shorter(b - a - 1) /\ \A i \in 1 .. Len(v) : v[i] = a + i
    BY <1>4, <2>1, <2>4, <2>5, WrittenFacts DEF WrittenIsLines
  <2>7. w \in Seq(Nat) /\ Len(w) = Shorter(b - a - 1) /\ \A i \in 1 .. Len(w) : w[i] = a + i
    <3>1. (out \in Seq(BOOLEAN) => WrittenIsLines)'
      BY WrittenFacts, PTL
    <3>2. WrittenIsLines'
      BY <1>1, <3>1
    <3>3. /\ T!Written[k]' \in Seq(Nat)
          /\ Len(T!Written[k]') = Shorter(T!End(T!Output, k)' - T!End(T!Output, k - 1)' - 1)
          /\ \A i \in 1 .. Len(T!Written[k]') : T!Written[k]'[i] = T!End(T!Output, k - 1)' + i
      BY <1>5, <2>3, <3>2 DEF WrittenIsLines, Shorter
    <3>4. T!End(T!Output, k)' = b /\ T!End(T!Output, k - 1)' = a
      BY <1>9, <2>3, <2>4, <2>5
    <3> QED
      BY <2>2, <3>3, <3>4
  <2>8. v = w
    BY <2>6, <2>7, SamePiece
  <2> QED
    BY <2>1, <2>2, <2>8
<1> QED
  BY <1>4, <1>5, <1>7, <1>9, <1>10

LEMMA SameOutput ==
  ASSUME out' = out
  PROVE  /\ T!Written' = T!Written /\ Newlines(T!Output)' = Newlines(T!Output)
         /\ \A k : T!End(T!Output, k)' = T!End(T!Output, k)
<1>1. T!Output' = T!Output
  BY DEF T!Output
<1>2. T!Ends(T!Output)' = T!Ends(T!Output)
  BY <1>1 DEF T!Ends
<1>3. \A k : T!End(T!Output, k)' = T!End(T!Output, k)
  BY <1>2 DEF T!End
<1>4. Newlines(T!Output)' = Newlines(T!Output)
  BY <1>2 DEF Newlines
<1>5. T!Lines(T!Output)' = T!Lines(T!Output)
  BY <1>1, <1>2, <1>3 DEF T!Lines
<1>6. T!Written' = T!Written
  BY <1>5 DEF T!Written, T!Cut
<1> QED
  BY <1>3, <1>4, <1>6

-----------------------------------------------------------------------------
(* Without a loss, the lines captured are those of the app, and what is     *)
(* carried over is what is read of the next one.                            *)
LEMMA BeginFacts ==
  /\ rotated => Begin = Len(out) - Len(live) - Len(Src)
  /\ ~rotated => Begin = Len(out) - Len(live) - 0
  BY Zenon DEF Begin

LEMMA InitHasLines == T!Init => LinesInv
<1> SUFFICES ASSUME T!Init PROVE LinesInv
  OBVIOUS
<1>1. /\ Len(out) = 0 /\ Len(live) = 0 /\ Len(captured) = 0 /\ Len(carry) = 0 /\ Len(copy) = 0
      /\ DOMAIN captured = {} /\ DOMAIN carry = {} /\ DOMAIN copy = {}
      /\ offset = 0 /\ pc = "idle" /\ out \in Seq(BOOLEAN) /\ ~rotated
  BY EmptyFacts, Zenon DEF T!Init
<1>2. Begin = 0
  <2>1. Begin = Len(out) - Len(live) - 0
    BY <1>1, BeginFacts, Zenon
  <2> QED
    BY <1>1, <2>1
<1>3. Place = 0
  BY <1>1, <1>2 DEF Place
<1>4. LastEnd = 0
  BY <1>1 DEF LastEnd, T!End
<1>5. Newlines(T!Output) \in Nat
  BY <1>1, OutputFacts DEF OutputIsPiece
<1>6. CapturedIsWritten
  BY <1>1, <1>5 DEF CapturedIsWritten
<1>7. CarryIsRest
  <2>1. \A b \in LastEnd + 1 .. Place : FALSE
    BY <1>3, <1>4
  <2> QED
    BY <1>1, <1>3, <1>4, <2>1, TailAssumption DEF CarryIsRest, Shorter
<1>8. NothingSkipped
  BY <1>1, <1>2 DEF NothingSkipped
<1> QED
  BY <1>6, <1>7, <1>8 DEF LinesInv

LEMMA QuietKeepsLines ==
  ASSUME LinesInv, UNCHANGED <<out, live, archives, offset, carry, captured>>,
         rotated' = rotated, losses' = {} => losses = {},
         losses = {} =>
           /\ Len(copy') <= Len(live) /\ \A i \in DOMAIN copy' : copy'[i] = live[i]
           /\ pc' \in {"again", "truncate"} => offset <= Len(copy')
  PROVE  LinesInv'
<1> SUFFICES ASSUME losses = {}
             PROVE  CapturedIsWritten' /\ CarryIsRest' /\ NothingSkipped'
  BY DEF LinesInv
<1>1. CapturedIsWritten /\ CarryIsRest /\ NothingSkipped
  BY DEF LinesInv
<1>2. Src' = Src
  BY DEF Src
<1>3. Begin' = Begin
  BY <1>2 DEF Begin
<1>4. Place' = Place
  BY <1>3 DEF Place
<1>5. LastEnd' = LastEnd
  BY SameOutput DEF LastEnd
<1>6. CapturedIsWritten'
  BY <1>1, SameOutput DEF CapturedIsWritten
<1>7. CarryIsRest'
  BY <1>1, <1>4, <1>5 DEF CarryIsRest
<1>8. NothingSkipped'
  <2>1. /\ 0 <= offset' /\ 0 <= Begin'
        /\ Len(copy') <= Len(live') /\ \A i \in DOMAIN copy' : copy'[i] = live'[i]
        /\ pc' \in {"again", "truncate"} => offset' <= Len(copy')
    BY <1>1, <1>3 DEF NothingSkipped
  <2>2. CASE rotated
    <3>1. /\ offset <= Len(Src) /\ Len(Src) - offset <= MaxBatch - Len(carry)
          /\ \A i \in DOMAIN Src : Src[i] = Begin + i
      BY <1>1, <2>2 DEF NothingSkipped
    <3>2. rotated'
      BY <2>2, Zenon
    <3> QED
      BY <1>2, <1>3, <2>1, <3>1, <3>2 DEF NothingSkipped
  <2>3. CASE ~rotated
    <3>1. offset <= Len(live)
      BY <1>1, <2>3 DEF NothingSkipped
    <3>2. ~rotated'
      BY <2>3, Zenon
    <3> QED
      BY <2>1, <3>1, <3>2 DEF NothingSkipped
  <2> QED
    BY <2>2, <2>3
<1> QED
  BY <1>6, <1>7, <1>8

(* A look that skips nothing changes neither the offset nor the carry.      *)
LEMMA LookKeeps ==
  ASSUME carry \in Seq(Nat), NEW size \in Nat, NEW lost, T!Look(size, offset, lost), offset \in Int,
         losses' = {}
  PROVE  /\ losses = {} /\ lost = {} /\ offset' = offset /\ carry' = carry /\ pc' = "read"
         /\ size - offset <= MaxBatch - Len(carry)
<1>1. /\ pc' = "read" /\ losses \subseteq losses' /\ lost \subseteq losses'
      /\ \/ /\ size - offset > MaxBatch - Len(carry) /\ "skip" \in losses'
            /\ offset' = size - MaxBatch /\ carry' = << >>
         \/ /\ size - offset <= MaxBatch - Len(carry) /\ losses' = losses \cup lost
            /\ offset' = offset /\ carry' = carry
  BY LookFacts
<1> QED
  BY <1>1

LEMMA PollKeepsLines ==
  ASSUME ShapeInv, LinesInv, T!PollEmpty \/ T!PollGrown \/ T!PollRotates
  PROVE  LinesInv'
<1>1. /\ UNCHANGED <<out, live, archives, captured, copy>> /\ pc = "idle"
  BY DEF T!PollEmpty, T!PollGrown, T!PollRotates, T!file
<1>2. /\ live \in Seq(Nat) /\ Len(live) \in Nat /\ offset \in Int /\ carry \in Seq(Nat)
  BY DEF ShapeInv, TailTypes
<1>3. copy = << >> /\ ~rotated
  BY <1>1 DEF ShapeInv, Phases
<1>4. rotated' = rotated
  BY Zenon DEF T!PollEmpty, T!PollGrown, T!PollRotates
<1> SUFFICES ASSUME losses' = {} PROVE LinesInv'
  BY DEF LinesInv
<1>5. losses = {} => 0 <= offset /\ offset <= Len(live)
  BY <1>3 DEF LinesInv, NothingSkipped
<1>6. losses = {} => T!Resumed = offset
  BY <1>2, <1>5 DEF T!Resumed
<1>7. losses = {} /\ offset' = offset /\ carry' = carry /\ pc' \in {"read", "copy"}
  <2>1. CASE T!PollEmpty
    <3>1. losses = {} /\ live = << >> /\ offset > 0
      BY <2>1 DEF T!PollEmpty
    <3> QED
      BY <1>2, <1>5, <3>1, EmptyFacts
  <2>2. CASE T!PollGrown
    <3>1. T!Look(Len(live), T!Resumed, {})
      BY <2>2 DEF T!PollGrown
    <3>2. T!Resumed \in Int
      BY <1>2 DEF T!Resumed
    <3>3. losses = {}
      BY <1>2, <3>1, <3>2, LookFacts
    <3>4. T!Look(Len(live), offset, {})
      BY <1>6, <3>1, <3>3
    <3> QED
      BY <1>2, <3>3, <3>4, LookKeeps
  <2>3. CASE T!PollRotates
    <3>1. losses = {} /\ offset' = T!Resumed /\ carry' = carry /\ pc' = "copy"
      BY <2>3 DEF T!PollRotates
    <3> QED
      BY <1>6, <3>1
  <2> QED
    BY <2>1, <2>2, <2>3
<1> QED
  <2>1. Len(copy') <= Len(live) /\ \A i \in DOMAIN copy' : copy'[i] = live[i]
    BY <1>1, <1>2, <1>3, EmptyFacts
  <2> QED
    BY <1>1, <1>4, <1>7, <2>1, QuietKeepsLines

LEMMA FailureKeepsLines ==
  ASSUME ShapeInv, LinesInv, T!NotDue \/ T!CopyFails \/ T!SeekFails \/ T!ReadFails
  PROVE  LinesInv'
<1> SUFFICES ASSUME losses' = {} PROVE LinesInv'
  BY DEF LinesInv
<1>1. /\ live \in Seq(Nat) /\ Len(live) \in Nat /\ offset \in Int /\ carry \in Seq(Nat)
  BY DEF ShapeInv, TailTypes
<1>2. CASE T!NotDue \/ T!CopyFails
  <2>1. T!GivesUp
    BY <1>2 DEF T!NotDue, T!CopyFails
  <2>2. UNCHANGED <<out, live, archives, captured>> /\ copy' = << >>
    BY <2>1 DEF T!GivesUp, T!file
  <2>3. rotated' = rotated
    BY <2>1, Zenon DEF T!GivesUp
  <2>4. losses = {} /\ offset' = offset /\ carry' = carry /\ pc' \in {"read", "idle"}
    <3>1. CASE pc' = "idle" /\ UNCHANGED <<offset, carry, losses>>
      BY <3>1
    <3>2. CASE T!Look(Len(live), offset, {})
      BY <1>1, <3>2, LookKeeps
    <3> QED
      BY <2>1, <3>1, <3>2 DEF T!GivesUp
  <2>5. Len(copy') <= Len(live) /\ \A i \in DOMAIN copy' : copy'[i] = live[i]
    BY <1>1, <2>2, EmptyFacts
  <2> QED
    BY <2>2, <2>3, <2>4, <2>5, QuietKeepsLines
<1>3. CASE T!SeekFails
  <2>1. losses = {} /\ T!From < 0
    BY <1>3 DEF T!SeekFails
  <2>2. offset < 0
    BY <1>1, <2>1 DEF T!From
  <2>3. 0 <= offset
    BY <2>1 DEF LinesInv, NothingSkipped
  <2> QED
    BY <1>1, <2>2, <2>3
<1>4. CASE T!ReadFails
  BY <1>4 DEF T!ReadFails, T!Fault
<1> QED
  BY <1>2, <1>3, <1>4

LEMMA FlushKeepsLines == ASSUME T!Flush PROVE LinesInv'
  BY DEF T!Flush, T!Fault, LinesInv

LEMMA WriteKeepsLines ==
  ASSUME ShapeInv, LinesInv, NEW newline \in BOOLEAN, T!Write(newline)
  PROVE  LinesInv'
<1>1. /\ out' = Append(out, newline) /\ live' = Append(live, Len(out) + 1)
      /\ UNCHANGED <<archives, pc, copy, offset, carry, captured, losses>>
  BY DEF T!Write, T!pump
<1>2. rotated' = rotated
  BY Zenon DEF T!Write, T!pump
<1> SUFFICES ASSUME losses = {}
             PROVE  CapturedIsWritten' /\ CarryIsRest' /\ NothingSkipped'
  BY <1>1 DEF LinesInv
<1>3. CapturedIsWritten /\ CarryIsRest /\ NothingSkipped
  BY DEF LinesInv
<1>4. /\ out \in Seq(BOOLEAN) /\ Len(out) \in Nat /\ live \in Seq(Nat) /\ Len(live) \in Nat
      /\ Len(live) <= Len(out) /\ offset \in Int
      /\ Len(captured) \in Nat /\ DOMAIN captured = 1 .. Len(captured)
      /\ Len(copy) \in Nat /\ DOMAIN copy = 1 .. Len(copy)
  BY SizeFacts DEF ShapeInv, TailTypes, LiveIsLatest
<1>5. /\ Len(out') = Len(out) + 1 /\ \A b \in 1 .. Len(out) : out'[b] = out[b]
      /\ Len(live') = Len(live) + 1 /\ \A i \in 1 .. Len(live) : live'[i] = live[i]
  BY <1>1, <1>4
<1>6. /\ Newlines(T!Output) <= Newlines(T!Output)' /\ Newlines(T!Output)' \in Nat
      /\ \A k \in 0 .. Newlines(T!Output) : T!End(T!Output, k)' = T!End(T!Output, k)
      /\ \A k \in 1 .. Newlines(T!Output) : T!Written[k]' = T!Written[k]
  BY <1>1, <1>4, WrittenStays
<1>7. Newlines(T!Output) \in Nat /\ Len(captured) \in 0 .. Newlines(T!Output)
  BY <1>3, <1>4, OutputFacts DEF OutputIsPiece, CapturedIsWritten
<1>8. CapturedIsWritten'
  <2>1. Len(captured') <= Newlines(T!Output)'
    BY <1>1, <1>4, <1>6, <1>7
  <2>2. ASSUME NEW k \in DOMAIN captured' PROVE captured'[k] = T!Written[k]'
    <3>1. k \in 1 .. Newlines(T!Output) /\ k \in DOMAIN captured
      BY <1>1, <1>4, <1>7, <2>2
    <3> QED
      BY <1>1, <1>3, <1>6, <3>1 DEF CapturedIsWritten
  <2> QED
    BY <2>1, <2>2 DEF CapturedIsWritten
<1>9. LastEnd' = LastEnd /\ LastEnd \in Nat
  <2>1. LastEnd' = LastEnd
    BY <1>1, <1>6, <1>7 DEF LastEnd
  <2>2. T!Output \in Seq(Nat) /\ Len(T!Output) \in Nat
    BY <1>4, OutputFacts DEF OutputIsPiece
  <2>3. LastEnd \in 0 .. Len(T!Output)
    BY <1>7, <2>2, EndFacts DEF LastEnd
  <2> QED
    BY <2>1, <2>2, <2>3
<1>10. Src' = Src
  BY <1>1 DEF Src
<1>11. /\ Begin' = Begin /\ Begin \in Int /\ Begin + offset <= Len(out)
       /\ 0 <= offset /\ 0 <= Begin
  <2>1. 0 <= offset /\ 0 <= Begin
    BY <1>3 DEF NothingSkipped
  <2>2. CASE rotated
    <3>1. rotated'
      BY <1>2, <2>2, Zenon
    <3>2. Begin = Len(out) - Len(live) - Len(Src)
      BY <2>2, BeginFacts
    <3>3. Begin' = Len(out') - Len(live') - Len(Src')
      BY <3>1 DEF Begin
    <3>4. offset <= Len(Src)
      BY <1>3, <2>2 DEF NothingSkipped
    <3>5. Len(Src) \in Nat
      <4>1. archives \in Seq(Seq(Nat)) /\ Len(archives) \in DOMAIN archives
        BY <2>2, EmptyFacts DEF ShapeInv, TailTypes, Phases
      <4>2. Src \in Seq(Nat)
        BY <4>1 DEF Src
      <4> QED
        BY <4>2
    <3> QED
      BY <1>4, <1>5, <1>10, <2>1, <3>2, <3>3, <3>4, <3>5
  <2>3. CASE ~rotated
    <3>1. ~rotated'
      BY <1>2, <2>3, Zenon
    <3>2. Begin = Len(out) - Len(live) - 0
      BY <2>3, BeginFacts
    <3>3. Begin' = Len(out') - Len(live') - 0
      BY <3>1 DEF Begin
    <3>4. offset <= Len(live)
      BY <1>3, <2>3 DEF NothingSkipped
    <3> QED
      BY <1>4, <1>5, <2>1, <3>2, <3>3, <3>4
  <2> QED
    BY <2>2, <2>3
<1>12. Place' = Place /\ Place \in Int /\ Place <= Len(out)
  BY <1>1, <1>4, <1>11 DEF Place
<1>13. CarryIsRest'
  <2>1. \A b \in LastEnd + 1 .. Place : b \in 1 .. Len(out)
    BY <1>4, <1>9, <1>12
  <2>2. \A b \in LastEnd + 1 .. Place : ~out'[b]
    BY <1>3, <1>5, <2>1 DEF CarryIsRest
  <2> QED
    BY <1>1, <1>3, <1>9, <1>12, <2>2 DEF CarryIsRest
<1>14. NothingSkipped'
  <2>1. /\ 0 <= offset' /\ 0 <= Begin'
        /\ pc' \in {"again", "truncate"} => offset' <= Len(copy')
    BY <1>1, <1>3, <1>11 DEF NothingSkipped
  <2>2. Len(copy') <= Len(live') /\ \A i \in DOMAIN copy' : copy'[i] = live'[i]
    <3>1. Len(copy) <= Len(live) /\ \A i \in DOMAIN copy : copy[i] = live[i]
      BY <1>3 DEF NothingSkipped
    <3>2. \A i \in DOMAIN copy : i \in 1 .. Len(live)
      BY <1>4, <3>1
    <3> QED
      BY <1>1, <1>4, <1>5, <3>1, <3>2
  <2>3. CASE rotated
    <3>1. /\ offset <= Len(Src) /\ Len(Src) - offset <= MaxBatch - Len(carry)
          /\ \A i \in DOMAIN Src : Src[i] = Begin + i
      BY <1>3, <2>3 DEF NothingSkipped
    <3>2. rotated'
      BY <1>2, <2>3, Zenon
    <3> QED
      BY <1>1, <1>10, <1>11, <2>1, <2>2, <3>1, <3>2 DEF NothingSkipped
  <2>4. CASE ~rotated
    <3>1. offset' <= Len(live')
      BY <1>1, <1>3, <1>4, <1>5, <2>4 DEF NothingSkipped
    <3>2. ~rotated'
      BY <1>2, <2>4, Zenon
    <3> QED
      BY <2>1, <2>2, <3>1, <3>2 DEF NothingSkipped
  <2> QED
    BY <2>3, <2>4
<1> QED
  BY <1>8, <1>13, <1>14

LEMMA CopyKeepsLines ==
  ASSUME ShapeInv, LinesInv, T!Copy \/ T!CopyAgain \/ T!Truncate
  PROVE  LinesInv'
<1> SUFFICES ASSUME losses' = {} PROVE LinesInv'
  BY DEF LinesInv
<1>1. /\ live \in Seq(Nat) /\ Len(live) \in Nat /\ DOMAIN live = 1 .. Len(live) /\ offset \in Int
      /\ copy \in Seq(Nat) /\ Len(copy) \in Nat /\ DOMAIN copy = 1 .. Len(copy)
      /\ carry \in Seq(Nat) /\ Len(out) \in Nat /\ Len(live) <= Len(out)
      /\ \A i \in 1 .. Len(live) : live[i] = Len(out) - Len(live) + i
  BY SizeFacts DEF ShapeInv, TailTypes, LiveIsLatest
<1>2. pc # "read" => ~rotated
  BY DEF ShapeInv, Phases
<1>3. losses = {} =>
        /\ 0 <= offset /\ Len(copy) <= Len(live) /\ \A i \in DOMAIN copy : copy[i] = live[i]
        /\ pc # "read" => offset <= Len(live)
  <2> SUFFICES ASSUME losses = {}
               PROVE  /\ 0 <= offset
                      /\ Len(copy) <= Len(live) /\ \A i \in DOMAIN copy : copy[i] = live[i]
                      /\ pc # "read" => offset <= Len(live)
    OBVIOUS
  <2>1. NothingSkipped
    BY DEF LinesInv
  <2>2. ASSUME pc # "read" PROVE offset <= Len(live)
    <3>1. ~rotated
      BY <1>2, <2>2, Zenon
    <3> QED
      BY <2>1, <3>1 DEF NothingSkipped
  <2> QED
    BY <2>1, <2>2 DEF NothingSkipped
<1>4. CASE T!Copy
  <2>1. /\ UNCHANGED <<out, live, archives, offset, carry, captured, losses>> /\ pc = "copy"
        /\ copy' = live /\ pc' = "again"
    BY <1>4 DEF T!Copy, T!file
  <2>2. rotated' = rotated
    BY <1>4, Zenon DEF T!Copy
  <2>3. Len(copy') <= Len(live) /\ \A i \in DOMAIN copy' : copy'[i] = live[i]
    BY <1>1, <2>1
  <2>4. offset <= Len(copy')
    BY <1>1, <1>3, <2>1
  <2> QED
    BY <2>1, <2>2, <2>3, <2>4, QuietKeepsLines
<1>5. CASE T!CopyAgain
  <2>1. /\ UNCHANGED <<out, live, archives, offset, carry, captured, losses>> /\ pc = "again"
        /\ copy' = copy \o T!Uncopied
    BY <1>5 DEF T!CopyAgain, T!file
  <2>2. rotated' = rotated
    BY <1>5, Zenon DEF T!CopyAgain
  <2>3. PICK c : c = copy \o T!Uncopied
    OBVIOUS
  <2>4. /\ c \in Seq(Nat) /\ Len(c) = IF Len(copy) < Len(live) THEN Len(live) ELSE Len(copy)
        /\ \A i \in 1 .. Len(copy) : c[i] = copy[i]
        /\ \A i \in Len(copy) + 1 .. Len(live) : c[i] = live[i]
    BY <1>1, <2>3, CopyFacts
  <2>5. Len(c) = Len(live) /\ DOMAIN c = 1 .. Len(live)
    <3>1. losses = {}
      BY <2>1
    <3>2. Len(copy) <= Len(live)
      BY <1>3, <3>1
    <3>3. Len(c) = IF Len(copy) < Len(live) THEN Len(live) ELSE Len(copy)
      BY <2>4
    <3>4. Len(copy) \in Nat /\ Len(live) \in Nat
      BY <1>1
    <3>5. Len(c) = Len(live)
      BY <3>2, <3>3, <3>4
    <3> QED
      BY <2>4, <3>5
  <2>6. ASSUME NEW i \in 1 .. Len(live) PROVE c[i] = live[i]
    <3>1. CASE i \in 1 .. Len(copy)
      BY <1>1, <1>3, <2>1, <2>4, <3>1
    <3>2. CASE i \in Len(copy) + 1 .. Len(live)
      BY <2>4, <3>2
    <3> QED
      BY <1>1, <3>1, <3>2
  <2>7. Len(copy') <= Len(live) /\ \A i \in DOMAIN copy' : copy'[i] = live[i]
    <3>1. copy' = c
      BY <2>1, <2>3
    <3> QED
      BY <1>1, <2>5, <2>6, <3>1
  <2>8. offset <= Len(copy')
    BY <1>1, <1>3, <2>1, <2>3, <2>5
  <2> QED
    BY <2>1, <2>2, <2>7, <2>8, QuietKeepsLines
<1>6. CASE T!Truncate
  <2>1. /\ pc = "truncate" /\ live' = << >> /\ archives' = Append(archives, copy)
        /\ copy' = << >> /\ rotated' = TRUE /\ UNCHANGED <<out, captured>>
        /\ T!Look(Len(copy), offset, IF T!Uncopied # << >> THEN {"window"} ELSE {})
    BY <1>6 DEF T!Truncate
  <2>2. /\ losses = {} /\ T!Uncopied = << >> /\ offset' = offset /\ carry' = carry /\ pc' = "read"
        /\ Len(copy) - offset <= MaxBatch - Len(carry)
    <3>1. PICK lost : lost = IF T!Uncopied # << >> THEN {"window"} ELSE {}
      OBVIOUS
    <3>2. T!Look(Len(copy), offset, lost)
      BY <2>1, <3>1
    <3>3. /\ losses = {} /\ lost = {} /\ offset' = offset /\ carry' = carry /\ pc' = "read"
          /\ Len(copy) - offset <= MaxBatch - Len(carry)
      BY <1>1, <3>2, LookKeeps
    <3> QED
      BY <3>1, <3>3
  <2>3. Len(copy) = Len(live)
    <3>1. ~(Len(copy) < Len(live))
      BY <1>1, <2>2, CopyFacts
    <3>2. Len(copy) <= Len(live)
      BY <1>3, <2>2
    <3>3. Len(copy) \in Nat /\ Len(live) \in Nat
      BY <1>1
    <3> QED
      BY <3>1, <3>2, <3>3
  <2>4. CapturedIsWritten /\ CarryIsRest /\ NothingSkipped /\ ~rotated
    BY <1>2, <2>1, <2>2 DEF LinesInv
  <2>5. Src' = copy
    <3>1. archives \in Seq(Seq(Nat)) /\ copy \in Seq(Nat)
      BY DEF ShapeInv, TailTypes
    <3>2. PICK a : a = Append(archives, copy)
      OBVIOUS
    <3>3. a[Len(a)] = copy
      BY <3>1, <3>2
    <3> QED
      BY <2>1, <3>2, <3>3 DEF Src
  <2>6. Begin = Len(out) - Len(live) - 0
    BY <2>4, BeginFacts
  <2>7. rotated'
    BY <2>1, Zenon
  <2>8. Begin' = Begin
    <3>1. Begin' = Len(out') - Len(live') - Len(Src')
      BY <2>7, Zenon DEF Begin
    <3> QED
      BY <1>1, <2>1, <2>3, <2>5, <2>6, <3>1, EmptyFacts
  <2>9. Place' = Place
    BY <2>2, <2>8 DEF Place
  <2>10. LastEnd' = LastEnd
    BY <2>1, SameOutput DEF LastEnd
  <2>11. CapturedIsWritten'
    BY <2>1, <2>4, SameOutput DEF CapturedIsWritten
  <2>12. CarryIsRest'
    BY <2>1, <2>2, <2>4, <2>9, <2>10 DEF CarryIsRest
  <2>13. \A i \in DOMAIN copy : copy[i] = Begin + i
    BY <1>1, <1>3, <2>2, <2>3, <2>6
  <2>14. offset <= Len(copy)
    BY <2>1, <2>4 DEF NothingSkipped
  <2>15. Len(copy') <= Len(live') /\ DOMAIN copy' = {}
    BY <2>1, EmptyFacts
  <2>16. 0 <= offset' /\ 0 <= Begin'
    BY <2>2, <2>4, <2>8 DEF NothingSkipped
  <2>17. /\ offset' <= Len(Src') /\ Len(Src') - offset' <= MaxBatch - Len(carry')
         /\ \A i \in DOMAIN Src' : Src'[i] = Begin' + i
    BY <2>2, <2>5, <2>8, <2>13, <2>14
  <2>18. NothingSkipped'
    BY <2>2, <2>7, <2>15, <2>16, <2>17 DEF NothingSkipped
  <2> QED
    BY <2>11, <2>12, <2>18 DEF LinesInv
<1> QED
  BY <1>4, <1>5, <1>6

-----------------------------------------------------------------------------
(* The newlines of a read are the next ones of the output, d places on.     *)
Shifted(S, E, d, b) ==
  /\ IsFiniteSet(S) /\ S \subseteq Nat /\ IsFiniteSet(E) /\ E \subseteq Nat
  /\ d \in Nat /\ b \in Nat
  /\ \A e \in E : e + d \in S /\ b < e + d
  /\ \A s \in S, e \in E : b < s /\ s <= e + d => s - d \in E

LEMMA ShiftedEnds ==
  ASSUME NEW S, NEW E, NEW d, NEW b, Shifted(S, E, d, b),
         NEW c, Cardinality(UpTo(S, b)) = c, NEW k \in 1 .. Cardinality(E)
  PROVE  c + k \in 1 .. Cardinality(S) /\ T!Nth(S, c + k) = T!Nth(E, k) + d
<1> USE DEF Shifted
<1>1. PICK x : x = T!Nth(E, k)
  OBVIOUS
<1>2. x \in E /\ Cardinality(UpTo(E, x)) = k /\ x \in Nat
  BY <1>1, NthIsElement
<1> DEFINE A == UpTo(S, b)
           Z == UpTo(E, x)
           I == {z + d : z \in Z}
           y == x + d
<1>3. y \in S /\ b < y /\ y \in Nat
  BY <1>2
<1>4. /\ A \subseteq S /\ Z \subseteq E
      /\ \A s \in A : s <= b
      /\ \A s \in S : s <= b => s \in A
      /\ \A z : z \in Z <=> z \in E /\ z <= x
  BY DEF UpTo
<1>5. IsFiniteSet(A) /\ IsFiniteSet(Z)
  BY <1>4, FS_Subset
<1>6. c \in Nat
  BY <1>5, FS_CardinalityType DEF A
<1> HIDE DEF A, Z
<1>7. IsFiniteSet(I) /\ Cardinality(I) = Cardinality(Z)
  <2> DEFINE f == [z \in Z |-> z + d]
  <2>1. f \in Bijection(Z, I)
    <3>1. f \in [Z -> I] /\ (\A i \in I : \E z \in Z : f[z] = i)
      OBVIOUS
    <3>2. \A z, w \in Z : f[z] = f[w] => z = w
      <4>1. \A z \in Z : z \in Nat
        BY <1>4
      <4> QED
        BY <4>1
    <3> HIDE DEF f, I
    <3> QED
      BY <3>1, <3>2 DEF Bijection, Injection, Surjection, IsInjective
  <2>2. ExistsBijection(Z, I)
    BY <2>1 DEF ExistsBijection
  <2> HIDE DEF I
  <2> QED
    BY <1>5, <2>2, FS_Bijection
<1>8. A \cap I = {}
  <2> SUFFICES ASSUME NEW i \in A, i \in I PROVE FALSE
    OBVIOUS
  <2>1. PICK z \in Z : i = z + d
    BY DEF I
  <2>2. b < z + d /\ i <= b /\ z \in Nat
    BY <1>4, <2>1
  <2> QED
    BY <2>1, <2>2
<1>9. UpTo(S, y) = A \cup I
  <2>1. ASSUME NEW s \in S, s <= y PROVE s \in A \cup I
    <3>1. CASE s <= b
      BY <1>4, <3>1
    <3>2. CASE b < s
      <4>1. s - d \in E /\ s \in Nat
        BY <1>2, <2>1, <3>2
      <4>2. s - d <= x /\ s = (s - d) + d
        BY <1>2, <2>1, <4>1
      <4>3. s - d \in Z
        BY <1>4, <4>1, <4>2
      <4> QED
        BY <4>2, <4>3
    <3>3. s \in Nat
      OBVIOUS
    <3> QED
      BY <3>1, <3>2, <3>3
  <2>2. ASSUME NEW s \in A PROVE s \in S /\ s <= y
    <3>1. s \in S /\ s <= b /\ s \in Nat
      BY <1>4
    <3> QED
      BY <1>3, <3>1
  <2>3. ASSUME NEW z \in Z PROVE z + d \in S /\ z + d <= y
    <3>1. z \in E /\ z <= x /\ z \in Nat
      BY <1>4
    <3> QED
      BY <1>2, <3>1
  <2>4. \A s : s \in S /\ s <= y <=> s \in A \cup I
    BY <2>1, <2>2, <2>3
  <2> HIDE DEF I, y
  <2> QED
    BY <2>4, Zenon DEF UpTo
<1>10. Cardinality(A) = c /\ Cardinality(Z) = k
  BY <1>2 DEF A, Z
<1> HIDE DEF I
<1>11. Cardinality(A \cup I) = c + k
  <2>1. Cardinality(A \cup I) = Cardinality(A) + Cardinality(I) - Cardinality(A \cap I)
    BY <1>5, <1>7, FS_Union
  <2>2. Cardinality(A \cap I) = 0
    BY <1>8, FS_EmptySet
  <2>3. k \in Nat
    BY FS_CardinalityType
  <2> QED
    BY <1>7, <1>10, <1>6, <2>1, <2>2, <2>3
<1> HIDE DEF y
<1>12. Cardinality(UpTo(S, y)) = c + k
  BY <1>9, <1>11
<1>13. c + k \in 1 .. Cardinality(S)
  BY <1>3, <1>12, RankIsBounded
<1>14. T!Nth(S, c + k) = y
  BY <1>3, <1>12, NthIsUnique
<1> QED
  BY <1>1, <1>13, <1>14 DEF y

(* Where a read stands in the output.                                       *)
LEMMA ReadPlaces ==
  ASSUME ShapeInv, CapturedIsWritten, CarryIsRest, NothingSkipped, T!From >= 0
  PROVE  /\ LastEnd \in Nat /\ Place \in Nat /\ LastEnd <= Place /\ Batch \in Nat
         /\ Place + Batch <= Len(out) /\ Len(out) \in Nat
         /\ Len(carry) \in Nat /\ Len(carry) = Shorter(Place - LastEnd)
         /\ T!Got \in Seq(Nat) /\ Len(T!Got) = Len(carry) + Batch
         /\ \A i \in 1 .. Len(carry) : T!Got[i] = LastEnd + i
         /\ \A i \in 1 .. Batch : T!Got[Len(carry) + i] = Place + i
         /\ T!From = offset /\ offset \in Nat
         /\ rotated => Place + Batch = Len(out) - Len(live)
         /\ ~rotated => offset + Batch <= Len(live)
<1>1. PICK f : f = T!Source
  OBVIOUS
<1>2. PICK a : a = T!From
  OBVIOUS
<1>3. PICK m : m = Len(carry)
  OBVIOUS
<1>4. PICK q : q = Batch
  OBVIOUS
<1>5. PICK g : g = T!Got
  OBVIOUS
<1>6. /\ f \in Seq(Nat) /\ Len(f) \in Nat /\ a \in 0 .. Len(f)
      /\ a = (IF Len(f) < offset THEN 0 ELSE offset)
      /\ q \in 0 .. Len(f) - a /\ g \in Seq(Nat) /\ Len(g) = m + q /\ m \in Nat
      /\ \A i \in 1 .. m : g[i] = carry[i]
      /\ \A i \in 1 .. q : g[m + i] = f[a + i]
  BY <1>1, <1>2, <1>3, <1>4, <1>5, GotFacts
<1>7. q = IF MaxBatch - m < Len(f) - a THEN MaxBatch - m ELSE Len(f) - a
  BY <1>1, <1>2, <1>3, <1>4 DEF Batch
<1>8. /\ out \in Seq(BOOLEAN) /\ Len(out) \in Nat /\ Len(live) \in Nat /\ Len(live) <= Len(out)
      /\ DOMAIN live = 1 .. Len(live)
      /\ Len(captured) \in Nat /\ carry \in Seq(Nat) /\ DOMAIN carry = 1 .. m /\ offset \in Int
      /\ \A i \in DOMAIN live : live[i] = Len(out) - Len(live) + i
  BY <1>3, SizeFacts DEF ShapeInv, TailTypes, LiveIsLatest
<1>9. /\ offset >= 0 /\ Begin >= 0 /\ offset <= Len(f)
      /\ \A i \in 1 .. Len(f) : f[i] = Begin + i
      /\ Begin + Len(f) <= Len(out) /\ Begin \in Int
  <2>1. 0 <= offset /\ 0 <= Begin
    BY DEF NothingSkipped
  <2>2. CASE rotated
    <3>1. f = Src
      BY <1>1, <2>2 DEF T!Source, Src
    <3>2. offset <= Len(f) /\ \A i \in DOMAIN f : f[i] = Begin + i
      BY <2>2, <3>1 DEF NothingSkipped
    <3>3. Begin = Len(out) - Len(live) - Len(f)
      BY <2>2, <3>1, BeginFacts
    <3>4. Len(f) \in Nat /\ DOMAIN f = 1 .. Len(f)
      BY <1>6
    <3>5. Begin \in Int /\ Begin + Len(f) = Len(out) - Len(live)
      BY <1>8, <3>3, <3>4
    <3>6. Begin + Len(f) <= Len(out)
      BY <1>8, <3>5
    <3> QED
      BY <2>1, <3>2, <3>4, <3>5, <3>6
  <2>3. CASE ~rotated
    <3>1. f = live
      BY <1>1, <2>3 DEF T!Source
    <3>2. offset <= Len(f)
      BY <2>3, <3>1 DEF NothingSkipped
    <3>3. Begin = Len(out) - Len(live) - 0
      BY <2>3, BeginFacts
    <3>4. \A i \in 1 .. Len(f) : f[i] = Begin + i
      <4>1. Begin = Len(out) - Len(live)
        BY <1>8, <3>3
      <4> QED
        BY <1>8, <3>1, <4>1
    <3>5. Begin + Len(f) <= Len(out) /\ Begin \in Int
      <4>1. Len(out) \in Nat /\ Len(live) \in Nat /\ Len(f) = Len(live)
        BY <1>8, <3>1
      <4> QED
        BY <3>3, <4>1
    <3> QED
      BY <1>8, <2>1, <3>2, <3>4, <3>5
  <2> QED
    BY <2>2, <2>3
<1>10. a = offset /\ Place = Begin + a
  BY <1>6, <1>8, <1>9 DEF Place
<1>11. LastEnd \in Nat
  <2>1. /\ T!Output \in Seq(Nat) /\ Len(T!Output) = Len(out)
        /\ Len(captured) \in 0 .. Newlines(T!Output)
    BY <1>8, OutputFacts DEF OutputIsPiece, CapturedIsWritten
  <2>2. LastEnd \in 0 .. Len(out)
    BY <2>1, EndFacts DEF LastEnd
  <2> QED
    BY <2>2
<1>12. LastEnd <= Place /\ m = Shorter(Place - LastEnd) /\ \A i \in 1 .. m : carry[i] = LastEnd + i
  BY <1>3, <1>8 DEF CarryIsRest
<1>13. \A i \in 1 .. q : g[m + i] = Place + i
  <2> SUFFICES ASSUME NEW i \in 1 .. q PROVE g[m + i] = Place + i
    OBVIOUS
  <2>1. a \in Nat /\ q \in Nat /\ a + q <= Len(f) /\ Len(f) \in Nat
    BY <1>6
  <2>2. a + i \in 1 .. Len(f)
    BY <2>1
  <2>3. f[a + i] = Begin + (a + i) /\ Begin \in Int
    BY <1>9, <2>2
  <2>4. g[m + i] = f[a + i]
    BY <1>6
  <2> QED
    BY <1>10, <2>1, <2>3, <2>4
<1>14. Place \in Nat /\ Place + q <= Len(out)
  BY <1>6, <1>8, <1>9, <1>10
<1>15. ASSUME rotated PROVE Place + q = Len(out) - Len(live)
  <2>1. f = Src
    BY <1>1, <1>15 DEF T!Source, Src
  <2>2. Len(f) - offset <= MaxBatch - m
    BY <1>3, <1>15, <2>1 DEF NothingSkipped
  <2>3. q = Len(f) - offset
    BY <1>6, <1>7, <1>8, <1>10, <2>2, TailAssumption
  <2>4. Begin = Len(out) - Len(live) - Len(f)
    BY <1>15, <2>1, BeginFacts
  <2> QED
    BY <1>6, <1>8, <1>10, <2>3, <2>4
<1>16. ASSUME ~rotated PROVE offset + q <= Len(live)
  <2>1. f = live
    BY <1>1, <1>16 DEF T!Source
  <2> QED
    BY <1>6, <1>8, <1>10, <2>1
<1>17. a \in Nat
  BY <1>6
<1>18. /\ LastEnd \in Nat /\ Place \in Nat /\ LastEnd <= Place /\ q \in Nat
       /\ Place + q <= Len(out) /\ Len(out) \in Nat
       /\ m \in Nat /\ m = Shorter(Place - LastEnd) /\ g \in Seq(Nat) /\ Len(g) = m + q
       /\ a = offset /\ offset \in Nat
  BY <1>6, <1>8, <1>10, <1>11, <1>12, <1>14, <1>17
<1>19. /\ \A i \in 1 .. m : g[i] = LastEnd + i
       /\ \A i \in 1 .. q : g[m + i] = Place + i
  BY <1>6, <1>12, <1>13
<1>20. /\ rotated => Place + Batch = Len(out) - Len(live)
       /\ ~rotated => offset + Batch <= Len(live)
  BY <1>4, <1>15, <1>16
<1> QED
  BY <1>2, <1>3, <1>4, <1>5, <1>18, <1>19, <1>20

LEMMA CapturedRank ==
  ASSUME ShapeInv, CapturedIsWritten
  PROVE  /\ Cardinality(UpTo(T!Ends(T!Output), LastEnd)) = Len(captured)
         /\ Len(captured) \in 0 .. Newlines(T!Output) /\ LastEnd \in Nat
<1>1. PICK S : S = T!Ends(T!Output)
  OBVIOUS
<1>2. PICK c : c = Len(captured)
  OBVIOUS
<1>3. /\ T!Output \in Seq(Nat) /\ Len(T!Output) \in Nat /\ IsFiniteSet(S)
      /\ \A e \in S : e \in 1 .. Len(out)
      /\ c \in 0 .. Newlines(T!Output) /\ Newlines(T!Output) \in Nat
  BY <1>1, <1>2, OutputFacts DEF OutputIsPiece, CapturedIsWritten, ShapeInv, TailTypes
<1>4. LastEnd = T!End(T!Output, c) /\ LastEnd \in Nat
  <2>1. LastEnd \in 0 .. Len(T!Output)
    BY <1>2, <1>3, EndFacts DEF LastEnd
  <2> QED
    BY <1>2, <1>3, <2>1 DEF LastEnd
<1>5. CASE c = 0
  <2>1. LastEnd = 0
    BY <1>3, <1>4, <1>5, EndFacts
  <2>2. \A e \in S : ~(e <= 0)
    BY <1>3
  <2>3. UpTo(S, LastEnd) = {}
    BY <2>1, <2>2, Zenon DEF UpTo
  <2> QED
    BY <1>1, <1>2, <1>3, <1>4, <1>5, <2>3, FS_EmptySet
<1>6. CASE c # 0
  <2>1. c \in 1 .. Newlines(T!Output)
    BY <1>3, <1>6
  <2> QED
    BY <1>1, <1>2, <1>3, <1>4, <2>1, EndFacts
<1> QED
  BY <1>5, <1>6

(* The lines a read ends are the next ones of the app.                      *)
LEMMA ReadEnds ==
  ASSUME ShapeInv, CapturedIsWritten, CarryIsRest, NothingSkipped, T!From >= 0
  PROVE  /\ \A k \in 1 .. Newlines(T!Got) :
              /\ Len(captured) + k \in 1 .. Newlines(T!Output)
              /\ T!End(T!Output, Len(captured) + k)
                   = T!End(T!Got, k) + (Place - Len(carry))
              /\ Len(carry) < T!End(T!Got, k)
         /\ \A b \in LastEnd + 1 .. Place + Batch :
              \/ b > Place /\ b - Place + Len(carry) \in T!Ends(T!Got)
              \/ ~out[b]
<1>1. PICK g : g = T!Got
  OBVIOUS
<1>2. PICK m : m = Len(carry)
  OBVIOUS
<1>3. PICK q : q = Batch
  OBVIOUS
<1>4. PICK p : p = Place
  OBVIOUS
<1>5. PICK a : a = LastEnd
  OBVIOUS
<1>6. PICK S : S = T!Ends(T!Output)
  OBVIOUS
<1>7. PICK E : E = T!Ends(g)
  OBVIOUS
<1>8. PICK c : c = Len(captured)
  OBVIOUS
<1>9. /\ a \in Nat /\ p \in Nat /\ a <= p /\ q \in Nat /\ p + q <= Len(out) /\ Len(out) \in Nat
      /\ m \in Nat /\ m = Shorter(p - a) /\ g \in Seq(Nat) /\ Len(g) = m + q
  BY <1>1, <1>2, <1>3, <1>4, <1>5, ReadPlaces
<1>10. /\ \A i \in 1 .. m : g[i] = a + i
       /\ \A i \in 1 .. q : g[m + i] = p + i
  BY <1>1, <1>2, <1>3, <1>4, <1>5, ReadPlaces
<1>11. m <= p - a
  BY <1>9, TailAssumption DEF Shorter
<1>12. /\ a \in Nat /\ p \in Nat /\ a <= p /\ q \in Nat /\ m \in Nat /\ m <= p - a
       /\ p + q <= Len(out) /\ Len(out) \in Nat
  BY <1>9, <1>11
<1>13. \A b \in a + 1 .. p : ~out[b]
  BY <1>4, <1>5 DEF CarryIsRest
<1>14. /\ IsFiniteSet(S) /\ S \subseteq Nat /\ Newlines(T!Output) = Cardinality(S)
       /\ \A e : e \in S <=> e \in 1 .. Len(out) /\ out[e]
  BY <1>6, OutputFacts DEF OutputIsPiece, ShapeInv, TailTypes
<1>15. /\ IsFiniteSet(E) /\ E \subseteq Nat /\ Newlines(g) = Cardinality(E) /\ DOMAIN g = 1 .. m + q
  BY <1>7, <1>9, EndsAreFinite DEF Newlines
<1>16. \A e : e \in E <=> e \in 1 .. m + q /\ out[g[e]]
  BY <1>7, <1>15, Zenon DEF T!Ends
<1>17. ASSUME NEW e \in E
       PROVE  e - m \in 1 .. q /\ e + (p - m) \in S /\ a < e + (p - m) /\ m < e
  <2>1. e \in 1 .. m + q /\ out[g[e]]
    BY <1>16
  <2>2. e \notin 1 .. m
    <3> SUFFICES ASSUME e \in 1 .. m PROVE FALSE
      OBVIOUS
    <3>1. g[e] = a + e /\ a + e \in a + 1 .. p
      BY <1>9, <1>10, <1>11
    <3>2. ~out[a + e]
      BY <1>13, <3>1
    <3> QED
      BY <2>1, <3>1, <3>2, Zenon
  <2>3. e - m \in 1 .. q /\ e = m + (e - m) /\ m < e
    <3>1. m \in Nat /\ q \in Nat
      BY <1>9
    <3>2. e \in 1 .. m + q
      BY <2>1
    <3> QED
      BY <2>2, <3>1, <3>2
  <2>4. g[e] = p + (e - m)
    BY <1>10, <2>3
  <2>5. p + (e - m) \in 1 .. Len(out) /\ p + (e - m) = e + (p - m) /\ a < p + (e - m)
    <3>1. PICK i \in 1 .. q : i = e - m /\ e = m + i
      BY <2>3
    <3>2. p + i \in 1 .. Len(out) /\ a < p + i /\ p + i = m + i + (p - m)
      BY <1>12
    <3> QED
      BY <3>1, <3>2
  <2>6. p + (e - m) \in S
    <3>1. out[p + (e - m)]
      BY <2>1, <2>4, Zenon
    <3> QED
      BY <1>14, <2>5, <3>1, Zenon
  <2> QED
    BY <2>3, <2>5, <2>6
<1>18. ASSUME NEW b \in a + 1 .. p + q, out[b]
       PROVE  b > p /\ b - p + m \in E
  <2>1. b \notin a + 1 .. p
    BY <1>13, <1>18, Zenon
  <2>2. b > p /\ b - p \in 1 .. q /\ b - p + m \in 1 .. m + q /\ b - p + m = m + (b - p) /\ b = p + (b - p)
    BY <1>12, <2>1
  <2>3. g[b - p + m] = b
    BY <1>10, <2>2
  <2>4. out[g[b - p + m]]
    BY <1>18, <2>3, Zenon
  <2>5. b - p + m \in E
    BY <1>16, <2>2, <2>4, Zenon
  <2> QED
    BY <2>2, <2>5
<1>19. PICK d : d = p - m
  OBVIOUS
<1>20. d \in Nat
  BY <1>9, <1>11, <1>19
<1>21. \A e \in E : e + d \in S /\ a < e + d
  BY <1>17, <1>19
<1>22. ASSUME NEW s \in S, NEW e \in E, a < s, s <= e + d PROVE s - d \in E
  <2>1. s \in 1 .. Len(out) /\ out[s]
    BY <1>14
  <2>2. e \in Nat /\ e <= m + q
    BY <1>16
  <2>3. s \in a + 1 .. p + q
    <3>1. s \in Nat /\ s <= e + (p - m)
      BY <1>19, <1>22, <2>1
    <3> QED
      BY <1>22, <1>12, <2>2, <3>1
  <2>4. s - p + m \in E
    BY <1>18, <2>1, <2>3
  <2> QED
    BY <1>19, <1>12, <2>1, <2>4
<1>23. Cardinality(UpTo(S, a)) = c /\ c \in Nat
  BY <1>5, <1>6, <1>8, CapturedRank
<1>24. \A k \in 1 .. Cardinality(E) :
         c + k \in 1 .. Cardinality(S) /\ T!Nth(S, c + k) = T!Nth(E, k) + d
  <2>1. IsFiniteSet(S) /\ S \subseteq Nat /\ IsFiniteSet(E) /\ E \subseteq Nat /\ a \in Nat
    BY <1>9, <1>14, <1>15
  <2>2. \A s \in S, e \in E : a < s /\ s <= e + d => s - d \in E
    BY <1>22
  <2> SUFFICES ASSUME NEW k \in 1 .. Cardinality(E)
               PROVE  c + k \in 1 .. Cardinality(S) /\ T!Nth(S, c + k) = T!Nth(E, k) + d
    OBVIOUS
  <2>3. Shifted(S, E, d, a)
    BY <1>20, <1>21, <2>1, <2>2 DEF Shifted
  <2> QED
    BY <1>23, <2>3, ShiftedEnds
<1>25. ASSUME NEW k \in 1 .. Newlines(g)
       PROVE  /\ c + k \in 1 .. Newlines(T!Output)
              /\ T!End(T!Output, c + k) = T!End(g, k) + (p - m)
              /\ m < T!End(g, k)
  <2>1. T!End(g, k) \in E
    BY <1>7, <1>9, EndFacts
  <2>2. c + k # 0 /\ k # 0
    BY <1>23
  <2> QED
    BY <1>6, <1>7, <1>14, <1>15, <1>17, <1>19, <1>24, <2>1, <2>2 DEF T!End
<1>26. \A b \in a + 1 .. p + q : (b > p /\ b - p + m \in E) \/ ~out[b]
  BY <1>18, Zenon
<1> QED
  BY <1>1, <1>2, <1>3, <1>4, <1>5, <1>7, <1>8, <1>25, <1>26

LEMMA ReadKeepsLines ==
  ASSUME ShapeInv, LinesInv, T!Read
  PROVE  LinesInv'
<1>1. /\ UNCHANGED <<out, live, copy, losses>> /\ pc = "read" /\ pc' = "idle" /\ T!From >= 0
      /\ Used \in 0 .. Len(T!Got)
      /\ Len(captured') = Len(captured) + Newlines(T!Got) /\ captured' \in Seq(Seq(Nat))
      /\ \A k \in 1 .. Len(captured) : captured'[k] = captured[k]
      /\ \A k \in 1 .. Newlines(T!Got) :
           captured'[Len(captured) + k] = T!Cut(T!Lines(T!Got)[k])
  BY ReadFacts
<1> SUFFICES ASSUME losses = {}
             PROVE  CapturedIsWritten' /\ CarryIsRest' /\ NothingSkipped'
  BY <1>1 DEF LinesInv
<1>2. CapturedIsWritten /\ CarryIsRest /\ NothingSkipped
  BY DEF LinesInv
<1>3. PICK g : g = T!Got
  OBVIOUS
<1>4. PICK m : m = Len(carry)
  OBVIOUS
<1>5. PICK q : q = Batch
  OBVIOUS
<1>6. PICK p : p = Place
  OBVIOUS
<1>7. PICK a : a = LastEnd
  OBVIOUS
<1>8. PICK c : c = Len(captured)
  OBVIOUS
<1>9. PICK N : N = Newlines(g)
  OBVIOUS
<1>10. PICK M : M = Newlines(T!Output)
  OBVIOUS
<1>11. PICK u : u = Used
  OBVIOUS
<1>12. /\ a \in Nat /\ p \in Nat /\ a <= p /\ q \in Nat /\ p + q <= Len(out) /\ Len(out) \in Nat
       /\ m \in Nat /\ m = Shorter(p - a) /\ g \in Seq(Nat) /\ Len(g) = m + q
       /\ offset \in Nat /\ T!From = offset
  BY <1>1, <1>2, <1>3, <1>4, <1>5, <1>6, <1>7, ReadPlaces
<1>13. /\ \A i \in 1 .. m : g[i] = a + i
       /\ \A i \in 1 .. q : g[m + i] = p + i
  BY <1>1, <1>2, <1>3, <1>4, <1>5, <1>6, <1>7, ReadPlaces
<1>14. m <= p - a /\ (m < p - a => m = MaxLine)
  BY <1>12, TailAssumption DEF Shorter
<1>15. N \in Nat /\ u = T!End(g, N) /\ u \in 0 .. m + q /\ (u = 0 => N = 0)
  BY <1>1, <1>3, <1>9, <1>11, <1>12, EndsAreFinite, UsedIsLast DEF Used
<1>16. /\ a \in Nat /\ p \in Nat /\ a <= p /\ q \in Nat /\ m \in Nat /\ m <= p - a
       /\ u \in Nat /\ u <= m + q /\ MaxLine \in Nat
  BY <1>12, <1>14, <1>15, TailAssumption
<1>17. ASSUME NEW k \in 1 .. N
       PROVE  /\ c + k \in 1 .. M /\ T!End(T!Output, c + k) = T!End(g, k) + (p - m)
              /\ m < T!End(g, k)
  BY <1>1, <1>2, <1>3, <1>4, <1>6, <1>8, <1>9, <1>10, ReadEnds
<1>18. \A b \in a + 1 .. p + q : (b > p /\ b - p + m \in T!Ends(g)) \/ ~out[b]
  BY <1>1, <1>2, <1>3, <1>4, <1>5, <1>6, <1>7, ReadEnds
<1>19. c \in Nat /\ c <= M /\ M \in Nat /\ a = T!End(T!Output, c)
  <2>1. out \in Seq(BOOLEAN) /\ Len(captured) \in Nat
    BY SizeFacts DEF ShapeInv, TailTypes
  <2> QED
    BY <1>2, <1>7, <1>8, <1>10, <2>1, OutputFacts DEF CapturedIsWritten, OutputIsPiece, LastEnd
<1>20. ASSUME NEW k \in 1 .. N PROVE captured'[c + k] = T!Written[c + k]
  <2>1. PICK v : v = T!Cut(T!Lines(g)[k])
    OBVIOUS
  <2>2. PICK j : j = c + k
    OBVIOUS
  <2>3. PICK x : x = T!End(g, k - 1)
    OBVIOUS
  <2>4. PICK y : y = T!End(g, k)
    OBVIOUS
  <2>5. PICK z : z = T!End(T!Output, j - 1)
    OBVIOUS
  <2>6. PICK w : w = T!Written[j]
    OBVIOUS
  <2>7. /\ v \in Seq(Nat) /\ Len(v) = Shorter(y - x - 1)
        /\ \A i \in 1 .. Len(v) : v[i] = g[x + i] /\ x + i \in 1 .. m + q /\ x + i < y
    BY <1>9, <1>12, <2>1, <2>3, <2>4, LinesFacts, CutLineFacts
  <2>8. PICK t : t = T!End(T!Output, j)
    OBVIOUS
  <2>9. t = y + (p - m)
    BY <1>17, <2>2, <2>4, <2>8
  <2>10. /\ w \in Seq(Nat) /\ Len(w) = Shorter(t - z - 1)
        /\ \A i \in 1 .. Len(w) : w[i] = z + i
    <3>1. WrittenIsLines
      BY WrittenFacts DEF ShapeInv, TailTypes
    <3>2. j \in 1 .. Newlines(T!Output)
      BY <1>10, <1>17, <2>2
    <3>3. /\ T!Written[j] \in Seq(Nat)
          /\ Len(T!Written[j]) = Shorter(T!End(T!Output, j) - T!End(T!Output, j - 1) - 1)
          /\ \A i \in 1 .. Len(T!Written[j]) : T!Written[j][i] = T!End(T!Output, j - 1) + i
      BY <3>1, <3>2 DEF WrittenIsLines
    <3> QED
      BY <2>5, <2>6, <2>8, <3>3, Zenon
  <2>11. /\ x \in Nat /\ y \in Nat /\ x < y /\ m < y /\ y <= m + q
    <3>1. k \in 0 .. N /\ k - 1 \in 0 .. N
      BY <1>15
    <3>2. x \in 0 .. m + q /\ y \in 0 .. m + q /\ x < y
      BY <1>9, <1>12, <2>3, <2>4, <3>1, EndFacts
    <3> QED
      BY <1>12, <1>17, <2>4, <3>2
  <2>12. Len(v) = Len(w) /\ \A i \in 1 .. Len(v) : v[i] = z + i
    <3>1. CASE k = 1
      <4>1. j - 1 = c
        BY <1>19, <2>2, <3>1
      <4>2. x = 0 /\ z = a
        BY <1>12, <1>19, <2>3, <2>5, <3>1, <4>1, EndFacts
      <4>3. Len(v) = Shorter(y - 1) /\ Len(w) = Shorter(y + (p - m) - a - 1)
        BY <1>16, <2>7, <2>10, <2>11, <2>9, <4>2
      <4>4. Len(v) = Len(w)
        BY <1>12, <1>14, <2>11, <4>3, TailAssumption DEF Shorter
      <4>5. ASSUME NEW i \in 1 .. Len(v) PROVE g[i] = a + i
        <5>1. i \in 1 .. m + q /\ i <= MaxLine
          BY <1>12, <2>7, <2>11, <4>2, <4>3, TailAssumption DEF Shorter
        <5>2. CASE i \in 1 .. m
          BY <1>13, <5>2
        <5>3. CASE i \notin 1 .. m
          <6>1. m = p - a /\ i - m \in 1 .. q /\ m + (i - m) = i
            BY <1>14, <1>16, <5>1, <5>3
          <6>2. g[i] = p + (i - m)
            BY <1>13, <6>1
          <6> QED
            BY <1>12, <5>1, <6>1, <6>2
        <5> QED
          BY <5>2, <5>3
      <4> QED
        BY <2>7, <4>2, <4>4, <4>5
    <3>2. CASE k # 1
      <4>1. k - 1 \in 1 .. N /\ j - 1 = c + (k - 1)
        BY <1>15, <1>19, <2>2, <3>2
      <4>2. z = x + (p - m) /\ m < x
        BY <1>17, <2>3, <2>5, <4>1
      <4>3. t - z - 1 = y - x - 1
        BY <1>16, <2>11, <2>9, <4>2
      <4>4. ASSUME NEW i \in 1 .. Len(v) PROVE g[x + i] = z + i
        <5>1. x + i \in 1 .. m + q
          BY <2>7
        <5>2. x + i - m \in 1 .. q /\ m + (x + i - m) = x + i
          BY <1>16, <2>11, <4>2, <5>1
        <5>3. g[x + i] = p + (x + i - m)
          BY <1>13, <5>2
        <5> QED
          BY <1>16, <2>11, <4>2, <5>3
      <4> QED
        BY <2>7, <2>10, <4>3, <4>4
    <3> QED
      BY <3>1, <3>2
  <2>13. v = w
    BY <2>7, <2>10, <2>12, SamePiece
  <2> QED
    BY <1>1, <1>3, <1>8, <1>9, <2>1, <2>2, <2>13, <2>6
<1>21. CapturedIsWritten'
  <2>1. Newlines(T!Output)' = M /\ T!Written' = T!Written
    BY <1>1, <1>10, SameOutput
  <2>2. Len(captured') = c + N /\ DOMAIN captured' = 1 .. c + N
    BY <1>1, <1>3, <1>8, <1>9
  <2>3. c + N <= M
    <3>1. CASE N = 0
      BY <1>19, <3>1
    <3>2. CASE N # 0
      <4>1. N \in 1 .. N
        BY <1>15, <3>2
      <4>2. c + N \in 1 .. M
        BY <1>17, <4>1
      <4> QED
        BY <4>2
    <3> QED
      BY <3>1, <3>2
  <2>4. ASSUME NEW k \in 1 .. c + N PROVE captured'[k] = T!Written[k]
    <3>1. CASE k \in 1 .. c
      <4>1. k \in DOMAIN captured
        BY <1>8, <3>1 DEF ShapeInv, TailTypes
      <4> QED
        BY <1>1, <1>2, <1>8, <3>1, <4>1 DEF CapturedIsWritten
    <3>2. CASE k - c \in 1 .. N
      <4>1. k = c + (k - c)
        BY <1>19
      <4> QED
        BY <1>20, <3>2, <4>1
    <3> QED
      BY <1>15, <1>19, <3>1, <3>2
  <2> QED
    BY <2>1, <2>2, <2>3, <2>4 DEF CapturedIsWritten
<1>22. LastEnd' = IF N = 0 THEN a ELSE u + (p - m)
  <2>1. LastEnd' = T!End(T!Output, c + N)
    BY <1>1, <1>3, <1>8, <1>9, SameOutput DEF LastEnd
  <2>2. CASE N = 0
    <3>1. c + N = c
      BY <1>19, <2>2
    <3> QED
      BY <1>19, <2>1, <2>2, <3>1
  <2>3. CASE N # 0
    <3>1. N \in 1 .. N
      BY <1>15, <2>3
    <3> QED
      BY <1>15, <1>17, <2>1, <2>3, <3>1
  <2> QED
    BY <2>2, <2>3
<1>23. N # 0 => m < u
  <2>1. N # 0 => N \in 1 .. N
    BY <1>15
  <2> QED
    BY <1>15, <1>17, <2>1
<1>24. copy' = << >> /\ Len(copy') <= Len(live') /\ DOMAIN copy' = {}
  <2>1. copy = << >> /\ Len(live) \in Nat
    BY <1>1 DEF ShapeInv, TailTypes, Phases
  <2> QED
    BY <1>1, <2>1, EmptyFacts
<1>25. ~rotated' /\ Begin' = Len(out) - Len(live) /\ Len(live) \in Nat /\ Len(live) <= Len(out)
  <2>1. rotated' = FALSE
    BY ReadFacts
  <2>2. ~rotated'
    BY <2>1, Zenon
  <2>3. Begin' = Len(out') - Len(live') - 0
    BY <2>2, Zenon DEF Begin
  <2>4. Len(live) \in Nat /\ Len(live) <= Len(out)
    BY DEF ShapeInv, TailTypes, LiveIsLatest
  <2>5. Begin' = Len(out) - Len(live)
    BY <1>1, <1>12, <2>3, <2>4
  <2> QED
    BY <2>2, <2>4, <2>5
<1>26. CASE rotated
  <2>1. p + q = Len(out) - Len(live)
    BY <1>1, <1>2, <1>5, <1>6, <1>26, ReadPlaces
  <2>2. PICK r : r = T!Cut(SubSeq(g, u + 1, Len(g)))
    OBVIOUS
  <2>3. carry' = r /\ offset' = 0
    BY <1>3, <1>11, <1>26, <2>2, ReadFacts
  <2>4. /\ r \in Seq(Nat) /\ Len(r) = Shorter(m + q - u) /\ Len(r) \in 0 .. m + q - u
        /\ \A i \in 1 .. Len(r) : r[i] = g[u + i]
        /\ Len(r) <= MaxLine
    <3>1. u \in 0 .. Len(g) /\ Len(g) = m + q
      BY <1>12, <1>15
    <3>2. /\ r \in Seq(Nat) /\ Len(r) = Shorter(Len(g) - u) /\ Len(r) \in 0 .. Len(g) - u
          /\ Len(r) <= MaxLine /\ \A i \in 1 .. Len(r) : r[i] = g[u + i]
      BY <1>12, <2>2, <3>1, RestFacts
    <3>3. Len(r) = Shorter(Len(g) - u) /\ Len(r) \in 0 .. Len(g) - u
      BY <3>2
    <3>4. Len(r) = Shorter(m + q - u) /\ Len(r) \in 0 .. m + q - u
      BY <1>16, <3>1, <3>3
    <3>5. r \in Seq(Nat) /\ Len(r) <= MaxLine
      BY <3>2
    <3>6. \A i \in 1 .. Len(r) : r[i] = g[u + i]
      BY <3>2
    <3> QED
      BY <3>4, <3>5, <3>6
  <2>5. Place' = p + q
    <3>1. Place' = Begin' + offset'
      BY DEF Place
    <3> QED
      BY <1>12, <1>25, <2>1, <2>3, <3>1
  <2>6. PICK e : e = LastEnd'
    OBVIOUS
  <2>7. e \in Nat /\ a <= e /\ e <= p + q
    <3>1. CASE N = 0
      BY <1>22, <1>16, <2>6, <3>1
    <3>2. CASE N # 0
      <4>1. e = u + (p - m) /\ m < u
        BY <1>22, <1>23, <2>6, <3>2
      <4> QED
        BY <1>16, <4>1
    <3> QED
      BY <3>1, <3>2
  <2>8. Len(r) = Shorter(p + q - e)
    <3>1. CASE N = 0
      <4>1. u = 0 /\ e = a
        BY <1>12, <1>15, <1>22, <2>6, <3>1, EndFacts
      <4> QED
        BY <1>12, <1>14, <2>4, <4>1, TailAssumption DEF Shorter
    <3>2. CASE N # 0
      <4>1. e = u + (p - m)
        BY <1>22, <2>6, <3>2
      <4>2. p + q - e = m + q - u
        BY <1>16, <4>1
      <4> QED
        BY <2>4, <4>2
    <3> QED
      BY <3>1, <3>2
  <2>9. ASSUME NEW i \in 1 .. Len(r) PROVE r[i] = e + i
    <3>1. r[i] = g[u + i] /\ u + i \in 1 .. m + q /\ i <= MaxLine
      <4>1. r[i] = g[u + i]
        BY <2>4
      <4>2. Len(r) \in Nat /\ Len(r) <= m + q - u /\ Len(r) <= MaxLine
        BY <1>16, <2>4
      <4> QED
        BY <1>16, <4>1, <4>2
    <3>2. CASE N = 0
      <4>1. u = 0 /\ e = a
        BY <1>12, <1>15, <1>22, <2>6, <3>2, EndFacts
      <4>2. CASE i \in 1 .. m
        <5>1. u + i = i
          BY <4>1
        <5> QED
          BY <1>13, <3>1, <4>1, <4>2, <5>1
      <4>3. CASE i \notin 1 .. m
        <5>1. m = p - a /\ i - m \in 1 .. q /\ m + (i - m) = i /\ u + i = i
          BY <1>14, <1>16, <3>1, <4>1, <4>3
        <5>2. g[i] = p + (i - m)
          BY <1>13, <5>1
        <5> QED
          BY <1>12, <3>1, <4>1, <5>1, <5>2
      <4> QED
        BY <4>2, <4>3
    <3>3. CASE N # 0
      <4>1. e = u + (p - m) /\ m < u
        BY <1>22, <1>23, <2>6, <3>3
      <4>2. u + i - m \in 1 .. q /\ m + (u + i - m) = u + i
        BY <1>16, <3>1, <4>1
      <4>3. g[u + i] = p + (u + i - m)
        BY <1>13, <4>2
      <4> QED
        BY <1>16, <3>1, <4>1, <4>3
    <3> QED
      BY <3>2, <3>3
  <2>10. ASSUME NEW b \in e + 1 .. p + q PROVE ~out[b]
    <3> SUFFICES ASSUME out[b] PROVE FALSE
      OBVIOUS
    <3>1. b \in a + 1 .. p + q
      BY <1>12, <2>7
    <3>2. b > p /\ b - p + m \in T!Ends(g)
      BY <1>18, <3>1, Zenon
    <3>3. b - p + m <= u
      BY <1>9, <1>12, <1>15, <3>2, EndFacts
    <3>4. CASE N = 0
      <4>1. u = 0
        BY <1>12, <1>15, <3>4, EndFacts
      <4> QED
        BY <1>12, <3>1, <3>2, <3>3, <4>1
    <3>5. CASE N # 0
      <4>1. e = u + (p - m) /\ b \in Int /\ e < b
        BY <1>22, <2>6, <2>7, <3>5
      <4> QED
        BY <1>16, <3>3, <4>1
    <3> QED
      BY <3>4, <3>5
  <2>11. CarryIsRest'
    <3>1. DOMAIN r = 1 .. Len(r)
      BY <2>4
    <3>2. LastEnd' <= Place' /\ Len(carry') = Shorter(Place' - LastEnd')
      <4>1. LastEnd' = e /\ Place' = p + q /\ carry' = r
        BY <2>3, <2>5, <2>6
      <4>2. Place' - LastEnd' = p + q - e
        BY <1>16, <2>7, <4>1
      <4>3. Len(carry') = Len(r)
        BY <4>1, Zenon
      <4>4. LastEnd' <= Place'
        BY <2>7, <4>1, Zenon
      <4>5. Len(carry') = Shorter(Place' - LastEnd')
        BY <2>8, <4>2, <4>3, Zenon
      <4> QED
        BY <4>4, <4>5
    <3>3. \A b \in LastEnd' + 1 .. Place' : ~out'[b]
      BY <1>1, <2>5, <2>6, <2>10
    <3>4. \A i \in DOMAIN carry' : carry'[i] = LastEnd' + i
      BY <2>3, <2>6, <2>9, <3>1
    <3> QED
      BY <3>2, <3>3, <3>4 DEF CarryIsRest, Shorter
  <2>12. NothingSkipped'
    <3>1. 0 <= offset' /\ offset' <= Len(live')
      BY <1>1, <1>25, <2>3
    <3>2. 0 <= Begin'
      BY <1>12, <1>25
    <3> QED
      BY <1>1, <1>24, <1>25, <3>1, <3>2 DEF NothingSkipped
  <2> QED
    BY <1>21, <2>11, <2>12
<1>27. CASE ~rotated
  <2>1. offset + q <= Len(live)
    BY <1>1, <1>2, <1>5, <1>27, ReadPlaces
  <2>2. PICK w : w = IF u > m THEN u - m ELSE 0
    OBVIOUS
  <2>3. carry' = (IF u > 0 THEN << >> ELSE carry) /\ offset' = offset + w
    BY <1>3, <1>4, <1>11, <1>12, <1>27, <2>2, ReadFacts
  <2>4. p = Len(out) - Len(live) + offset
    <3>1. Begin = Len(out) - Len(live) - 0
      BY <1>27, BeginFacts
    <3> QED
      BY <1>6, <1>12, <1>25, <3>1 DEF Place
  <2>5. w \in 0 .. q
    BY <1>16, <2>2
  <2>6. Place' = p + w
    <3>1. Place' = Begin' + offset'
      BY DEF Place
    <3> QED
      BY <1>12, <1>25, <2>3, <2>4, <2>5, <3>1
  <2>7. NothingSkipped'
    <3>1. 0 <= offset' /\ offset' <= Len(live')
      <4>1. PICK o : o = offset
        OBVIOUS
      <4>2. PICK n : n = Len(live)
        OBVIOUS
      <4>3. o \in Nat /\ n \in Nat /\ o + q <= n /\ q \in Nat /\ w \in 0 .. q
        BY <1>12, <1>25, <2>1, <2>5, <4>1, <4>2
      <4>4. 0 <= o + w /\ o + w <= n
        BY <4>3
      <4> QED
        BY <1>1, <2>3, <4>1, <4>2, <4>4
    <3>2. 0 <= Begin'
      BY <1>12, <1>25
    <3> QED
      BY <1>1, <1>24, <1>25, <3>1, <3>2 DEF NothingSkipped
  <2>8. CASE N = 0
    <3>1. u = 0
      BY <1>12, <1>15, <2>8, EndFacts
    <3>2. carry' = carry /\ Place' = p /\ LastEnd' = a
      BY <1>12, <1>22, <2>2, <2>3, <2>6, <2>8, <3>1
    <3>3. CarryIsRest'
      BY <1>1, <1>2, <1>6, <1>7, <3>2 DEF CarryIsRest, Shorter
    <3> QED
      BY <1>21, <2>7, <3>3
  <2>9. CASE N # 0
    <3>1. u > m /\ u > 0 /\ w = u - m
      BY <1>12, <1>15, <1>23, <2>2, <2>9
    <3>2. carry' = << >> /\ Place' = p + (u - m) /\ LastEnd' = u + (p - m)
      BY <1>22, <2>3, <2>6, <2>9, <3>1
    <3>3. Place' = LastEnd' /\ LastEnd' \in Nat
      BY <1>16, <3>1, <3>2
    <3>4. Place' - LastEnd' = 0 /\ \A b \in LastEnd' + 1 .. Place' : FALSE
      <4>1. PICK x : x = LastEnd'
        OBVIOUS
      <4>2. x \in Nat /\ Place' = x
        BY <3>3, <4>1
      <4>3. x - x = 0 /\ \A b \in x + 1 .. x : FALSE
        BY <4>2
      <4> QED
        BY <4>1, <4>2, <4>3
    <3>5. Len(carry') = Shorter(Place' - LastEnd')
      BY <3>2, <3>4, EmptyFacts, TailAssumption DEF Shorter
    <3>6. DOMAIN carry' = {} /\ LastEnd' <= Place'
      BY <3>2, <3>3, EmptyFacts
    <3>7. CarryIsRest'
      BY <3>4, <3>5, <3>6 DEF CarryIsRest, Shorter
    <3> QED
      BY <1>21, <2>7, <3>7
  <2> QED
    BY <2>8, <2>9
<1> QED
  BY <1>26, <1>27

LEMMA StepKeepsLines ==
  ASSUME ShapeInv, LinesInv, T!Next
  PROVE  LinesInv'
  BY WriteKeepsLines, FlushKeepsLines, PollKeepsLines, FailureKeepsLines, CopyKeepsLines,
     ReadKeepsLines DEF T!Next, T!Pump

-----------------------------------------------------------------------------
(* The archives and the file in use hold the output without a gap.          *)
LiveStart == Len(out) - Len(live) + 1
First(a, s, k) == IF k <= Len(a) THEN a[k][1] ELSE s
Linked(a, s, k) ==
  /\ a[k] # << >> /\ First(a, s, k + 1) = First(a, s, k) + Len(a[k])
  /\ \A i \in 1 .. Len(a[k]) : a[k][i] = First(a, s, k) + i - 1
CopyIsFile == Len(copy) <= Len(live) /\ \A i \in DOMAIN copy : copy[i] = live[i]
Chained(a, s) ==
  /\ \A k \in 1 .. Len(a) : Linked(a, s, k)
  /\ Len(a) < Retain => First(a, s, 1) = 1
WholeInv ==
  losses \cap {"window", "flush"} = {} => CopyIsFile /\ Chained(archives, LiveStart)

LEMMA InitHasFiles == T!Init => WholeInv
<1> SUFFICES ASSUME T!Init PROVE CopyIsFile /\ Chained(archives, LiveStart)
  BY DEF WholeInv
<1>1. /\ Len(out) = 0 /\ Len(live) = 0 /\ Len(copy) = 0 /\ Len(archives) = 0 /\ DOMAIN copy = {}
  BY EmptyFacts DEF T!Init
<1>2. CopyIsFile
  BY <1>1 DEF CopyIsFile
<1>3. LiveStart = 1
  BY <1>1 DEF LiveStart
<1> QED
  BY <1>1, <1>2, <1>3 DEF Chained, First

LEMMA QuietKeepsFiles ==
  ASSUME ShapeInv, WholeInv, UNCHANGED <<out, live, archives>>, losses \subseteq losses',
         copy' = copy \/ copy' = << >> \/ copy' = live
  PROVE  WholeInv'
<1> SUFFICES ASSUME losses' \cap {"window", "flush"} = {}
             PROVE  CopyIsFile' /\ Chained(archives, LiveStart)'
  BY DEF WholeInv
<1>1. losses \cap {"window", "flush"} = {}
  OBVIOUS
<1>2. CopyIsFile /\ Chained(archives, LiveStart)
  BY <1>1 DEF WholeInv
<1>3. Chained(archives, LiveStart)'
  BY <1>2 DEF Chained, LiveStart, First, Linked
<1>4. Len(live) \in Nat /\ live' = live
  BY SizeFacts DEF ShapeInv
<1>5. CASE copy' = copy
  BY <1>2, <1>3, <1>4, <1>5 DEF CopyIsFile
<1>6. CASE copy' = << >>
  BY <1>3, <1>4, <1>6, EmptyFacts DEF CopyIsFile
<1>7. CASE copy' = live
  BY <1>3, <1>4, <1>7 DEF CopyIsFile
<1> QED
  BY <1>5, <1>6, <1>7

LEMMA WriteKeepsFiles ==
  ASSUME ShapeInv, WholeInv, NEW newline \in BOOLEAN, T!Write(newline)
  PROVE  WholeInv'
<1> SUFFICES ASSUME losses' \cap {"window", "flush"} = {}
             PROVE  CopyIsFile' /\ Chained(archives, LiveStart)'
  BY DEF WholeInv
<1>1. /\ out' = Append(out, newline) /\ live' = Append(live, Len(out) + 1)
      /\ UNCHANGED <<archives, copy, losses>>
  BY DEF T!Write, T!pump
<1>2. CopyIsFile /\ Chained(archives, LiveStart)
  BY <1>1 DEF WholeInv
<1>3. /\ out \in Seq(BOOLEAN) /\ live \in Seq(Nat) /\ Len(out) \in Nat /\ Len(live) \in Nat
      /\ DOMAIN copy = 1 .. Len(copy) /\ Len(copy) \in Nat
  BY SizeFacts DEF ShapeInv, TailTypes
<1>4. Len(out') = Len(out) + 1
  BY <1>1, <1>3
<1>5. Len(live') = Len(live) + 1 /\ \A i \in 1 .. Len(live) : live'[i] = live[i]
  BY <1>1, <1>3
<1>6. LiveStart' = LiveStart
  BY <1>3, <1>4, <1>5 DEF LiveStart
<1>7. Chained(archives, LiveStart)'
  BY <1>1, <1>2, <1>6 DEF Chained, First, Linked
<1>8. CopyIsFile'
  BY <1>1, <1>2, <1>3, <1>5 DEF CopyIsFile
<1> QED
  BY <1>7, <1>8

LEMMA AgainKeepsFiles ==
  ASSUME ShapeInv, WholeInv, T!CopyAgain
  PROVE  WholeInv'
<1> SUFFICES ASSUME losses' \cap {"window", "flush"} = {}
             PROVE  CopyIsFile' /\ Chained(archives, LiveStart)'
  BY DEF WholeInv
<1>1. UNCHANGED <<out, live, archives, losses>> /\ copy' = copy \o T!Uncopied
  BY DEF T!CopyAgain, T!file
<1>2. CopyIsFile /\ Chained(archives, LiveStart)
  BY <1>1 DEF WholeInv
<1>3. /\ live \in Seq(Nat) /\ copy \in Seq(Nat) /\ Len(live) \in Nat /\ Len(copy) \in Nat
      /\ DOMAIN copy = 1 .. Len(copy)
  BY SizeFacts DEF ShapeInv, TailTypes
<1>4. PICK c : c = copy \o T!Uncopied
  OBVIOUS
<1>5. /\ c \in Seq(Nat) /\ Len(c) = IF Len(copy) < Len(live) THEN Len(live) ELSE Len(copy)
      /\ \A i \in 1 .. Len(copy) : c[i] = copy[i]
      /\ \A i \in Len(copy) + 1 .. Len(live) : c[i] = live[i]
  BY <1>3, <1>4, CopyFacts
<1>6. Len(copy) <= Len(live) /\ \A i \in 1 .. Len(copy) : copy[i] = live[i]
  BY <1>2, <1>3 DEF CopyIsFile
<1>7. Len(c) = Len(live)
  <2>1. Len(c) = IF Len(copy) < Len(live) THEN Len(live) ELSE Len(copy)
    BY <1>5
  <2>2. Len(copy) <= Len(live) /\ Len(live) \in Nat /\ Len(copy) \in Nat
    BY <1>3, <1>6
  <2> QED
    BY <2>1, <2>2
<1>8. DOMAIN c = 1 .. Len(live)
  BY <1>5, <1>7
<1>9. ASSUME NEW i \in 1 .. Len(live) PROVE c[i] = live[i]
  <2>1. CASE i \in 1 .. Len(copy)
    BY <1>5, <1>6, <2>1
  <2>2. CASE i \in Len(copy) + 1 .. Len(live)
    BY <1>5, <2>2
  <2> QED
    BY <1>3, <2>1, <2>2
<1>10. CopyIsFile'
  <2>1. copy' = c /\ live' = live
    BY <1>1, <1>4
  <2> QED
    BY <1>3, <1>7, <1>8, <1>9, <2>1 DEF CopyIsFile
<1>11. Chained(archives, LiveStart)'
  BY <1>1, <1>2 DEF Chained, LiveStart, First, Linked
<1> QED
  BY <1>10, <1>11

(* A truncation that loses nothing archives exactly what was in the file.   *)
LEMMA ArchiveIsLinked ==
  ASSUME NEW a \in Seq(Seq(Nat)), NEW c \in Seq(Nat), NEW s \in Nat, NEW t, Chained(a, s),
         c # << >>, t = s + Len(c), \A i \in 1 .. Len(c) : c[i] = s + i - 1
  PROVE  Chained(Append(a, c), t)
<1>1. PICK b : b = Append(a, c)
  OBVIOUS
<1>2. PICK n : n = Len(a)
  OBVIOUS
<1>3. /\ n \in Nat /\ Len(b) = n + 1 /\ b[n + 1] = c /\ \A k \in 1 .. n : b[k] = a[k]
  BY <1>1, <1>2
<1>4. Len(c) \in Nat /\ Len(c) # 0
  OBVIOUS
<1>5. c[1] = s
  <2>1. 1 \in 1 .. Len(c)
    BY <1>4
  <2>2. c[1] = s + 1 - 1
    BY <2>1
  <2> QED
    BY <2>2
<1>6. ASSUME NEW k \in 1 .. n + 1 PROVE First(b, t, k) = First(a, s, k)
  <2>1. CASE k \in 1 .. n
    BY <1>2, <1>3, <2>1 DEF First
  <2>2. CASE k = n + 1
    <3>1. ~(k <= n) /\ k <= n + 1
      BY <1>3, <2>2
    <3> QED
      BY <1>2, <1>3, <1>5, <2>2, <3>1 DEF First
  <2> QED
    BY <1>3, <2>1, <2>2
<1>7. ASSUME NEW k \in 1 .. n + 1 PROVE Linked(b, t, k)
  <2>1. CASE k \in 1 .. n
    <3>1. k + 1 \in 1 .. n + 1
      BY <1>3, <2>1
    <3>2. b[k] = a[k] /\ First(b, t, k) = First(a, s, k) /\ First(b, t, k + 1) = First(a, s, k + 1)
      BY <1>3, <1>6, <2>1, <3>1
    <3>3. Linked(a, s, k)
      BY <1>2, <2>1 DEF Chained
    <3> QED
      BY <3>2, <3>3 DEF Linked
  <2>2. CASE k = n + 1
    <3>1. b[k] = c /\ First(b, t, k) = s
      <4>1. ~(n + 1 <= n)
        BY <1>3
      <4> QED
        BY <1>2, <1>3, <1>6, <2>2, <4>1 DEF First
    <3>2. First(b, t, k + 1) = t
      <4>1. ~(n + 1 + 1 <= n + 1)
        BY <1>3
      <4> QED
        BY <1>3, <2>2, <4>1 DEF First
    <3> QED
      BY <3>1, <3>2 DEF Linked
  <2> QED
    BY <1>3, <2>1, <2>2
<1>8. Len(b) < Retain => First(b, t, 1) = 1
  <2>1. n + 1 < Retain => n < Retain
    BY <1>3, TailAssumption
  <2>2. 1 \in 1 .. n + 1
    BY <1>3
  <2> QED
    BY <1>2, <1>3, <1>6, <2>1, <2>2 DEF Chained
<1>9. Chained(b, t)
  BY <1>3, <1>7, <1>8 DEF Chained
<1> QED
  BY <1>1, <1>9

LEMMA TruncateKeepsFiles ==
  ASSUME ShapeInv, WholeInv, T!Truncate
  PROVE  WholeInv'
<1> SUFFICES ASSUME losses' \cap {"window", "flush"} = {}
             PROVE  CopyIsFile' /\ Chained(archives, LiveStart)'
  BY DEF WholeInv
<1>1. /\ pc = "truncate" /\ live' = << >> /\ archives' = Append(archives, copy)
      /\ copy' = << >> /\ UNCHANGED out
      /\ T!Look(Len(copy), offset, IF T!Uncopied # << >> THEN {"window"} ELSE {})
  BY DEF T!Truncate
<1>2. /\ live \in Seq(Nat) /\ copy \in Seq(Nat) /\ carry \in Seq(Nat) /\ offset \in Int
      /\ archives \in Seq(Seq(Nat)) /\ Len(out) \in Nat /\ Len(live) \in Nat /\ Len(copy) \in Nat
      /\ DOMAIN copy = 1 .. Len(copy) /\ Len(live) <= Len(out)
      /\ \A i \in 1 .. Len(live) : live[i] = Len(out) - Len(live) + i
  BY SizeFacts DEF ShapeInv, TailTypes, LiveIsLatest
<1>3. PICK lost : lost = IF T!Uncopied # << >> THEN {"window"} ELSE {}
  OBVIOUS
<1>4. losses \subseteq losses' /\ lost \subseteq losses'
  BY <1>1, <1>2, <1>3, LookFacts
<1>5. losses \cap {"window", "flush"} = {} /\ "window" \notin lost
  BY <1>4
<1>6. ~(Len(copy) < Len(live))
  BY <1>2, <1>3, <1>5, CopyFacts
<1>7. CopyIsFile /\ Chained(archives, LiveStart)
  BY <1>5 DEF WholeInv
<1>8. Len(copy) = Len(live) /\ \A i \in 1 .. Len(copy) : copy[i] = live[i]
  <2>1. Len(copy) <= Len(live) /\ \A i \in DOMAIN copy : copy[i] = live[i]
    BY <1>7 DEF CopyIsFile
  <2>2. Len(copy) \in Nat /\ Len(live) \in Nat /\ DOMAIN copy = 1 .. Len(copy)
    BY <1>2
  <2>3. Len(copy) = Len(live)
    BY <1>6, <2>1, <2>2
  <2> QED
    BY <2>1, <2>2, <2>3
<1>9. copy # << >>
  BY <1>1 DEF ShapeInv, Phases
<1>10. PICK s : s = LiveStart
  OBVIOUS
<1>11. s \in Nat /\ \A i \in 1 .. Len(copy) : copy[i] = s + i - 1
  BY <1>2, <1>8, <1>10 DEF LiveStart
<1>12. LiveStart' = s + Len(copy)
  BY <1>1, <1>2, <1>8, <1>10, EmptyFacts DEF LiveStart
<1>13. Chained(Append(archives, copy), s + Len(copy))
  BY <1>2, <1>7, <1>9, <1>10, <1>11, ArchiveIsLinked
<1>14. Chained(archives, LiveStart)'
  BY <1>1, <1>12, <1>13 DEF Chained, First, Linked
<1>15. CopyIsFile'
  BY <1>1, EmptyFacts DEF CopyIsFile
<1> QED
  BY <1>14, <1>15

(* What is pruned is the oldest.                                            *)
LEMMA PrunedIsLinked ==
  ASSUME NEW a \in Seq(Seq(Nat)), NEW s, Chained(a, s)
  PROVE  Chained(T!Prune(a), s)
<1>1. PICK n : n = Len(a)
  OBVIOUS
<1>2. PICK b : b = T!Prune(a)
  OBVIOUS
<1>3. PICK d \in 0 .. Len(a) :
        /\ T!Prune(a) \in Seq(Seq(Nat)) /\ Len(T!Prune(a)) = Len(a) - d
        /\ \A k \in 1 .. Len(a) - d : T!Prune(a)[k] = a[d + k]
        /\ d = 0 \/ Len(a) - d = Retain
  BY PruneFacts
<1>4. /\ d \in 0 .. n /\ b \in Seq(Seq(Nat)) /\ Len(b) = n - d
      /\ \A k \in 1 .. n - d : b[k] = a[d + k]
      /\ d = 0 \/ n - d = Retain
  BY <1>1, <1>2, <1>3, Zenon
<1>5. n \in Nat /\ d \in Nat /\ d <= n
  BY <1>1, <1>4
<1>6. ASSUME NEW k \in 1 .. n - d + 1 PROVE First(b, s, k) = First(a, s, d + k)
  <2>1. k <= n - d <=> d + k <= n
    BY <1>5
  <2>2. CASE k <= n - d
    <3>1. k \in 1 .. n - d
      BY <1>5, <2>2
    <3> QED
      BY <1>1, <1>4, <2>1, <2>2, <3>1 DEF First
  <2>3. CASE ~(k <= n - d)
    BY <1>1, <1>4, <2>1, <2>3 DEF First
  <2> QED
    BY <2>2, <2>3
<1>7. ASSUME NEW k \in 1 .. n - d PROVE Linked(b, s, k)
  <2>1. /\ k \in 1 .. n - d + 1 /\ k + 1 \in 1 .. n - d + 1 /\ d + k \in 1 .. n
        /\ d + (k + 1) = d + k + 1
    BY <1>5
  <2>2. /\ b[k] = a[d + k] /\ First(b, s, k) = First(a, s, d + k)
        /\ First(b, s, k + 1) = First(a, s, d + k + 1)
    BY <1>4, <1>6, <2>1
  <2>3. Linked(a, s, d + k)
    BY <1>1, <2>1 DEF Chained
  <2> QED
    BY <2>2, <2>3 DEF Linked
<1>8. Len(b) < Retain => First(b, s, 1) = 1
  <2> SUFFICES ASSUME Len(b) < Retain PROVE First(b, s, 1) = 1
    OBVIOUS
  <2>1. d = 0
    BY <1>4, <1>5, TailAssumption
  <2>2. 1 \in 1 .. n - d + 1 /\ d + 1 = 1 /\ n - d = n
    BY <1>5, <2>1
  <2>3. First(b, s, 1) = First(a, s, 1)
    BY <1>6, <2>2
  <2> QED
    BY <1>1, <1>4, <2>2, <2>3 DEF Chained
<1>9. Chained(b, s)
  BY <1>4, <1>7, <1>8 DEF Chained
<1> QED
  BY <1>2, <1>9

LEMMA ReadKeepsFiles ==
  ASSUME ShapeInv, WholeInv, T!Read
  PROVE  WholeInv'
<1> SUFFICES ASSUME losses' \cap {"window", "flush"} = {}
             PROVE  CopyIsFile' /\ Chained(archives, LiveStart)'
  BY DEF WholeInv
<1>1. UNCHANGED <<out, live, copy, losses>> /\ (archives' = archives \/ archives' = T!Prune(archives))
  BY ReadFacts
<1>2. CopyIsFile /\ Chained(archives, LiveStart)
  BY <1>1 DEF WholeInv
<1>3. CopyIsFile'
  BY <1>1, <1>2 DEF CopyIsFile
<1>4. LiveStart' = LiveStart
  BY <1>1 DEF LiveStart
<1>5. archives \in Seq(Seq(Nat))
  BY DEF ShapeInv, TailTypes
<1>6. Chained(T!Prune(archives), LiveStart)
  BY <1>2, <1>5, PrunedIsLinked
<1>7. Chained(archives', LiveStart)
  BY <1>1, <1>2, <1>6
<1>8. Chained(archives, LiveStart)'
  BY <1>4, <1>7 DEF Chained, First, Linked
<1> QED
  BY <1>3, <1>8

LEMMA StepKeepsFiles ==
  ASSUME ShapeInv, WholeInv, T!Next
  PROVE  WholeInv'
<1>1. CASE T!Flush
  <2>1. "flush" \in losses'
    BY <1>1 DEF T!Flush, T!Fault
  <2> QED
    BY <2>1 DEF WholeInv
<1>2. CASE T!PollEmpty \/ T!PollGrown \/ T!PollRotates \/ T!Copy
  <2>1. Len(live) \in Nat /\ T!Resumed \in Int /\ carry \in Seq(Nat)
    BY SizeFacts DEF ShapeInv, TailTypes, T!Resumed
  <2>2. UNCHANGED <<out, live, archives>> /\ (copy' = copy \/ copy' = live)
    BY <1>2 DEF T!PollEmpty, T!PollGrown, T!PollRotates, T!Copy, T!file
  <2>3. losses' = losses \/ T!Look(Len(live), T!Resumed, {})
    BY <1>2 DEF T!PollEmpty, T!PollGrown, T!PollRotates, T!Copy
  <2>4. losses \subseteq losses'
    BY <2>1, <2>3, LookFacts
  <2> QED
    BY <2>2, <2>4, QuietKeepsFiles
<1>3. CASE T!NotDue \/ T!CopyFails
  <2>1. T!GivesUp
    BY <1>3 DEF T!NotDue, T!CopyFails
  <2>2. UNCHANGED <<out, live, archives>> /\ copy' = << >>
    BY <2>1 DEF T!GivesUp, T!file
  <2>3. losses' = losses \/ T!Look(Len(live), offset, {})
    BY <2>1 DEF T!GivesUp
  <2>4. Len(live) \in Nat /\ offset \in Int /\ carry \in Seq(Nat)
    BY SizeFacts DEF ShapeInv, TailTypes
  <2>5. losses \subseteq losses'
    BY <2>3, <2>4, LookFacts
  <2> QED
    BY <2>2, <2>5, QuietKeepsFiles
<1>4. CASE T!SeekFails \/ T!ReadFails
  BY <1>4, QuietKeepsFiles DEF T!SeekFails, T!ReadFails, T!StartsOver, T!Fault, T!file
<1> QED
  BY <1>1, <1>2, <1>3, <1>4, WriteKeepsFiles, AgainKeepsFiles, TruncateKeepsFiles, ReadKeepsFiles
  DEF T!Next, T!Pump

LEMMA FilesAreWhole ==
  ASSUME ShapeInv, WholeInv
  PROVE  T!FilesWhole
<1> SUFFICES ASSUME losses \cap {"window", "flush"} = {} PROVE T!FilesWhole
  BY DEF T!FilesWhole
<1>1. PICK n : n = Len(archives)
  OBVIOUS
<1>2. /\ n \in Nat /\ DOMAIN archives = 1 .. n /\ archives \in Seq(Seq(Nat)) /\ live \in Seq(Nat)
      /\ Len(live) \in Nat /\ Len(out) \in Nat /\ DOMAIN live = 1 .. Len(live)
      /\ \A i \in 1 .. Len(live) : live[i] = Len(out) - Len(live) + i
  BY <1>1, SizeFacts DEF ShapeInv, TailTypes, LiveIsLatest
<1>3. Chained(archives, LiveStart)
  BY DEF WholeInv
<1>4. \A k : T!Start(k) = First(archives, LiveStart, k)
  BY DEF T!Start, First, LiveStart
<1>5. PICK f : f = T!Files
  OBVIOUS
<1>6. /\ DOMAIN f = 1 .. n + 1 /\ f[n + 1] = live
      /\ \A k \in 1 .. n : f[k] = archives[k] /\ archives[k] \in Seq(Nat)
  BY <1>1, <1>2, <1>5 DEF T!Files
<1>7. ASSUME NEW k \in 1 .. n
      PROVE  /\ archives[k] # << >> /\ T!Start(k + 1) = T!Start(k) + Len(archives[k])
             /\ DOMAIN archives[k] = 1 .. Len(archives[k])
             /\ \A i \in 1 .. Len(archives[k]) : archives[k][i] = T!Start(k) + i - 1
  <2>1. Linked(archives, LiveStart, k)
    BY <1>1, <1>3 DEF Chained
  <2>2. archives[k] \in Seq(Nat)
    BY <1>6
  <2> QED
    BY <1>4, <2>1, <2>2 DEF Linked
<1>8. ASSUME NEW k \in 1 .. n + 1, NEW i \in DOMAIN f[k] PROVE f[k][i] = T!Start(k) + i - 1
  <2>1. CASE k \in 1 .. n
    BY <1>6, <1>7, <2>1
  <2>2. CASE k = n + 1
    <3>1. ~(k <= Len(archives)) /\ f[k] = live /\ i \in 1 .. Len(live)
      BY <1>1, <1>2, <1>6, <2>2
    <3>2. T!Start(k) = Len(out) - Len(live) + 1
      BY <3>1 DEF T!Start
    <3> QED
      BY <1>2, <3>1, <3>2
  <2> QED
    BY <1>2, <2>1, <2>2
<1>9. Len(archives) < Retain => T!Start(1) = 1
  BY <1>3, <1>4 DEF Chained
<1> QED
  BY <1>2, <1>5, <1>6, <1>7, <1>8, <1>9 DEF T!FilesWhole

-----------------------------------------------------------------------------
TailKeeps == ShapeInv /\ OrderInv /\ LinesInv /\ WholeInv

LEMMA LinesAreOnce == ASSUME TailKeeps PROVE T!LinesOnce
<1>1. out \in Seq(BOOLEAN)
  BY DEF TailKeeps, ShapeInv, TailTypes
<1>2. Len(T!Written) = Newlines(T!Output)
  BY <1>1, WrittenFacts DEF WrittenIsLines
<1>3. losses = {} => CapturedIsWritten
  BY DEF TailKeeps, LinesInv
<1>4. "error" \notin losses => CapturedInOrder
  BY DEF TailKeeps, OrderInv
<1>5. losses = {} =>
        Len(captured) <= Len(T!Written) /\ \A k \in DOMAIN captured : captured[k] = T!Written[k]
  BY <1>2, <1>3 DEF CapturedIsWritten
<1> QED
  BY <1>4, <1>5 DEF T!LinesOnce, CapturedInOrder

LEMMA InitKeepsTail == T!Init => TailKeeps
  BY InitHasShape, InitHasOrder, InitHasLines, InitHasFiles DEF TailKeeps

LEMMA StepKeepsTail ==
  ASSUME TailKeeps, T!Next
  PROVE  TailKeeps'
  BY StepKeepsShape, StepKeepsOrder, StepKeepsLines, StepKeepsFiles DEF TailKeeps

(* The two halves of a behaviour: the tail works, or it rests.              *)
LogsKeep == TailKeeps \/ TailRests

LEMMA RestKeeps ==
  ASSUME LogsKeep, UNCHANGED tailVars
  PROVE  LogsKeep'
<1>1. CASE TailRests
  BY <1>1 DEF TailRests, LogsKeep, tailVars
<1>2. CASE TailKeeps
  <2>1. UNCHANGED <<out, live, archives, pc, copy, rotated, offset, carry, captured, losses, faults>>
    BY DEF tailVars
  <2>2. ShapeInv'
    BY <1>2, <2>1 DEF TailKeeps, ShapeInv, TailTypes, LiveIsLatest, CarryIsHalf, CopyIsOlder,
       Phases, Within, Sorted, Broken
  <2>3. OrderInv'
    BY <1>2, <2>1 DEF TailKeeps, OrderInv, CapturedInOrder, CarryIsNext, UnreadIsNewer, Taken,
       Unread, Sorted, Src
  <2>4. LinesInv'
    <3>1. losses = {} =>
            /\ Len(copy') <= Len(live) /\ \A i \in DOMAIN copy' : copy'[i] = live[i]
            /\ pc' \in {"again", "truncate"} => offset <= Len(copy')
      BY <1>2, <2>1 DEF TailKeeps, LinesInv, NothingSkipped
    <3>2. LinesInv /\ losses' = losses
      BY <1>2, <2>1 DEF TailKeeps
    <3>3. rotated' = rotated
      BY <2>1, Zenon
    <3> QED
      BY <2>1, <3>1, <3>2, <3>3, QuietKeepsLines
  <2>5. WholeInv'
    BY <1>2, <2>1, QuietKeepsFiles DEF TailKeeps
  <2> QED
    BY <2>2, <2>3, <2>4, <2>5 DEF TailKeeps, LogsKeep
<1> QED
  BY <1>1, <1>2 DEF LogsKeep

LEMMA RestHasOutput == TailRests => OutputKept
<1> SUFFICES ASSUME TailRests PROVE OutputKept
  OBVIOUS
<1>1. /\ Len(captured) = 0 /\ DOMAIN captured = {} /\ Len(live) = 0 /\ Len(archives) = 0
      /\ DOMAIN archives = {} /\ Len(out) = 0 /\ live = << >> /\ archives = << >>
      /\ out \in Seq(BOOLEAN)
  BY EmptyFacts DEF TailRests
<1>2. Len(T!Written) \in Nat
  BY <1>1, OutputFacts, WrittenFacts DEF WrittenIsLines, OutputIsPiece
<1>3. T!LinesOnce
  BY <1>1, <1>2 DEF T!LinesOnce
<1>4. T!Files = Append(<< >>, << >>)
  BY <1>1 DEF T!Files
<1>5. \A k \in DOMAIN T!Files : DOMAIN T!Files[k] = {}
  <2>1. PICK f : f = Append(<< >>, << >>)
    OBVIOUS
  <2>2. DOMAIN f = {1} /\ f[1] = << >>
    BY <2>1
  <2> QED
    BY <1>4, <2>1, <2>2, EmptyFacts
<1>6. T!Start(1) = 1
  BY <1>1 DEF T!Start
<1>7. T!FilesWhole
  BY <1>1, <1>5, <1>6 DEF T!FilesWhole
<1> QED
  BY <1>3, <1>7 DEF OutputKept, T!OutputKept

(* What the app writes is kept: unless it is lost in one of the ways the    *)
(* code knows (a batch past the cap, the window of a truncation, a flush, a *)
(* read that fails), each of its lines is captured once, in order and cut   *)
(* at most, and the archives and the file hold its output without a gap.    *)
THEOREM OutputIsKept == LogsSpec => []OutputKept
<1>1. LogsInit => LogsKeep
  BY InitKeepsTail DEF LogsInit, LogsKeep
<1>2. ASSUME LogsKeep, [LogsNext]_<<vars, tailVars>> PROVE LogsKeep'
  <2>1. CASE UNCHANGED tailVars
    BY <1>2, <2>1, RestKeeps
  <2>2. CASE pc # "rest" /\ T!Next
    <3>1. TailKeeps
      BY <1>2, <2>2 DEF LogsKeep, TailRests
    <3> QED
      BY <2>2, <3>1, StepKeepsTail DEF LogsKeep
  <2> QED
    BY <1>2, <2>1, <2>2 DEF LogsNext
<1>3. LogsKeep => OutputKept
  BY LinesAreOnce, FilesAreWhole, RestHasOutput
  DEF LogsKeep, TailKeeps, OutputKept, T!OutputKept
<1> QED
  BY <1>1, <1>2, <1>3, PTL DEF LogsSpec
===============================================================================
