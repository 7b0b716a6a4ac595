-------------------------------- MODULE LogBus --------------------------------
(***************************************************************************)
(* The log route of one app (internal/logbus) and one StreamLogs call that *)
(* attaches to it (internal/daemon).  Pumps append captured lines to a     *)
(* bounded ring and fan them out to the subscriber's bounded channel under *)
(* the route's mutex; the subscriber's end receives without it, so that it *)
(* can make room between two non-blocking sends of one fan-out.            *)
(*                                                                         *)
(* A line is its Seq: log[i] is the stream of line i.  Drops are counted   *)
(* as the set of the lines dropped.  Subscribers share only the mutex, so  *)
(* one stands for all.  A batch is appended line by line.  The truncation  *)
(* of long lines is left out, and so is the fallback for apps without a    *)
(* route.                                                                  *)
(***************************************************************************)
EXTENDS Integers, Sequences, FiniteSets

CONSTANTS
  RingLines, SubBuffer,   \* Options
  MergedBuffer,           \* capacity of StreamLogs' merged channel (256)
  MaxLines,               \* bound: lines captured in a behaviour
  Backlogs                \* numbers of backlog lines a client may ask for

Streams == {"out", "err"}

ASSUME LogBusAssumption ==
  /\ RingLines \in Nat \ {0} /\ SubBuffer \in Nat \ {0}
  /\ MergedBuffer \in Nat \ {0} /\ MaxLines \in Nat /\ Backlogs \subseteq Nat

VARIABLES
  log,         \* the stream of every line captured; seq is Len(log)
  count,       \* entries in the ring: the newest lines
  closed,      \* the route is closed
  pump,        \* who holds r.mu in a fan-out: idle, before the marker or the line
  subscribed,  \* the subscriber is in r.subs
  closing,     \* Close has it in its list and has yet to close its channel
  ch, closes,  \* its channel, and how often that was closed
  pending,     \* the drops to report, by stream
  req,         \* the request: lines, include_stderr, follow
  spc,         \* StreamLogs: start, subscribed, backlog, follow, leaving, ended
  back,        \* the lines of the backlog still to be sent
  maxSeq,      \* the highest Seq the backlog covered
  fwd, fdone,  \* the forwarder: the entry in its hands, whether it returned
  merged, sent \* the merged channel; what the client was sent

routeVars  == <<log, count, closed>>
subVars    == <<subscribed, closing, ch, closes, pending>>
streamVars == <<req, spc, back, maxSeq, fwd, fdone, merged, sent>>
vars == <<routeVars, pump, subVars, streamVars>>

Entries == [seq : 1 .. MaxLines, dropped : SUBSET (1 .. MaxLines)]
Requests == [lines : Backlogs, stderr : BOOLEAN, follow : BOOLEAN]

TypeOK ==
  /\ log \in Seq(Streams) /\ Len(log) <= MaxLines
  /\ count \in 0 .. RingLines /\ count <= Len(log)
  /\ closed \in BOOLEAN /\ pump \in {"idle", "marker", "line"}
  /\ subscribed \in BOOLEAN /\ closing \in BOOLEAN
  /\ ch \in Seq(Entries) /\ Len(ch) <= SubBuffer /\ closes \in 0 .. 2
  /\ pending \in [Streams -> SUBSET (1 .. MaxLines)]
  /\ req \in Requests
  /\ spc \in {"start", "subscribed", "backlog", "follow", "leaving", "ended"}
  /\ back \in SUBSET (1 .. MaxLines) /\ maxSeq \in 0 .. MaxLines
  /\ fwd \in Seq(Entries) /\ Len(fwd) <= 1 /\ fdone \in BOOLEAN
  /\ merged \in Seq(Entries) /\ Len(merged) <= MergedBuffer
  /\ sent \in Seq(Entries)

Init ==
  /\ log = << >> /\ count = 0 /\ closed = FALSE /\ pump = "idle"
  /\ subscribed = FALSE /\ closing = FALSE /\ ch = << >> /\ closes = 0
  /\ pending = [s \in Streams |-> {}]
  /\ req \in Requests
  /\ spc = "start" /\ back = {} /\ maxSeq = 0
  /\ fwd = << >> /\ fdone = FALSE /\ merged = << >> /\ sent = << >>

Unlocked == pump = "idle"    \* r.mu is free

-----------------------------------------------------------------------------
(* The pumps: appendLines, pushRing and fanout.                             *)

Line(i) == [seq |-> i, dropped |-> {}]
Marker(i, D) == [seq |-> i, dropped |-> D]
Newest == Len(log)
Ring == Newest - count + 1 .. Newest
Full == Len(ch) >= SubBuffer

(* The oldest entry goes when the ring is full, and as many more as the     *)
(* byte budget asks for.                                                    *)
PushRing ==
  \E left \in 0 .. count : left < RingLines /\ count' = left + 1

AppendLine(s) ==
  /\ Unlocked /\ ~closed /\ Len(log) < MaxLines
  /\ log' = Append(log, s) /\ PushRing
  /\ pump' = IF ~subscribed THEN "idle" ELSE IF pending[s] # {} THEN "marker" ELSE "line"
  /\ UNCHANGED <<closed, subVars, streamVars>>

(* select with default: the marker of a gap is put off while there is no    *)
(* room for it.                                                             *)
FanoutMarkerForgets ==
  /\ pump = "marker" /\ pump' = "line"
  /\ LET s == log[Newest]
     IN  /\ ch' = IF Full THEN ch ELSE Append(ch, Marker(Newest, pending[s]))
         /\ pending' = [pending EXCEPT ![s] = {}]
  /\ UNCHANGED <<routeVars, subscribed, closing, closes, streamVars>>
FanoutMarker ==
  /\ pump = "marker" /\ pump' = "line"
  /\ LET s == log[Newest]
     IN  IF Full THEN UNCHANGED <<ch, pending>>
         ELSE /\ ch' = Append(ch, Marker(Newest, pending[s]))
              /\ pending' = [pending EXCEPT ![s] = {}]
  /\ UNCHANGED <<routeVars, subscribed, closing, closes, streamVars>>

FanoutLine ==
  /\ pump = "line" /\ pump' = "idle"
  /\ IF Full
     THEN /\ pending' = [pending EXCEPT ![log[Newest]] = @ \cup {Newest}]
          /\ UNCHANGED ch
     ELSE /\ ch' = Append(ch, Line(Newest))
          /\ UNCHANGED pending
  /\ UNCHANGED <<routeVars, subscribed, closing, closes, streamVars>>

(* The sink was truncated to nothing from outside.                          *)
Clear ==
  /\ Unlocked /\ count > 0 /\ count' = 0
  /\ UNCHANGED <<log, closed, pump, subVars, streamVars>>

-----------------------------------------------------------------------------
(* Close, when the app is deleted: subscribers are taken out under the      *)
(* mutex, their channels are closed outside it.                             *)

CloseRouteForgets ==
  /\ Unlocked /\ ~closed
  /\ closed' = TRUE /\ subscribed' = FALSE /\ closing' = FALSE
  /\ UNCHANGED <<log, count, pump, ch, closes, pending, streamVars>>
CloseRoute ==
  /\ Unlocked /\ ~closed
  /\ closed' = TRUE /\ subscribed' = FALSE /\ closing' = subscribed
  /\ UNCHANGED <<log, count, pump, ch, closes, pending, streamVars>>

CloseChannel ==
  /\ closing /\ closing' = FALSE /\ closes' = closes + 1
  /\ UNCHANGED <<routeVars, pump, subscribed, ch, pending, streamVars>>

-----------------------------------------------------------------------------
(* StreamLogs.  Subscribe comes before the snapshot of the backlog.         *)

Subscribe ==
  /\ spc = "start" /\ Unlocked /\ spc' = "subscribed"
  /\ subscribed' = ~closed /\ closes' = IF closed THEN closes + 1 ELSE closes
  /\ UNCHANGED <<routeVars, pump, closing, ch, pending, req, back, maxSeq, fwd,
                 fdone, merged, sent>>

Wanted(e) == log[e.seq] = "out" \/ req.stderr

(* The newest lines of a stream in the ring, as many as were asked for.     *)
Captured(st) == {i \in Ring : log[i] = st}
Recent(st) ==
  {i \in Captured(st) : Cardinality({j \in Captured(st) : j >= i}) <= req.lines}
Backlog == Recent("out") \cup (IF req.stderr THEN Recent("err") ELSE {})

(* The highest Seq of the ring, of the streams wanted.                      *)
Covered ==
  LET seen == {i \in Ring : Wanted(Line(i))}
  IN  IF seen = {} THEN 0 ELSE CHOOSE i \in seen : \A j \in seen : j <= i

Snapshot ==
  /\ spc = "subscribed" /\ Unlocked /\ spc' = "backlog"
  /\ IF req.lines > 0 THEN back' = Backlog /\ maxSeq' = Covered
     ELSE UNCHANGED <<back, maxSeq>>
  /\ UNCHANGED <<routeVars, pump, subVars, req, fwd, fdone, merged, sent>>

(* Out lines, then err lines, each in the order of their capture.           *)
Least(S) == CHOOSE i \in S : \A j \in S : i <= j
SendBacklog ==
  /\ spc = "backlog" /\ back # {}
  /\ LET outs == {i \in back : log[i] = "out"}
         i == Least(IF outs # {} THEN outs ELSE back)
     IN  sent' = Append(sent, Line(i)) /\ back' = back \ {i}
  /\ UNCHANGED <<routeVars, pump, subVars, req, spc, maxSeq, fwd, fdone, merged>>

BacklogEnds ==
  /\ spc = "backlog" /\ back = {}
  /\ spc' = IF req.follow THEN "follow" ELSE "leaving"
  /\ fdone' = ~req.follow
  /\ UNCHANGED <<routeVars, pump, subVars, req, back, maxSeq, fwd, merged, sent>>

(* The forwarder.                                                           *)
FreshAgain(e) == (e.dropped = {} => e.seq >= maxSeq) /\ Wanted(e)
Fresh(e) == (e.dropped = {} => e.seq > maxSeq) /\ Wanted(e)

Receive ==
  /\ spc = "follow" /\ ~fdone /\ fwd = << >> /\ ch # << >>
  /\ ch' = Tail(ch)
  /\ fwd' = IF Fresh(Head(ch)) THEN <<Head(ch)>> ELSE << >>
  /\ UNCHANGED <<routeVars, pump, subscribed, closing, closes, pending, req, spc,
                 back, maxSeq, fdone, merged, sent>>

ForwardDrops ==
  /\ spc = "follow" /\ fwd # << >>
  /\ merged' = IF Len(merged) < MergedBuffer THEN Append(merged, fwd[1]) ELSE merged
  /\ fwd' = << >>
  /\ UNCHANGED <<routeVars, pump, subVars, req, spc, back, maxSeq, fdone, sent>>
Forward ==
  /\ spc = "follow" /\ fwd # << >> /\ Len(merged) < MergedBuffer
  /\ merged' = Append(merged, fwd[1]) /\ fwd' = << >>
  /\ UNCHANGED <<routeVars, pump, subVars, req, spc, back, maxSeq, fdone, sent>>

ForwarderEnds ==
  /\ spc = "follow" /\ ~fdone /\ fwd = << >> /\ ch = << >> /\ closes > 0
  /\ fdone' = TRUE
  /\ UNCHANGED <<routeVars, pump, subVars, req, spc, back, maxSeq, fwd, merged, sent>>

(* The sender's select.                                                     *)
Send ==
  /\ spc = "follow" /\ merged # << >>
  /\ sent' = Append(sent, Head(merged)) /\ merged' = Tail(merged)
  /\ UNCHANGED <<routeVars, pump, subVars, req, spc, back, maxSeq, fwd, fdone>>

StreamEnds ==
  /\ spc = "follow" /\ fdone /\ spc' = "leaving"
  /\ UNCHANGED <<routeVars, pump, subVars, req, back, maxSeq, fwd, fdone, merged, sent>>

(* The client leaves, or a send fails, in the backlog too.  The forwarder   *)
(* winds down.                                                              *)
ClientLeaves ==
  /\ spc = "follow" \/ (spc = "backlog" /\ back # {})
  /\ spc' = "leaving" /\ fdone' = TRUE /\ fwd' = << >>
  /\ UNCHANGED <<routeVars, pump, subVars, req, back, maxSeq, merged, sent>>

UnsubscribeBlindly ==
  /\ spc = "leaving" /\ Unlocked /\ spc' = "ended"
  /\ subscribed' = FALSE /\ closes' = closes + 1
  /\ UNCHANGED <<routeVars, pump, closing, ch, pending, req, back, maxSeq, fwd,
                 fdone, merged, sent>>
Unsubscribe ==
  /\ spc = "leaving" /\ Unlocked /\ spc' = "ended"
  /\ subscribed' = FALSE /\ closes' = IF subscribed THEN closes + 1 ELSE closes
  /\ UNCHANGED <<routeVars, pump, closing, ch, pending, req, back, maxSeq, fwd,
                 fdone, merged, sent>>

-----------------------------------------------------------------------------
Pump == FanoutMarker \/ FanoutLine
Route == Clear \/ CloseRoute \/ \E s \in Streams : AppendLine(s)
Attach == Subscribe \/ Snapshot \/ SendBacklog \/ BacklogEnds \/ Unsubscribe
Forwarder == Receive \/ Forward \/ ForwarderEnds
Sender == Send \/ StreamEnds

Next == Pump \/ Route \/ CloseChannel \/ Attach \/ Forwarder \/ Sender \/ ClientLeaves

Spec == Init /\ [][Next]_vars

(* Fan-outs never block; goroutines run; the client reads what it is sent.  *)
Fairness ==
  /\ WF_vars(Pump) /\ WF_vars(CloseChannel)
  /\ SF_vars(Subscribe) /\ SF_vars(Snapshot) /\ SF_vars(Unsubscribe)
  /\ WF_vars(SendBacklog \/ BacklogEnds)
  /\ WF_vars(Forwarder) /\ WF_vars(Sender)

FairSpec == Spec /\ Fairness

-----------------------------------------------------------------------------
Elements(s) == {s[i] : i \in DOMAIN s}
IsLine(e) == e.dropped = {}
SameStream(d, e) == log[d.seq] = log[e.seq]

(* logtail_linux.go:10-13: no line is delivered twice across the attach,    *)
(* and the lines of a stream come in the order they were captured.          *)
DeliveredOnce ==
  \A i, j \in DOMAIN sent :
    i < j /\ IsLine(sent[i]) /\ IsLine(sent[j]) /\ SameStream(sent[i], sent[j]) =>
      sent[i].seq < sent[j].seq

(* What is sent or still on its way to the client.                          *)
Pipe == UNION {Elements(sent), Elements(merged), Elements(fwd),
               {Line(i) : i \in back}, {e \in Elements(ch) : Fresh(e)}}
FannedOut == IF pump = "idle" THEN Newest ELSE Newest - 1

(* Never silent loss: from the first line of a stream that a client sees,   *)
(* backlog and attach included, every later line is on its way or counted   *)
(* in a marker that is, or in one that is owed.                             *)
LossAnnounced ==
  spc \in {"backlog", "follow"} /\ subscribed =>
    \A e \in Pipe : IsLine(e) =>
      \A i \in e.seq .. FannedOut : log[i] = log[e.seq] =>
        \/ Line(i) \in Pipe \/ i \in pending[log[i]]
        \/ \E m \in Pipe : i \in m.dropped

(* No channel is closed twice, and nothing is sent on a closed one (either  *)
(* panics the daemon), whether the route or the client goes first.          *)
ChannelSafe == closes <= 1 /\ (subscribed => closes = 0)

(* The contract: what is shown to the client and what it is told of, and    *)
(* what it is still owed by the queues, the drops to report and the pump.   *)
Content(e) == IF IsLine(e) THEN {e.seq} ELSE e.dropped
Contents(A) == UNION {Content(e) : e \in A}

Onward == Elements(merged) \cup Elements(fwd)
Live == {e \in Elements(ch) : Fresh(e)}
Asked == {s \in Streams : s = "out" \/ req.stderr}
InHand == {i \in {Newest} : pump # "idle" /\ log[i] \in Asked}

Pledged ==
  UNION {Contents(Onward), Contents(Live), InHand,
         UNION {pending[s] : s \in {s \in Asked : subscribed}}}

Attached == spc \in {"backlog", "follow"}
Settled == {e.seq : e \in {x \in Elements(sent) : IsLine(x)}}
           \cup UNION {e.dropped : e \in Elements(sent)}

Follows == IF Attached /\ req.follow /\ subscribed THEN Asked ELSE {}
Due ==
  {i \in back \cup {j \in Pledged : req.follow /\ j > maxSeq} :
     Attached /\ i \notin Settled}

Feed == INSTANCE LogFeed WITH followed <- Follows, due <- Due, feed <- sent

(* While it follows, a client is shown every line from its backlog on, in   *)
(* order and once, or told once that it was dropped (logtail_linux.go:10-21)*)
(* through every race of pump, subscription, snapshot and sender: LogBus    *)
(* keeps LogFeed.                                                           *)
KeepsFeed == Feed!Spec

(* A line of the app before it is deleted reaches a client that stays.      *)
LinesArrive ==
  \A i \in 1 .. MaxLines :
    (spc = "follow" /\ Line(i) \in Elements(ch) /\ Fresh(Line(i)) /\ ~closed)
      ~> (Line(i) \in Elements(sent) \/ closed \/ spc # "follow")

(* The stream of a deleted app ends by itself.                              *)
DeletedEnds == closed /\ spc # "start" ~> spc = "ended"
===============================================================================
