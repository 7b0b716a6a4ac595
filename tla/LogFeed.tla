------------------------------- MODULE LogFeed -------------------------------
(***************************************************************************)
(* What StreamLogs promises its client, whatever the rings and the bounded *)
(* channels between: from the moment it attaches and as long as it follows *)
(* a stream, every line of it is shown, in order and once, or reported     *)
(* dropped, once.  The ring, the subscription, the markers and the queues  *)
(* of LogBus are ways to keep this without ever making an app wait.        *)
(***************************************************************************)
EXTENDS Integers, Sequences

CONSTANT Streams

VARIABLES
  log,       \* the stream of every line of the app
  followed,  \* the streams the client follows: none before it attaches, nor
             \* after the app is deleted or the client leaves
  due,       \* the lines it is still to be shown or to be told of
  feed       \* what it was sent: lines, and markers of the lines dropped

vars == <<log, followed, due, feed>>

Lines == {feed[k].seq : k \in {j \in DOMAIN feed : feed[j].dropped = {}}}
Reported == UNION {feed[k].dropped : k \in DOMAIN feed}

Init == log = << >> /\ followed = {} /\ due = {} /\ feed = << >>

Capture(s) ==
  /\ log' = Append(log, s)
  /\ due' = IF s \in followed THEN due \cup {Len(log) + 1} ELSE due
  /\ UNCHANGED <<followed, feed>>

(* The client attaches with a backlog: no gap between it and what follows.  *)
Attach ==
  /\ feed = << >> /\ due = {}
  /\ followed' \subseteq Streams
  /\ \A i \in due' :
       /\ i \in 1 .. Len(log)
       /\ \A j \in i .. Len(log) : log[j] = log[i] /\ log[i] \in followed' => j \in due'
  /\ UNCHANGED <<log, feed>>

Show(e) ==
  /\ e.dropped = {} /\ e.seq \in due
  /\ \A i \in Lines : log[i] = log[e.seq] => i < e.seq
  /\ feed' = Append(feed, e) /\ due' = due \ {e.seq}
  /\ UNCHANGED <<log, followed>>

(* Told once; what was dropped while the client attached, its backlog may   *)
(* have shown.                                                              *)
Tell(e) ==
  /\ e.dropped # {} /\ e.dropped \cap Reported = {}
  /\ feed' = Append(feed, e) /\ due' = due \ e.dropped
  /\ UNCHANGED <<log, followed>>

(* The app is deleted, or the client leaves.                                *)
End ==
  /\ followed' = {} /\ due' \subseteq due /\ UNCHANGED <<log, feed>>

Next ==
  \/ Attach \/ End
  \/ \E s \in Streams : Capture(s)
  \/ \E e \in [seq : 1 .. Len(log), dropped : SUBSET (1 .. Len(log))] : Show(e) \/ Tell(e)

Spec == Init /\ [][Next]_vars
===============================================================================
