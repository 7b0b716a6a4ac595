-------------------------------- MODULE LogTail --------------------------------
(***************************************************************************)
(* The pump of one sink (internal/logbus): it tails a file that the app    *)
(* appends to, and rotates it by copying it aside and truncating it.  The  *)
(* app writes while the pump works, and `pm0 flush` may truncate the file  *)
(* and its archives at any time.                                           *)
(*                                                                         *)
(* The app's output is a sequence of bytes, each a newline or not, and a   *)
(* byte of a file is its place in that output.  Polls are steps: their     *)
(* widening interval, and the wake-up by a subscriber, only time them.  A  *)
(* file that vanishes by its name is left out; where captured lines go is  *)
(* LogBus.                                                                 *)
(***************************************************************************)
EXTENDS Integers, Sequences, FiniteSets, LogTailBounds

VARIABLES
  out,       \* what the app has written: for each byte, whether it is a newline
  live,      \* the file, and
  archives,  \* its rotated copies, oldest first
  pc,        \* the pump: idle, copy, again, truncate or read
  copy,      \* in a rotation: the copy so far
  rotated,   \* the last copy is what is read, not the file
  offset, carry,
  captured,  \* the lines handed to the route, as the ring keeps them
  losses,    \* history: the ways in which output was lost
  faults

file == <<out, live, archives>>
pump == <<pc, copy, rotated, offset, carry, captured>>
vars == <<file, pump, losses, faults>>

Bytes == 1 .. MaxOut
Losses == {"window", "skip", "flush", "error"}

TypeOK ==
  /\ out \in Seq(BOOLEAN) /\ Len(out) <= MaxOut
  /\ live \in Seq(Bytes) /\ copy \in Seq(Bytes) /\ archives \in Seq(Seq(Bytes))
  /\ pc \in {"idle", "copy", "again", "truncate", "read"}
  /\ rotated \in BOOLEAN /\ offset \in Int /\ carry \in Seq(Bytes)
  /\ captured \in Seq(Seq(Bytes)) /\ losses \in SUBSET Losses
  /\ faults \in 0 .. MaxFaults

Init ==
  /\ out = << >> /\ live = << >> /\ archives = << >>
  /\ pc = "idle" /\ copy = << >> /\ rotated = FALSE
  /\ offset = 0 /\ carry = << >> /\ captured = << >>
  /\ losses = {} /\ faults = 0

-----------------------------------------------------------------------------
(* Lines.                                                                   *)

(* The newlines of a piece of the output, the kth of them, and the lines    *)
(* they end.                                                                *)
Ends(s) == {i \in DOMAIN s : out[s[i]]}
Nth(S, k) == CHOOSE i \in S : Cardinality({j \in S : j <= i}) = k
End(s, k) == IF k = 0 THEN 0 ELSE Nth(Ends(s), k)
Lines(s) ==
  [k \in 1 .. Cardinality(Ends(s)) |-> SubSeq(s, End(s, k - 1) + 1, End(s, k) - 1)]
Consumed(s) == End(s, Cardinality(Ends(s)))

(* What the ring keeps of a line.                                           *)
Cut(l) == IF Len(l) > MaxLine THEN SubSeq(l, 1, MaxLine) ELSE l

-----------------------------------------------------------------------------
(* The app, and flush.                                                      *)

Write(newline) ==
  /\ Len(out) < MaxOut
  /\ out' = Append(out, newline) /\ live' = Append(live, Len(out) + 1)
  /\ UNCHANGED <<archives, pump, losses, faults>>

(* Flush, one file at a time.  (It may hit a copy that is under way too,    *)
(* which leaves a hole in the archive: left out.)                           *)
Fault(loss) ==
  /\ faults < MaxFaults /\ faults' = faults + 1 /\ losses' = losses \cup {loss}

Flush ==
  /\ Fault("flush")
  /\ \/ live' = << >> /\ UNCHANGED archives
     \/ /\ \E i \in DOMAIN archives : archives' = [archives EXCEPT ![i] = << >>]
        /\ UNCHANGED live
  /\ UNCHANGED <<out, pump>>

-----------------------------------------------------------------------------
(* A poll looks at the size of the file.                                    *)

Resumed == IF Len(live) < offset THEN 0 ELSE offset    \* truncated: start over
RotationDue == RotateMax > 0 /\ Len(live) >= RotateMax

(* What grew is read.  Past the cap of one batch the older bytes are        *)
(* skipped, and counted.                                                    *)
Look(size, from, lost) ==
  /\ pc' = "read"
  /\ IF size - from > MaxBatch - Len(carry)
     THEN /\ offset' = size - MaxBatch /\ carry' = << >>
          /\ losses' = losses \cup lost \cup {"skip"}
     ELSE offset' = from /\ losses' = losses \cup lost /\ UNCHANGED carry

PollEmpty ==
  /\ pc = "idle" /\ live = << >> /\ offset > 0 /\ offset' = 0
  /\ UNCHANGED <<file, pc, copy, rotated, carry, captured, losses, faults>>

PollGrown ==
  /\ pc = "idle" /\ ~RotationDue /\ Len(live) # Resumed
  /\ Look(Len(live), Resumed, {})
  /\ UNCHANGED <<file, copy, rotated, captured, faults>>

PollRotates ==
  /\ pc = "idle" /\ RotationDue /\ pc' = "copy" /\ offset' = Resumed
  /\ UNCHANGED <<file, copy, rotated, carry, captured, losses, faults>>

-----------------------------------------------------------------------------
(* Rotation: two copies to the end of the file, then the truncation.        *)

Uncopied == SubSeq(live, Len(copy) + 1, Len(live))

Copy ==
  /\ pc = "copy" /\ RotationDue /\ pc' = "again" /\ copy' = live
  /\ UNCHANGED <<file, rotated, offset, carry, captured, losses, faults>>

CopyAgain ==
  /\ pc = "again" /\ pc' = "truncate" /\ copy' = copy \o Uncopied
  /\ UNCHANGED <<file, rotated, offset, carry, captured, losses, faults>>

(* What was written since the second copy is lost.  The archive is what is  *)
(* read, being what the file was.                                           *)
TruncateReadsLive ==
  /\ pc = "truncate" /\ live' = << >> /\ archives' = Append(archives, copy)
  /\ copy' = << >> /\ rotated' = FALSE
  /\ Look(Len(copy), offset, IF Uncopied # << >> THEN {"window"} ELSE {})
  /\ UNCHANGED <<out, captured, faults>>
Truncate ==
  /\ pc = "truncate" /\ live' = << >> /\ archives' = Append(archives, copy)
  /\ copy' = << >> /\ rotated' = TRUE
  /\ Look(Len(copy), offset, IF Uncopied # << >> THEN {"window"} ELSE {})
  /\ UNCHANGED <<out, captured, faults>>

(* A copy that fails is removed, and the file read as it is.  So it is when *)
(* it was flushed below the threshold meanwhile.                            *)
GivesUp ==
  /\ copy' = << >>
  /\ IF Len(live) = offset THEN pc' = "idle" /\ UNCHANGED <<offset, carry, losses>>
     ELSE Look(Len(live), offset, {})
  /\ UNCHANGED <<file, rotated, captured>>

CopyFails ==
  /\ pc \in {"copy", "again", "truncate"} /\ faults < MaxFaults
  /\ faults' = faults + 1 /\ GivesUp
NotDue == pc = "copy" /\ ~RotationDue /\ GivesUp /\ UNCHANGED faults

-----------------------------------------------------------------------------
(* The read.  An archive is read to its end, and the line it breaks off in  *)
(* is carried over to the file.                                             *)

Source == IF rotated THEN archives[Len(archives)] ELSE live
From == IF Len(Source) < offset THEN 0 ELSE offset
Got ==
  LET upto == From + MaxBatch - Len(carry)
  IN  carry \o SubSeq(Source, From + 1, IF upto < Len(Source) THEN upto ELSE Len(Source))

Prune(a) == IF Len(a) > Retain THEN SubSeq(a, Len(a) - Retain + 1, Len(a)) ELSE a

ReadKeepsOffset ==
  /\ pc = "read" /\ From >= 0 /\ pc' = "idle" /\ rotated' = FALSE
  /\ LET used == Consumed(Got)
         new == IF used > Len(carry) THEN used - Len(carry) ELSE 0
         lines == Lines(Got)
         cut == [k \in DOMAIN lines |-> Cut(lines[k])]
     IN  /\ captured' = captured \o cut
         /\ IF rotated
            THEN /\ carry' = Cut(SubSeq(Got, used + 1, Len(Got)))
                 /\ offset' = From + new /\ archives' = Prune(archives)
            ELSE /\ carry' = IF used > 0 THEN << >> ELSE carry
                 /\ offset' = From + new /\ UNCHANGED archives
  /\ UNCHANGED <<out, live, copy, losses, faults>>
Read ==
  /\ pc = "read" /\ From >= 0 /\ pc' = "idle" /\ rotated' = FALSE
  /\ LET used == Consumed(Got)
         new == IF used > Len(carry) THEN used - Len(carry) ELSE 0
         lines == Lines(Got)
         cut == [k \in DOMAIN lines |-> Cut(lines[k])]
     IN  /\ captured' = captured \o cut
         /\ IF rotated
            THEN /\ carry' = Cut(SubSeq(Got, used + 1, Len(Got)))
                 /\ offset' = 0 /\ archives' = Prune(archives)
            ELSE /\ carry' = IF used > 0 THEN << >> ELSE carry
                 /\ offset' = From + new /\ UNCHANGED archives
  /\ UNCHANGED <<out, live, copy, losses, faults>>

(* A failed open, stat or read starts over at the file's beginning.         *)
StartsOver ==
  /\ pc = "read" /\ pc' = "idle" /\ rotated' = FALSE /\ offset' = 0
  /\ UNCHANGED <<file, copy, carry, captured>>
ReadFails == StartsOver /\ Fault("error")
SeekFails == From < 0 /\ StartsOver /\ UNCHANGED <<losses, faults>>

-----------------------------------------------------------------------------
Pump ==
  \/ PollEmpty \/ PollGrown \/ PollRotates
  \/ Copy \/ CopyAgain \/ Truncate \/ NotDue \/ Read \/ SeekFails

Next ==
  \/ \E newline \in BOOLEAN : Write(newline)
  \/ Flush \/ Pump \/ CopyFails \/ ReadFails

Spec == Init /\ [][Next]_vars

(* The ticker ticks.                                                        *)
Fairness == WF_vars(Pump)
FairSpec == Spec /\ Fairness

-----------------------------------------------------------------------------
Output == [i \in DOMAIN out |-> i]
Written ==
  LET lines == Lines(Output) IN [k \in DOMAIN lines |-> Cut(lines[k])]

(* As long as nothing is flushed, skipped, written in the window of a       *)
(* truncation or unreadable, the lines captured are the app's: each whole   *)
(* but for the cut of a long one, once, in order and without a gap, across  *)
(* every rotation and wherever a line breaks off (logbus.go:469-473,        *)
(* 548-553).  Whatever else is lost, no byte is captured twice unless a     *)
(* read failed.                                                             *)
LinesOnce ==
  /\ losses = {} =>
       Len(captured) <= Len(Written) /\ \A k \in DOMAIN captured : captured[k] = Written[k]
  /\ "error" \notin losses =>
       \A k, l \in DOMAIN captured : \A i \in DOMAIN captured[k], j \in DOMAIN captured[l] :
         k < l \/ (k = l /\ i < j) => captured[k][i] < captured[l][j]

(* Where a file begins: an archive at its first byte, the file in use after *)
(* what is no longer in it.                                                 *)
Files == Append(archives, live)
Start(k) == IF k <= Len(archives) THEN archives[k][1] ELSE Len(out) - Len(live) + 1

(* The file and the archives kept hold the app's latest output without a    *)
(* gap, and all of it until one was pruned: "the FILES remain the           *)
(* full-history authority" (logbus.go:83-102).                              *)
FilesWhole ==
  losses \cap {"window", "flush"} = {} =>
    /\ \A k \in DOMAIN Files : \A i \in DOMAIN Files[k] : Files[k][i] = Start(k) + i - 1
    /\ \A k \in DOMAIN archives :
         archives[k] # << >> /\ Start(k + 1) = Start(k) + Len(archives[k])
    /\ Len(archives) < Retain => Start(1) = 1

(* What the app writes is kept, in the lines captured and in the files.     *)
OutputKept == LinesOnce /\ FilesWhole

(* A captured line is a piece of one line of the app, "partial bytes" of an *)
(* older file never joined to what follows a flush (logbus.go:570-575).     *)
LinesUnmixed ==
  losses \subseteq {"flush"} =>
    \A k \in DOMAIN captured :
      \A i \in DOMAIN captured[k] : i > 1 => captured[k][i] = captured[k][i - 1] + 1

(* Once the app is quiet (its output is bounded), every line it has         *)
(* finished is captured.                                                    *)
LinesCaught == <>[](losses = {} => Len(captured) = Len(Written))
=============================================================================
