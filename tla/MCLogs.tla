-------------------------------- MODULE MCLogs --------------------------------
(* The tail of a sink (LogTail) and the route with its subscriber (LogBus)  *)
(* side by side in one run.  They meet only in the lines that the one hands *)
(* to the other, in order: a behaviour is one of LogBus or of LogTail, and  *)
(* the other rests.                                                         *)
EXTENDS LogBus, LogTailBounds

VARIABLES
  out, live, archives, pc, copy, rotated, offset, carry, captured, losses, faults

tailVars ==
  <<out, live, archives, pc, copy, rotated, offset, carry, captured, losses, faults>>

T == INSTANCE LogTail

BusRests ==
  /\ log = << >> /\ count = 0 /\ closed = FALSE /\ pump = "idle"
  /\ subscribed = FALSE /\ closing = FALSE /\ ch = << >> /\ closes = 0
  /\ pending = [s \in Streams |-> {}] /\ req = [lines |-> 0, stderr |-> FALSE, follow |-> FALSE]
  /\ spc = "rest" /\ back = {} /\ maxSeq = 0 /\ fwd = << >> /\ fdone = FALSE
  /\ merged = << >> /\ sent = << >>
TailRests ==
  /\ out = << >> /\ live = << >> /\ archives = << >> /\ pc = "rest" /\ copy = << >>
  /\ rotated = FALSE /\ offset = 0 /\ carry = << >> /\ captured = << >>
  /\ losses = {} /\ faults = 0

LogsInit == (Init /\ TailRests) \/ (BusRests /\ T!Init)

LogsNext ==
  \/ spc # "rest" /\ Next /\ UNCHANGED tailVars
  \/ pc # "rest" /\ T!Next /\ UNCHANGED vars

LogsSpec ==
  /\ LogsInit /\ [][LogsNext]_<<vars, tailVars>>
  /\ Fairness /\ T!Fairness

(* LogTail's: without a loss, the lines captured are those of the app; and  *)
(* the file and its archives hold its output.                               *)
OutputKept == T!OutputKept

(* LogTail's: a line of the app is captured in the end.                     *)
LinesCaught == T!LinesCaught
===============================================================================
