----------------------------- MODULE AppContract -----------------------------
(***************************************************************************)
(* What a supervised app promises to whoever commands it, whatever its     *)
(* processes do: at most one generation of processes at a time, none while *)
(* the app is halted, and no launch that nobody asked for.  The statuses,  *)
(* timers, budgets and the kill path of Machine are ways to keep this.     *)
(***************************************************************************)

VARIABLES
  intent,   \* "run": up or to be brought up; "halting": a stop is being
            \* carried out; "halted": down until somebody starts it
  running   \* processes of the app are alive (those whose kill path reported
            \* them as survivors apart)

vars == <<intent, running>>

Init ==
  \/ intent = "halted" /\ running = FALSE
  \/ intent = "run" /\ running = TRUE       \* adopted

(* A start or restart command.                                              *)
Want ==
  /\ intent = "halted"
  /\ intent' = "run" /\ UNCHANGED running

(* A stop, restart-stop or delete command.                                  *)
AskHalt ==
  /\ intent' = "halting" /\ UNCHANGED running

Launch ==
  /\ intent = "run" /\ ~running
  /\ running' = TRUE /\ UNCHANGED intent

(* The last process ends, by itself or killed.                              *)
Die ==
  /\ running
  /\ running' = FALSE /\ UNCHANGED intent

(* The stop is done, or the restart policy gives the app up: nothing runs.  *)
Settle ==
  /\ intent' = "halted" /\ running' = FALSE

Next == Want \/ AskHalt \/ Launch \/ Die \/ Settle

Spec == Init /\ [][Next]_vars

(* A halted app has no processes.                                           *)
HaltedIsDown == intent = "halted" => ~running
===============================================================================
