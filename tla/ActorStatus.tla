----------------------------- MODULE ActorStatus -----------------------------
(***************************************************************************)
(* What the registry may see of an app's actor: which status follows which, *)
(* by itself and while it carries out an order.  Machine implements it, and *)
(* Supervisor, which knows an actor as a status only, allows each of its   *)
(* steps to every incarnation: what the one is proved to do is what the     *)
(* other was checked against.                                               *)
(***************************************************************************)

VARIABLES
  seen,      \* the status, as far as anybody waits for it
  serving    \* the order that the actor has begun to carry out

vars == <<seen, serving>>

Up      == {"launching", "online"}
Parked  == {"waiting", "stopped", "errored"}
Started == Up \cup {"errored"}

(* Registered, or adopted while it runs.                                    *)
Init == seen \in {"stopped", "online"} /\ serving = "none"

(* An app that is up exits, and is relaunched, parked or given up; one that *)
(* waits is relaunched.  A stopped or errored one stays as it is.           *)
Unasked ==
  /\ serving = "none" /\ serving' = "none"
  /\ \/ seen \in Up /\ seen' \in Up \cup Parked
     \/ seen = "waiting" /\ seen' \in Started

(* An order finds processes, of an app that is up or that an earlier order  *)
(* has left with survivors.                                                 *)
Kill(order) ==
  /\ serving = "none" /\ seen \in Started
  /\ seen' = "stopping" /\ serving' = order

(* The processes are gone, or there were none.                              *)
Idle(order) == serving = order \/ (serving = "none" /\ seen \in Parked)

Stopped ==
  /\ Idle("stop") /\ serving' = "none"
  /\ seen' = "stopped" \/ (seen = "stopping" /\ seen' = "errored")

RestartStopped ==
  /\ Idle("restart") /\ seen' = "stopped" /\ serving' = "relaunch"

RestartFails ==
  /\ serving = "restart" /\ seen' = "errored" /\ serving' = "none"

Relaunched ==
  /\ serving = "relaunch" /\ seen' \in Started /\ serving' = "none"

Deleted ==
  /\ Idle("delete") /\ seen' = "gone" /\ serving' = "none"

Next ==
  \/ Unasked \/ Stopped \/ RestartStopped \/ RestartFails \/ Relaunched \/ Deleted
  \/ \E order \in {"stop", "restart", "delete"} : Kill(order)

Spec == Init /\ [][Next]_vars
===============================================================================
