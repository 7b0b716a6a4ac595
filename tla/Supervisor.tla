------------------------------ MODULE Supervisor ------------------------------
(***************************************************************************)
(* The registry of internal/supervisor: pm_ids, registration serials, and  *)
(* the cluster reload that swaps one incarnation of an app for another at  *)
(* the same pm_id.  Every registry operation runs under one mutex, which a *)
(* Stop, Restart or Delete holds while the app's actor carries it out; a   *)
(* reload takes the mutex piecemeal, and looks at the replacement's        *)
(* snapshot and retires the old incarnation outside it.                    *)
(*                                                                         *)
(* An incarnation is one registered machine.App, named by its serial.  Its *)
(* actor (module Machine) appears through the status it publishes.         *)
(***************************************************************************)
EXTENDS Integers, FiniteSets

CONSTANTS
  MaxId,      \* bound: pm_ids are allocated below MaxId
  MaxSerial   \* bound: registrations in a behaviour

ASSUME BoundsAssumption == MaxId \in Nat \ {0} /\ MaxSerial \in Nat \ {0}

Ids     == 0 .. MaxId - 1
Serials == 1 .. MaxSerial
None    == 0                      \* nil
ParkKey(id) == -id - 1
Keys    == (-MaxId) .. (MaxId - 1)

Up       == {"launching", "online"}
Parked   == {"waiting", "stopped", "errored"}
Statuses == {"unborn", "stopping", "gone"} \cup Up \cup Parked
Started  == Up \cup {"errored"}   \* what App.Start leaves behind

VARIABLES
  apps, serials,       \* the registry: key -> incarnation, key -> serial
  nextID, nextSerial,
  version,             \* registry mutations counted
  idOf, status,        \* per incarnation: App.ID(), Snapshot().Status
  stable,              \* ... online for min_uptime
  op, opApp,           \* the command whose holder of s.mu waits for an actor
  rollPc, rollId, old, new,   \* the reload in flight (reloadMu: at most one)
  late,                \* its listen_timeout has passed
  cleared              \* history: rollId was deleted during the roll

regVars  == <<apps, serials, nextID, nextSerial, version>>
appVars  == <<idOf, status, stable>>
opVars   == <<op, opApp>>
rollVars == <<rollPc, rollId, old, new, late, cleared>>
vars == <<regVars, appVars, opVars, rollVars>>

Ops == {"none", "stop", "restart", "relaunch", "delete"}
RollPcs == {"idle", "gate", "snapshot", "rollback", "retire", "unpark"}

TypeOK ==
  /\ apps \in [Keys -> Serials \cup {None}]
  /\ serials \in [Keys -> Serials \cup {None}]
  /\ nextID \in 0 .. MaxId /\ nextSerial \in 0 .. MaxSerial /\ version \in Nat
  /\ idOf \in [Serials -> Ids]
  /\ status \in [Serials -> Statuses] /\ stable \in [Serials -> BOOLEAN]
  /\ op \in Ops /\ opApp \in Serials \cup {None}
  /\ rollPc \in RollPcs /\ rollId \in Ids
  /\ old \in Serials \cup {None} /\ new \in Serials \cup {None}
  /\ late \in BOOLEAN /\ cleared \in BOOLEAN

Init ==
  /\ apps = [k \in Keys |-> None] /\ serials = [k \in Keys |-> None]
  /\ nextID = 0 /\ nextSerial = 0 /\ version = 0
  /\ idOf = [a \in Serials |-> 0]
  /\ status = [a \in Serials |-> "unborn"]
  /\ stable = [a \in Serials |-> FALSE]
  /\ op = "none" /\ opApp = None
  /\ rollPc = "idle" /\ rollId = 0 /\ old = None /\ new = None
  /\ late = FALSE /\ cleared = FALSE

-----------------------------------------------------------------------------
(* What actors do by themselves (module Machine: exits, relaunches, gates). *)

BecomeStable(a) ==
  /\ status[a] = "online" /\ ~stable[a]
  /\ stable' = [stable EXCEPT ![a] = TRUE]
  /\ UNCHANGED <<regVars, idOf, status, opVars, rollVars>>

Lives(a, s) ==
  /\ status' = [status EXCEPT ![a] = s]
  /\ stable' = [stable EXCEPT ![a] = FALSE]
  /\ UNCHANGED <<regVars, idOf, opVars, rollVars>>

Ready(a) == status[a] = "launching" /\ Lives(a, "online")
Crash(a) == status[a] \in Up /\ \E s \in Up \cup Parked : Lives(a, s)
Relaunch(a) == status[a] = "waiting" /\ \E s \in Started : Lives(a, s)

-----------------------------------------------------------------------------
(* Registration.                                                            *)

(* assignSerialLocked and the map entry, for one app at one id.             *)
Register(id, s) ==
  LET a == nextSerial + 1
  IN  /\ a \in Serials
      /\ nextSerial' = a
      /\ apps' = [apps EXCEPT ![id] = a]
      /\ serials' = [serials EXCEPT ![id] = a]
      /\ idOf' = [idOf EXCEPT ![a] = id]
      /\ status' = [status EXCEPT ![a] = s]
      /\ version' = version + 1
      /\ UNCHANGED <<opVars, rollVars>>

(* StartApps: a contiguous block from the monotonic counter, which is not   *)
(* checked against the registry.  An app that cannot be built uses up its   *)
(* id; one whose spawn fails is registered errored.  Batches of at most two *)
(* ids, with no, one or (StartPair) two apps built.                         *)
StartApps ==
  /\ op = "none"
  /\ \E n \in {1, 2} :
       /\ nextID + n <= MaxId
       /\ nextID' = nextID + n
       /\ \E id \in nextID .. nextID + n - 1, s \in Started : Register(id, s)
  /\ UNCHANGED stable

StartUnbuilt ==
  /\ op = "none"
  /\ \E n \in {1, 2} : nextID + n <= MaxId /\ nextID' = nextID + n
  /\ version' = version + 1
  /\ UNCHANGED <<apps, serials, nextSerial, appVars, opVars, rollVars>>

StartPair ==
  /\ op = "none"
  /\ nextID + 2 <= MaxId /\ nextSerial + 2 <= MaxSerial
  /\ LET a == nextSerial + 1  b == nextSerial + 2
     IN  /\ apps' = [apps EXCEPT ![nextID] = a, ![nextID + 1] = b]
         /\ serials' = [serials EXCEPT ![nextID] = a, ![nextID + 1] = b]
         /\ idOf' = [idOf EXCEPT ![a] = nextID, ![b] = nextID + 1]
         /\ \E s, t \in Started : status' = [status EXCEPT ![a] = s, ![b] = t]
  /\ nextID' = nextID + 2 /\ nextSerial' = nextSerial + 2
  /\ version' = version + 1
  /\ UNCHANGED <<stable, opVars, rollVars>>

RaiseNextID(id) == nextID' = IF id >= nextID THEN id + 1 ELSE nextID

(* Resurrect: start at the dumped id, or register a tree found running.     *)
StartAtID(id) ==
  /\ op = "none" /\ apps[id] = None
  /\ RaiseNextID(id)
  /\ \E s \in Started : Register(id, s)
  /\ UNCHANGED stable

RegisterAt(id) ==
  /\ op = "none" /\ apps[id] = None
  /\ RaiseNextID(id)
  /\ Register(id, "online")
  /\ stable' = [stable EXCEPT ![nextSerial + 1] = TRUE]

-----------------------------------------------------------------------------
(* Commands: s.mu is held from the resolution to the actor's reply.         *)

(* resolveLocked, for the numeric identifiers the daemon passes.            *)
Begin(kind) ==
  /\ op = "none" /\ op' = kind
  /\ \E id \in Ids : apps[id] # None /\ opApp' = apps[id]
  /\ UNCHANGED <<regVars, appVars, rollVars>>

(* The actor takes the command and finds processes: of an app that is up,   *)
(* or of an errored one whose last kill path reported survivors.            *)
Kill ==
  /\ op # "none" /\ status[opApp] \in Started
  /\ status' = [status EXCEPT ![opApp] = "stopping"]
  /\ stable' = [stable EXCEPT ![opApp] = FALSE]
  /\ UNCHANGED <<regVars, idOf, opVars, rollVars>>

(* The command is done with.  An actor that was retired never answers.      *)
Served(kind) == op = kind /\ status[opApp] \notin Up \cup {"gone"}

(* The kill path ends, with survivors (errored) only if there was a tree.   *)
Killed(s) == s = "errored" => status[opApp] = "stopping"

Unlock == op' = "none" /\ opApp' = None

StopDone ==
  /\ Served("stop")
  /\ \E s \in {"stopped", "errored"} :
       /\ Killed(s) /\ status' = [status EXCEPT ![opApp] = s]
  /\ Unlock
  /\ UNCHANGED <<regVars, idOf, stable, rollVars>>

RestartStopped ==
  /\ Served("restart")
  /\ status' = [status EXCEPT ![opApp] = "stopped"]
  /\ op' = "relaunch" /\ opApp' = opApp
  /\ UNCHANGED <<regVars, idOf, stable, rollVars>>

RestartFails ==
  /\ Served("restart") /\ Killed("errored")
  /\ status' = [status EXCEPT ![opApp] = "errored"]
  /\ Unlock
  /\ UNCHANGED <<regVars, idOf, stable, rollVars>>

RestartDone ==
  /\ Served("relaunch")
  /\ \E s \in Started : status' = [status EXCEPT ![opApp] = s]
  /\ Unlock
  /\ UNCHANGED <<regVars, idOf, stable, rollVars>>

(* delete(s.apps, app.ID()): the slot is found by the app's id.             *)
DeleteDone ==
  /\ Served("delete")
  /\ status' = [status EXCEPT ![opApp] = "gone"]
  /\ apps' = [apps EXCEPT ![idOf[opApp]] = None]
  /\ serials' = [serials EXCEPT ![idOf[opApp]] = None]
  /\ nextID' = IF \A k \in Keys : apps'[k] = None THEN 0 ELSE nextID
  /\ version' = version + 1
  /\ cleared' = (cleared \/ idOf[opApp] = rollId)
  /\ Unlock
  /\ UNCHANGED <<nextSerial, idOf, stable, rollPc, rollId, old, new, late>>

-----------------------------------------------------------------------------
(* Reload of one pm_id.                                                     *)

(* Park the old incarnation, publish and start the replacement, under one   *)
(* hold of s.mu.                                                            *)
RollBegins(id) ==
  /\ rollPc = "idle" /\ op = "none" /\ apps[id] # None /\ nextSerial < MaxSerial
  /\ LET a == nextSerial + 1
     IN  /\ apps' = [apps EXCEPT ![ParkKey(id)] = apps[id], ![id] = a]
         /\ serials' = [serials EXCEPT ![ParkKey(id)] = serials[id], ![id] = a]
         /\ nextSerial' = a
         /\ idOf' = [idOf EXCEPT ![a] = id]
         /\ \E s \in Started :
              /\ status' = [status EXCEPT ![a] = s]
              /\ rollPc' = IF s = "errored" THEN "rollback" ELSE "gate"
         /\ new' = a
  /\ old' = apps[id] /\ rollId' = id /\ late' = FALSE /\ cleared' = FALSE
  /\ version' = version + 1
  /\ UNCHANGED <<nextID, stable, opVars>>

RollSteps(p) == rollPc' = p /\ UNCHANGED <<rollId, old, new, late, cleared>>

Deadline ==
  /\ rollPc \in {"gate", "snapshot"} /\ ~late
  /\ late' = TRUE
  /\ UNCHANGED <<regVars, appVars, opVars, rollPc, rollId, old, new, cleared>>

(* One poll: the slot is read under s.mu, the snapshot after its release.   *)
GatePolls ==
  /\ rollPc = "gate" /\ op = "none"
  /\ RollSteps(IF apps[rollId] # new THEN "retire" ELSE "snapshot")
  /\ UNCHANGED <<regVars, appVars, opVars>>

GateIgnoresDeadline ==
  /\ rollPc = "snapshot"
  /\ RollSteps(IF status[new] = "online" /\ stable[new] THEN "retire"
               ELSE IF status[new] \in {"errored", "stopped", "gone"}
                 THEN "rollback" ELSE "gate")
  /\ UNCHANGED <<regVars, appVars, opVars>>
GateDecides ==
  /\ rollPc = "snapshot"
  /\ RollSteps(IF status[new] = "online" /\ stable[new] THEN "retire"
               ELSE IF status[new] \in {"errored", "stopped", "gone"} \/ late
                 THEN "rollback" ELSE "gate")
  /\ UNCHANGED <<regVars, appVars, opVars>>

(* rollbackReload: the old incarnation goes back to its slot.               *)
RollbackBlindly ==
  /\ rollPc = "rollback" /\ op = "none"
  /\ status' = [status EXCEPT ![new] = "gone"]
  /\ apps' = [apps EXCEPT ![rollId] = old, ![ParkKey(rollId)] = None]
  /\ serials' = [serials EXCEPT ![rollId] = serials[ParkKey(rollId)],
                                ![ParkKey(rollId)] = None]
  /\ version' = version + 1
  /\ RollSteps("idle")
  /\ UNCHANGED <<nextID, nextSerial, idOf, stable, opVars>>
Rollback ==
  /\ rollPc = "rollback" /\ op = "none" /\ apps[rollId] = new
  /\ status' = [status EXCEPT ![new] = "gone"]
  /\ apps' = [apps EXCEPT ![rollId] = old, ![ParkKey(rollId)] = None]
  /\ serials' = [serials EXCEPT ![rollId] = serials[ParkKey(rollId)],
                                ![ParkKey(rollId)] = None]
  /\ version' = version + 1
  /\ RollSteps("idle")
  /\ UNCHANGED <<nextID, nextSerial, idOf, stable, opVars>>

RollbackKeepsParked ==
  /\ rollPc = "rollback" /\ op = "none" /\ apps[rollId] # new
  /\ RollSteps("idle")
  /\ UNCHANGED <<regVars, appVars, opVars>>
RollbackFindsSuccessor ==
  /\ rollPc = "rollback" /\ op = "none" /\ apps[rollId] # new
  /\ RollSteps("retire")
  /\ UNCHANGED <<regVars, appVars, opVars>>

(* retireParked: DeleteGraceful outside s.mu, then the slot is freed.       *)
RetireParked ==
  /\ rollPc = "retire" /\ status[old] \notin {"gone", "stopping"}
  /\ ~(op = "relaunch" /\ opApp = old)
  /\ status' = [status EXCEPT ![old] = "gone"]
  /\ RollSteps("unpark")
  /\ UNCHANGED <<regVars, idOf, stable, opVars>>

Unpark ==
  /\ rollPc = "unpark" /\ op = "none"
  /\ apps' = [apps EXCEPT ![ParkKey(rollId)] = None]
  /\ serials' = [serials EXCEPT ![ParkKey(rollId)] = None]
  /\ version' = version + 1
  /\ RollSteps("idle")
  /\ UNCHANGED <<nextID, nextSerial, appVars, opVars>>

-----------------------------------------------------------------------------
(* An actor, as Machine's KeepsStatus describes it: it has taken the order  *)
(* once it is in its kill path, or is relaunched.                           *)
Taken(a) ==
  IF op # "none" /\ opApp = a /\ (op = "relaunch" \/ status[a] = "stopping")
  THEN op ELSE "none"

Published(a) == INSTANCE ActorStatus WITH seen <- status[a], serving <- Taken(a)

-----------------------------------------------------------------------------
Actors ==
  \E a \in Serials : BecomeStable(a) \/ Ready(a) \/ Crash(a) \/ Relaunch(a)
Registrations ==
  StartApps \/ StartUnbuilt \/ StartPair \/ \E id \in Ids : StartAtID(id) \/ RegisterAt(id)
Commands == \E kind \in {"stop", "restart", "delete"} : Begin(kind)
OpEnds == Kill \/ StopDone \/ RestartStopped \/ RestartFails \/ RestartDone \/ DeleteDone
RollStep ==
  GatePolls \/ GateDecides \/ Rollback \/ RollbackFindsSuccessor
    \/ RetireParked \/ Unpark

Next ==
  \/ Actors \/ Registrations \/ Commands \/ OpEnds
  \/ \E id \in Ids : RollBegins(id)
  \/ Deadline \/ RollStep

Spec == Init /\ [][Next]_vars

(* Actors answer, the deadline passes; sync.Mutex's starvation mode hands   *)
(* s.mu to a waiter that has been kept from it, hence strong fairness.      *)
FairSpec == Spec /\ WF_vars(OpEnds) /\ WF_vars(Deadline) /\ SF_vars(RollStep)

-----------------------------------------------------------------------------
Registered(a) == apps[idOf[a]] = a
Rolling(id) == rollPc # "idle" /\ rollId = id

(* No app is out of reach: an incarnation whose actor lives, and may run    *)
(* processes, is in its slot, or is the parked one of the reload in flight. *)
(* No start, reload, rollback, delete or resurrect order overwrites one.    *)
NoActorLost ==
  \A a \in Serials :
    status[a] \notin {"unborn", "gone"} =>
      Registered(a) \/ (Rolling(idOf[a]) /\ old = a /\ apps[ParkKey(idOf[a])] = a)

(* The serial at a key identifies the incarnation at that key: the ops      *)
(* layer never takes an app for its successor, also after a rollback put    *)
(* the old one back in its slot.                                            *)
SerialsIdentify == \A k \in Keys : serials[k] = apps[k]

(* The id counter is above every id in use, parked ones included, so that   *)
(* StartApps, which does not look, finds its block free.                    *)
NextIDFree ==
  \A id \in Ids : apps[id] # None \/ apps[ParkKey(id)] # None => id < nextID

(* A parked slot exists only for the reload in flight: rolls leave none.    *)
ParkedOnlyInRoll == \A id \in Ids : apps[ParkKey(id)] # None => Rolling(id)

(* A command is carried out on the app in its own slot, never on a parked   *)
(* incarnation, and on an actor that will answer: nobody holds s.mu for     *)
(* ever, however commands interleave with the unlocked part of a reload.    *)
CommandsAnswered == op # "none" => Registered(opApp) /\ status[opApp] # "gone"

(* A reload that nobody deletes under ends with exactly one incarnation at  *)
(* the id: the replacement with the old retired, or the old one with the    *)
(* replacement gone.                                                        *)
RollKeepsOne ==
  [][rollPc # "idle" /\ rollPc' = "idle" =>
       /\ (apps'[rollId] # new => status'[new] = "gone")
       /\ (apps'[rollId] # old => status'[old] = "gone")
       /\ (~cleared => apps'[rollId] \in {old, new} /\ status'[apps'[rollId]] # "gone")]_vars

(* Version counts every change of the visible registry: the ops loop, which *)
(* skips a tick when it is unchanged, misses none.                          *)
VersionCounts ==
  [][(\E id \in Ids : apps'[id] # apps[id] \/ serials'[id] # serials[id])
       => version' > version]_vars

(* A reload ends, and so does the wait of every caller for s.mu.            *)
RollEnds == rollPc # "idle" ~> rollPc = "idle"
LockReleased == op # "none" ~> op = "none"
===============================================================================
