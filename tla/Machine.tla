------------------------------- MODULE Machine -------------------------------
(***************************************************************************)
(* The per-app actor of internal/machine: one goroutine owns every status  *)
(* transition of one supervised app.  Callers block on an unbuffered       *)
(* mailbox; exit events, the wait_ready gate and the restart park are the  *)
(* other arms of the actor's select.  Handlers that block (the kill path,  *)
(* the shutdown handoff, the spawn) are split where they block, so that    *)
(* the process tree, the clock and concurrent snapshot readers can act in  *)
(* between; everything between two blocking calls is one step.             *)
(*                                                                         *)
(* Time is measured in ticks and kept as ages (now - t), each capped at    *)
(* the largest threshold the code compares it with: UpCap, OuterWindow.    *)
(***************************************************************************)
EXTENDS Integers, FiniteSets

CONSTANTS
  Trees,          \* process-tree identities, one per launch, reused when dead
  NoTree,         \* the nil handle / pid 0
  Callers,        \* goroutines that call Start, Stop, ... on the app
  NoCaller,       \* the actor acts on an event, nobody waits for a reply
  Offered,        \* Offered[c]: the commands caller c uses
  Configs,        \* the app configurations considered
  Second,         \* ticks in time.Second
  EarlyExit,      \* ticks in the 5s window of early error exits
  WindowFloor,    \* ticks in the 60s floor of the outer window
  ExpBackoffCap   \* ceiling of the backoff delay

ConfigType ==
  [autorestart: BOOLEAN, waitReady: BOOLEAN, ipcHandoff: BOOLEAN,
   minUptime: Nat \ {0}, maxRestarts: Nat \ {0},
   restartDelay: Nat, expBackoff: Nat]

(* now.Sub(refTime) < outerWindow is asked of ages up to this value. *)
OuterWindow(c) ==
  LET w == c.minUptime * c.maxRestarts
  IN  IF c.minUptime >= Second /\ w < WindowFloor THEN WindowFloor ELSE w
(* now.Sub(a.uptime) is compared with min_uptime and with EarlyExit.        *)
UpCap(c) == IF c.minUptime > EarlyExit THEN c.minUptime ELSE EarlyExit

ASSUME TreesAssumption == NoTree \notin Trees
ASSUME CallersAssumption == NoCaller \notin Callers
ASSUME TimesAssumption ==
  /\ Second \in Nat \ {0} /\ EarlyExit \in Nat /\ WindowFloor \in Nat
  /\ ExpBackoffCap \in Nat \ {0}
ASSUME ConfigsAssumption == Configs \subseteq ConfigType

Graceful == {"stopGraceful", "deleteGraceful"}
Deleting == {"delete", "deleteGraceful"}
Halting  == {"stop", "stopGraceful"} \cup Deleting
Commands == {"start", "restart", "query"} \cup Halting

ASSUME OfferedAssumption == Offered \in [Callers -> SUBSET Commands]

Statuses  == {"launching", "online", "stopping", "stopped", "waiting", "errored"}
Running   == {"launching", "online"}
ExitKinds == {"zero", "nonzero", "stopcode"}   \* a signal death reads as zero

VARIABLES
  cfg,          \* the resolved configuration, fixed for the app's life
  status, handle, pid,
  park,         \* the restart park timer is armed
  readyTimer,   \* the listen_timeout timer is armed
  unstable, createdNull, prevBackoff,
  seriesSet,    \* crashSeries is not the zero time
  upAge, createdAge, seriesAge,   \* ages of uptime, created, crashSeries
  pc,           \* where the actor is: at its select or inside a handler
  caller,       \* whose message the handler serves
  req,          \* req[c]: the message c is blocked on, "none" if it is not
  leader,       \* leader[t]: none, run, dead (not delivered), reaped (Done closed)
  kids,         \* kids[t]: some descendant of t's leader is alive
  exitKind,     \* how the current handle's leader ended
  failed        \* history: trees whose kill path reported an error

policyVars == <<unstable, createdNull, prevBackoff, seriesSet, seriesAge>>
ages == <<upAge, createdAge, seriesAge>>
treeVars == <<leader, kids, exitKind, failed>>
vars == <<cfg, status, handle, pid, park, readyTimer, policyVars, upAge,
          createdAge, pc, caller, req, treeVars>>

Alive(t) == leader[t] = "run" \/ kids[t]
Free(t)  == ~Alive(t) /\ t # handle

TypeOK ==
  /\ cfg \in Configs
  /\ status \in Statuses
  /\ handle \in Trees \cup {NoTree} /\ pid \in Trees \cup {NoTree}
  /\ park \in BOOLEAN /\ readyTimer \in BOOLEAN
  /\ unstable \in Nat /\ createdNull \in BOOLEAN /\ prevBackoff \in Nat
  /\ seriesSet \in BOOLEAN
  /\ upAge \in 0..UpCap(cfg)
  /\ createdAge \in 0..OuterWindow(cfg) /\ seriesAge \in 0..OuterWindow(cfg)
  /\ pc \in {"loop", "handoff", "kill", "relaunch", "spawn", "done"}
  /\ caller \in Callers \cup {NoCaller}
  /\ req \in [Callers -> Commands \cup {"none"}]
  /\ leader \in [Trees -> {"none", "run", "dead", "reaped"}]
  /\ kids \in [Trees -> BOOLEAN]
  /\ exitKind \in ExitKinds
  /\ failed \in SUBSET Trees

(* New: registered and stopped.  Adopt: a tree found running after a daemon *)
(* restart, its start time read from /proc, so its age is arbitrary.        *)
Init ==
  /\ cfg \in Configs
  /\ park = FALSE /\ readyTimer = FALSE
  /\ unstable = 0 /\ createdNull = FALSE /\ prevBackoff = 0
  /\ seriesSet = FALSE /\ seriesAge = 0 /\ createdAge = 0
  /\ pc = "loop" /\ caller = NoCaller
  /\ req = [c \in Callers |-> "none"]
  /\ exitKind = "zero" /\ failed = {}
  /\ \/ /\ status = "stopped" /\ handle = NoTree /\ pid = NoTree /\ upAge = 0
        /\ leader = [t \in Trees |-> "none"] /\ kids = [t \in Trees |-> FALSE]
     \/ \E t \in Trees, k \in BOOLEAN :
          /\ status = "online" /\ handle = t /\ pid = t /\ upAge \in 0..UpCap(cfg)
          /\ leader = [u \in Trees |-> IF u = t THEN "run" ELSE "none"]
          /\ kids = [u \in Trees |-> u = t /\ k]

-----------------------------------------------------------------------------
(* The environment: callers, processes, the reaper and the clock.           *)

Call(c, k) ==
  /\ pc # "done" /\ req[c] = "none"
  /\ req' = [req EXCEPT ![c] = k]
  /\ UNCHANGED <<cfg, status, handle, pid, park, readyTimer, policyVars, upAge,
                 createdAge, pc, caller, treeVars>>

Fork(t) ==
  /\ leader[t] = "run" /\ ~kids[t]
  /\ kids' = [kids EXCEPT ![t] = TRUE]
  /\ UNCHANGED <<cfg, status, handle, pid, park, readyTimer, policyVars, upAge,
                 createdAge, pc, caller, req, leader, exitKind, failed>>

KidsExit(t) ==
  /\ kids[t]
  /\ kids' = [kids EXCEPT ![t] = FALSE]
  /\ UNCHANGED <<cfg, status, handle, pid, park, readyTimer, policyVars, upAge,
                 createdAge, pc, caller, req, leader, exitKind, failed>>

LeaderExits(t, k) ==
  /\ leader[t] = "run"
  /\ leader' = [leader EXCEPT ![t] = "dead"]
  /\ exitKind' = IF t = handle THEN k ELSE exitKind
  /\ UNCHANGED <<cfg, status, handle, pid, park, readyTimer, policyVars, upAge,
                 createdAge, pc, caller, req, kids, failed>>

(* The reaper (or the adopted tree's poller) closes the handle's Done.      *)
DeliverExit ==
  /\ handle # NoTree /\ leader[handle] = "dead"
  /\ leader' = [leader EXCEPT ![handle] = "reaped"]
  /\ UNCHANGED <<cfg, status, handle, pid, park, readyTimer, policyVars, upAge,
                 createdAge, pc, caller, req, kids, exitKind, failed>>

Older(n, cap) == IF n < cap THEN n + 1 ELSE n

(* onExit reads the clock once, before its cleanup: the cleanup of an exit  *)
(* (a SIGKILL sweep, no graceful window) takes less than a tick.            *)
Tick ==
  /\ pc # "done" /\ ~(pc = "kill" /\ caller = NoCaller)
  /\ upAge' = IF handle = NoTree THEN upAge ELSE Older(upAge, UpCap(cfg))
  /\ createdAge' = Older(createdAge, OuterWindow(cfg))
  /\ seriesAge' = IF seriesSet THEN Older(seriesAge, OuterWindow(cfg)) ELSE seriesAge
  /\ UNCHANGED <<cfg, status, handle, pid, park, readyTimer, unstable,
                 createdNull, prevBackoff, seriesSet, pc, caller, req, treeVars>>

-----------------------------------------------------------------------------
(* Helpers shared by the handlers.                                          *)

Reply(c) ==
  /\ req' = IF c = NoCaller THEN req ELSE [req EXCEPT ![c] = "none"]
  /\ caller' = NoCaller

(* God.resetState: a fresh crash epoch.  crashSeries is left as it is.      *)
ResetState ==
  /\ unstable' = 0 /\ createdNull' = FALSE /\ prevBackoff' = 0
  /\ createdAge' = 0
  /\ UNCHANGED <<seriesSet, seriesAge>>

(* StopWithin returned nil: no process of the tree is left (I1), and the    *)
(* actor drops its handle.                                                  *)
TreeGoneKeepsPid ==
  /\ leader' = [leader EXCEPT ![handle] = "none"]
  /\ kids' = [kids EXCEPT ![handle] = FALSE]
  /\ exitKind' = "zero"
  /\ failed' = failed \ {handle}
  /\ handle' = NoTree /\ pid' = pid /\ upAge' = 0
TreeGoneLeaderOnly ==
  /\ leader' = [leader EXCEPT ![handle] = "none"]
  /\ exitKind' = "zero"
  /\ failed' = failed \ {handle}
  /\ handle' = NoTree /\ pid' = NoTree /\ upAge' = 0
  /\ UNCHANGED kids
TreeGone ==
  /\ leader' = [leader EXCEPT ![handle] = "none"]
  /\ kids' = [kids EXCEPT ![handle] = FALSE]
  /\ exitKind' = "zero"
  /\ failed' = failed \ {handle}
  /\ handle' = NoTree /\ pid' = NoTree /\ upAge' = 0

EnterKill ==
  /\ pc' = "kill" /\ status' = "stopping"

EnterSpawn ==
  /\ pc' = "spawn" /\ status' = "launching"

-----------------------------------------------------------------------------
(* Commands.  Every handler first clears the park timer.                    *)

(* start on a running app is a no-op.                                       *)
StartRunning(c) ==
  /\ pc = "loop" /\ req[c] = "start"
  /\ status \in {"online", "launching", "stopping"}
  /\ park' = FALSE
  /\ Reply(c)
  /\ UNCHANGED <<cfg, status, handle, pid, readyTimer, policyVars, upAge,
                 createdAge, pc, treeVars>>

(* start while parked: relaunch now, in the same crash epoch.               *)
StartWaiting(c) ==
  /\ pc = "loop" /\ req[c] = "start" /\ status = "waiting"
  /\ park' = FALSE
  /\ EnterSpawn /\ caller' = c
  /\ UNCHANGED <<cfg, handle, pid, readyTimer, policyVars, upAge, createdAge,
                 req, treeVars>>

(* start of a stopped or errored app: reset the epoch and launch.           *)
StartParked(c) ==
  /\ pc = "loop" /\ req[c] = "start" /\ status \in {"stopped", "errored"}
  /\ park' = FALSE
  /\ ResetState
  /\ EnterSpawn /\ caller' = c
  /\ UNCHANGED <<cfg, handle, pid, readyTimer, upAge, req, treeVars>>

(* restart of an app with no tree goes through stopped to the relaunch.     *)
RestartIdle(c) ==
  /\ pc = "loop" /\ req[c] = "restart" /\ handle = NoTree
  /\ park' = FALSE
  /\ status' = "stopped" /\ pc' = "relaunch" /\ caller' = c
  /\ UNCHANGED <<cfg, handle, pid, readyTimer, policyVars, upAge, createdAge,
                 req, treeVars>>

RestartLive(c) ==
  /\ pc = "loop" /\ req[c] = "restart" /\ handle # NoTree
  /\ park' = FALSE
  /\ EnterKill /\ caller' = c
  /\ UNCHANGED <<cfg, handle, pid, readyTimer, policyVars, upAge, createdAge,
                 req, treeVars>>

(* stop and delete of an app with no tree.  A deleted actor exits.          *)
HaltIdleKeepsPark(c) ==
  /\ pc = "loop" /\ req[c] \in Halting /\ handle = NoTree
  /\ status' = "stopped"
  /\ pc' = IF req[c] \in Deleting THEN "done" ELSE "loop"
  /\ Reply(c)
  /\ UNCHANGED <<cfg, handle, pid, park, readyTimer, policyVars, upAge,
                 createdAge, treeVars>>
HaltIdle(c) ==
  /\ pc = "loop" /\ req[c] \in Halting /\ handle = NoTree
  /\ park' = FALSE
  /\ status' = "stopped"
  /\ pc' = IF req[c] \in Deleting THEN "done" ELSE "loop"
  /\ Reply(c)
  /\ UNCHANGED <<cfg, handle, pid, readyTimer, policyVars, upAge, createdAge,
                 treeVars>>

(* A graceful stop of a cluster worker waits for it to act on 'shutdown';   *)
(* the published status does not change meanwhile.                          *)
HaltHandoff(c) ==
  /\ pc = "loop" /\ req[c] \in Graceful /\ cfg.ipcHandoff /\ handle # NoTree
  /\ park' = FALSE
  /\ pc' = "handoff" /\ caller' = c
  /\ UNCHANGED <<cfg, status, handle, pid, readyTimer, policyVars, upAge,
                 createdAge, req, treeVars>>

HandoffEnds ==
  /\ pc = "handoff"
  /\ EnterKill
  /\ UNCHANGED <<cfg, handle, pid, park, readyTimer, policyVars, upAge,
                 createdAge, caller, req, treeVars>>

(* The plain path, and the graceful one when SendShutdown fails.            *)
HaltLive(c) ==
  /\ pc = "loop" /\ req[c] \in Halting /\ handle # NoTree
  /\ park' = FALSE
  /\ EnterKill /\ caller' = c
  /\ UNCHANGED <<cfg, handle, pid, readyTimer, policyVars, upAge, createdAge,
                 req, treeVars>>

(* Signal, TreePids and UpdateEnv change no supervision state; what a       *)
(* signal does to the tree is the environment's LeaderExits.                *)
ServeQuery(c) ==
  /\ pc = "loop" /\ req[c] = "query"
  /\ Reply(c)
  /\ UNCHANGED <<cfg, status, handle, pid, park, readyTimer, policyVars, upAge,
                 createdAge, pc, treeVars>>

-----------------------------------------------------------------------------
(* How the kill path ends.                                                  *)

(* It reports survivors: the handle is retained, the app parks errored.     *)
KillFailsDropsHandle ==
  /\ pc = "kill"
  /\ handle' = NoTree /\ pid' = NoTree /\ upAge' = 0
  /\ status' = "errored"
  /\ pc' = IF caller # NoCaller /\ req[caller] \in Deleting THEN "done" ELSE "loop"
  /\ Reply(caller)
  /\ UNCHANGED <<cfg, park, readyTimer, policyVars, createdAge, treeVars>>
KillFailsNoReply ==
  /\ pc = "kill"
  /\ failed' = failed \cup {handle}
  /\ status' = "errored"
  /\ pc' = IF caller # NoCaller /\ req[caller] \in Deleting THEN "done" ELSE "loop"
  /\ caller' = NoCaller
  /\ UNCHANGED <<cfg, handle, pid, park, readyTimer, policyVars, upAge,
                 createdAge, req, leader, kids, exitKind>>
KillFails ==
  /\ pc = "kill"
  /\ \E l \in {leader[handle], "dead"}, k \in {kids[handle], FALSE} :
       /\ leader' = IF leader[handle] = "run" THEN [leader EXCEPT ![handle] = l]
                    ELSE leader
       /\ kids' = [kids EXCEPT ![handle] = k]
  /\ failed' = failed \cup {handle}
  /\ status' = "errored"
  /\ pc' = IF caller # NoCaller /\ req[caller] \in Deleting THEN "done" ELSE "loop"
  /\ Reply(caller)
  /\ UNCHANGED <<cfg, handle, pid, park, readyTimer, policyVars, upAge,
                 createdAge, exitKind>>

HaltDone ==
  /\ pc = "kill" /\ caller # NoCaller /\ req[caller] \in Halting
  /\ TreeGone
  /\ status' = "stopped"
  /\ pc' = IF req[caller] \in Deleting THEN "done" ELSE "loop"
  /\ Reply(caller)
  /\ UNCHANGED <<cfg, park, readyTimer, policyVars, createdAge>>

RestartStopped ==
  /\ pc = "kill" /\ caller # NoCaller /\ req[caller] = "restart"
  /\ TreeGone
  /\ status' = "stopped" /\ pc' = "relaunch"
  /\ UNCHANGED <<cfg, park, readyTimer, policyVars, createdAge, caller, req>>

(* A snapshot taken between the two sees the restarting app stopped.        *)
RestartRelaunches ==
  /\ pc = "relaunch"
  /\ ResetState
  /\ EnterSpawn
  /\ UNCHANGED <<cfg, handle, pid, park, readyTimer, upAge, caller, req, treeVars>>

-----------------------------------------------------------------------------
(* Launching.                                                               *)

SpawnOkNoTimer(t) ==
  /\ pc = "spawn" /\ Free(t)
  /\ leader' = [leader EXCEPT ![t] = "run"]
  /\ kids' = [kids EXCEPT ![t] = FALSE]
  /\ exitKind' = "zero"
  /\ failed' = failed \ {t}
  /\ handle' = t /\ pid' = t /\ upAge' = 0
  /\ status' = IF cfg.waitReady THEN "launching" ELSE "online"
  /\ pc' = "loop"
  /\ Reply(caller)
  /\ UNCHANGED <<cfg, park, readyTimer, policyVars, createdAge>>
SpawnOk(t) ==
  /\ pc = "spawn" /\ Free(t)
  /\ leader' = [leader EXCEPT ![t] = "run"]
  /\ kids' = [kids EXCEPT ![t] = FALSE]
  /\ exitKind' = "zero"
  /\ failed' = failed \ {t}
  /\ handle' = t /\ pid' = t /\ upAge' = 0
  /\ status' = IF cfg.waitReady THEN "launching" ELSE "online"
  /\ readyTimer' = IF cfg.waitReady THEN TRUE ELSE readyTimer
  /\ pc' = "loop"
  /\ Reply(caller)
  /\ UNCHANGED <<cfg, park, policyVars, createdAge>>

SpawnFails ==
  /\ pc = "spawn"
  /\ status' = "errored" /\ handle' = NoTree /\ pid' = NoTree /\ upAge' = 0
  /\ pc' = "loop"
  /\ Reply(caller)
  /\ UNCHANGED <<cfg, park, readyTimer, policyVars, createdAge, treeVars>>

OnReady ==
  /\ pc = "loop" /\ status = "launching" /\ handle # NoTree
  /\ status' = "online" /\ readyTimer' = FALSE
  /\ UNCHANGED <<cfg, handle, pid, park, policyVars, upAge, createdAge, pc,
                 caller, req, treeVars>>

OnReadyTimeout == readyTimer /\ OnReady

ParkFires ==
  /\ pc = "loop" /\ park
  /\ park' = FALSE
  /\ EnterSpawn
  /\ UNCHANGED <<cfg, handle, pid, readyTimer, policyVars, upAge, createdAge,
                 caller, req, treeVars>>

-----------------------------------------------------------------------------
(* An exit of the running app, and the restart policy.                      *)

(* The leader is gone; its descendants need not be.  Clean up first.        *)
OnExit ==
  /\ pc = "loop" /\ status \in Running /\ handle # NoTree
  /\ leader[handle] = "reaped"
  /\ EnterKill
  /\ pid' = NoTree /\ readyTimer' = FALSE
  /\ UNCHANGED <<cfg, handle, park, policyVars, upAge, createdAge, caller, req,
                 treeVars>>

IsUnstable ==
  \/ upAge < cfg.minUptime
  \/ cfg.minUptime >= Second /\ exitKind # "zero" /\ upAge < EarlyExit

(* The stability bookkeeping: the new unstable count and crash series.      *)
NewSeriesAge == IF unstable = 0 \/ ~seriesSet THEN 0 ELSE seriesAge
InWindow ==
  /\ ~createdNull
  /\ \/ NewSeriesAge < OuterWindow(cfg)
     \/ createdAge < OuterWindow(cfg)
TallyForgets ==
  IF ~IsUnstable THEN [count |-> 0, set |-> FALSE, age |-> 0]
  ELSE [count |-> 1, set |-> TRUE, age |-> NewSeriesAge]
Tally ==
  IF ~IsUnstable THEN [count |-> 0, set |-> FALSE, age |-> 0]
  ELSE IF InWindow THEN [count |-> unstable + 1, set |-> TRUE, age |-> NewSeriesAge]
  ELSE [count |-> 1, set |-> TRUE, age |-> 0]
OverBudget == Tally.count >= cfg.maxRestarts

NextRestartDelay(c, prev) ==
  IF c.expBackoff = 0 THEN c.restartDelay
  ELSE IF prev = 0 THEN c.expBackoff
  ELSE LET next == (prev * 3) \div 2
       IN  IF next > ExpBackoffCap THEN ExpBackoffCap ELSE next

ExitCleaned == pc = "kill" /\ caller = NoCaller /\ TreeGone

(* autorestart off, or a listed exit code: an intentional stop.             *)
ExitStops ==
  /\ ExitCleaned
  /\ ~cfg.autorestart \/ exitKind = "stopcode"
  /\ status' = "stopped" /\ pc' = "loop"
  /\ UNCHANGED <<cfg, park, readyTimer, policyVars, createdAge, caller, req>>

ExitErrors ==
  /\ ExitCleaned
  /\ cfg.autorestart /\ exitKind # "stopcode" /\ OverBudget
  /\ unstable' = 0 /\ createdNull' = TRUE /\ seriesSet' = FALSE /\ seriesAge' = 0
  /\ status' = "errored" /\ pc' = "loop"
  /\ UNCHANGED <<cfg, park, readyTimer, prevBackoff, createdAge, caller, req>>

ExitRestarts ==
  /\ ExitCleaned
  /\ cfg.autorestart /\ exitKind # "stopcode" /\ ~OverBudget
  /\ unstable' = Tally.count /\ seriesSet' = Tally.set /\ seriesAge' = Tally.age
  /\ LET delay == NextRestartDelay(cfg, prevBackoff)
     IN  /\ prevBackoff' = IF cfg.expBackoff > 0 THEN delay ELSE prevBackoff
         /\ IF delay > 0
            THEN status' = "waiting" /\ park' = TRUE /\ pc' = "loop"
            ELSE EnterSpawn /\ park' = park
  /\ UNCHANGED <<cfg, readyTimer, createdNull, createdAge, caller, req>>

-----------------------------------------------------------------------------
Serve(c) ==
  \/ StartRunning(c) \/ StartWaiting(c) \/ StartParked(c)
  \/ RestartIdle(c) \/ RestartLive(c)
  \/ HaltIdle(c) \/ HaltHandoff(c) \/ HaltLive(c)
  \/ ServeQuery(c)

KillEnds == HaltDone \/ RestartStopped \/ ExitStops \/ ExitErrors \/ ExitRestarts
            \/ KillFails
SpawnEnds == SpawnFails \/ \E t \in Trees : SpawnOk(t)

Actor ==
  \/ \E c \in Callers : Serve(c)
  \/ HandoffEnds \/ KillEnds \/ RestartRelaunches \/ SpawnEnds
  \/ OnReady \/ OnReadyTimeout \/ ParkFires \/ OnExit

Environment ==
  \/ \E c \in Callers : \E k \in Offered[c] : Call(c, k)
  \/ \E t \in Trees : Fork(t) \/ KidsExit(t)
  \/ \E t \in Trees, k \in ExitKinds : LeaderExits(t, k)
  \/ DeliverExit \/ Tick

Next == Actor \/ Environment

Spec == Init /\ [][Next]_vars

(* A blocked handler returns (the kill path is bounded by kill_timeout and  *)
(* grace, a spawn returns or fails), exits are delivered, timers fire, and  *)
(* the select takes an arm that stays ready.  A blocked sender is ready     *)
(* only while the actor is at its select: Go picks among the ready arms at  *)
(* random and serves senders first come first served, so one that is ready  *)
(* again and again is received from.                                        *)
Fairness ==
  /\ WF_vars(HandoffEnds) /\ WF_vars(KillEnds) /\ WF_vars(RestartRelaunches)
  /\ WF_vars(SpawnEnds) /\ WF_vars(DeliverExit)
  /\ WF_vars(OnReadyTimeout) /\ WF_vars(ParkFires) /\ WF_vars(OnExit)
  /\ \A c \in Callers : SF_vars(Serve(c))

FairSpec == Spec /\ Fairness

-----------------------------------------------------------------------------
(* Safety.                                                                  *)

(* I1 across the app's life: whatever crashes, failed spawns and commands   *)
(* interleave, a live process tree is the one the actor holds a handle to,  *)
(* or one whose kill path reported survivors.  No launch, stop, restart,    *)
(* delete or automatic relaunch leaves a second generation running.         *)
SingleGeneration == \A t \in Trees : Alive(t) => t = handle \/ t \in failed

(* What a snapshot reader (list, the reload poll, the watcher) may conclude *)
(* from the published status and pid: stopped and waiting mean no tree and  *)
(* no pid; online means a tree whose leader pid is the published one; an    *)
(* errored app keeps a handle only when its kill path failed.               *)
SnapshotTruth ==
  /\ status \in {"stopped", "waiting"} => handle = NoTree
  /\ status = "online" => handle # NoTree /\ pid = handle
  /\ status = "launching" => IF pc = "spawn" THEN TRUE ELSE handle # NoTree /\ pid = handle
  /\ status = "errored" /\ handle # NoTree => handle \in failed
  /\ pid # NoTree => pid = handle

(* The restart timer is armed exactly while the app is parked in waiting: a *)
(* command that cancels the wait also cancels the timer, and no path leaves *)
(* an app waiting with nothing to wake it.                                  *)
ParkedIffWaiting == park <=> status = "waiting"

(* The budget can always still be spent: the count stays below max_restarts *)
(* between exits, a nonzero count has a crash series to measure from, and   *)
(* an app that can exit never has the null created_at that would switch the *)
(* outer window off and make its crashes uncountable.                       *)
BudgetArmed ==
  /\ unstable < cfg.maxRestarts
  /\ unstable > 0 => seriesSet
  /\ createdNull => status \in {"errored", "stopped"}

(* The backoff delay never exceeds its ceiling nor, for the first sleep,    *)
(* the configured base, however many crashes an epoch has.                  *)
BackoffBounded ==
  prevBackoff <= cfg.expBackoff \/ prevBackoff <= ExpBackoffCap

(* A stopped or errored app is brought back by a start or restart command   *)
(* and by nothing else: no timer, late exit or ready frame revives it.      *)
OnlyCommandsRevive ==
  [][(status \in {"stopped", "errored"} /\ status' \notin {"stopped", "errored", "stopping"})
       => caller' # NoCaller /\ req[caller'] \in {"start", "restart"}]_vars

-----------------------------------------------------------------------------
(* Liveness.                                                                *)

(* Every command is answered, unless the actor has been retired by a delete *)
(* served before it.                                                        *)
CallsReturn == \A c \in Callers : req[c] # "none" ~> req[c] = "none" \/ pc = "done"

(* launching, stopping and waiting are transient: the ready gate has its    *)
(* deadline, the kill path its grace, the park its timer.                   *)
NoLimbo == \A s \in {"launching", "stopping", "waiting"} : status = s ~> status # s

(* A crash loop ends: an app that restarts itself forever does so only with *)
(* time passing between crashes (stable runs, or windows that lapse) or     *)
(* with commands that reset its budget.                                     *)
CrashLoopEnds ==
  []<><<ExitRestarts>>_vars
    => []<><<Tick>>_vars \/ []<><<\E c \in Callers : StartParked(c)>>_vars
       \/ []<><<RestartRelaunches>>_vars

-----------------------------------------------------------------------------
(* The contract the actor implements.  A restart is one intent to run; the  *)
(* tree it replaces must be gone before the next is launched.               *)

Intent ==
  IF status \in {"stopped", "errored"} /\ pc \in {"loop", "done"} THEN "halted"
  ELSE IF pc \in {"handoff", "kill"} /\ caller # NoCaller /\ req[caller] \in Halting
    THEN "halting" ELSE "run"
Owned == \E t \in Trees : Alive(t) /\ t \notin failed

Contract == INSTANCE AppContract WITH intent <- Intent, running <- Owned

(* Every behaviour of the actor, its tree and its callers keeps the         *)
(* contract: one generation at a time, none while halted, launches only     *)
(* when wanted.                                                             *)
KeepsContract == Contract!Spec

-----------------------------------------------------------------------------
(* The actor as the registry sees it (module Supervisor).  The clean-up of  *)
(* an exit, published as stopping, is the beginning of what comes next; an  *)
(* order that launches is at stopped until it has: who reads the status in  *)
(* between looks again, or waits for s.mu, which the order holds.           *)

Seen ==
  IF pc = "done" THEN "gone"
  ELSE IF pc = "kill" /\ caller = NoCaller THEN "launching"
  ELSE IF pc \in {"relaunch", "spawn"} /\ caller # NoCaller THEN "stopped"
  ELSE status

OrderOf(k) ==
  CASE k \in Deleting -> "delete"
    [] k \in Halting \ Deleting -> "stop"
    [] OTHER -> "restart"

Serving ==
  IF caller = NoCaller \/ pc \notin {"kill", "relaunch", "spawn"} THEN "none"
  ELSE IF pc = "kill" THEN OrderOf(req[caller])
  ELSE IF req[caller] \in {"start", "restart"} THEN "relaunch" ELSE req[caller]

Published == INSTANCE ActorStatus WITH seen <- Seen, serving <- Serving

(* Whatever processes, timers, the budget and rival commands do, the status *)
(* goes only from where to where the registry and its reload expect it to:  *)
(* no late exit, timer or ready frame brings back what is stopped or        *)
(* errored, and nothing changes while an order is carried out.              *)
KeepsStatus == Published!Spec

-----------------------------------------------------------------------------
(* What a comment of machine.go says, and the code does not do.             *)

(* machine.go:541-542 retains the handle of a failed kill "so a subsequent  *)
(* stop can retry the surviving tree": while the app is registered, every   *)
(* live tree is within reach of the next stop.                              *)
SurvivorsRetained == pc # "done" => \A t \in Trees : Alive(t) => t = handle
===============================================================================
