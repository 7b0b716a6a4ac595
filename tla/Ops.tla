--------------------------------- MODULE Ops ---------------------------------
(***************************************************************************)
(* The ops layer: internal/ops with the daemon's opsLoop that feeds it.    *)
(* Each second opsLoop compares the registry's version with the last one   *)
(* it saw and, when it moved, lists the registry and syncs the runners:    *)
(* one goroutine per app incarnation that has a feature configured.  A     *)
(* runner restarts its app by pm_id, on a cron slot, on memory, on failed  *)
(* health probes (run by a goroutine of their own) and on file changes     *)
(* (from the watcher's goroutine).                                         *)
(*                                                                         *)
(* One pm_id is followed: runners of different ids share nothing.  The     *)
(* registry (module Supervisor) appears as the incarnation in the slot and *)
(* its status; every look at it and every Restart is one step under s.mu.  *)
(* The cadences of memory samples and probes are left to chance: a tick    *)
(* may find the interval elapsed or not.                                   *)
(***************************************************************************)
EXTENDS Integers, FiniteSets

CONSTANTS
  Runners,      \* runner goroutines, reused when all of one is gone (bound:
                \* a Sync that needs one more waits for that)
  FeatureSets,  \* the feature sets an app may be registered with
  Retries,      \* healthRetries
  MaxSerial,    \* bound: registrations in a behaviour
  MaxSlot       \* bound: cron slots (matching minutes) in a behaviour

Features == {"cron", "memory", "health", "watch"}
None == 0
NoRunner == 0
Serials == 1 .. MaxSerial

ASSUME OpsAssumption ==
  /\ Runners \subseteq Nat \ {NoRunner} /\ FeatureSets \subseteq SUBSET Features
  /\ Retries \in Nat \ {0} /\ MaxSerial \in Nat /\ MaxSlot \in Nat

VARIABLES
  reg,             \* serial in the slot, None if it is empty
  nextSerial,
  moved,           \* the registry's version is not the last one opsLoop saw
  feats,           \* feats[s]: the features of incarnation s
  status,          \* the status of the incarnation in the slot
  slot,            \* the clock: cron slots passed
  opc, view,       \* opsLoop: its place, the serial it listed
  current,         \* the Reconciler's map: the runner of the pm_id
  rserial, rst, pc,   \* per runner: serial, run/told (stop closed)/gone, place
  now, cronNext, lastFire,   \* ... slot of a firing step, next slot, history
  fails, probe, result,      \* ... health: count, probe goroutine, probeCh
  streak,          \* ... history: results in a row without a success heard
  taken,           \* ... history: a probe among them had succeeded
  watch            \* ... the watcher goroutine

regVars    == <<reg, nextSerial, feats>>
loopVars   == <<moved, opc, view, current, rserial>>
cronVars   == <<now, cronNext, lastFire>>
healthVars == <<fails, probe, result, streak, taken>>
vars == <<regVars, status, slot, loopVars, rst, pc, cronVars, healthVars, watch>>

(* Every look taken here treats launching, stopping and waiting as stopped. *)
Statuses == {"online", "errored", "stopped"}
Places == {"start", "tick", "cronRestart", "memory", "memoryRestart",
           "health", "drain", "healthRestart"}
Probes == {"none", "run"}

TypeOK ==
  /\ reg \in Serials \cup {None} /\ nextSerial \in 0 .. MaxSerial
  /\ moved \in BOOLEAN
  /\ feats \in [Serials -> SUBSET Features]
  /\ status \in Statuses /\ slot \in 0 .. MaxSlot
  /\ opc \in {"idle", "list", "sync"}
  /\ view \in Serials \cup {None}
  /\ current \in Runners \cup {NoRunner}
  /\ rserial \in [Runners -> Serials \cup {None}]
  /\ rst \in [Runners -> {"run", "told", "gone"}] /\ pc \in [Runners -> Places]
  /\ now \in [Runners -> 0 .. MaxSlot]
  /\ cronNext \in [Runners -> 0 .. MaxSlot + 1]
  /\ lastFire \in [Runners -> 0 .. MaxSlot]
  /\ fails \in [Runners -> 0 .. Retries - 1]
  /\ probe \in [Runners -> Probes] /\ result \in [Runners -> {"none", "ok", "fail"}]
  /\ streak \in [Runners -> 0 .. Retries] /\ taken \in [Runners -> BOOLEAN]
  /\ watch \in [Runners -> {"off", "quiet", "armed", "restart"}]

Init ==
  /\ reg = None /\ nextSerial = 0 /\ moved = TRUE
  /\ feats = [s \in Serials |-> {}] /\ status = "stopped" /\ slot = 0
  /\ opc = "idle" /\ view = None /\ current = NoRunner
  /\ rserial = [r \in Runners |-> None]
  /\ rst = [r \in Runners |-> "gone"] /\ pc = [r \in Runners |-> "start"]
  /\ now = [r \in Runners |-> 0] /\ cronNext = [r \in Runners |-> 0]
  /\ lastFire = [r \in Runners |-> 0]
  /\ fails = [r \in Runners |-> 0] /\ probe = [r \in Runners |-> "none"]
  /\ result = [r \in Runners |-> "none"] /\ streak = [r \in Runners |-> 0]
  /\ taken = [r \in Runners |-> FALSE]
  /\ watch = [r \in Runners |-> "off"]

-----------------------------------------------------------------------------
(* The registry and the app.                                                *)

(* A registration, or the deletion, moves the version.                      *)
Registers(s) ==
  /\ reg' = s /\ moved' = TRUE
  /\ UNCHANGED <<slot, opc, view, current, rserial, rst, pc, cronVars, healthVars, watch>>

Fresh(fs) ==
  /\ nextSerial < MaxSerial /\ nextSerial' = nextSerial + 1
  /\ feats' = [feats EXCEPT ![nextSerial + 1] = fs]
  /\ Registers(nextSerial + 1)

Start ==
  /\ reg = None /\ status' \in {"online", "errored"}
  /\ \E fs \in FeatureSets : Fresh(fs)

(* A reload: another incarnation of the same configuration.                 *)
Reload == reg # None /\ status' = "online" /\ Fresh(feats[reg])

Delete ==
  /\ reg # None /\ status' = "stopped"
  /\ Registers(None) /\ UNCHANGED <<nextSerial, feats>>

(* A stop, an exit that is not restarted, or a relaunch under way.          *)
Stops ==
  /\ reg # None /\ status # "stopped" /\ status' = "stopped"
  /\ UNCHANGED <<regVars, slot, loopVars, rst, pc, cronVars, healthVars, watch>>

(* Exits, delayed relaunches and ready gates, or a user's start.            *)
AppMoves ==
  /\ reg # None /\ status' \in Statuses \ {"stopped", status}
  /\ UNCHANGED <<regVars, slot, loopVars, rst, pc, cronVars, healthVars, watch>>

(* Slots are told apart only by the runners that wait for them.             *)
SlotPasses ==
  /\ slot < MaxSlot /\ slot' = slot + 1
  /\ \E r \in Runners : rst[r] # "gone" /\ "cron" \in feats[rserial[r]]
  /\ UNCHANGED <<regVars, status, loopVars, rst, pc, cronVars, healthVars, watch>>

-----------------------------------------------------------------------------
(* opsLoop and Reconciler.Sync.                                             *)

ReadVersion ==
  /\ opc = "idle" /\ moved
  /\ moved' = FALSE /\ opc' = "list"
  /\ UNCHANGED <<regVars, status, slot, view, current, rserial, rst, pc, cronVars,
                 healthVars, watch>>

List ==
  /\ opc = "list"
  /\ view' = reg /\ opc' = "sync"
  /\ UNCHANGED <<regVars, status, slot, moved, current, rserial, rst, pc, cronVars,
                 healthVars, watch>>

Spare(r) == rst[r] = "gone" /\ watch[r] = "off" /\ probe[r] = "none"

(* featuresActive of the listed incarnation.                                *)
Wanted == IF view = None THEN FALSE ELSE feats[view] # {}

SyncKeepsById ==
  /\ opc = "sync"
  /\ IF current = NoRunner THEN ~Wanted ELSE view # None
  /\ opc' = "idle" /\ view' = None
  /\ UNCHANGED <<regVars, status, slot, moved, current, rserial, rst, pc,
                 cronVars, healthVars, watch>>
SyncKeeps ==
  /\ opc = "sync"
  /\ IF current = NoRunner THEN ~Wanted ELSE rserial[current] = view
  /\ opc' = "idle" /\ view' = None
  /\ UNCHANGED <<regVars, status, slot, moved, current, rserial, rst, pc,
                 cronVars, healthVars, watch>>

(* The app vanished, or its pm_id has a successor with nothing to enforce.  *)
SyncRetires ==
  /\ opc = "sync" /\ current # NoRunner /\ rserial[current] # view
  /\ ~Wanted
  /\ rst' = [rst EXCEPT ![current] = "told"]
  /\ current' = NoRunner /\ opc' = "idle" /\ view' = None
  /\ UNCHANGED <<regVars, status, slot, moved, rserial, pc, cronVars,
                 healthVars, watch>>

(* A new incarnation: its predecessor's runner is told to stop, and not     *)
(* waited for.                                                              *)
SyncStarts ==
  /\ opc = "sync" /\ Wanted
  /\ IF current = NoRunner THEN TRUE ELSE rserial[current] # view
  /\ \E r \in Runners :
       /\ Spare(r) /\ \A q \in Runners : Spare(q) => r <= q
       /\ rst' = [q \in Runners |-> IF q = r THEN "run"
                                    ELSE IF q = current THEN "told" ELSE rst[q]]
       /\ current' = r /\ rserial' = [rserial EXCEPT ![r] = view]
  /\ opc' = "idle" /\ view' = None
  /\ UNCHANGED <<regVars, status, slot, moved, pc, cronVars, healthVars, watch>>

-----------------------------------------------------------------------------
(* A runner's loop.                                                         *)

At(r, p)  == rst[r] # "gone" /\ pc[r] = p
Goes(r, p) == pc' = [pc EXCEPT ![r] = p]
Has(r, f) == f \in feats[rserial[r]]
Online    == reg # None /\ status = "online"

(* Supervisor.Restart of the pm_id, whoever is registered there.            *)
RestartApp ==
  IF reg = None THEN UNCHANGED status ELSE status' \in {"online", "errored"}

Starts(r) ==
  /\ At(r, "start") /\ Goes(r, "tick")
  /\ IF Has(r, "cron")
     THEN /\ cronNext' = [cronNext EXCEPT ![r] = slot + 1]
          /\ lastFire' = [lastFire EXCEPT ![r] = slot]
     ELSE UNCHANGED <<cronNext, lastFire>>
  /\ watch' = [watch EXCEPT ![r] = IF Has(r, "watch") THEN "quiet" ELSE "off"]
  /\ UNCHANGED <<regVars, status, slot, loopVars, rst, now, healthVars>>

(* What only this runner could read is cleared with it.                     *)
Exits(r) ==
  /\ At(r, "tick") /\ rst[r] = "told"
  /\ rst' = [rst EXCEPT ![r] = "gone"] /\ Goes(r, "start")
  /\ rserial' = [rserial EXCEPT ![r] = None]
  /\ cronNext' = [cronNext EXCEPT ![r] = 0] /\ lastFire' = [lastFire EXCEPT ![r] = 0]
  /\ fails' = [fails EXCEPT ![r] = 0] /\ streak' = [streak EXCEPT ![r] = 0]
  /\ taken' = [taken EXCEPT ![r] = FALSE] /\ result' = [result EXCEPT ![r] = "none"]
  /\ UNCHANGED <<regVars, status, slot, moved, opc, view, current, now, probe, watch>>

(* A step takes up the features in this order, those the app has.           *)
AfterMemory(r) == IF Has(r, "health") THEN "health" ELSE "tick"
AfterCron(r)   == IF Has(r, "memory") THEN "memory" ELSE AfterMemory(r)

CronDue(r) == Has(r, "cron") /\ slot >= cronNext[r]

Ticks(r) ==
  /\ At(r, "tick") /\ ~CronDue(r) /\ Goes(r, AfterCron(r))
  /\ UNCHANGED <<regVars, status, slot, loopVars, rst, cronVars, healthVars, watch>>

CronFires(r) ==
  /\ At(r, "tick") /\ CronDue(r) /\ Goes(r, "cronRestart")
  /\ now' = [now EXCEPT ![r] = slot]
  /\ lastFire' = [lastFire EXCEPT ![r] = slot]
  /\ UNCHANGED <<regVars, status, slot, loopVars, rst, cronNext, healthVars, watch>>

(* cronNext is taken from the time of the step, not of the restart's end.   *)
CronRestartsLate(r) ==
  /\ At(r, "cronRestart") /\ Goes(r, AfterCron(r))
  /\ RestartApp
  /\ cronNext' = [cronNext EXCEPT ![r] = slot + 1]
  /\ now' = [now EXCEPT ![r] = 0]
  /\ UNCHANGED <<regVars, slot, loopVars, rst, lastFire, healthVars, watch>>
CronRestartsAgain(r) ==
  /\ At(r, "cronRestart") /\ Goes(r, AfterCron(r))
  /\ RestartApp
  /\ cronNext' = [cronNext EXCEPT ![r] = now[r]]
  /\ now' = [now EXCEPT ![r] = 0]
  /\ UNCHANGED <<regVars, slot, loopVars, rst, lastFire, healthVars, watch>>
CronRestarts(r) ==
  /\ At(r, "cronRestart") /\ Goes(r, AfterCron(r))
  /\ RestartApp
  /\ cronNext' = [cronNext EXCEPT ![r] = now[r] + 1]
  /\ now' = [now EXCEPT ![r] = 0]
  /\ UNCHANGED <<regVars, slot, loopVars, rst, lastFire, healthVars, watch>>

MemoryFine(r) ==
  /\ At(r, "memory") /\ Goes(r, AfterMemory(r))
  /\ UNCHANGED <<regVars, status, slot, loopVars, rst, cronVars, healthVars, watch>>

MemoryOver(r) ==
  /\ At(r, "memory") /\ Online /\ Goes(r, "memoryRestart")
  /\ UNCHANGED <<regVars, status, slot, loopVars, rst, cronVars, healthVars, watch>>

MemoryRestarts(r) ==
  /\ At(r, "memoryRestart") /\ Goes(r, AfterMemory(r))
  /\ RestartApp
  /\ UNCHANGED <<regVars, slot, loopVars, rst, cronVars, healthVars, watch>>

HealthSkips(r) ==
  /\ At(r, "health") /\ Goes(r, "drain")
  /\ UNCHANGED <<regVars, status, slot, loopVars, rst, cronVars, healthVars, watch>>

(* inflight is set from here until the probe's result is in the channel.    *)
HealthProbes(r) ==
  /\ At(r, "health") /\ Online /\ probe[r] = "none"
  /\ Goes(r, "drain") /\ probe' = [probe EXCEPT ![r] = "run"]
  /\ UNCHANGED <<regVars, status, slot, loopVars, rst, cronVars, fails, result,
                 streak, taken, watch>>

DrainEnds(r) ==
  /\ At(r, "drain") /\ result[r] = "none" /\ Goes(r, "tick")
  /\ UNCHANGED <<regVars, status, slot, loopVars, rst, cronVars, healthVars, watch>>

Takes(r) == result' = [result EXCEPT ![r] = "none"]

DrainOkKeeps(r) ==
  /\ At(r, "drain") /\ result[r] = "ok" /\ Takes(r)
  /\ UNCHANGED <<regVars, status, slot, loopVars, rst, pc, cronVars, fails, probe,
                 streak, taken, watch>>
DrainOk(r) ==
  /\ At(r, "drain") /\ result[r] = "ok" /\ Takes(r)
  /\ fails' = [fails EXCEPT ![r] = 0]
  /\ UNCHANGED <<regVars, status, slot, loopVars, rst, pc, cronVars, probe, streak,
                 taken, watch>>

DrainFails(r) ==
  /\ At(r, "drain") /\ result[r] = "fail" /\ fails[r] + 1 < Retries /\ Takes(r)
  /\ fails' = [fails EXCEPT ![r] = fails[r] + 1]
  /\ UNCHANGED <<regVars, status, slot, loopVars, rst, pc, cronVars, probe, streak,
                 taken, watch>>

HealthTrips(r) ==
  /\ At(r, "drain") /\ result[r] = "fail" /\ fails[r] + 1 >= Retries /\ Takes(r)
  /\ fails' = [fails EXCEPT ![r] = 0] /\ streak' = [streak EXCEPT ![r] = 0]
  /\ taken' = [taken EXCEPT ![r] = FALSE] /\ Goes(r, "healthRestart")
  /\ UNCHANGED <<regVars, status, slot, loopVars, rst, cronVars, probe, watch>>

HealthRestarts(r) ==
  /\ At(r, "healthRestart") /\ Goes(r, "drain")
  /\ RestartApp
  /\ UNCHANGED <<regVars, slot, loopVars, rst, cronVars, healthVars, watch>>

-----------------------------------------------------------------------------
(* The probe goroutine: the command has ended, its result is sent (capacity *)
(* 1) and inflight is cleared.  (A tick between the two finds a probe still *)
(* in flight, as it would have a moment before.)  It outlives its runner.   *)
(* The command is waited for beside the reaper's wait4(-1): when the reaper *)
(* takes the exit status, cmd.Run returns ECHILD, whatever the outcome was. *)

SuccessHeard(r) ==
  /\ result' = [result EXCEPT ![r] = "ok"]
  /\ streak' = [streak EXCEPT ![r] = 0] /\ taken' = [taken EXCEPT ![r] = FALSE]
NoSuccessHeard(r) ==
  /\ result' = [result EXCEPT ![r] = "fail"]
  /\ streak' = [streak EXCEPT ![r] = IF @ < Retries THEN @ + 1 ELSE Retries]
StatusTaken(r) == NoSuccessHeard(r) /\ taken' = [taken EXCEPT ![r] = TRUE]

ProbeSends(r) ==
  /\ probe[r] = "run" /\ result[r] = "none" /\ rst[r] # "gone"
  /\ probe' = [probe EXCEPT ![r] = "none"]
  /\ \/ SuccessHeard(r)
     \/ StatusTaken(r)
     \/ NoSuccessHeard(r) /\ UNCHANGED taken   \* it failed, or timed out
  /\ UNCHANGED <<regVars, status, slot, loopVars, rst, pc, cronVars, fails, watch>>

ProbeOutlives(r) ==
  /\ probe[r] = "run" /\ rst[r] = "gone"
  /\ probe' = [probe EXCEPT ![r] = "none"]
  /\ UNCHANGED <<regVars, status, slot, loopVars, rst, pc, cronVars, fails, result,
                 streak, taken, watch>>

-----------------------------------------------------------------------------
(* The watcher goroutine: events arm the debounce timer, its expiry calls   *)
(* onWatchEvent, which looks at the status and then restarts.               *)

Watches(r, w) ==
  /\ watch' = [watch EXCEPT ![r] = w]
  /\ UNCHANGED <<regVars, slot, loopVars, rst, pc, cronVars, healthVars>>

FileChanges(r) == watch[r] = "quiet" /\ Watches(r, "armed") /\ UNCHANGED status

WatchFires(r) ==
  /\ watch[r] = "armed" /\ UNCHANGED status
  /\ Watches(r, IF reg # None /\ status \in {"online", "errored"}
                THEN "restart" ELSE "quiet")

WatchRestarts(r) == watch[r] = "restart" /\ RestartApp /\ Watches(r, "quiet")

WatchCloses(r) ==
  rst[r] = "gone" /\ watch[r] \in {"quiet", "armed"} /\ Watches(r, "off")
  /\ UNCHANGED status

-----------------------------------------------------------------------------
OpsLoop == ReadVersion \/ List \/ SyncKeeps \/ SyncRetires \/ SyncStarts

Runner(r) ==
  \/ Starts(r) \/ Ticks(r)
  \/ CronFires(r) \/ CronRestarts(r)
  \/ MemoryFine(r) \/ MemoryOver(r) \/ MemoryRestarts(r)
  \/ HealthSkips(r) \/ HealthProbes(r)
  \/ DrainEnds(r) \/ DrainOk(r) \/ DrainFails(r) \/ HealthTrips(r) \/ HealthRestarts(r)

Helpers(r) == ProbeSends(r) \/ ProbeOutlives(r)
              \/ WatchFires(r) \/ WatchRestarts(r) \/ WatchCloses(r)

World ==
  Start \/ Reload \/ Delete \/ Stops \/ AppMoves \/ SlotPasses

Next ==
  \/ World \/ OpsLoop
  \/ \E r \in Runners : Runner(r) \/ Exits(r) \/ Helpers(r) \/ FileChanges(r)

Spec == Init /\ [][Next]_vars

(* opsLoop's and the runners' tickers tick, probes have a timeout, Restart  *)
(* is bounded by the kill path.  A closed stop channel is one of two ready  *)
(* arms at every tick, and the random choice takes it sooner or later.      *)
Winds(r) == ProbeOutlives(r) \/ WatchCloses(r)
FairSpec ==
  /\ Spec
  /\ WF_vars(OpsLoop)
  /\ \A r \in Runners :
       WF_vars(Runner(r)) /\ SF_vars(Exits(r)) /\ WF_vars(WatchRestarts(r)) /\ SF_vars(Winds(r))

-----------------------------------------------------------------------------
(* The runner is that of the registered incarnation, or there is none to be.*)
Followed ==
  IF reg # None /\ feats[reg] # {}
  THEN current # NoRunner /\ rserial[current] = reg
  ELSE current = NoRunner

Sole == \A r \in Runners : rst[r] = "run" <=> current = r
GateExact == opc = "idle" /\ ~moved => Followed

(* One runner at most enforces a pm_id's features: every runner but the     *)
(* Reconciler's current one has been told to stop.  And the version gate    *)
(* hides nothing: whenever opsLoop rests with no change to look at, that    *)
(* one is the registered incarnation's, though the registry may have moved  *)
(* between the look at its version and the listing, and ids come round      *)
(* again (daemon.go, opsLoop).                                              *)
OneRunner == Sole /\ GateExact

(* ops.go:8-14: N consecutive failures restart the app, any success resets  *)
(* the count - any that is heard.  At a health restart, N probes in a row   *)
(* since the one before came back without a success, in the order they      *)
(* ended, however runner and probes interleave: each of them failed, or     *)
(* lost its exit status to the reaper.                                      *)
HealthEarned ==
  [][\A r \in Runners : HealthTrips(r) => streak[r] >= Retries]_vars

(* ops.go:9-11 as it is written: N failures, and no success among them.    *)
HealthTrue ==
  [][\A r \in Runners : HealthTrips(r) => ~taken[r]]_vars

(* ops.go:250-252: missed slots fire once, then resync forward: no two cron *)
(* restarts of a runner without a new slot between them.                    *)
CronNoBurst ==
  [][\A r \in Runners : CronFires(r) => slot > lastFire[r]]_vars

(* ... and none is lost: a slot that passes, even while a restart of the    *)
(* last one is in progress, fires, unless the runner is retired first.      *)
CronOwed ==
  \E r \in Runners :
    rst[r] = "run" /\ pc[r] # "start" /\ Has(r, "cron") /\ slot > lastFire[r]
CronAnswers == CronOwed ~> ~CronOwed

(* ops_test.go:213: "a stopped app must not be restarted by probe failures".*)
HealthSparesStopped ==
  [][(\E r \in Runners : HealthRestarts(r)) => reg = None \/ status # "stopped"]_vars
===============================================================================
