---------------------------- MODULE MachineProofs ----------------------------
(***************************************************************************)
(* Proofs about Machine: its safety properties and its implementation of   *)
(* AppContract, for every set of trees, callers and configurations.        *)
(***************************************************************************)
EXTENDS Machine, TLAPS

(* Where the actor stands, what is then true of its handle and its caller:  *)
(* the part of the inductive invariant no property needs to state.          *)
Control ==
  /\ status = "stopping" <=> pc = "kill"
  /\ pc = "kill" => handle # NoTree /\ ~createdNull
  /\ pc = "spawn" => /\ status = "launching" /\ ~createdNull
                     /\ handle # NoTree => handle \in failed
  /\ pc = "relaunch" => status = "stopped" /\ handle = NoTree
  /\ pc = "handoff" => handle # NoTree
  /\ pc \in {"loop", "done"} => caller = NoCaller
  /\ pc \in {"handoff", "relaunch"} => caller # NoCaller
  /\ createdNull => handle = NoTree
  /\ pc = "handoff" => req[caller] \in Graceful
  /\ pc = "relaunch" => req[caller] = "restart"
  /\ pc = "kill" /\ caller # NoCaller => req[caller] \in Halting \cup {"restart"}
  /\ pc = "spawn" /\ caller # NoCaller => req[caller] \in {"start", "restart"}
  /\ pc = "done" => status \in {"stopped", "errored"}

(* The inductive invariant.                                                 *)
IInv == /\ TypeOK /\ Control /\ SingleGeneration /\ SnapshotTruth
        /\ ParkedIffWaiting /\ BudgetArmed /\ BackoffBounded

-----------------------------------------------------------------------------
(* Thresholds are naturals, so ages range over initial segments of Nat.     *)
LEMMA ConfigTyping ==
  ASSUME NEW c \in Configs
  PROVE  /\ c \in ConfigType
         /\ UpCap(c) \in Nat
         /\ OuterWindow(c) \in Nat
<1>1. c \in ConfigType
  BY ConfigsAssumption
<1>2. c.minUptime \in Nat \ {0} /\ c.maxRestarts \in Nat \ {0}
  BY <1>1 DEF ConfigType
<1>3. UpCap(c) \in Nat
  BY <1>2, TimesAssumption DEF UpCap
<1>4. c.minUptime * c.maxRestarts \in Nat
  BY <1>2
<1>5. OuterWindow(c) \in Nat
  BY <1>4, TimesAssumption DEF OuterWindow
<1> QED
  BY <1>1, <1>3, <1>5

(* Growing older keeps an age below its cap.                                *)
LEMMA OlderTyping ==
  ASSUME NEW cap \in Nat, NEW n \in 0..cap
  PROVE  Older(n, cap) \in 0..cap
  BY DEF Older

(* The delay before a relaunch is a natural, and within the backoff bounds  *)
(* when the backoff curve is on.                                            *)
LEMMA DelayTyping ==
  ASSUME NEW c \in Configs, NEW prev \in Nat
  PROVE  /\ NextRestartDelay(c, prev) \in Nat
         /\ c.expBackoff > 0 => \/ NextRestartDelay(c, prev) <= c.expBackoff
                                \/ NextRestartDelay(c, prev) <= ExpBackoffCap
<1>1. c.restartDelay \in Nat /\ c.expBackoff \in Nat
  BY ConfigTyping DEF ConfigType
<1>2. (prev * 3) \div 2 \in Nat
  OBVIOUS
<1> QED
  BY <1>1, <1>2, TimesAssumption DEF NextRestartDelay

(* The bookkeeping of one exit yields a count, a flag and an age.           *)
LEMMA TallyTyping ==
  ASSUME TypeOK
  PROVE  /\ Tally.count \in Nat
         /\ Tally.set \in BOOLEAN
         /\ Tally.age \in 0..OuterWindow(cfg)
         /\ Tally.count > 0 => Tally.set
<1>1. cfg \in Configs /\ OuterWindow(cfg) \in Nat
  BY ConfigTyping DEF TypeOK
<1>2. NewSeriesAge \in 0..OuterWindow(cfg)
  BY <1>1 DEF NewSeriesAge, TypeOK
<1>3. unstable \in Nat
  BY DEF TypeOK
<1>4. CASE ~IsUnstable
  BY <1>1, <1>4 DEF Tally
<1>5. CASE IsUnstable /\ InWindow
  BY <1>2, <1>3, <1>5 DEF Tally
<1>6. CASE IsUnstable /\ ~InWindow
  BY <1>1, <1>6 DEF Tally
<1> QED
  BY <1>4, <1>5, <1>6

(* Zero is a legal age, count and backoff.                                  *)
LEMMA ZeroTyping ==
  ASSUME TypeOK
  PROVE  /\ 0 \in 0..OuterWindow(cfg) /\ 0 \in 0..UpCap(cfg)
         /\ cfg.maxRestarts \in Nat /\ 0 < cfg.maxRestarts
         /\ cfg.expBackoff \in Nat /\ ExpBackoffCap \in Nat
  BY ConfigTyping, TimesAssumption DEF ConfigType, TypeOK

-----------------------------------------------------------------------------
(* The inductive step, action by action: first the commands.                *)
LEMMA ServeKeepsIInv ==
  ASSUME IInv, NEW c \in Callers, Serve(c)
  PROVE  IInv'
<1> USE TreesAssumption, CallersAssumption
        DEF IInv, TypeOK, Control, SingleGeneration, SnapshotTruth,
            ParkedIffWaiting, BudgetArmed, BackoffBounded, Alive, Reply,
            Statuses, Running, ExitKinds, policyVars, treeVars,
            Commands, Halting, Deleting, Graceful, EnterKill, EnterSpawn
<1>1. CASE StartRunning(c)
  <2>1. TypeOK'
    BY <1>1 DEF StartRunning
  <2>2. Control'
    BY <1>1 DEF StartRunning
  <2>3. SingleGeneration' /\ SnapshotTruth' /\ ParkedIffWaiting'
    BY <1>1 DEF StartRunning
  <2>4. BudgetArmed' /\ BackoffBounded'
    BY <1>1 DEF StartRunning
  <2> QED
    BY <2>1, <2>2, <2>3, <2>4
<1>2. CASE StartWaiting(c)
  BY <1>2 DEF StartWaiting
<1>3. CASE StartParked(c)
  <2>1. /\ 0 \in 0..OuterWindow(cfg) /\ 0 \in 0..UpCap(cfg)
        /\ 0 < cfg.maxRestarts
        /\ cfg.expBackoff \in Nat /\ ExpBackoffCap \in Nat
    BY ZeroTyping
  <2>2. TypeOK'
    BY <1>3, <2>1 DEF StartParked, ResetState
  <2>3. Control'
    BY <1>3 DEF StartParked, ResetState
  <2>4. SingleGeneration' /\ SnapshotTruth' /\ ParkedIffWaiting'
    BY <1>3 DEF StartParked, ResetState
  <2>5. BudgetArmed' /\ BackoffBounded'
    BY <1>3, <2>1 DEF StartParked, ResetState
  <2> QED
    BY <2>2, <2>3, <2>4, <2>5
<1>4. CASE RestartIdle(c)
  BY <1>4 DEF RestartIdle
<1>5. CASE RestartLive(c)
  BY <1>5 DEF RestartLive
<1>6. CASE HaltIdle(c)
  BY <1>6 DEF HaltIdle
<1>7. CASE HaltHandoff(c)
  <2>1. TypeOK'
    BY <1>7 DEF HaltHandoff
  <2>2. Control'
    BY <1>7 DEF HaltHandoff
  <2>3. SingleGeneration' /\ SnapshotTruth' /\ ParkedIffWaiting'
    BY <1>7 DEF HaltHandoff
  <2>4. BudgetArmed' /\ BackoffBounded'
    BY <1>7 DEF HaltHandoff
  <2> QED
    BY <2>1, <2>2, <2>3, <2>4
<1>8. CASE HaltLive(c)
  BY <1>8 DEF HaltLive
<1>9. CASE ServeQuery(c)
  BY <1>9 DEF ServeQuery
<1> QED
  BY <1>1, <1>2, <1>3, <1>4, <1>5, <1>6, <1>7, <1>8, <1>9 DEF Serve

(* The ends of the kill path that serve a command.                          *)
LEMMA HaltEndsKeepIInv ==
  ASSUME IInv, HaltDone \/ RestartStopped \/ HandoffEnds \/ RestartRelaunches
  PROVE  IInv'
<1> USE TreesAssumption, CallersAssumption
        DEF IInv, TypeOK, Control, SingleGeneration, SnapshotTruth,
            ParkedIffWaiting, BudgetArmed, BackoffBounded, Alive, Reply,
            Statuses, Running, ExitKinds, policyVars, treeVars,
            Commands, Halting, Deleting, Graceful, EnterKill, EnterSpawn, TreeGone
<1>1. CASE HandoffEnds
  BY <1>1 DEF HandoffEnds
<1>2. CASE HaltDone
  BY <1>2, ZeroTyping DEF HaltDone
<1>3. CASE RestartStopped
  BY <1>3, ZeroTyping DEF RestartStopped
<1>4. CASE RestartRelaunches
  <2>1. /\ 0 \in 0..OuterWindow(cfg) /\ 0 \in 0..UpCap(cfg)
        /\ 0 < cfg.maxRestarts
        /\ cfg.expBackoff \in Nat /\ ExpBackoffCap \in Nat
    BY ZeroTyping
  <2>2. TypeOK'
    BY <1>4, <2>1 DEF RestartRelaunches, ResetState
  <2>3. Control'
    BY <1>4 DEF RestartRelaunches, ResetState
  <2>4. SingleGeneration' /\ SnapshotTruth' /\ ParkedIffWaiting'
    BY <1>4 DEF RestartRelaunches, ResetState
  <2>5. BudgetArmed' /\ BackoffBounded'
    BY <1>4, <2>1 DEF RestartRelaunches, ResetState
  <2> QED
    BY <2>2, <2>3, <2>4, <2>5
<1> QED
  BY <1>1, <1>2, <1>3, <1>4

(* A kill path that reports survivors: they are the failed trees.           *)
LEMMA KillFailsKeepsIInv ==
  ASSUME IInv, KillFails
  PROVE  IInv'
<1> USE TreesAssumption, CallersAssumption
        DEF IInv, TypeOK, Control, SingleGeneration, SnapshotTruth,
            ParkedIffWaiting, BudgetArmed, BackoffBounded, Alive, Reply,
            Statuses, Running, ExitKinds, policyVars, treeVars,
            Commands, Halting, Deleting, Graceful
<1>1. PICK l \in {leader[handle], "dead"}, k \in {kids[handle], FALSE} :
        /\ leader' = IF leader[handle] = "run"
                     THEN [leader EXCEPT ![handle] = l] ELSE leader
        /\ kids' = [kids EXCEPT ![handle] = k]
  BY DEF KillFails
<1>2. /\ handle \in Trees
      /\ leader' \in [Trees -> {"none", "run", "dead", "reaped"}]
      /\ kids' \in [Trees -> BOOLEAN]
  BY <1>1 DEF KillFails
<1>3. TypeOK'
  BY <1>2 DEF KillFails
<1>4. SingleGeneration'
  BY <1>1 DEF KillFails
<1>5. SnapshotTruth'
  BY DEF KillFails
<1>6. Control'
  BY DEF KillFails
<1>7. ParkedIffWaiting' /\ BudgetArmed' /\ BackoffBounded'
  BY DEF KillFails
<1> QED
  BY <1>3, <1>4, <1>5, <1>6, <1>7

(* Launching, the ready gate and the park timer.                            *)
LEMMA LaunchKeepsIInv ==
  ASSUME IInv, SpawnEnds \/ OnReady \/ ParkFires
  PROVE  IInv'
<1> USE TreesAssumption, CallersAssumption
        DEF IInv, TypeOK, Control, SingleGeneration, SnapshotTruth,
            ParkedIffWaiting, BudgetArmed, BackoffBounded, Alive, Reply,
            Statuses, Running, ExitKinds, policyVars, treeVars,
            Commands, Halting, Deleting, Graceful, EnterSpawn
<1>1. ASSUME NEW t \in Trees, SpawnOk(t)
      PROVE  IInv'
  BY <1>1, ZeroTyping DEF SpawnOk, Free
<1>2. CASE SpawnFails
  BY <1>2, ZeroTyping DEF SpawnFails
<1>3. CASE OnReady
  BY <1>3 DEF OnReady
<1>4. CASE ParkFires
  BY <1>4 DEF ParkFires
<1> QED
  BY <1>1, <1>2, <1>3, <1>4 DEF SpawnEnds

(* An exit: the sweep starts, and the restart policy decides.               *)
LEMMA ExitKeepsIInv ==
  ASSUME IInv, OnExit \/ ExitStops \/ ExitErrors
  PROVE  IInv'
<1> USE TreesAssumption, CallersAssumption
        DEF IInv, TypeOK, Control, SingleGeneration, SnapshotTruth,
            ParkedIffWaiting, BudgetArmed, BackoffBounded, Alive, Reply,
            Statuses, Running, ExitKinds, policyVars, treeVars,
            Commands, Halting, EnterKill, TreeGone, ExitCleaned
<1>1. CASE OnExit
  BY <1>1 DEF OnExit
<1>2. CASE ExitStops
  BY <1>2, ZeroTyping DEF ExitStops
<1>3. CASE ExitErrors
  <2>1. TypeOK'
    BY <1>3, ZeroTyping DEF ExitErrors
  <2>2. Control'
    BY <1>3 DEF ExitErrors
  <2>3. SingleGeneration' /\ SnapshotTruth' /\ ParkedIffWaiting'
    BY <1>3 DEF ExitErrors
  <2>4. BudgetArmed' /\ BackoffBounded'
    BY <1>3, ZeroTyping DEF ExitErrors
  <2> QED
    BY <2>1, <2>2, <2>3, <2>4
<1> QED
  BY <1>1, <1>2, <1>3

(* The automatic restart stays within the budget: the tally of an exit that *)
(* is not over it is below max_restarts, and comes with a crash series.     *)
LEMMA ExitRestartsKeepsIInv ==
  ASSUME IInv, ExitRestarts
  PROVE  IInv'
<1> USE TreesAssumption, CallersAssumption
        DEF IInv, TypeOK, Control, SingleGeneration, SnapshotTruth,
            ParkedIffWaiting, BudgetArmed, BackoffBounded, Alive, Reply,
            Statuses, Running, ExitKinds, policyVars, treeVars,
            Commands, Halting, EnterSpawn, TreeGone
<1>1. /\ unstable' \in Nat /\ seriesSet' \in BOOLEAN
      /\ seriesAge' \in 0..OuterWindow(cfg)
      /\ unstable' < cfg.maxRestarts /\ (unstable' > 0 => seriesSet')
  <2>1. ~OverBudget => Tally.count < cfg.maxRestarts
    BY TallyTyping, ZeroTyping DEF OverBudget
  <2> QED
    BY <2>1, TallyTyping DEF ExitRestarts
<1>2. BackoffBounded' /\ prevBackoff' \in Nat
  BY DelayTyping, ZeroTyping DEF ExitRestarts
<1>3. \/ status' = "waiting" /\ park' = TRUE /\ pc' = "loop"
      \/ pc' = "spawn" /\ status' = "launching" /\ park' = park
  BY DEF ExitRestarts
<1>4. ExitCleaned /\ UNCHANGED <<cfg, readyTimer, createdNull, createdAge, caller, req>>
  BY DEF ExitRestarts
<1>5. TypeOK'
  BY <1>1, <1>2, <1>3, <1>4, ZeroTyping DEF ExitCleaned
<1>6. Control'
  BY <1>3, <1>4 DEF ExitCleaned
<1>7. SingleGeneration'
  BY <1>4 DEF ExitCleaned
<1>8. SnapshotTruth' /\ ParkedIffWaiting'
  BY <1>3, <1>4 DEF ExitCleaned
<1>9. BudgetArmed'
  BY <1>1, <1>3, <1>4 DEF ExitCleaned
<1> QED
  BY <1>2, <1>5, <1>6, <1>7, <1>8, <1>9

(* Callers, processes, the reaper and the clock.                            *)
LEMMA EnvironmentKeepsIInv ==
  ASSUME IInv, Environment \/ UNCHANGED vars
  PROVE  IInv'
<1> USE TreesAssumption, CallersAssumption
        DEF IInv, TypeOK, Control, SingleGeneration, SnapshotTruth,
            ParkedIffWaiting, BudgetArmed, BackoffBounded, Alive, Reply,
            Statuses, Running, ExitKinds, policyVars, treeVars
<1>1. ASSUME NEW c \in Callers, NEW k \in Offered[c], Call(c, k)
      PROVE  IInv'
  <2>1. k \in Commands
    BY OfferedAssumption
  <2> QED
    BY <1>1, <2>1 DEF Call, Commands, Graceful, Halting, Deleting
<1>2. ASSUME NEW t \in Trees, Fork(t)
      PROVE  IInv'
  BY <1>2 DEF Fork
<1>3. ASSUME NEW t \in Trees, KidsExit(t)
      PROVE  IInv'
  BY <1>3 DEF KidsExit
<1>4. ASSUME NEW t \in Trees, NEW k \in ExitKinds, LeaderExits(t, k)
      PROVE  IInv'
  BY <1>4 DEF LeaderExits
<1>5. CASE DeliverExit
  BY <1>5 DEF DeliverExit
<1>6. CASE Tick
  <2>1. TypeOK'
    BY <1>6, OlderTyping, ConfigTyping DEF Tick
  <2>2. Control' /\ SingleGeneration' /\ SnapshotTruth' /\ ParkedIffWaiting'
    BY <1>6 DEF Tick
  <2>3. BudgetArmed' /\ BackoffBounded'
    BY <1>6, OlderTyping, ConfigTyping DEF Tick
  <2> QED
    BY <2>1, <2>2, <2>3
<1>7. CASE UNCHANGED vars
  BY <1>7 DEF vars
<1> QED
  BY <1>1, <1>2, <1>3, <1>4, <1>5, <1>6, <1>7 DEF Environment

(* Registered or adopted, the app starts inside the invariant.              *)
LEMMA InitHasIInv == Init => IInv
<1> SUFFICES ASSUME Init
             PROVE  IInv
  OBVIOUS
<1> USE TreesAssumption, CallersAssumption
        DEF IInv, TypeOK, Control, SingleGeneration, SnapshotTruth,
            ParkedIffWaiting, BudgetArmed, BackoffBounded, Alive, Statuses,
            ExitKinds
<1>1. /\ 0 \in 0..OuterWindow(cfg) /\ 0 \in 0..UpCap(cfg)
      /\ 0 < cfg.maxRestarts
      /\ cfg.expBackoff \in Nat /\ ExpBackoffCap \in Nat
  BY ConfigTyping, TimesAssumption DEF Init, ConfigType
<1>2. TypeOK
  BY <1>1 DEF Init
<1>3. Control
  BY DEF Init
<1>4. SingleGeneration /\ SnapshotTruth /\ ParkedIffWaiting
  BY DEF Init
<1>5. BudgetArmed /\ BackoffBounded
  BY <1>1 DEF Init
<1> QED
  BY <1>2, <1>3, <1>4, <1>5

LEMMA NextKeepsIInv == IInv /\ [Next]_vars => IInv'
<1> SUFFICES ASSUME IInv, [Next]_vars
             PROVE  IInv'
  OBVIOUS
<1>1. ASSUME NEW c \in Callers, Serve(c)
      PROVE  IInv'
  BY <1>1, ServeKeepsIInv
<1>2. CASE KillEnds
  BY <1>2, HaltEndsKeepIInv, ExitKeepsIInv, ExitRestartsKeepsIInv,
     KillFailsKeepsIInv DEF KillEnds
<1>3. CASE HandoffEnds \/ RestartRelaunches
  BY <1>3, HaltEndsKeepIInv
<1>4. CASE SpawnEnds \/ OnReady \/ OnReadyTimeout \/ ParkFires \/ OnExit
  BY <1>4, LaunchKeepsIInv, ExitKeepsIInv DEF OnReadyTimeout
<1>5. CASE Environment \/ UNCHANGED vars
  BY <1>5, EnvironmentKeepsIInv
<1> QED
  BY <1>1, <1>2, <1>3, <1>4, <1>5 DEF Next, Actor

(* The invariant of every behaviour: what all the theorems below rest on.   *)
THEOREM Invariance == Spec => []IInv
  BY InitHasIInv, NextKeepsIInv, PTL DEF Spec

-----------------------------------------------------------------------------
(* Every variable keeps its type: no age outruns its cap, no caller waits   *)
(* on a message that is not a command.                                      *)
THEOREM TypeCorrect == Spec => []TypeOK
<1>1. IInv => TypeOK
  BY DEF IInv
<1> QED
  BY <1>1, Invariance, PTL

(* A live tree is the current one or a reported survivor: no interleaving   *)
(* of crashes, commands and relaunches leaves a second generation running.  *)
THEOREM OneGeneration == Spec => []SingleGeneration
<1>1. IInv => SingleGeneration
  BY DEF IInv
<1> QED
  BY <1>1, Invariance, PTL

(* What the published snapshot says of the tree is so.                      *)
THEOREM SnapshotsAreTrue == Spec => []SnapshotTruth
<1>1. IInv => SnapshotTruth
  BY DEF IInv
<1> QED
  BY <1>1, Invariance, PTL

(* The restart timer is armed exactly while the app is parked in waiting.   *)
THEOREM ParkMatchesStatus == Spec => []ParkedIffWaiting
<1>1. IInv => ParkedIffWaiting
  BY DEF IInv
<1> QED
  BY <1>1, Invariance, PTL

(* The crash budget can always still be spent, whatever max_restarts is.    *)
THEOREM BudgetStaysArmed == Spec => []BudgetArmed
<1>1. IInv => BudgetArmed
  BY DEF IInv
<1> QED
  BY <1>1, Invariance, PTL

(* No number of crashes takes the backoff delay over its ceiling.           *)
THEOREM BackoffStaysBounded == Spec => []BackoffBounded
<1>1. IInv => BackoffBounded
  BY DEF IInv
<1> QED
  BY <1>1, Invariance, PTL

-----------------------------------------------------------------------------
(* Only a start or restart command brings a stopped or errored app back.    *)
LEMMA ReviveNeedsCommand ==
  ASSUME IInv, [Next]_vars,
         status \in {"stopped", "errored"},
         status' \notin {"stopped", "errored", "stopping"}
  PROVE  caller' # NoCaller /\ req[caller'] \in {"start", "restart"}
<1> USE CallersAssumption
        DEF IInv, TypeOK, Control, ParkedIffWaiting, EnterKill, EnterSpawn,
            Reply, TreeGone
<1>1. ASSUME NEW c \in Callers, Serve(c)
      PROVE  caller' # NoCaller /\ req[caller'] \in {"start", "restart"}
  BY <1>1 DEF Serve, StartRunning, StartWaiting, StartParked, RestartIdle,
     RestartLive, HaltIdle, HaltHandoff, HaltLive, ServeQuery
<1>2. CASE RestartRelaunches
  BY <1>2 DEF RestartRelaunches
<1>3. CASE HandoffEnds \/ KillEnds
  BY <1>3 DEF HandoffEnds, KillEnds, HaltDone, RestartStopped, ExitStops,
     ExitErrors, ExitRestarts, ExitCleaned, KillFails
<1>4. CASE SpawnEnds \/ OnReady \/ OnReadyTimeout \/ ParkFires \/ OnExit
  BY <1>4 DEF SpawnEnds, SpawnOk, SpawnFails, OnReady, OnReadyTimeout,
     ParkFires, OnExit, Running
<1>5. CASE Environment \/ UNCHANGED vars
  BY <1>5 DEF Environment, Call, Fork, KidsExit, LeaderExits, DeliverExit,
     Tick, vars
<1> QED
  BY <1>1, <1>2, <1>3, <1>4, <1>5 DEF Next, Actor

THEOREM NoUnaskedRevival == Spec => OnlyCommandsRevive
<1>1. IInv /\ [Next]_vars =>
        [(status \in {"stopped", "errored"} /\ status' \notin {"stopped", "errored", "stopping"})
           => caller' # NoCaller /\ req[caller'] \in {"start", "restart"}]_vars
  BY ReviveNeedsCommand
<1> QED
  BY <1>1, Invariance, PTL DEF Spec, OnlyCommandsRevive

-----------------------------------------------------------------------------
(* The refinement.  While the actor holds no tree, or only a reported       *)
(* survivor, the app owns no running process.                               *)
LEMMA NothingOwned ==
  ASSUME IInv, handle = NoTree \/ handle \in failed
  PROVE  ~Owned
  BY TreesAssumption DEF IInv, SingleGeneration, Owned

LEMMA NothingOwnedNext ==
  ASSUME IInv', handle' = NoTree \/ handle' \in failed'
  PROVE  ~Owned'
  BY TreesAssumption DEF IInv, SingleGeneration, Owned

(* A step that touches neither trees nor failures leaves Owned alone.       *)
LEMMA OwnedStays ==
  ASSUME UNCHANGED treeVars
  PROVE  Owned' = Owned
  BY DEF treeVars, Owned, Alive

(* A command maps to Want, AskHalt, Settle or a stutter.                    *)
LEMMA ServeRefines ==
  ASSUME IInv, IInv', NEW c \in Callers, Serve(c)
  PROVE  [Contract!Next]_(Contract!vars)
<1> USE CallersAssumption
        DEF Contract!Next, Contract!Want, Contract!AskHalt, Contract!Settle,
            Contract!vars, Intent, EnterKill, EnterSpawn, Reply
<1>1. Owned' = Owned
  BY OwnedStays DEF Serve, StartRunning, StartWaiting, StartParked, RestartIdle,
     RestartLive, HaltIdle, HaltHandoff, HaltLive, ServeQuery
<1>2. CASE StartRunning(c) \/ StartWaiting(c) \/ StartParked(c)
  BY <1>1, <1>2 DEF StartRunning, StartWaiting, StartParked
<1>3. CASE RestartIdle(c) \/ RestartLive(c)
  BY <1>1, <1>3 DEF RestartIdle, RestartLive, Halting, Deleting
<1>4. CASE HaltIdle(c)
  BY <1>1, <1>4, NothingOwned DEF HaltIdle
<1>5. CASE HaltHandoff(c) \/ HaltLive(c)
  BY <1>1, <1>5 DEF HaltHandoff, HaltLive, Halting, Deleting, Graceful
<1>6. CASE ServeQuery(c)
  BY <1>1, <1>6 DEF ServeQuery
<1> QED
  BY <1>2, <1>3, <1>4, <1>5, <1>6 DEF Serve

(* The kill path ends in Settle when nothing is to follow, else in Die.     *)
LEMMA KillRefines ==
  ASSUME IInv, IInv', KillEnds \/ HandoffEnds
  PROVE  [Contract!Next]_(Contract!vars)
<1> USE CallersAssumption
        DEF Contract!Next, Contract!Settle, Contract!Die, Contract!vars,
            Intent, EnterKill, EnterSpawn, Reply
<1>1. CASE HandoffEnds
  BY <1>1, OwnedStays DEF HandoffEnds, IInv, Control, Halting, Deleting, Graceful
<1>2. CASE KillFails
  BY <1>2, NothingOwnedNext DEF KillFails
<1>3. CASE HaltDone \/ ExitStops \/ ExitErrors
  BY <1>3, NothingOwnedNext DEF HaltDone, ExitStops, ExitErrors, ExitCleaned, TreeGone
<1>4. CASE RestartStopped
  <2>1. ~Owned'
    BY <1>4, NothingOwnedNext DEF RestartStopped, TreeGone
  <2>2. Intent = "run" /\ Intent' = "run"
    BY <1>4 DEF RestartStopped, IInv, Control, Halting, Deleting
  <2>3. Owned' = Owned \/ (Owned /\ Owned' = FALSE)
    BY <2>1 DEF Owned
  <2> QED
    BY <2>2, <2>3
<1>5. CASE ExitRestarts
  <2>1. ~Owned'
    BY <1>5, NothingOwnedNext DEF ExitRestarts, ExitCleaned, TreeGone
  <2>2. Intent = "run" /\ Intent' = "run"
    BY <1>5 DEF ExitRestarts, ExitCleaned, IInv, Control
  <2>3. Owned' = Owned \/ (Owned /\ Owned' = FALSE)
    BY <2>1 DEF Owned
  <2> QED
    BY <2>2, <2>3
<1> QED
  BY <1>1, <1>2, <1>3, <1>4, <1>5 DEF KillEnds

(* A spawn finds nothing owned and maps to Launch, or gives up: Settle.     *)
LEMMA LaunchRefines ==
  ASSUME IInv, IInv',
         SpawnEnds \/ OnReady \/ ParkFires \/ OnExit \/ RestartRelaunches
  PROVE  [Contract!Next]_(Contract!vars)
<1> USE CallersAssumption
        DEF Contract!Next, Contract!Settle, Contract!Launch, Contract!vars,
            Intent, EnterKill, EnterSpawn, Reply
<1>1. ASSUME NEW t \in Trees, SpawnOk(t)
      PROVE  [Contract!Next]_(Contract!vars)
  <2>1. ~Owned
    BY <1>1, NothingOwned DEF SpawnOk, IInv, Control
  <2>2. Owned'
    BY <1>1 DEF SpawnOk, Owned, Alive, IInv, TypeOK
  <2>3. Intent = "run" /\ Intent' = "run"
    BY <1>1 DEF SpawnOk, IInv, Control
  <2> QED
    BY <2>1, <2>2, <2>3
<1>2. CASE SpawnFails
  BY <1>2, NothingOwnedNext DEF SpawnFails
<1>3. CASE OnReady
  BY <1>3, OwnedStays DEF OnReady
<1>4. CASE ParkFires
  BY <1>4, OwnedStays DEF ParkFires, IInv, ParkedIffWaiting
<1>5. CASE OnExit
  BY <1>5, OwnedStays DEF OnExit, Running, IInv, Control
<1>6. CASE RestartRelaunches
  BY <1>6, OwnedStays DEF RestartRelaunches
<1> QED
  BY <1>1, <1>2, <1>3, <1>4, <1>5, <1>6 DEF SpawnEnds

(* Of the environment only the death of the last process is visible.        *)
LEMMA EnvironmentRefines ==
  ASSUME IInv, IInv', Environment \/ UNCHANGED vars
  PROVE  [Contract!Next]_(Contract!vars)
<1> USE CallersAssumption
        DEF Contract!Next, Contract!Die, Contract!vars, Intent
<1>1. ASSUME NEW c \in Callers, NEW k \in Offered[c], Call(c, k)
      PROVE  [Contract!Next]_(Contract!vars)
  <2>1. pc \in {"handoff", "kill"} /\ caller # NoCaller => caller # c
    BY <1>1 DEF Call, IInv, Control, Halting, Deleting, Graceful
  <2>2. Intent' = Intent
    BY <1>1, <2>1 DEF Call, IInv, TypeOK
  <2> QED
    BY <1>1, <2>2, OwnedStays DEF Call
<1>2. ASSUME NEW t \in Trees, Fork(t)
      PROVE  [Contract!Next]_(Contract!vars)
  <2>1. Owned' = Owned
    BY <1>2 DEF Fork, Owned, Alive, IInv, TypeOK
  <2> QED
    BY <1>2, <2>1 DEF Fork
<1>3. ASSUME NEW t \in Trees, KidsExit(t)
      PROVE  [Contract!Next]_(Contract!vars)
  <2>1. Owned' => Owned
    BY <1>3 DEF KidsExit, Owned, Alive, IInv, TypeOK
  <2>2. Intent' = Intent
    BY <1>3 DEF KidsExit
  <2>3. Owned' = Owned \/ (Owned /\ Owned' = FALSE)
    BY <2>1 DEF Owned
  <2> QED
    BY <2>2, <2>3
<1>4. ASSUME NEW t \in Trees, NEW k \in ExitKinds, LeaderExits(t, k)
      PROVE  [Contract!Next]_(Contract!vars)
  <2>1. Owned' => Owned
    BY <1>4 DEF LeaderExits, Owned, Alive, IInv, TypeOK
  <2>2. Intent' = Intent
    BY <1>4 DEF LeaderExits
  <2>3. Owned' = Owned \/ (Owned /\ Owned' = FALSE)
    BY <2>1 DEF Owned
  <2> QED
    BY <2>2, <2>3
<1>5. CASE DeliverExit
  <2>1. Owned' = Owned
    BY <1>5 DEF DeliverExit, Owned, Alive, IInv, TypeOK
  <2> QED
    BY <1>5, <2>1 DEF DeliverExit
<1>6. CASE Tick
  BY <1>6, OwnedStays DEF Tick
<1>7. CASE UNCHANGED vars
  BY <1>7, OwnedStays DEF vars
<1> QED
  BY <1>1, <1>2, <1>3, <1>4, <1>5, <1>6, <1>7 DEF Environment

(* The actor implements the contract: the initial states map, every step    *)
(* maps to a step of AppContract or to a stutter.                           *)
THEOREM ActorKeepsContract == Spec => KeepsContract
<1>1. Init => Contract!Init
  BY TreesAssumption DEF Init, Contract!Init, Intent, Owned, Alive
<1>2. IInv /\ IInv' /\ [Next]_vars => [Contract!Next]_(Contract!vars)
  <2> SUFFICES ASSUME IInv, IInv', [Next]_vars
               PROVE  [Contract!Next]_(Contract!vars)
    OBVIOUS
  <2>1. ASSUME NEW c \in Callers, Serve(c)
        PROVE  [Contract!Next]_(Contract!vars)
    BY <2>1, ServeRefines
  <2>2. CASE HandoffEnds \/ KillEnds
    BY <2>2, KillRefines
  <2>3. CASE SpawnEnds \/ OnReady \/ OnReadyTimeout \/ ParkFires \/ OnExit
             \/ RestartRelaunches
    BY <2>3, LaunchRefines DEF OnReadyTimeout
  <2>4. CASE Environment \/ UNCHANGED vars
    BY <2>4, EnvironmentRefines
  <2> QED
    BY <2>1, <2>2, <2>3, <2>4 DEF Next, Actor
<1> QED
  BY <1>1, <1>2, Invariance, PTL DEF Spec, KeepsContract, Contract!Spec

-----------------------------------------------------------------------------
(* The status as the registry sees it.  An order that finds no processes is *)
(* served at once or goes on to its launch, one that finds some begins to   *)
(* kill.                                                                    *)
LEMMA ServeShows ==
  ASSUME IInv, NEW c \in Callers, Serve(c)
  PROVE  [Published!Next]_(Published!vars)
<1> USE CallersAssumption
        DEF Published!vars, Seen, Serving, OrderOf, EnterKill, EnterSpawn, Reply
<1>1. /\ pc = "loop" /\ caller = NoCaller /\ c # NoCaller
      /\ Seen = status /\ Serving = "none"
      /\ handle = NoTree => status \in {"stopped", "waiting", "errored"}
      /\ handle # NoTree => status \in {"launching", "online", "errored"}
  BY DEF IInv, TypeOK, Control, SnapshotTruth, Statuses, Serve, StartRunning,
     StartWaiting, StartParked, RestartIdle, RestartLive, HaltIdle, HaltHandoff,
     HaltLive, ServeQuery
<1>2. CASE StartRunning(c) \/ ServeQuery(c) \/ HaltHandoff(c)
  BY <1>1, <1>2 DEF StartRunning, ServeQuery, HaltHandoff
<1>3. CASE StartWaiting(c) \/ StartParked(c) \/ RestartIdle(c)
  <2>1. Seen' = "stopped" /\ Serving' = "relaunch" /\ Seen \in {"stopped", "waiting", "errored"}
    BY <1>1, <1>3 DEF StartWaiting, StartParked, RestartIdle
  <2> QED
    BY <1>1, <2>1 DEF Published!Next, Published!RestartStopped, Published!Idle, Published!Parked
<1>4. CASE RestartLive(c) \/ HaltLive(c)
  <2>1. /\ Seen' = "stopping" /\ Serving' \in {"stop", "restart", "delete"}
        /\ Seen \in {"launching", "online", "errored"}
    BY <1>1, <1>4 DEF RestartLive, HaltLive, Halting
  <2> QED
    BY <1>1, <2>1 DEF Published!Next, Published!Kill, Published!Started, Published!Up
<1>5. CASE HaltIdle(c)
  <2>1. /\ Serving' = "none" /\ Seen' \in {"stopped", "gone"}
        /\ Seen \in {"stopped", "waiting", "errored"}
    BY <1>1, <1>5 DEF HaltIdle
  <2> QED
    BY <1>1, <2>1 DEF Published!Next, Published!Stopped, Published!Deleted, Published!Idle,
       Published!Parked
<1> QED
  BY <1>2, <1>3, <1>4, <1>5 DEF Serve

(* The kill path of an order ends in the order's answer, that of an exit    *)
(* where the restart policy says.                                           *)
LEMMA KillShows ==
  ASSUME IInv, KillEnds \/ HandoffEnds
  PROVE  [Published!Next]_(Published!vars)
<1> USE CallersAssumption DEF Published!vars, Seen, Serving, OrderOf, EnterKill, EnterSpawn, Reply
<1>1. CASE HandoffEnds
  <2>1. /\ Seen \in {"launching", "online", "errored"} /\ Serving = "none"
        /\ Seen' = "stopping" /\ Serving' \in {"stop", "delete"}
    BY <1>1 DEF HandoffEnds, IInv, TypeOK, Statuses, Control, SnapshotTruth, Graceful,
       Deleting, Halting
  <2> QED
    BY <2>1 DEF Published!Next, Published!Kill, Published!Started, Published!Up
<1>2. CASE KillEnds /\ caller = NoCaller
  <2>1. /\ Seen = "launching" /\ Serving = "none" /\ Serving' = "none"
        /\ Seen' \in {"launching", "stopped", "waiting", "errored"}
    BY <1>2 DEF KillEnds, HaltDone, RestartStopped, ExitStops, ExitErrors, ExitRestarts,
       ExitCleaned, KillFails
  <2> QED
    BY <2>1 DEF Published!Next, Published!Unasked, Published!Up, Published!Parked
<1>3. CASE KillEnds /\ caller # NoCaller
  <2>1. pc = "kill" /\ Seen = "stopping" /\ req[caller] \in Halting \cup {"restart"}
    BY <1>3 DEF KillEnds, HaltDone, RestartStopped, ExitStops, ExitErrors, ExitRestarts,
       ExitCleaned, KillFails, IInv, Control
  <2>2. CASE HaltDone \/ (KillFails /\ req[caller] \in Halting)
    <3>1. \/ req[caller] \in Deleting /\ Serving = "delete" /\ Seen' = "gone"
          \/ req[caller] \notin Deleting /\ Serving = "stop" /\ Seen' \in {"stopped", "errored"}
      BY <1>3, <2>1, <2>2 DEF HaltDone, KillFails, Halting
    <3>2. Serving' = "none"
      BY <2>2 DEF HaltDone, KillFails
    <3> QED
      BY <2>1, <3>1, <3>2 DEF Published!Next, Published!Stopped, Published!Deleted, Published!Idle
  <2>3. CASE RestartStopped
    <3>1. Serving = "restart" /\ Serving' = "relaunch" /\ Seen' = "stopped"
      BY <1>3, <2>1, <2>3 DEF RestartStopped, Halting, Deleting, Graceful
    <3> QED
      BY <3>1 DEF Published!Next, Published!RestartStopped, Published!Idle
  <2>4. CASE KillFails /\ req[caller] = "restart"
    <3>1. Serving = "restart" /\ Serving' = "none" /\ Seen' = "errored"
      BY <1>3, <2>1, <2>4 DEF KillFails, Halting, Deleting, Graceful
    <3> QED
      BY <3>1 DEF Published!Next, Published!RestartFails
  <2> QED
    BY <1>3, <2>1, <2>2, <2>3, <2>4 DEF KillEnds, ExitStops, ExitErrors, ExitRestarts, ExitCleaned
<1> QED
  BY <1>1, <1>2, <1>3

(* A launch ends what was asked for, or is the actor's own.                 *)
LEMMA LaunchShows ==
  ASSUME IInv, SpawnEnds \/ OnReady \/ ParkFires \/ OnExit \/ RestartRelaunches
  PROVE  [Published!Next]_(Published!vars)
<1> USE CallersAssumption DEF Published!vars, Seen, Serving, EnterKill, EnterSpawn, Reply
<1>1. CASE SpawnEnds
  <2>1. Seen' \in {"launching", "online", "errored"} /\ Serving' = "none"
    BY <1>1 DEF SpawnEnds, SpawnOk, SpawnFails
  <2>2. \/ caller # NoCaller /\ Serving = "relaunch"
        \/ caller = NoCaller /\ Serving = "none" /\ Seen = "launching"
    BY <1>1 DEF SpawnEnds, SpawnOk, SpawnFails, IInv, Control
  <2> QED
    BY <2>1, <2>2 DEF Published!Next, Published!Unasked, Published!Relaunched,
       Published!Started, Published!Up, Published!Parked
<1>2. CASE OnReady \/ OnExit
  <2>1. /\ Seen \in {"launching", "online"} /\ Seen' \in {"launching", "online"}
        /\ Serving = "none" /\ Serving' = "none"
    BY <1>2 DEF OnReady, OnExit, Running, IInv, Control
  <2> QED
    BY <2>1 DEF Published!Next, Published!Unasked, Published!Up
<1>3. CASE ParkFires
  <2>1. Seen = "waiting" /\ Seen' = "launching" /\ Serving = "none" /\ Serving' = "none"
    BY <1>3 DEF ParkFires, IInv, Control, ParkedIffWaiting
  <2> QED
    BY <2>1 DEF Published!Next, Published!Unasked, Published!Up, Published!Started
<1>4. CASE RestartRelaunches
  BY <1>4 DEF RestartRelaunches, IInv, Control
<1> QED
  BY <1>1, <1>2, <1>3, <1>4

(* Nothing of the environment shows.                                        *)
LEMMA EnvironmentShowsNothing ==
  ASSUME IInv, Environment \/ UNCHANGED vars
  PROVE  UNCHANGED Published!vars
<1>1. UNCHANGED <<pc, caller, status>>
  BY DEF Environment, Call, Fork, KidsExit, LeaderExits, DeliverExit, Tick, vars
<1>2. caller # NoCaller /\ pc \in {"kill", "relaunch", "spawn"} => req'[caller] = req[caller]
  <2>1. ASSUME NEW c \in Callers, NEW k, Call(c, k), caller # NoCaller,
               pc \in {"kill", "relaunch", "spawn"}
        PROVE  req'[caller] = req[caller]
    <3>1. caller # c
      BY <2>1 DEF Call, IInv, Control, Halting, Deleting, Graceful
    <3> QED
      BY <2>1, <3>1 DEF Call, IInv, TypeOK
  <2>2. CASE UNCHANGED req
    BY <2>2
  <2> QED
    BY <2>1, <2>2 DEF Environment, Call, Fork, KidsExit, LeaderExits, DeliverExit, Tick, vars
<1> QED
  BY <1>1, <1>2 DEF Published!vars, Seen, Serving

(* The actor shows the registry the steps of ActorStatus and no other.      *)
THEOREM ActorKeepsStatus == Spec => KeepsStatus
<1>1. Init => Published!Init
  BY CallersAssumption DEF Init, Published!Init, Seen, Serving
<1>2. IInv /\ [Next]_vars => [Published!Next]_(Published!vars)
  <2> SUFFICES ASSUME IInv, [Next]_vars
               PROVE  [Published!Next]_(Published!vars)
    OBVIOUS
  <2>1. ASSUME NEW c \in Callers, Serve(c)
        PROVE  [Published!Next]_(Published!vars)
    BY <2>1, ServeShows
  <2>2. CASE HandoffEnds \/ KillEnds
    BY <2>2, KillShows
  <2>3. CASE SpawnEnds \/ OnReady \/ OnReadyTimeout \/ ParkFires \/ OnExit
             \/ RestartRelaunches
    BY <2>3, LaunchShows DEF OnReadyTimeout
  <2>4. CASE Environment \/ UNCHANGED vars
    BY <2>4, EnvironmentShowsNothing
  <2> QED
    BY <2>1, <2>2, <2>3, <2>4 DEF Next, Actor
<1> QED
  BY <1>1, <1>2, Invariance, PTL DEF Spec, KeepsStatus, Published!Spec
===============================================================================
