------------------------------- MODULE OpsProofs -------------------------------
(***************************************************************************)
(* Proofs about Ops, for any set of runners, any features, any number of   *)
(* registrations, slots and retries: one runner per app, the version gate  *)
(* that misses nothing, restarts that were earned.                         *)
(***************************************************************************)
EXTENDS Ops, TLAPS

(* Serials are handed out in order, and nobody knows one before it is.      *)
SerialsKnown ==
  /\ reg <= nextSerial /\ view <= nextSerial
  /\ \A r \in Runners : rserial[r] <= nextSerial

(* A runner that is gone is where a new one begins.                         *)
GoneAnew ==
  \A r \in Runners :
    /\ rst[r] = "gone" => pc[r] = "start"
    /\ rst[r] # "gone" => rserial[r] # None

(* The Reconciler's runner has something to enforce.                        *)
RunnerNeeded == current # NoRunner => rserial[current] # None /\ feats[rserial[current]] # {}

(* What opsLoop has listed is the registry of now, or it will look again.   *)
ViewFresh == opc = "sync" /\ ~moved => view = reg

(* The count of failures is behind what the probes have reported, by the    *)
(* result that lies in the channel.  (A success there voids the count.)     *)
FailsCounted ==
  \A r \in Runners :
    /\ result[r] = "none" => fails[r] <= streak[r]
    /\ result[r] = "fail" => fails[r] < streak[r]

(* The next slot lies after the last one that fired; the step that restarts *)
(* has it still to compute, from the slot that fired.                       *)
NextAfterLast ==
  \A r \in Runners :
    /\ pc[r] = "cronRestart" => now[r] = lastFire[r]
    /\ pc[r] \notin {"start", "cronRestart"} /\ Has(r, "cron") => lastFire[r] < cronNext[r]

(* The inductive invariant.                                                 *)
RunnersInv == Sole /\ SerialsKnown /\ GoneAnew /\ RunnerNeeded /\ ViewFresh /\ GateExact
BudgetInv == FailsCounted /\ NextAfterLast
OInv == TypeOK /\ RunnersInv /\ BudgetInv

USE DEF None, NoRunner

-----------------------------------------------------------------------------
(* The constants: runners have names other than NoRunner, serials are       *)
(* positive.                                                                *)
LEMMA OpsFacts ==
  /\ NoRunner \notin Runners /\ Runners \subseteq Nat
  /\ None \notin Serials /\ Serials \subseteq Nat
  /\ \A fs \in FeatureSets : fs \subseteq Features
  /\ MaxSerial \in Nat /\ MaxSlot \in Nat /\ Retries \in Nat /\ Retries > 0
  BY OpsAssumption DEF Serials

LEMMA InitHasOInv == Init => OInv
<1> SUFFICES ASSUME Init
             PROVE  OInv
  OBVIOUS
<1> USE OpsFacts
<1>1. TypeOK
  BY DEF Init, TypeOK, Statuses, Places, Probes
<1>2. RunnersInv
  BY DEF Init, RunnersInv, Sole, SerialsKnown, GoneAnew, RunnerNeeded, ViewFresh,
     GateExact
<1>3. BudgetInv
  BY DEF Init, BudgetInv, FailsCounted, NextAfterLast
<1> QED
  BY <1>1, <1>2, <1>3 DEF OInv

-----------------------------------------------------------------------------
(* The registry and the app: incarnations come and go under the runners.    *)
LEMMA FreshKeepsOInv ==
  ASSUME OInv, NEW fs \in SUBSET Features, Fresh(fs), status' \in Statuses
  PROVE  OInv'
<1> USE OpsFacts DEF OInv
<1> DEFINE s == nextSerial + 1
<1>1. /\ s \in Serials /\ nextSerial' = s /\ reg' = s /\ moved' = TRUE
      /\ feats' = [feats EXCEPT ![s] = fs]
      /\ UNCHANGED <<slot, opc, view, current, rserial, rst, pc, now, cronNext, lastFire,
                     fails, probe, result, streak, taken, watch>>
  BY DEF Fresh, Registers, TypeOK, Serials, cronVars, healthVars
<1>2. TypeOK'
  <2>1. nextSerial' \in 0 .. MaxSerial
    BY <1>1 DEF Serials
  <2>2. feats' \in [Serials -> SUBSET Features]
    BY <1>1 DEF TypeOK
  <2> QED
    BY <1>1, <2>1, <2>2 DEF TypeOK
<1>3. \A r \in Runners : rserial[r] # s
  BY DEF RunnersInv, SerialsKnown, TypeOK, Serials
<1>4. \A r \in Runners : feats'[rserial[r]] = feats[rserial[r]] \/ rserial[r] = None
  BY <1>1, <1>3 DEF TypeOK
<1>5. RunnersInv'
  <2>1. SerialsKnown'
    <3>1. nextSerial \in Nat /\ view \in Nat /\ \A r \in Runners : rserial[r] \in Nat
      BY SMTT(30) DEF TypeOK, Serials
    <3>2. nextSerial' = nextSerial + 1 /\ reg' = nextSerial + 1
          /\ view' = view /\ rserial' = rserial
      BY <1>1
    <3> HIDE DEF s
    <3> QED
      BY <3>1, <3>2 DEF RunnersInv, SerialsKnown
  <2>2. Sole' /\ GoneAnew' /\ ViewFresh' /\ GateExact'
    BY <1>1 DEF RunnersInv, Sole, GoneAnew, ViewFresh, GateExact
  <2>3. RunnerNeeded'
    BY <1>1, <1>4 DEF RunnersInv, RunnerNeeded, TypeOK
  <2> QED
    BY <2>1, <2>2, <2>3 DEF RunnersInv
<1>6. BudgetInv'
  <2>1. FailsCounted'
    BY <1>1 DEF BudgetInv, FailsCounted
  <2>2. NextAfterLast'
    BY <1>1, <1>4 DEF BudgetInv, RunnersInv, GoneAnew, NextAfterLast, Has, TypeOK
  <2> QED
    BY <2>1, <2>2 DEF BudgetInv
<1> QED
  BY <1>2, <1>5, <1>6

(* The rest of the world moves the registry, the app or the clock alone.    *)
LEMMA WorldKeepsOInv ==
  ASSUME OInv, World
  PROVE  OInv'
<1> USE OpsFacts DEF OInv
<1>1. CASE Start
  BY <1>1, FreshKeepsOInv DEF Start, Statuses
<1>2. CASE Reload
  BY <1>2, FreshKeepsOInv DEF Reload, Statuses, TypeOK
<1>3. CASE Delete \/ Stops \/ AppMoves \/ SlotPasses
  <2>1. /\ UNCHANGED <<nextSerial, feats, opc, view, current, rserial, rst, pc, now, cronNext,
                       lastFire, fails, probe, result, streak, taken, watch>>
        /\ status' \in Statuses /\ slot' \in 0 .. MaxSlot
        /\ (reg' = None /\ moved' = TRUE) \/ UNCHANGED <<reg, moved>>
    BY <1>3 DEF Delete, Registers, Stops, AppMoves, SlotPasses, regVars, loopVars, cronVars,
       healthVars, TypeOK, Statuses
  <2>2. TypeOK'
    BY <2>1 DEF TypeOK
  <2>3. RunnersInv'
    BY <2>1 DEF RunnersInv, Sole, SerialsKnown, GoneAnew, RunnerNeeded, ViewFresh,
       GateExact, Followed, TypeOK
  <2>4. BudgetInv'
    BY <2>1 DEF BudgetInv, FailsCounted, NextAfterLast, Has
  <2> QED
    BY <2>2, <2>3, <2>4
<1> QED
  BY <1>1, <1>2, <1>3 DEF World

-----------------------------------------------------------------------------
(* opsLoop.  A listing that a change overtakes leaves the gate open.        *)
LEMMA OpsLoopKeepsOInv ==
  ASSUME OInv, OpsLoop
  PROVE  OInv'
<1> USE OpsFacts DEF OInv
<1>1. /\ UNCHANGED <<reg, nextSerial, feats, status, slot, pc, now, cronNext, lastFire, fails,
                     probe, result, streak, taken, watch>>
      /\ opc' \in {"idle", "list", "sync"} /\ moved' \in BOOLEAN
  BY DEF OpsLoop, ReadVersion, List, SyncKeeps, SyncRetires, SyncStarts, regVars, cronVars,
     healthVars, TypeOK
<1>2. CASE ReadVersion \/ List \/ SyncKeeps
  <2>1. UNCHANGED <<current, rserial, rst>> /\ view' \in Serials \cup {None} /\ view' <= nextSerial
    BY <1>2 DEF ReadVersion, List, SyncKeeps, TypeOK, RunnersInv, SerialsKnown
  <2>2. TypeOK'
    BY <1>1, <2>1 DEF TypeOK
  <2>3. Sole' /\ SerialsKnown' /\ GoneAnew' /\ RunnerNeeded'
    BY <1>1, <2>1 DEF RunnersInv, Sole, SerialsKnown, GoneAnew, RunnerNeeded
  <2>4. ViewFresh' /\ GateExact'
    <3>1. CASE ReadVersion \/ List
      BY <1>1, <3>1 DEF ReadVersion, List, ViewFresh, GateExact
    <3>2. CASE SyncKeeps
      <4>1. ~moved => Followed
        BY <3>2 DEF SyncKeeps, Wanted, RunnersInv, ViewFresh, RunnerNeeded, Followed
      <4>2. opc' = "idle" /\ moved' = moved /\ Followed' = Followed
        BY <1>1, <2>1, <3>2 DEF SyncKeeps, Followed
      <4> QED
        BY <4>1, <4>2 DEF ViewFresh, GateExact
    <3> QED
      BY <1>2, <3>1, <3>2
  <2>5. BudgetInv'
    BY <1>1, <2>1 DEF BudgetInv, FailsCounted, NextAfterLast, Has
  <2> QED
    BY <2>2, <2>3, <2>4, <2>5 DEF RunnersInv
<1>3. CASE SyncRetires
  <2>1. /\ current \in Runners /\ rst' = [rst EXCEPT ![current] = "told"]
        /\ current' = NoRunner /\ view' = None /\ opc' = "idle"
        /\ UNCHANGED <<moved, rserial>>
    BY <1>3 DEF SyncRetires, TypeOK
  <2>2. TypeOK'
    BY <1>1, <2>1 DEF TypeOK
  <2>3. Sole' /\ RunnerNeeded' /\ ViewFresh'
    BY <1>1, <2>1 DEF RunnersInv, Sole, RunnerNeeded, ViewFresh, TypeOK
  <2>7. SerialsKnown'
    BY <1>1, <2>1 DEF RunnersInv, SerialsKnown, TypeOK
  <2>4. GoneAnew'
    BY <1>1, <2>1 DEF RunnersInv, Sole, GoneAnew, TypeOK
  <2>5. GateExact'
    BY <1>1, <1>3, <2>1 DEF SyncRetires, Wanted, RunnersInv, ViewFresh, GateExact, Followed
  <2>6. BudgetInv'
    BY <1>1, <2>1 DEF BudgetInv, FailsCounted, NextAfterLast, Has
  <2> QED
    BY <2>2, <2>3, <2>4, <2>5, <2>6, <2>7 DEF RunnersInv
<1>4. CASE SyncStarts
  <2>1. PICK r \in Runners :
          /\ Spare(r) /\ current' = r
          /\ rst' = [q \in Runners |-> IF q = r THEN "run"
                                       ELSE IF q = current THEN "told" ELSE rst[q]]
          /\ rserial' = [rserial EXCEPT ![r] = view]
    BY <1>4 DEF SyncStarts
  <2>2. view \in Serials /\ feats[view] # {} /\ opc = "sync"
        /\ opc' = "idle" /\ view' = None /\ moved' = moved
    BY <1>4 DEF SyncStarts, Wanted, TypeOK
  <2>3. rst[r] = "gone" /\ pc[r] = "start" /\ r # current
    BY <2>1 DEF Spare, RunnersInv, GoneAnew, Sole
  <2>4. TypeOK'
    BY <1>1, <2>1, <2>2 DEF TypeOK
  <2>5. rserial'[r] = view /\ \A q \in Runners : q # r => rserial'[q] = rserial[q]
    BY <2>1 DEF TypeOK
  <2>6. SerialsKnown' /\ RunnerNeeded'
    BY <1>1, <2>1, <2>2, <2>5 DEF RunnersInv, SerialsKnown, RunnerNeeded, TypeOK, Serials
  <2>7. Sole'
    BY <2>1, <2>3 DEF RunnersInv, Sole
  <2>8. GoneAnew'
    BY <1>1, <2>1, <2>2, <2>3, <2>5 DEF RunnersInv, GoneAnew, Sole
  <2>9. ViewFresh' /\ GateExact'
    BY <1>1, <2>1, <2>2, <2>5 DEF RunnersInv, ViewFresh, GateExact, Followed
  <2>10. BudgetInv'
    BY <1>1, <2>3, <2>5 DEF BudgetInv, FailsCounted, NextAfterLast, Has
  <2> QED
    BY <2>4, <2>6, <2>7, <2>8, <2>9, <2>10 DEF RunnersInv
<1> QED
  BY <1>2, <1>3, <1>4 DEF OpsLoop

-----------------------------------------------------------------------------
(* A runner, its probe and its watcher leave the registry and the           *)
(* Reconciler as they are.                                                  *)
LEMMA RunnerKeepsRunners ==
  ASSUME OInv,
         UNCHANGED <<reg, nextSerial, feats, moved, opc, view, current, rserial, rst>>,
         \A r \in Runners : rst[r] = "gone" => pc'[r] = pc[r]
  PROVE  RunnersInv'
  BY DEF OInv, RunnersInv, Sole, SerialsKnown, GoneAnew, RunnerNeeded, ViewFresh,
     GateExact, Followed

LEMMA ExitsKeepsOInv ==
  ASSUME OInv, NEW r \in Runners, Exits(r)
  PROVE  OInv'
<1> USE OpsFacts DEF OInv
<1>1. /\ UNCHANGED <<reg, nextSerial, feats, status, slot, moved, opc, view, current, now,
                     probe, watch>>
      /\ rst[r] = "told" /\ rst' = [rst EXCEPT ![r] = "gone"]
      /\ pc' = [pc EXCEPT ![r] = "start"] /\ rserial' = [rserial EXCEPT ![r] = None]
      /\ cronNext' = [cronNext EXCEPT ![r] = 0] /\ lastFire' = [lastFire EXCEPT ![r] = 0]
      /\ fails' = [fails EXCEPT ![r] = 0] /\ streak' = [streak EXCEPT ![r] = 0]
      /\ result' = [result EXCEPT ![r] = "none"] /\ taken' = [taken EXCEPT ![r] = FALSE]
  BY DEF Exits, Goes, regVars
<1>2. TypeOK'
  BY <1>1 DEF TypeOK, Places
<1>3. current # r
  BY <1>1 DEF RunnersInv, Sole
<1>4. \A q \in Runners : q # r =>
        /\ rst'[q] = rst[q] /\ pc'[q] = pc[q] /\ rserial'[q] = rserial[q]
        /\ cronNext'[q] = cronNext[q] /\ lastFire'[q] = lastFire[q]
        /\ fails'[q] = fails[q] /\ streak'[q] = streak[q] /\ result'[q] = result[q]
  BY <1>1 DEF TypeOK
<1>5. /\ rst'[r] = "gone" /\ pc'[r] = "start" /\ rserial'[r] = None
      /\ fails'[r] = 0 /\ streak'[r] = 0 /\ result'[r] = "none"
  BY <1>1 DEF TypeOK
<1>6. RunnersInv'
  BY <1>1, <1>3, <1>4, <1>5 DEF RunnersInv, Sole, SerialsKnown, GoneAnew, RunnerNeeded,
     ViewFresh, GateExact, Followed, TypeOK
<1>7. BudgetInv'
  BY <1>1, <1>4, <1>5 DEF BudgetInv, FailsCounted, NextAfterLast, Has
<1> QED
  BY <1>2, <1>6, <1>7

(* Steps between the features of a tick.                                    *)
LEMMA PlainStepsKeepOInv ==
  ASSUME OInv, NEW r \in Runners,
         \/ Ticks(r) \/ MemoryFine(r) \/ MemoryOver(r) \/ MemoryRestarts(r)
         \/ HealthSkips(r) \/ HealthProbes(r) \/ DrainEnds(r) \/ HealthRestarts(r)
  PROVE  OInv'
<1> USE OpsFacts DEF OInv
<1>1. PICK p \in Places :
        /\ pc' = [pc EXCEPT ![r] = p] /\ p \notin {"start", "cronRestart"}
        /\ rst[r] # "gone" /\ pc[r] \notin {"start", "cronRestart"}
  BY DEF Ticks, MemoryFine, MemoryOver, MemoryRestarts, HealthSkips, HealthProbes, DrainEnds,
     HealthRestarts, At, Goes, AfterCron, AfterMemory, Places
<1>2. /\ UNCHANGED <<reg, nextSerial, feats, slot, moved, opc, view, current, rserial, rst, now,
                     cronNext, lastFire, fails, result, streak, taken, watch>>
      /\ status' \in Statuses /\ probe' \in [Runners -> Probes]
  BY DEF Ticks, MemoryFine, MemoryOver, MemoryRestarts, HealthSkips, HealthProbes, DrainEnds,
     HealthRestarts, RestartApp, regVars, loopVars, cronVars, healthVars, TypeOK, Statuses, Probes
<1>3. TypeOK'
  BY <1>1, <1>2 DEF TypeOK
<1>4. RunnersInv'
  BY <1>1, <1>2, RunnerKeepsRunners DEF TypeOK
<1>5. BudgetInv'
  BY <1>1, <1>2 DEF BudgetInv, FailsCounted, NextAfterLast, Has, TypeOK
<1> QED
  BY <1>3, <1>4, <1>5

(* The steps of the cron feature.                                           *)
LEMMA CronStepsKeepOInv ==
  ASSUME OInv, NEW r \in Runners, Starts(r) \/ CronFires(r) \/ CronRestarts(r)
  PROVE  OInv'
<1> USE OpsFacts DEF OInv
<1>1. /\ UNCHANGED <<reg, nextSerial, feats, slot, moved, opc, view, current, rserial, rst,
                     fails, probe, result, streak, taken>>
      /\ status' \in Statuses /\ rst[r] # "gone"
      /\ watch' \in [Runners -> {"off", "quiet", "armed", "restart"}]
  BY DEF Starts, CronFires, CronRestarts, RestartApp, At, regVars, loopVars, healthVars,
     TypeOK, Statuses
<1>2. PICK p \in Places : pc' = [pc EXCEPT ![r] = p]
  BY DEF Starts, CronFires, CronRestarts, Goes, AfterCron, AfterMemory, Places
<1>3. now' \in [Runners -> 0 .. MaxSlot] /\ lastFire' \in [Runners -> 0 .. MaxSlot]
  BY DEF Starts, CronFires, CronRestarts, TypeOK
<1>4. cronNext' \in [Runners -> 0 .. MaxSlot + 1]
  <2>1. CASE Starts(r)
    BY <2>1 DEF Starts, TypeOK
  <2>2. CASE CronFires(r)
    BY <2>2 DEF CronFires, TypeOK
  <2>3. CASE CronRestarts(r)
    BY <2>3 DEF CronRestarts, TypeOK
  <2> QED
    BY <2>1, <2>2, <2>3
<1>5. TypeOK'
  BY <1>1, <1>2, <1>3, <1>4 DEF TypeOK
<1>6. RunnersInv'
  BY <1>1, <1>2, RunnerKeepsRunners DEF TypeOK
<1>7. FailsCounted'
  BY <1>1 DEF BudgetInv, FailsCounted
<1>8. NextAfterLast'
  <2>1. CASE Starts(r)
    BY <1>1, <2>1 DEF Starts, At, Goes, BudgetInv, NextAfterLast, Has, TypeOK
  <2>2. CASE CronFires(r)
    BY <1>1, <2>2 DEF CronFires, At, Goes, BudgetInv, NextAfterLast, Has, TypeOK
  <2>3. CASE CronRestarts(r)
    <3>1. now[r] = lastFire[r]
      BY <2>3 DEF CronRestarts, At, BudgetInv, NextAfterLast
    <3> QED
      BY <1>1, <1>2, <2>3, <3>1 DEF CronRestarts, BudgetInv, NextAfterLast, Has, Goes,
         AfterCron, AfterMemory, TypeOK
  <2> QED
    BY <2>1, <2>2, <2>3
<1> QED
  BY <1>5, <1>6, <1>7, <1>8 DEF BudgetInv

(* A probe's result, and what the runner makes of it.                       *)
LEMMA HealthStepsKeepOInv ==
  ASSUME OInv, NEW r \in Runners,
         \/ DrainOk(r) \/ DrainFails(r) \/ HealthTrips(r)
         \/ ProbeSends(r) \/ ProbeOutlives(r)
  PROVE  OInv'
<1> USE OpsFacts DEF OInv
<1>1. /\ UNCHANGED <<reg, nextSerial, feats, status, slot, moved, opc, view, current, rserial,
                     rst, now, cronNext, lastFire, watch>>
      /\ pc' = pc \/ (rst[r] # "gone" /\ pc[r] = "drain"
                      /\ pc' = [pc EXCEPT ![r] = "healthRestart"])
  BY DEF DrainOk, DrainFails, HealthTrips, ProbeSends, SuccessHeard, NoSuccessHeard,
     StatusTaken, ProbeOutlives, At, Goes, regVars,
     loopVars, cronVars
<1>2. /\ result' \in [Runners -> {"none", "ok", "fail"}]
      /\ probe' \in [Runners -> Probes]
  BY DEF DrainOk, DrainFails, HealthTrips, ProbeSends, SuccessHeard, NoSuccessHeard,
     StatusTaken, ProbeOutlives, Takes, TypeOK, Probes
<1>3. fails' \in [Runners -> 0 .. Retries - 1]
  BY DEF DrainOk, DrainFails, HealthTrips, ProbeSends, SuccessHeard, NoSuccessHeard,
     StatusTaken, ProbeOutlives, TypeOK
<1>4. streak' \in [Runners -> 0 .. Retries]
  BY DEF DrainOk, DrainFails, HealthTrips, ProbeSends, SuccessHeard, NoSuccessHeard,
     StatusTaken, ProbeOutlives, TypeOK
<1>9. taken' \in [Runners -> BOOLEAN]
  BY DEF DrainOk, DrainFails, HealthTrips, ProbeSends, SuccessHeard, NoSuccessHeard,
     StatusTaken, ProbeOutlives, TypeOK
<1>5. TypeOK'
  BY <1>1, <1>2, <1>3, <1>4, <1>9 DEF TypeOK, Places
<1>6. RunnersInv'
  BY <1>1, RunnerKeepsRunners DEF TypeOK
<1>7. NextAfterLast'
  BY <1>1 DEF BudgetInv, NextAfterLast, Has, TypeOK
<1>8. FailsCounted'
  <2>1. CASE DrainOk(r)
    BY <2>1 DEF DrainOk, Takes, BudgetInv, FailsCounted, TypeOK
  <2>2. CASE DrainFails(r)
    BY <2>2 DEF DrainFails, Takes, BudgetInv, FailsCounted, TypeOK
  <2>3. CASE HealthTrips(r)
    BY <2>3 DEF HealthTrips, Takes, BudgetInv, FailsCounted, TypeOK
  <2>4. CASE ProbeSends(r)
    BY <2>4 DEF ProbeSends, SuccessHeard, NoSuccessHeard, StatusTaken, BudgetInv, FailsCounted, TypeOK
  <2>5. CASE ProbeOutlives(r)
    BY <2>5 DEF ProbeOutlives, BudgetInv, FailsCounted, TypeOK
  <2> QED
    BY <2>1, <2>2, <2>3, <2>4, <2>5
<1> QED
  BY <1>5, <1>6, <1>7, <1>8 DEF BudgetInv

LEMMA WatcherKeepsOInv ==
  ASSUME OInv, NEW r \in Runners,
         FileChanges(r) \/ WatchFires(r) \/ WatchRestarts(r) \/ WatchCloses(r)
  PROVE  OInv'
<1> USE OpsFacts DEF OInv
<1>1. /\ UNCHANGED <<reg, nextSerial, feats, slot, moved, opc, view, current, rserial, rst, pc,
                     now, cronNext, lastFire, fails, probe, result, streak, taken>>
      /\ status' \in Statuses
      /\ watch' \in [Runners -> {"off", "quiet", "armed", "restart"}]
  BY DEF FileChanges, WatchFires, WatchRestarts, WatchCloses, Watches, RestartApp, regVars,
     loopVars, cronVars, healthVars, TypeOK, Statuses
<1>2. TypeOK'
  BY <1>1 DEF TypeOK
<1>3. RunnersInv'
  BY <1>1, RunnerKeepsRunners
<1>4. BudgetInv'
  BY <1>1 DEF BudgetInv, FailsCounted, NextAfterLast, Has
<1> QED
  BY <1>2, <1>3, <1>4

LEMMA NextKeepsOInv == OInv /\ [Next]_vars => OInv'
<1> SUFFICES ASSUME OInv, [Next]_vars
             PROVE  OInv'
  OBVIOUS
<1>1. CASE UNCHANGED vars
  BY <1>1 DEF vars, regVars, loopVars, cronVars, healthVars, OInv, TypeOK, RunnersInv, Sole,
     SerialsKnown, GoneAnew, RunnerNeeded, ViewFresh, GateExact, Followed, BudgetInv,
     FailsCounted, NextAfterLast, Has
<1>2. CASE World \/ OpsLoop
  BY <1>2, WorldKeepsOInv, OpsLoopKeepsOInv
<1>3. ASSUME NEW r \in Runners, Runner(r) \/ Exits(r) \/ Helpers(r) \/ FileChanges(r)
      PROVE  OInv'
  BY <1>3, ExitsKeepsOInv, PlainStepsKeepOInv, CronStepsKeepOInv, HealthStepsKeepOInv,
     WatcherKeepsOInv DEF Runner, Helpers
<1> QED
  BY <1>1, <1>2, <1>3 DEF Next

(* Every state of the ops layer.                                            *)
THEOREM OpsInvariance == Spec => []OInv
  BY InitHasOInv, NextKeepsOInv, PTL DEF Spec

-----------------------------------------------------------------------------
(* Every variable keeps its type.                                           *)
THEOREM TypeCorrect == Spec => []TypeOK
<1>1. OInv => TypeOK
  BY DEF OInv
<1> QED
  BY <1>1, OpsInvariance, PTL

(* One runner at most enforces an app's features, and the version gate of   *)
(* opsLoop hides no change of the registry from it.                         *)
THEOREM RunnersAreSole == Spec => []OneRunner
<1>1. OInv => OneRunner
  BY DEF OInv, RunnersInv, OneRunner
<1> QED
  BY <1>1, OpsInvariance, PTL

(* A health restart was earned by as many probes in a row as were asked for *)
(* that failed or lost their status to the reaper, without a success heard  *)
(* among them, however probes and runner interleave.                        *)
THEOREM TripsAreEarned == Spec => HealthEarned
<1>1. OInv /\ [Next]_vars => [\A r \in Runners : HealthTrips(r) => streak[r] >= Retries]_vars
  <2> SUFFICES ASSUME OInv, NEW r \in Runners, HealthTrips(r)
               PROVE  streak[r] >= Retries
    OBVIOUS
  <2> QED
    BY OpsFacts DEF OInv, TypeOK, BudgetInv, FailsCounted, HealthTrips
<1> QED
  BY <1>1, OpsInvariance, PTL DEF Spec, HealthEarned

(* Slots missed during a restart fire once: no two cron restarts without a  *)
(* new slot between them.                                                   *)
THEOREM SlotsFireOnce == Spec => CronNoBurst
<1>1. OInv /\ [Next]_vars => [\A r \in Runners : CronFires(r) => slot > lastFire[r]]_vars
  <2> SUFFICES ASSUME OInv, NEW r \in Runners, CronFires(r)
               PROVE  slot > lastFire[r]
    OBVIOUS
  <2>1. pc[r] = "tick" /\ Has(r, "cron") /\ slot >= cronNext[r]
    BY DEF CronFires, At, CronDue
  <2>2. lastFire[r] < cronNext[r]
    BY <2>1 DEF OInv, BudgetInv, NextAfterLast
  <2> QED
    BY <2>1, <2>2, OpsFacts DEF OInv, TypeOK
<1> QED
  BY <1>1, OpsInvariance, PTL DEF Spec, CronNoBurst
===============================================================================
