--------------------------- MODULE SupervisorProofs ---------------------------
(***************************************************************************)
(* Proofs about Supervisor, for any number of pm_ids and registrations:    *)
(* the registry never loses an app, whatever reloads, deletes and starts   *)
(* interleave.                                                             *)
(***************************************************************************)
EXTENDS Supervisor, TLAPS

(* The two incarnations of the reload in flight.                            *)
RollShape ==
  rollPc # "idle" =>
    /\ old \in Serials /\ new \in Serials /\ old # new
    /\ idOf[old] = rollId /\ idOf[new] = rollId
    /\ apps[ParkKey(rollId)] = old /\ apps[rollId] # old
    /\ status[new] # "unborn" /\ status[old] # "unborn"
    /\ status[old] = "gone" <=> rollPc = "unpark"
    /\ ~cleared => apps[rollId] = new

(* A visible slot holds an app of that id whose actor is there to answer.   *)
SlotShape ==
  \A id \in Ids : apps[id] # None =>
    idOf[apps[id]] = id /\ status[apps[id]] \notin {"unborn", "gone"}

(* Serials are handed out in order.                                         *)
SerialShape == \A a \in Serials : status[a] = "unborn" <=> a > nextSerial

(* Nothing stirs an app between the two halves of a restart.                *)
HolderShape ==
  /\ op = "none" => opApp = None
  /\ op # "none" => opApp \in Serials
  /\ op = "relaunch" => status[opApp] = "stopped"

(* The inductive invariant.                                                 *)
SInv == /\ TypeOK /\ RollShape /\ SlotShape /\ SerialShape /\ HolderShape
        /\ NoActorLost /\ SerialsIdentify /\ NextIDFree /\ ParkedOnlyInRoll
        /\ CommandsAnswered

-----------------------------------------------------------------------------
(* Parked keys are keys, never pm_ids, and one per pm_id.                   *)
LEMMA KeyFacts ==
  /\ \A id \in Ids : id \in Keys /\ ParkKey(id) \in Keys /\ ParkKey(id) \notin Ids
  /\ \A i, j \in Ids : ParkKey(i) = ParkKey(j) => i = j
  /\ \A id \in Ids : id \in Nat /\ id < MaxId
  /\ \A n \in 0 .. MaxId : n < MaxId => n \in Ids
  /\ None \notin Serials
<1>1. \A id \in Ids : id \in Keys /\ ParkKey(id) \in Keys /\ ParkKey(id) \notin Ids
  BY BoundsAssumption DEF Ids, Keys, ParkKey
<1>2. \A i, j \in Ids : ParkKey(i) = ParkKey(j) => i = j
  BY BoundsAssumption DEF Ids, ParkKey
<1>3. /\ \A id \in Ids : id \in Nat /\ id < MaxId
      /\ \A n \in 0 .. MaxId : n < MaxId => n \in Ids
  BY BoundsAssumption DEF Ids
<1>4. None \notin Serials
  BY BoundsAssumption DEF Serials, None
<1> QED
  BY <1>1, <1>2, <1>3, <1>4

(* The next serials belong to nobody yet.                                   *)
LEMMA FreshFacts ==
  ASSUME SInv, NEW n \in {1, 2}, NEW a, a = nextSerial + n, a <= MaxSerial
  PROVE  /\ a \in Serials /\ a \in 0 .. MaxSerial /\ a # None
         /\ status[a] = "unborn"
         /\ opApp # a
         /\ rollPc # "idle" => old # a /\ new # a
         /\ \A id \in Ids : apps[id] # a /\ apps[ParkKey(id)] # a
<1>1. a \in Serials /\ a \in 0 .. MaxSerial /\ a # None /\ a > nextSerial
  BY BoundsAssumption DEF SInv, TypeOK, Serials, None
<1>2. status[a] = "unborn"
  BY <1>1 DEF SInv, SerialShape
<1>3. opApp # a
  BY <1>1, <1>2 DEF SInv, HolderShape, CommandsAnswered, Registered, SlotShape, TypeOK
<1>4. rollPc # "idle" => old # a /\ new # a
  BY <1>2 DEF SInv, RollShape
<1>5. \A id \in Ids : apps[id] # a /\ apps[ParkKey(id)] # a
  BY <1>1, <1>2, <1>4 DEF SInv, SlotShape, ParkedOnlyInRoll, Rolling, RollShape
<1> QED
  BY <1>1, <1>2, <1>3, <1>4, <1>5

-----------------------------------------------------------------------------
(* The inductive step: what actors do by themselves.                        *)
LEMMA ActorsKeepSInv ==
  ASSUME SInv, Actors
  PROVE  SInv'
<1> USE BoundsAssumption, KeyFacts
        DEF SInv, TypeOK, RollShape, SlotShape, SerialShape, HolderShape,
            NoActorLost, SerialsIdentify, NextIDFree, ParkedOnlyInRoll,
            CommandsAnswered, Registered, Rolling, regVars, appVars, opVars,
            rollVars, Statuses, Up, Parked, Started, Ops, RollPcs
<1>1. PICK a \in Serials : BecomeStable(a) \/ Ready(a) \/ Crash(a) \/ Relaunch(a)
  BY DEF Actors
<1>2. CASE BecomeStable(a)
  BY <1>2 DEF BecomeStable
<1>3. ASSUME NEW s \in Up \cup Parked, status[a] \in Up \cup {"waiting"}, Lives(a, s)
      PROVE  SInv'
  <2>1. TypeOK'
    BY <1>3 DEF Lives
  <2>2. RollShape'
    BY <1>3 DEF Lives
  <2>3. SlotShape'
    BY <1>3 DEF Lives
  <2>4. SerialShape'
    BY <1>3 DEF Lives
  <2>5. HolderShape'
    BY <1>3 DEF Lives
  <2>6. NoActorLost'
    BY <1>3 DEF Lives
  <2>7. SerialsIdentify'
    BY <1>3 DEF Lives
  <2>8. NextIDFree'
    BY <1>3 DEF Lives
  <2>9. ParkedOnlyInRoll'
    BY <1>3 DEF Lives
  <2>10. CommandsAnswered'
    BY <1>3 DEF Lives
  <2> QED
    BY <2>1, <2>2, <2>3, <2>4, <2>5, <2>6, <2>7, <2>8, <2>9, <2>10
<1> QED
  BY <1>1, <1>2, <1>3 DEF Ready, Crash, Relaunch

(* Commands, from the resolution to the reply, and the delete.              *)
LEMMA CommandsKeepSInv ==
  ASSUME SInv, Commands \/ OpEnds
  PROVE  SInv'
<1> USE BoundsAssumption, KeyFacts
        DEF SInv, TypeOK, RollShape, SlotShape, SerialShape, HolderShape,
            NoActorLost, SerialsIdentify, NextIDFree, ParkedOnlyInRoll,
            CommandsAnswered, Registered, Rolling, regVars, appVars, opVars,
            rollVars, Statuses, Up, Parked, Started, Ops, RollPcs
<1>1. ASSUME NEW kind \in {"stop", "restart", "delete"}, Begin(kind)
      PROVE  SInv'
  BY <1>1 DEF Begin
<1>2. CASE Kill
  BY <1>2 DEF Kill
<1>3. CASE StopDone
  BY <1>3 DEF StopDone, Served, Unlock
<1>4. CASE RestartStopped
  BY <1>4 DEF RestartStopped, Served
<1>5. CASE RestartFails
  BY <1>5 DEF RestartFails, Served, Unlock
<1>6. CASE RestartDone
  BY <1>6 DEF RestartDone, Served, Unlock
<1>7. CASE DeleteDone
  <2>1. /\ op = "delete" /\ op' = "none" /\ opApp' = None
        /\ status' = [status EXCEPT ![opApp] = "gone"]
        /\ apps' = [apps EXCEPT ![idOf[opApp]] = None]
        /\ serials' = [serials EXCEPT ![idOf[opApp]] = None]
        /\ version' = version + 1
        /\ UNCHANGED <<nextSerial, idOf, stable, rollPc, rollId, old, new, late>>
    BY <1>7 DEF DeleteDone, Served, Unlock
  <2>2. nextID' \in {0, nextID} /\ (nextID' = 0 \/ nextID' = nextID)
        /\ (nextID' # nextID => \A k \in Keys : apps'[k] = None)
    BY <1>7 DEF DeleteDone
  <2>3. cleared' \in BOOLEAN /\ (~cleared' => ~cleared /\ idOf[opApp] # rollId)
    BY <1>7 DEF DeleteDone
  <2>4. TypeOK'
    BY <2>1, <2>2, <2>3 DEF Ids
  <2>5. RollShape'
    BY <2>1, <2>2, <2>3 DEF Ids
  <2>6. SlotShape'
    BY <2>1, <2>2, <2>3 DEF Ids
  <2>7. SerialShape'
    BY <2>1, <2>2, <2>3 DEF Ids
  <2>8. HolderShape'
    BY <2>1, <2>2, <2>3 DEF Ids
  <2>9. NoActorLost'
    BY <2>1, <2>2, <2>3 DEF Ids
  <2>10. SerialsIdentify'
    BY <2>1, <2>2, <2>3 DEF Ids
  <2>11. NextIDFree'
    BY <2>1, <2>2, <2>3 DEF Ids
  <2>12. ParkedOnlyInRoll'
    BY <2>1, <2>2, <2>3 DEF Ids
  <2>13. CommandsAnswered'
    BY <2>1, <2>2, <2>3 DEF Ids
  <2> QED
    BY <2>4, <2>5, <2>6, <2>7, <2>8, <2>9, <2>10, <2>11, <2>12, <2>13
<1> QED
  BY <1>1, <1>2, <1>3, <1>4, <1>5, <1>6, <1>7 DEF Commands, OpEnds

(* One app registered in a free slot below the new counter.                 *)
LEMMA RegisterKeepsSInv ==
  ASSUME SInv, op = "none", NEW id \in Ids, NEW s \in Started, Register(id, s),
         apps[id] = None, nextID' \in 0 .. MaxId, nextID' >= nextID, id < nextID',
         stable' \in [Serials -> BOOLEAN]
  PROVE  SInv'
<1> USE BoundsAssumption, KeyFacts
        DEF SInv, TypeOK, RollShape, SlotShape, SerialShape, HolderShape,
            NoActorLost, SerialsIdentify, NextIDFree, ParkedOnlyInRoll,
            CommandsAnswered, Registered, Rolling, regVars, appVars, opVars,
            rollVars, Statuses, Up, Parked, Started, Ops, RollPcs
<1> DEFINE a == nextSerial + 1
<1>1. a \in Serials /\ nextSerial' = a
  BY DEF Register
<1>2. /\ a \in 0 .. MaxSerial /\ a # None /\ status[a] = "unborn"
      /\ opApp # a /\ (rollPc # "idle" => old # a /\ new # a)
      /\ \A i \in Ids : apps[i] # a /\ apps[ParkKey(i)] # a
  <2>1. a <= MaxSerial
    BY <1>1 DEF Serials
  <2> HIDE DEF SInv
  <2> QED
    BY <2>1, FreshFacts
<1>3. /\ apps' = [apps EXCEPT ![id] = a] /\ serials' = [serials EXCEPT ![id] = a]
      /\ idOf' = [idOf EXCEPT ![a] = id] /\ status' = [status EXCEPT ![a] = s]
      /\ version' = version + 1 /\ UNCHANGED <<opVars, rollVars>>
  BY DEF Register
<1>4. \A b \in Serials : b > a <=> b > nextSerial /\ b # a
  BY DEF Serials
<1> HIDE DEF a
<1>5. TypeOK'
  BY <1>1, <1>2, <1>3, <1>4
<1>6. RollShape'
  BY <1>1, <1>2, <1>3, <1>4
<1>7. SlotShape'
  BY <1>1, <1>2, <1>3, <1>4
<1>8. SerialShape'
  BY <1>1, <1>2, <1>3, <1>4
<1>9. HolderShape'
  BY <1>1, <1>2, <1>3, <1>4
<1>10. NoActorLost'
  BY <1>1, <1>2, <1>3, <1>4
<1>11. SerialsIdentify'
  BY <1>1, <1>2, <1>3, <1>4
<1>12. NextIDFree'
  BY <1>1, <1>2, <1>3, <1>4
<1>13. ParkedOnlyInRoll'
  BY <1>1, <1>2, <1>3, <1>4
<1>14. CommandsAnswered'
  BY <1>1, <1>2, <1>3, <1>4
<1> QED
  BY <1>5, <1>6, <1>7, <1>8, <1>9, <1>10, <1>11, <1>12, <1>13, <1>14

(* A batch of two in two free slots.                                        *)
LEMMA StartPairKeepsSInv ==
  ASSUME SInv, StartPair
  PROVE  SInv'
<1> USE BoundsAssumption, KeyFacts
        DEF SInv, TypeOK, RollShape, SlotShape, SerialShape, HolderShape,
            NoActorLost, SerialsIdentify, NextIDFree, ParkedOnlyInRoll,
            CommandsAnswered, Registered, Rolling, regVars, appVars, opVars,
            rollVars, Statuses, Up, Parked, Started, Ops, RollPcs
<1> DEFINE a == nextSerial + 1
           b == nextSerial + 2
           i == nextID
           j == nextID + 1
<1>1. /\ i \in Ids /\ j \in Ids /\ i # j /\ apps[i] = None /\ apps[j] = None
      /\ nextID' \in 0 .. MaxId /\ nextID' > i /\ nextID' > j
  BY DEF StartPair, Ids
<1>2. /\ a \in Serials /\ a \in 0 .. MaxSerial /\ a # None /\ status[a] = "unborn"
      /\ opApp # a /\ (rollPc # "idle" => old # a /\ new # a)
      /\ \A k \in Ids : apps[k] # a /\ apps[ParkKey(k)] # a
  BY FreshFacts DEF StartPair
<1>3. /\ b \in Serials /\ b \in 0 .. MaxSerial /\ b # None /\ status[b] = "unborn"
      /\ opApp # b /\ (rollPc # "idle" => old # b /\ new # b)
      /\ \A k \in Ids : apps[k] # b /\ apps[ParkKey(k)] # b
  BY FreshFacts DEF StartPair
<1>4. PICK s \in Started, t \in Started :
        status' = [status EXCEPT ![a] = s, ![b] = t]
  BY DEF StartPair
<1>5. /\ apps' = [apps EXCEPT ![i] = a, ![j] = b]
      /\ serials' = [serials EXCEPT ![i] = a, ![j] = b]
      /\ idOf' = [idOf EXCEPT ![a] = i, ![b] = j]
      /\ nextSerial' = b /\ version' = version + 1
      /\ UNCHANGED <<stable, opVars, rollVars>> /\ op = "none"
  BY DEF StartPair
<1>6. a # b /\ \A c \in Serials : c > b <=> c > nextSerial /\ c # a /\ c # b
  BY DEF Serials
<1>7. \A id \in Ids : id < nextID => id < nextID'
  BY <1>1
<1> HIDE DEF a, b, i, j
<1>8. TypeOK'
  BY <1>1, <1>2, <1>3, <1>4, <1>5, <1>6, <1>7
<1>9. RollShape'
  BY <1>1, <1>2, <1>3, <1>4, <1>5, <1>6, <1>7
<1>10. SlotShape'
  <2>1. apps'[i] = a /\ idOf'[a] = i /\ status'[a] = s
    BY <1>1, <1>2, <1>3, <1>4, <1>5, <1>6
  <2>2. apps'[j] = b /\ idOf'[b] = j /\ status'[b] = t
    BY <1>1, <1>2, <1>3, <1>4, <1>5, <1>6
  <2>3. ASSUME NEW id \in Ids, id # i, id # j, apps'[id] # None
        PROVE  idOf'[apps'[id]] = id /\ status'[apps'[id]] \notin {"unborn", "gone"}
    <3>1. apps'[id] = apps[id] /\ apps[id] \in Serials /\ apps[id] # a /\ apps[id] # b
      BY <1>1, <1>2, <1>3, <1>5, <2>3
    <3>2. idOf'[apps[id]] = idOf[apps[id]] /\ status'[apps[id]] = status[apps[id]]
      BY <1>4, <1>5, <3>1
    <3> QED
      BY <2>3, <3>1, <3>2
  <2> QED
    BY <2>1, <2>2, <2>3
<1>11. SerialShape'
  BY <1>1, <1>2, <1>3, <1>4, <1>5, <1>6, <1>7
<1>12. HolderShape'
  BY <1>1, <1>2, <1>3, <1>4, <1>5, <1>6, <1>7
<1>13. NoActorLost'
  BY <1>1, <1>2, <1>3, <1>4, <1>5, <1>6, <1>7
<1>14. SerialsIdentify'
  BY <1>1, <1>2, <1>3, <1>4, <1>5, <1>6, <1>7
<1>15. NextIDFree'
  BY <1>1, <1>2, <1>3, <1>4, <1>5, <1>6, <1>7
<1>16. ParkedOnlyInRoll'
  BY <1>1, <1>2, <1>3, <1>4, <1>5, <1>6, <1>7
<1>17. CommandsAnswered'
  BY <1>1, <1>2, <1>3, <1>4, <1>5, <1>6, <1>7
<1> QED
  BY <1>8, <1>9, <1>10, <1>11, <1>12, <1>13, <1>14, <1>15, <1>16, <1>17

(* The old incarnation is parked and the replacement takes its slot.        *)
LEMMA RollBeginsKeepsSInv ==
  ASSUME SInv, NEW id \in Ids, RollBegins(id)
  PROVE  SInv'
<1> USE BoundsAssumption, KeyFacts
        DEF SInv, TypeOK, RollShape, SlotShape, SerialShape, HolderShape,
            NoActorLost, SerialsIdentify, NextIDFree, ParkedOnlyInRoll,
            CommandsAnswered, Registered, Rolling, regVars, appVars, opVars,
            rollVars, Statuses, Up, Parked, Started, Ops, RollPcs
<1> DEFINE a == nextSerial + 1
<1>1. /\ a \in Serials /\ a \in 0 .. MaxSerial /\ a # None /\ status[a] = "unborn"
      /\ opApp # a /\ \A k \in Ids : apps[k] # a /\ apps[ParkKey(k)] # a
  BY FreshFacts DEF RollBegins
<1>2. apps[id] \in Serials /\ op = "none" /\ rollPc = "idle"
  BY DEF RollBegins
<1>3. PICK s \in Started :
        /\ status' = [status EXCEPT ![a] = s]
        /\ rollPc' = IF s = "errored" THEN "rollback" ELSE "gate"
  BY DEF RollBegins
<1>4. /\ apps' = [apps EXCEPT ![ParkKey(id)] = apps[id], ![id] = a]
      /\ serials' = [serials EXCEPT ![ParkKey(id)] = serials[id], ![id] = a]
      /\ nextSerial' = a /\ idOf' = [idOf EXCEPT ![a] = id] /\ new' = a
      /\ old' = apps[id] /\ rollId' = id /\ late' = FALSE /\ cleared' = FALSE
      /\ version' = version + 1 /\ UNCHANGED <<nextID, stable, opVars>>
  BY DEF RollBegins
<1>5. \A b \in Serials : b > a <=> b > nextSerial /\ b # a
  BY DEF Serials
<1> HIDE DEF a
<1>6. TypeOK'
  <2>1. rollPc' \in RollPcs /\ status' \in [Serials -> Statuses]
    BY <1>1, <1>3
  <2>2. apps' \in [Keys -> Serials \cup {None}] /\ serials' \in [Keys -> Serials \cup {None}]
    BY <1>1, <1>2, <1>4
  <2>3. idOf' \in [Serials -> Ids] /\ nextSerial' \in 0 .. MaxSerial
    BY <1>1, <1>4
  <2>4. old' \in Serials \cup {None} /\ new' \in Serials \cup {None} /\ version' \in Nat
    BY <1>1, <1>2, <1>4
  <2>5. rollId' \in Ids /\ late' \in BOOLEAN /\ cleared' \in BOOLEAN
    BY <1>4
  <2>6. /\ nextID' \in 0 .. MaxId /\ stable' \in [Serials -> BOOLEAN]
        /\ op' \in Ops /\ opApp' \in Serials \cup {None}
    BY <1>4
  <2> QED
    BY <2>1, <2>2, <2>3, <2>4, <2>5, <2>6
<1>7. RollShape'
  BY <1>1, <1>2, <1>3, <1>4, <1>5
<1>8. SlotShape'
  BY <1>1, <1>2, <1>3, <1>4, <1>5
<1>9. SerialShape'
  BY <1>1, <1>2, <1>3, <1>4, <1>5
<1>10. HolderShape'
  BY <1>1, <1>2, <1>3, <1>4, <1>5
<1>11. NoActorLost'
  BY <1>1, <1>2, <1>3, <1>4, <1>5
<1>12. SerialsIdentify'
  BY <1>1, <1>2, <1>3, <1>4, <1>5
<1>13. NextIDFree'
  BY <1>1, <1>2, <1>3, <1>4, <1>5
<1>14. ParkedOnlyInRoll'
  BY <1>1, <1>2, <1>3, <1>4, <1>5
<1>15. CommandsAnswered'
  BY <1>1, <1>2, <1>3, <1>4, <1>5
<1> QED
  BY <1>6, <1>7, <1>8, <1>9, <1>10, <1>11, <1>12, <1>13, <1>14, <1>15

(* The rest of the reload.                                                  *)
LEMMA RollStepKeepsSInv ==
  ASSUME SInv, RollStep \/ Deadline
  PROVE  SInv'
<1> USE BoundsAssumption, KeyFacts
        DEF SInv, TypeOK, RollShape, SlotShape, SerialShape, HolderShape,
            NoActorLost, SerialsIdentify, NextIDFree, ParkedOnlyInRoll,
            CommandsAnswered, Registered, Rolling, regVars, appVars, opVars,
            rollVars, Statuses, Up, Parked, Started, Ops, RollPcs
<1>1. CASE Deadline
  BY <1>1 DEF Deadline
<1>5. CASE GatePolls
  BY <1>5 DEF GatePolls, RollSteps
<1>6. CASE GateDecides
  <2>1. rollPc = "snapshot" /\ rollPc' \in {"retire", "rollback", "gate"}
        /\ UNCHANGED <<rollId, old, new, late, cleared, regVars, appVars, opVars>>
    BY <1>6 DEF GateDecides, RollSteps
  <2> QED
    BY <2>1
<1>7. CASE RollbackFindsSuccessor
  BY <1>7 DEF RollbackFindsSuccessor, RollSteps
<1>2. CASE Rollback
  BY <1>2 DEF Rollback, RollSteps
<1>3. CASE RetireParked
  BY <1>3 DEF RetireParked, RollSteps
<1>4. CASE Unpark
  <2>1. TypeOK'
    BY <1>4 DEF Unpark, RollSteps
  <2>2. RollShape'
    BY <1>4 DEF Unpark, RollSteps
  <2>3. SlotShape'
    BY <1>4 DEF Unpark, RollSteps
  <2>4. SerialShape'
    BY <1>4 DEF Unpark, RollSteps
  <2>5. HolderShape'
    BY <1>4 DEF Unpark, RollSteps
  <2>6. NoActorLost'
    BY <1>4 DEF Unpark, RollSteps
  <2>7. SerialsIdentify'
    BY <1>4 DEF Unpark, RollSteps
  <2>8. NextIDFree'
    BY <1>4 DEF Unpark, RollSteps
  <2>9. ParkedOnlyInRoll'
    BY <1>4 DEF Unpark, RollSteps
  <2>10. CommandsAnswered'
    BY <1>4 DEF Unpark, RollSteps
  <2> QED
    BY <2>1, <2>2, <2>3, <2>4, <2>5, <2>6, <2>7, <2>8, <2>9, <2>10
<1> QED
  BY <1>1, <1>2, <1>3, <1>4, <1>5, <1>6, <1>7 DEF RollStep

LEMMA RegistrationsKeepSInv ==
  ASSUME SInv, Registrations
  PROVE  SInv'
<1>1. nextID \in Nat /\ MaxId \in Nat /\ nextID <= MaxId /\ nextSerial \in Nat
  BY BoundsAssumption DEF SInv, TypeOK
<1>2. CASE StartApps
  <2>1. PICK n \in {1, 2} :
          /\ nextID + n <= MaxId /\ nextID' = nextID + n
          /\ \E id \in nextID .. nextID + n - 1, s \in Started : Register(id, s)
    BY <1>2 DEF StartApps
  <2>2. PICK id \in nextID .. nextID + n - 1, s \in Started : Register(id, s)
    BY <2>1
  <2>3. id \in Ids /\ id >= nextID /\ id < nextID'
    BY <1>1, <2>1, <2>2 DEF Ids
  <2>4. apps[id] = None
    BY <1>1, <2>3, KeyFacts DEF SInv, NextIDFree
  <2>5. op = "none" /\ stable' \in [Serials -> BOOLEAN]
    BY <1>2 DEF StartApps, SInv, TypeOK
  <2> QED
    BY <1>1, <2>1, <2>2, <2>3, <2>4, <2>5, RegisterKeepsSInv
<1>3. CASE StartUnbuilt
  BY <1>1, <1>3, KeyFacts
     DEF StartUnbuilt, SInv, TypeOK, RollShape, SlotShape, SerialShape,
         HolderShape, NoActorLost, SerialsIdentify, NextIDFree, ParkedOnlyInRoll,
         CommandsAnswered, Registered, Rolling, appVars, opVars, rollVars
<1>4. CASE StartPair
  BY <1>4, StartPairKeepsSInv
<1>5. ASSUME NEW id \in Ids, StartAtID(id) \/ RegisterAt(id)
      PROVE  SInv'
  <2>1. nextID' \in 0 .. MaxId /\ nextID' >= nextID /\ id < nextID'
    BY <1>1, <1>5, KeyFacts DEF StartAtID, RegisterAt, RaiseNextID
  <2>2. op = "none" /\ apps[id] = None
    BY <1>5 DEF StartAtID, RegisterAt
  <2>3. stable' \in [Serials -> BOOLEAN]
    BY <1>5 DEF StartAtID, RegisterAt, SInv, TypeOK
  <2>4. \E s \in Started : Register(id, s)
    BY <1>5 DEF StartAtID, RegisterAt, Started, Up
  <2> QED
    BY <2>1, <2>2, <2>3, <2>4, RegisterKeepsSInv
<1> QED
  BY <1>2, <1>3, <1>4, <1>5 DEF Registrations

LEMMA InitHasSInv == Init => SInv
<1> SUFFICES ASSUME Init
             PROVE  SInv
  OBVIOUS
<1> USE BoundsAssumption, KeyFacts DEF Init
<1>1. TypeOK
  <2>1. 0 \in Ids /\ 0 \in 0 .. MaxId /\ 0 \in 0 .. MaxSerial
    BY DEF Ids
  <2>2. status \in [Serials -> Statuses] /\ op \in Ops /\ rollPc \in RollPcs
    BY DEF Statuses, Ops, RollPcs
  <2>3. apps \in [Keys -> Serials \cup {None}] /\ serials \in [Keys -> Serials \cup {None}]
    OBVIOUS
  <2>4. idOf \in [Serials -> Ids] /\ stable \in [Serials -> BOOLEAN]
    BY <2>1
  <2> QED
    BY <2>1, <2>2, <2>3, <2>4 DEF TypeOK
<1>2. RollShape /\ SlotShape /\ HolderShape
  BY DEF RollShape, SlotShape, HolderShape
<1>3. SerialShape
  BY DEF SerialShape, Serials
<1>4. NoActorLost /\ SerialsIdentify /\ CommandsAnswered
  BY DEF NoActorLost, SerialsIdentify, CommandsAnswered
<1>5. NextIDFree /\ ParkedOnlyInRoll
  BY DEF NextIDFree, ParkedOnlyInRoll
<1> QED
  BY <1>1, <1>2, <1>3, <1>4, <1>5 DEF SInv

LEMMA NextKeepsSInv == SInv /\ [Next]_vars => SInv'
<1> SUFFICES ASSUME SInv, [Next]_vars
             PROVE  SInv'
  OBVIOUS
<1>1. CASE UNCHANGED vars
  BY <1>1 DEF vars, regVars, appVars, opVars, rollVars, SInv, TypeOK, RollShape,
     SlotShape, SerialShape, HolderShape, NoActorLost, SerialsIdentify,
     NextIDFree, ParkedOnlyInRoll, CommandsAnswered, Registered, Rolling
<1>2. ASSUME NEW id \in Ids, RollBegins(id)
      PROVE  SInv'
  BY <1>2, RollBeginsKeepsSInv
<1> QED
  BY <1>1, <1>2, ActorsKeepSInv, CommandsKeepSInv, RegistrationsKeepSInv,
     RollStepKeepsSInv DEF Next

THEOREM RegistryInvariance == Spec => []SInv
  BY InitHasSInv, NextKeepsSInv, PTL DEF Spec

-----------------------------------------------------------------------------
(* Every variable keeps its type.                                           *)
THEOREM RegistryTyped == Spec => []TypeOK
<1>1. SInv => TypeOK
  BY DEF SInv
<1> QED
  BY <1>1, RegistryInvariance, PTL

(* Whatever starts, reloads, rollbacks, deletes and resurrects interleave,  *)
(* an app that may run processes stays within reach of a command.           *)
THEOREM NoAppLost == Spec => []NoActorLost
<1>1. SInv => NoActorLost
  BY DEF SInv
<1> QED
  BY <1>1, RegistryInvariance, PTL

(* A serial found at a key names the incarnation registered there.          *)
THEOREM SerialsAreTrue == Spec => []SerialsIdentify
<1>1. SInv => SerialsIdentify
  BY DEF SInv
<1> QED
  BY <1>1, RegistryInvariance, PTL

(* The ids StartApps hands out are free, although it never looks.           *)
THEOREM CounterIsFree == Spec => []NextIDFree
<1>1. SInv => NextIDFree
  BY DEF SInv
<1> QED
  BY <1>1, RegistryInvariance, PTL

(* No reload leaves a parked slot behind.                                   *)
THEOREM NoParkedLeftover == Spec => []ParkedOnlyInRoll
<1>1. SInv => ParkedOnlyInRoll
  BY DEF SInv
<1> QED
  BY <1>1, RegistryInvariance, PTL

(* A holder of s.mu waits for an actor that is there to answer.             *)
THEOREM CommandsReachActors == Spec => []CommandsAnswered
<1>1. SInv => CommandsAnswered
  BY DEF SInv
<1> QED
  BY <1>1, RegistryInvariance, PTL

(* A reload ends with exactly one of its two incarnations.                  *)
LEMMA RollStepKeepsOne ==
  ASSUME SInv, [Next]_vars, rollPc # "idle", rollPc' = "idle"
  PROVE  /\ (apps'[rollId] # new => status'[new] = "gone")
         /\ (apps'[rollId] # old => status'[old] = "gone")
         /\ (~cleared => apps'[rollId] \in {old, new} /\ status'[apps'[rollId]] # "gone")
<1>1. Rollback \/ Unpark
  BY DEF Next, vars, rollVars, Actors, BecomeStable, Ready, Crash, Relaunch, Lives,
     Registrations, StartApps, StartUnbuilt, StartPair, StartAtID, RegisterAt,
     Register, Commands, Begin, OpEnds, Kill, StopDone, RestartStopped,
     RestartFails, RestartDone, DeleteDone, RollBegins, Deadline, RollStep,
     GatePolls, GateDecides, RollbackFindsSuccessor, RetireParked, RollSteps
<1> USE KeyFacts DEF SInv, TypeOK, RollShape
<1>2. CASE Rollback
  BY <1>2 DEF Rollback, RollSteps
<1>3. CASE Unpark
  <2>1. UNCHANGED status /\ apps'[rollId] = apps[rollId] /\ status[old] = "gone"
    BY <1>3 DEF Unpark, RollSteps, appVars
  <2>2. apps[rollId] # new => status[new] = "gone"
    BY DEF NoActorLost, Registered, Rolling
  <2>3. apps[rollId] = new => status[new] # "gone"
    BY DEF SlotShape
  <2> QED
    BY <2>1, <2>2, <2>3
<1> QED
  BY <1>1, <1>2, <1>3

THEOREM ReloadKeepsOne == Spec => RollKeepsOne
<1>1. SInv /\ [Next]_vars =>
        [rollPc # "idle" /\ rollPc' = "idle" =>
           /\ (apps'[rollId] # new => status'[new] = "gone")
           /\ (apps'[rollId] # old => status'[old] = "gone")
           /\ (~cleared => apps'[rollId] \in {old, new}
                            /\ status'[apps'[rollId]] # "gone")]_vars
  BY RollStepKeepsOne
<1> QED
  BY <1>1, RegistryInvariance, PTL DEF Spec, RollKeepsOne

(* No change of the visible registry escapes the version counter.           *)
LEMMA StepCounts ==
  ASSUME SInv, [Next]_vars,
         \E id \in Ids : apps'[id] # apps[id] \/ serials'[id] # serials[id]
  PROVE  version' > version
<1>1. version \in Nat
  BY DEF SInv, TypeOK
<1>2. version' = version + 1 \/ UNCHANGED <<apps, serials>> \/ Unpark
  BY DEF Next, vars, regVars, Actors, BecomeStable, Ready, Crash, Relaunch, Lives,
     Registrations, StartApps, StartUnbuilt, StartPair, StartAtID, RegisterAt,
     Register, Commands, Begin, OpEnds, Kill, StopDone, RestartStopped,
     RestartFails, RestartDone, DeleteDone, RollBegins, Deadline, RollStep,
     GatePolls, GateDecides, Rollback, RollbackFindsSuccessor, RetireParked
<1> QED
  BY <1>1, <1>2 DEF Unpark

THEOREM VersionCountsAll == Spec => VersionCounts
<1>1. SInv /\ [Next]_vars =>
        [(\E id \in Ids : apps'[id] # apps[id] \/ serials'[id] # serials[id])
           => version' > version]_vars
  BY StepCounts
<1> QED
  BY <1>1, RegistryInvariance, PTL DEF Spec, VersionCounts

-----------------------------------------------------------------------------
(* A step of one actor only, and what the registry's holder of s.mu does.   *)
StepOf(a) ==
  /\ status' = [status EXCEPT ![a] = status'[a]]
  /\ UNCHANGED <<regVars, idOf, rollVars>>
Anew(a) == stable' = [stable EXCEPT ![a] = FALSE]   \* not yet up for min_uptime

(* Whatever Machine is proved to show (ActorStatus), Supervisor lets every  *)
(* incarnation do, registered or parked, at any point of any reload: by     *)
(* itself, and under the command whose holder of s.mu waits for it.         *)
THEOREM ActorsAreAllowed ==
  ASSUME SInv, NEW a \in Serials
  PROVE
    /\ StepOf(a) /\ Anew(a) /\ UNCHANGED opVars /\ Published(a)!Unasked => Actors
    /\ opApp = a =>
         /\ StepOf(a) /\ Anew(a) /\ UNCHANGED opVars /\ Published(a)!Kill(op) => Kill
         /\ op = "stop" /\ StepOf(a) /\ UNCHANGED stable /\ Unlock /\ Published(a)!Stopped
              => StopDone
         /\ op = "restart" /\ StepOf(a) /\ UNCHANGED <<stable, opApp>> /\ op' = "relaunch"
            /\ Published(a)!RestartStopped
              => RestartStopped
         /\ op = "restart" /\ StepOf(a) /\ UNCHANGED stable /\ Unlock
            /\ Published(a)!RestartFails
              => RestartFails
         /\ op = "relaunch" /\ StepOf(a) /\ UNCHANGED stable /\ Unlock
            /\ Published(a)!Relaunched
              => RestartDone
         /\ op = "delete" /\ Published(a)!Idle(op) => Served(op)
<1> DEFINE s == status'[a]
<1>1. a # None /\ op \in Ops /\ (opApp = a => op # "none")
  BY KeyFacts DEF SInv, TypeOK, HolderShape
<1>2. op = "relaunch" /\ opApp = a => status[a] = "stopped"
  BY DEF SInv, HolderShape
<1>3. ASSUME StepOf(a), Anew(a), UNCHANGED opVars, Published(a)!Unasked
      PROVE  Actors
  <2>1. Lives(a, s)
    BY <1>3 DEF StepOf, Anew, Lives, opVars
  <2>2. \/ status[a] \in Up /\ s \in Up \cup Parked
        \/ status[a] = "waiting" /\ s \in Started
    BY <1>3 DEF Published!Unasked, Published!Up, Published!Parked, Published!Started,
       Up, Parked, Started
  <2> QED
    BY <2>1, <2>2 DEF Actors, Crash, Relaunch
<1>4. ASSUME opApp = a, StepOf(a), Anew(a), UNCHANGED opVars, Published(a)!Kill(op)
      PROVE  Kill
  <2>1. status[a] \in Started /\ s = "stopping"
    BY <1>4 DEF Published!Kill, Published!Started, Published!Up, Started, Up
  <2> QED
    BY <1>1, <1>4, <2>1 DEF Kill, StepOf, Anew
<1>5. ASSUME opApp = a, op # "none", op # "relaunch", Published(a)!Idle(op)
      PROVE  Served(op)
  <2>1. status[a] \in Parked \cup {"stopping"}
    BY <1>5 DEF Published!Idle, Published!Parked, Taken, Parked
  <2> QED
    BY <1>5, <2>1 DEF Served, Parked, Up
<1>6. ASSUME opApp = a, op = "stop", StepOf(a), UNCHANGED stable, Unlock, Published(a)!Stopped
      PROVE  StopDone
  <2>1. Published(a)!Idle(op) /\ (s = "stopped" \/ (status[a] = "stopping" /\ s = "errored"))
    BY <1>6 DEF Published!Stopped
  <2> QED
    BY <1>5, <1>6, <2>1 DEF StopDone, Killed, StepOf
<1>7. ASSUME opApp = a, op = "restart", StepOf(a), UNCHANGED <<stable, opApp>>,
             op' = "relaunch", Published(a)!RestartStopped
      PROVE  RestartStopped
  <2>1. Published(a)!Idle(op) /\ s = "stopped"
    BY <1>7 DEF Published!RestartStopped
  <2> QED
    BY <1>5, <1>7, <2>1 DEF RestartStopped, StepOf
<1>8. ASSUME opApp = a, op = "restart", StepOf(a), UNCHANGED stable, Unlock,
             Published(a)!RestartFails
      PROVE  RestartFails
  <2>1. Published(a)!Idle(op) /\ s = "errored" /\ status[a] = "stopping"
    BY <1>8 DEF Published!RestartFails, Published!Idle, Taken
  <2> QED
    BY <1>5, <1>8, <2>1 DEF RestartFails, Killed, StepOf
<1>9. ASSUME opApp = a, op = "relaunch", StepOf(a), UNCHANGED stable, Unlock,
             Published(a)!Relaunched
      PROVE  RestartDone
  <2>1. Served("relaunch") /\ s \in Started
    BY <1>2, <1>9 DEF Served, Up, Published!Relaunched, Published!Started, Published!Up, Started
  <2> QED
    BY <1>9, <2>1 DEF RestartDone, StepOf
<1> QED
  BY <1>3, <1>4, <1>5, <1>6, <1>7, <1>8, <1>9, <1>1
===============================================================================
