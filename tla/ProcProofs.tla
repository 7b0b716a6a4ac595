------------------------------ MODULE ProcProofs ------------------------------
(***************************************************************************)
(* Proofs about internal/proc: the exit delivery (Reaper) and the kill     *)
(* path (KillPath), each for every value of its constants.                 *)
(*                                                                         *)
(* Reaper, for any set of launches, orphans and pids and any cap of the    *)
(* cache, as long as no pid comes round again: NoReuse is the hypothesis   *)
(* of its theorems, and ReaperReuse.cfg shows what happens without it.     *)
(*                                                                         *)
(* KillPath, for a tree of any size: what a stop that reports success may  *)
(* leave behind.  In a cgroup the argument is that nothing forks where     *)
(* nothing lives.  In pgid mode /proc is read pid by pid, in any order: a  *)
(* child of the daemon stays one, so one of the two scans of the verdict   *)
(* meets it.                                                               *)
(***************************************************************************)
EXTENDS MCProc, TLAPS

NoReuse == ~Reuse

(* What TypeOK says of everything but the eviction queue and the history.   *)
Shape ==
  /\ life \in [Procs -> {"new", "run", "zombie", "reaped"}]
  /\ pidOf \in [Procs -> Pids \cup {None}]
  /\ lpc \in [Launches -> {"spawn", "register", "wait", "done"}]
  /\ got \in [Launches -> Procs \cup {None}]
  /\ waiting \in [Pids -> Launches \cup {None}]
  /\ cache \in [Pids -> Procs \cup {None}]
  /\ rpc \in {"try", "block", "idle", "deliver"}
  /\ reaped \in Procs \cup {None}

(* A process has a pid once it lives; a launch has an exit once it waits.   *)
Births ==
  /\ \A p \in Procs : life[p] = "new" <=> pidOf[p] = None
  /\ \A l \in Launches : lpc[l] = "spawn" <=> life[l] = "new"
  /\ \A l \in Launches : got[l] # None => lpc[l] \in {"wait", "done"}

InHand ==
  /\ rpc = "deliver" <=> reaped # None
  /\ reaped # None => life[reaped] = "reaped"

(* A pid names a process for good.                                          *)
PidsUnique ==
  \A p, q \in Procs : pidOf[p] # None /\ pidOf[p] = pidOf[q] => p = q

CacheOfPid == \A q \in Pids : cache[q] # None => pidOf[cache[q]] = q

(* A launch that still waits is registered.                                 *)
WaitersKnown ==
  \A l \in Launches : lpc[l] = "wait" /\ got[l] = None => waiting[pidOf[l]] = l

DoneKnown == \A l \in Launches : lpc[l] = "done" => got[l] # None

(* The inductive invariant.                                                 *)
IInv == /\ Shape /\ Births /\ InHand /\ PidsUnique /\ CacheOfPid
        /\ WaitersKnown /\ DoneKnown
        /\ DoneIsOwnExit /\ OneWaiterPerExit /\ NoExitLost

-----------------------------------------------------------------------------
LEMMA InitHasIInv == Init => IInv
  BY ProcsAssumption DEF Init, IInv, Shape, Births, InHand, PidsUnique, CacheOfPid,
     WaitersKnown, DoneKnown, DoneIsOwnExit, OneWaiterPerExit, NoExitLost, Procs

(* The kernel: births and deaths.                                           *)
LEMMA BirthKeepsIInv ==
  ASSUME NoReuse, IInv, NEW p \in Procs, Born(p),
         \/ p \in Orphans /\ UNCHANGED lpc
         \/ p \in Launches /\ lpc[p] = "spawn" /\ lpc' = [lpc EXCEPT ![p] = "register"]
  PROVE  IInv'
<1> USE ProcsAssumption DEF IInv, Procs, NoReuse
<1>1. PICK q \in Pids : PidFree(q) /\ pidOf' = [pidOf EXCEPT ![p] = q]
  BY DEF Born
<1>2. /\ life' = [life EXCEPT ![p] = "run"] /\ life[p] = "new"
      /\ UNCHANGED <<got, waiting, cache, order, rpc, reaped, kick, evicted>>
  BY DEF Born
<1>3. \A r \in Procs : pidOf[r] # q
  BY <1>1 DEF PidFree
<1>4. Shape'
  BY <1>1, <1>2 DEF Shape
<1>5. \A l \in Launches : l # p => lpc'[l] = lpc[l]
  BY DEF Shape
<1>6. pidOf[p] = None /\ pidOf'[p] = q /\ \A r \in Procs : r # p => pidOf'[r] = pidOf[r]
  BY <1>1, <1>2 DEF Births, Shape
<1>7. Births'
  BY <1>2, <1>5, <1>6 DEF Births, Shape
<1>8. InHand' /\ PidsUnique'
  BY <1>2, <1>3, <1>6 DEF InHand, PidsUnique, Shape
<1>9. CacheOfPid' /\ DoneIsOwnExit'
  BY <1>2, <1>6 DEF CacheOfPid, DoneIsOwnExit, Shape
<1>10. WaitersKnown' /\ DoneKnown'
  BY <1>2, <1>5, <1>6 DEF WaitersKnown, DoneKnown, Births, Shape
<1>11. OneWaiterPerExit'
  BY <1>2, <1>5, <1>6 DEF OneWaiterPerExit, Births, Shape
<1>12. NoExitLost'
  BY <1>2, <1>5, <1>6 DEF NoExitLost, Births, Shape
<1> QED
  BY <1>4, <1>7, <1>8, <1>9, <1>10, <1>11, <1>12

LEMMA DeathKeepsIInv ==
  ASSUME IInv, NEW p \in Procs, Dies(p)
  PROVE  IInv'
  BY ProcsAssumption DEF IInv, Procs, Dies, Shape, Births, InHand, PidsUnique,
     CacheOfPid, WaitersKnown, DoneKnown, DoneIsOwnExit, OneWaiterPerExit, NoExitLost

-----------------------------------------------------------------------------
(* A pid leads to one launch: the one that registers, caches or waits.      *)
LEMMA LaunchKeepsIInv ==
  ASSUME IInv, NEW l \in Launches,
         RegisterCached(l) \/ RegisterWaits(l) \/ SetExit(l)
  PROVE  IInv'
<1> USE ProcsAssumption DEF IInv, Procs
<1>0. lpc[l] # "spawn" /\ life[l] # "new" /\ pidOf[l] \in Pids
  BY DEF RegisterCached, RegisterWaits, SetExit, Births, Shape
<1>1. CASE RegisterCached(l)
  <2>1. cache[pidOf[l]] = l
    BY <1>0, <1>1 DEF RegisterCached, CacheOfPid, PidsUnique, Shape
  <2>2. Shape' /\ Births' /\ InHand' /\ PidsUnique'
    BY <1>1 DEF RegisterCached, Shape, Births, InHand, PidsUnique
  <2>3. CacheOfPid' /\ DoneKnown' /\ DoneIsOwnExit'
    BY <1>1, <2>1 DEF RegisterCached, Shape, CacheOfPid, DoneKnown, DoneIsOwnExit
  <2>4. WaitersKnown' /\ OneWaiterPerExit'
    BY <1>1, <2>1 DEF RegisterCached, Shape, WaitersKnown, OneWaiterPerExit
  <2>5. NoExitLost'
    BY <1>0, <1>1, <2>1 DEF RegisterCached, Shape, NoExitLost, PidsUnique
  <2> QED
    BY <2>2, <2>3, <2>4, <2>5
<1>2. CASE RegisterWaits(l)
  <2>1. got[l] = None
    BY <1>2 DEF RegisterWaits, Births
  <2>2. waiting[pidOf[l]] = None
    BY <1>0, <1>2 DEF RegisterWaits, OneWaiterPerExit, PidsUnique, Shape
  <2>3. Shape' /\ Births' /\ InHand' /\ PidsUnique' /\ CacheOfPid'
    BY <1>2 DEF RegisterWaits, Shape, Births, InHand, PidsUnique, CacheOfPid
  <2>4. WaitersKnown'
    BY <1>0, <1>2, <2>2 DEF RegisterWaits, Shape, WaitersKnown, Births
  <2>5. DoneKnown' /\ DoneIsOwnExit'
    BY <1>2 DEF RegisterWaits, Shape, DoneKnown, DoneIsOwnExit
  <2>6. OneWaiterPerExit'
    BY <1>0, <1>2, <2>1 DEF RegisterWaits, Shape, OneWaiterPerExit
  <2>7. NoExitLost'
    BY <1>2, <2>1 DEF RegisterWaits, Shape, NoExitLost
  <2> QED
    BY <2>3, <2>4, <2>5, <2>6, <2>7
<1>3. CASE SetExit(l)
  BY <1>3 DEF SetExit, Shape, Births, InHand, PidsUnique, CacheOfPid, WaitersKnown,
     DoneKnown, DoneIsOwnExit, OneWaiterPerExit, NoExitLost
<1> QED
  BY <1>1, <1>2, <1>3

-----------------------------------------------------------------------------
(* The loop.                                                                *)
LEMMA LoopKeepsIInv ==
  ASSUME IInv, Loop \/ Interrupted
  PROVE  IInv'
<1> USE ProcsAssumption DEF IInv, Procs
<1>1. ASSUME NEW p \in Procs, Reap(p)
      PROVE  IInv'
  <2>1. reaped = None
    BY <1>1 DEF Reap, InHand
  <2> QED
    BY <1>1, <2>1 DEF Reap, Shape, Births, InHand, PidsUnique, CacheOfPid, WaitersKnown,
       DoneKnown, DoneIsOwnExit, OneWaiterPerExit, NoExitLost
<1>2. CASE NoneDead \/ NoChildren \/ IdleEnds \/ Interrupted
  <2>1. /\ rpc # "deliver" /\ rpc' \in {"try", "block", "idle"}
        /\ UNCHANGED <<life, pidOf, lpc, got, waiting, cache, reaped, evicted>>
    BY <1>2 DEF NoneDead, NoChildren, IdleEnds, Interrupted
  <2>2. Shape' /\ Births' /\ PidsUnique' /\ CacheOfPid'
    BY <2>1 DEF Shape, Births, PidsUnique, CacheOfPid
  <2>3. InHand'
    BY <2>1 DEF InHand
  <2>4. WaitersKnown' /\ DoneKnown' /\ DoneIsOwnExit' /\ OneWaiterPerExit' /\ NoExitLost'
    BY <2>1 DEF WaitersKnown, DoneKnown, DoneIsOwnExit, OneWaiterPerExit, NoExitLost
  <2> QED
    BY <2>2, <2>3, <2>4
<1>3. ASSUME rpc = "deliver"
      PROVE  reaped \in Procs /\ life[reaped] = "reaped" /\ pidOf[reaped] \in Pids
  BY <1>3 DEF InHand, Shape, Births
<1>4. CASE Deliver
  <2>1. PICK l \in Launches : l = waiting[pidOf[reaped]]
    BY <1>3, <1>4 DEF Deliver, Shape
  <2>2. l = reaped /\ lpc[l] = "wait" /\ got[l] = None
    BY <1>3, <1>4, <2>1 DEF Deliver, OneWaiterPerExit, PidsUnique, Shape
  <2>3. got' = [got EXCEPT ![l] = l] /\ waiting' = [waiting EXCEPT ![pidOf[l]] = None]
    BY <1>4, <2>1, <2>2 DEF Deliver
  <2>4. Shape' /\ Births' /\ InHand' /\ PidsUnique' /\ CacheOfPid'
    BY <1>4, <2>2, <2>3 DEF Deliver, Shape, Births, InHand, PidsUnique, CacheOfPid
  <2>5. WaitersKnown'
    BY <1>3, <1>4, <2>2, <2>3 DEF Deliver, Shape, WaitersKnown, PidsUnique
  <2>6. DoneKnown' /\ DoneIsOwnExit'
    BY <1>4, <2>2, <2>3 DEF Deliver, Shape, DoneKnown, DoneIsOwnExit
  <2>7. OneWaiterPerExit'
    BY <1>4, <2>2, <2>3 DEF Deliver, Shape, OneWaiterPerExit
  <2>8. NoExitLost'
    BY <1>4, <2>2, <2>3 DEF Deliver, Shape, NoExitLost
  <2> QED
    BY <2>4, <2>5, <2>6, <2>7, <2>8
<1>5. CASE CacheExit
  <2> DEFINE filled == [cache EXCEPT ![pidOf[reaped]] = reaped]
             oldest == Head(Append(order, pidOf[reaped]))
  <2>1. \/ cache' = filled /\ UNCHANGED evicted
        \/ /\ cache' = [filled EXCEPT ![oldest] = None]
           /\ evicted' = evicted \cup ({filled[oldest]} \ {None})
    BY <1>5 DEF CacheExit
  <2>2. /\ reaped' = None /\ rpc' = "try" /\ waiting[pidOf[reaped]] = None
        /\ UNCHANGED <<life, pidOf, lpc, got, waiting>>
    BY <1>5 DEF CacheExit
  <2>3. filled \in [Pids -> Procs \cup {None}] /\ filled[pidOf[reaped]] = reaped
    BY <1>3, <1>5 DEF CacheExit, Shape
  <2>4. \A q \in Pids :
          \/ cache'[q] = filled[q]
          \/ cache'[q] = None /\ (filled[q] # None => filled[q] \in evicted')
    <3> HIDE DEF filled, oldest
    <3> QED
      BY <2>1, <2>3
  <2>5. cache' \in [Pids -> Procs \cup {None}] /\ evicted \subseteq evicted'
    <3> HIDE DEF filled, oldest
    <3> QED
      BY <2>1, <2>3
  <2>6. \A q \in Pids : q # pidOf[reaped] => filled[q] = cache[q]
    BY DEF Shape
  <2> HIDE DEF filled, oldest
  <2>7. Shape' /\ Births' /\ InHand' /\ PidsUnique'
    BY <2>2, <2>5 DEF Shape, Births, InHand, PidsUnique
  <2>8. CacheOfPid'
    BY <1>3, <1>5, <2>2, <2>3, <2>4, <2>6 DEF CacheExit, CacheOfPid
  <2>9. WaitersKnown' /\ DoneKnown' /\ DoneIsOwnExit'
    BY <2>2 DEF WaitersKnown, DoneKnown, DoneIsOwnExit
  <2>10. OneWaiterPerExit'
    BY <2>2, <2>4, <2>6 DEF OneWaiterPerExit
  <2>11. ASSUME NEW l \in Launches, life[l] = "reaped", l = reaped
         PROVE  \/ got[l] = l \/ l \in evicted'
                \/ lpc[l] = "register" /\ cache'[pidOf[l]] = l
    <3>1. lpc[l] # "wait" \/ got[l] = l
      BY <2>2, <2>11 DEF WaitersKnown, DoneIsOwnExit
    <3>2. lpc[l] # "done" \/ got[l] = l
      BY DEF DoneKnown, DoneIsOwnExit
    <3>3. lpc[l] # "spawn"
      BY <2>11 DEF Births
    <3>4. lpc[l] = "register" \/ got[l] = l
      BY <3>1, <3>2, <3>3 DEF Shape
    <3>5. cache'[pidOf[l]] = l \/ l \in evicted'
      BY <1>3, <1>5, <2>3, <2>4, <2>11 DEF CacheExit
    <3> QED
      BY <3>4, <3>5
  <2>12. ASSUME NEW l \in Launches, life[l] = "reaped", l # reaped
         PROVE  \/ got[l] = l \/ l \in evicted'
                \/ lpc[l] = "register" /\ cache'[pidOf[l]] = l
    <3>1. pidOf[l] \in Pids /\ pidOf[l] # pidOf[reaped]
      BY <1>3, <1>5, <2>12 DEF CacheExit, Births, Shape, PidsUnique
    <3>2. filled[pidOf[l]] = cache[pidOf[l]]
      BY <2>6, <3>1
    <3> QED
      BY <2>4, <2>5, <2>12, <3>1, <3>2 DEF NoExitLost
  <2>13. NoExitLost'
    BY <2>2, <2>11, <2>12 DEF NoExitLost
  <2> QED
    BY <2>7, <2>8, <2>9, <2>10, <2>13
<1> QED
  BY <1>1, <1>2, <1>4, <1>5 DEF Loop

LEMMA NextKeepsIInv ==
  ASSUME NoReuse, IInv, [Next]_vars
  PROVE  IInv'
<1>1. CASE UNCHANGED vars
  BY <1>1 DEF vars, IInv, Shape, Births, InHand, PidsUnique, CacheOfPid, WaitersKnown,
     DoneKnown, DoneIsOwnExit, OneWaiterPerExit, NoExitLost
<1>2. ASSUME NEW p \in Procs, OrphanArrives(p)
      PROVE  IInv'
  BY <1>2, BirthKeepsIInv DEF OrphanArrives
<1>3. ASSUME NEW l \in Launches, Launch(l)
      PROVE  IInv'
  <2>1. CASE Spawn(l)
    BY <2>1, BirthKeepsIInv DEF Spawn, Procs
  <2> QED
    BY <1>3, <2>1, LaunchKeepsIInv DEF Launch
<1> QED
  BY <1>1, <1>2, <1>3, DeathKeepsIInv, LoopKeepsIInv DEF Next

(* Every state of a daemon whose pids do not come round again.              *)
THEOREM DeliveryInvariance == ASSUME NoReuse PROVE Spec => []IInv
<1>1. IInv /\ [Next]_vars => IInv'
  BY NextKeepsIInv
<1> QED
  BY <1>1, InitHasIInv, PTL DEF Spec

-----------------------------------------------------------------------------
(* No exit is lost between a launch's spawn and its Register.               *)
THEOREM ExitsAreKept == ASSUME NoReuse PROVE Spec => []NoExitLost
<1>1. IInv => NoExitLost
  BY DEF IInv
<1> QED
  BY <1>1, DeliveryInvariance, PTL

(* A registered launch waits where its process will be delivered, once.     *)
THEOREM WaitersAreSole == ASSUME NoReuse PROVE Spec => []OneWaiterPerExit
<1>1. IInv => OneWaiterPerExit
  BY DEF IInv
<1> QED
  BY <1>1, DeliveryInvariance, PTL

(* A launch is handed no exit but its own.                                  *)
THEOREM ExitsAreOwn == ASSUME NoReuse PROVE Spec => []DoneIsOwnExit
<1>1. IInv => DoneIsOwnExit
  BY DEF IInv
<1> QED
  BY <1>1, DeliveryInvariance, PTL

-----------------------------------------------------------------------------
(* KillPath. *)
PgidPlaces == {"group", "sweepGroup", "sweepOrphans", "kill", "verdict",
               "verdictGroup", "verdictOrphans", "survivors"}
CgroupPlaces == {"cgroupKill", "freeze", "read", "drainKill", "thawEmpty", "drain",
                 "remove"}

Modal ==
  /\ pc \in PgidPlaces => mode = "pgid"
  /\ pc \in CgroupPlaces => mode # "pgid"

(* /proc is listed anew for each scan.                                      *)
Unlisted == pc \notin K!Scans => todo = K!Unread

(* What the last verdict began with: a child of the daemon remains one.     *)
Marked ==
  /\ \A p \in orphans \cup members : klife[p] # "unborn"
  /\ \A p \in orphans \cap K!Living : parent[p] = K!Daemon

(* The verdict on the group, as far as it has looked, and when it is done.  *)
GroupLooked ==
  /\ pc = "verdictGroup" /\ todo # K!Unread /\ victims = {} =>
       \A p \in (orphans \cup members) \cap K!Living : p \notin todo => ~group[p]
  /\ pc = "verdictOrphans" =>
       \A p \in (orphans \cup members) \cap K!Living : ~group[p]

(* The verdict on the orphans: what it has looked at is dead.               *)
OrphansLooked ==
  pc = "verdictOrphans" /\ todo # K!Unread /\ victims = {} =>
    \A p \in orphans \cap K!Living : p \in todo

(* A good result on its way out.                                            *)
Cleared ==
  IF mode = "pgid" THEN /\ orphans \cap K!Living = {}
                        /\ \A p \in members \cap K!Living : ~group[p]
  ELSE K!Living = {}
Result ==
  /\ pc \in {"exitWait", "remove"} /\ ~err => Cleared
  /\ pc = "nil" => Cleared
  /\ pc = "thawEmpty" => K!Living = {}

(* The inductive invariant.                                                 *)
KInv == /\ K!TypeOK /\ Modal /\ Unlisted /\ Marked
        /\ GroupLooked /\ OrphansLooked /\ Result

USE DEF K!marks

-----------------------------------------------------------------------------
LEMMA ProcFacts ==
  /\ K!Leader \in K!Procs /\ K!Daemon \notin K!Procs
  /\ K!Unread \notin SUBSET K!Procs /\ K!Unread # {}
  BY KillPathAssumption DEF K!Procs, K!Leader, K!Daemon, K!Unread

LEMMA InitHasKInv == K!Init => KInv
<1> SUFFICES ASSUME K!Init
             PROVE  KInv
  OBVIOUS
<1> USE ProcFacts DEF K!Init
<1>1. K!TypeOK
  <2>1. cgroup \in BOOLEAN
    OBVIOUS
  <2>2. group \in [K!Procs -> BOOLEAN]
    OBVIOUS
  <2>3. /\ klife \in [K!Procs -> {"unborn", "live", "doomed", "zombie", "gone"}]
        /\ parent \in [K!Procs -> K!Procs \cup {K!Daemon}]
    OBVIOUS
  <2>4. mode \in Modes /\ frozen \in BOOLEAN /\ expired \in BOOLEAN /\ err \in BOOLEAN
    OBVIOUS
  <2>6. iced \in SUBSET K!Procs /\ victims \in SUBSET K!Procs /\ orphans \in SUBSET K!Procs
        /\ members \in SUBSET K!Procs
    OBVIOUS
  <2>7. todo \in (SUBSET K!Procs) \cup {K!Unread}
    <3>1. todo = K!Unread
      OBVIOUS
    <3> HIDE DEF K!Init
    <3> QED
      BY <3>1
  <2>5. pc \in K!Places
    BY DEF K!Places
  <2> HIDE DEF K!Init
  <2> QED
    BY <2>1, <2>2, <2>3, <2>4, <2>5, <2>6, <2>7 DEF K!TypeOK
<1>2. Modal /\ Unlisted /\ GroupLooked /\ OrphansLooked /\ Result
  BY DEF Modal, Unlisted, PgidPlaces, CgroupPlaces, GroupLooked, OrphansLooked, Result
<1>3. Marked
  BY DEF Marked
<1> QED
  BY <1>1, <1>2, <1>3 DEF KInv

-----------------------------------------------------------------------------
(* The tree, while StopWithin stands still.                                 *)

LEMMA ForkKeepsKInv ==
  ASSUME KInv, NEW p \in K!Procs, K!Fork(p)
  PROVE  KInv'
<1> USE ProcFacts DEF KInv
<1>1. PICK c \in K!Procs :
        /\ K!NextPid(c)
        /\ klife' = [klife EXCEPT ![c] = "live"]
        /\ parent' = [parent EXCEPT ![c] = p]
        /\ group' = [group EXCEPT ![c] = group[p]]
        /\ iced' = IF frozen THEN iced \cup {c} ELSE iced
  BY DEF K!Fork
<1>2. UNCHANGED <<mode, cgroup, frozen, pc, expired, todo, victims, err, K!marks>>
  BY DEF K!Fork, K!hostVars, K!stopVars
<1>3. klife[c] = "unborn" /\ klife[p] = "live" /\ c \notin K!Living /\ c \notin orphans \cup members
  BY <1>1 DEF K!NextPid, K!Fork, K!Free, K!Living, K!Alive, Marked
<1>4. K!Living' = K!Living \cup {c}
  BY <1>1 DEF K!Living, K!Alive, K!TypeOK
<1>5. K!TypeOK'
  BY <1>1, <1>2 DEF K!TypeOK
<1>6. /\ orphans \cap K!Living' = orphans \cap K!Living
      /\ members \cap K!Living' = members \cap K!Living
  BY <1>3, <1>4
<1>7. \A q \in orphans \cup members :
        group'[q] = group[q] /\ parent'[q] = parent[q] /\ klife'[q] = klife[q]
  BY <1>1, <1>3 DEF K!TypeOK
<1>8. Marked'
  BY <1>2, <1>6, <1>7 DEF Marked
<1>9. Modal' /\ Unlisted' /\ GroupLooked' /\ OrphansLooked'
  BY <1>2, <1>6, <1>7 DEF Modal, Unlisted, GroupLooked, OrphansLooked
<1>10. Result'
  <2>1. K!Living # {}
    BY <1>3 DEF K!Fork, K!Free, K!Living, K!Alive
  <2>2. mode = "pgid" => Cleared' = Cleared
    BY <1>2, <1>6, <1>7 DEF Cleared
  <2> QED
    BY <1>2, <2>1, <2>2 DEF Result, Cleared
<1> QED
  BY <1>5, <1>8, <1>9, <1>10

(* Deaths and departures take nothing back.                                 *)
LEMMA LessKeepsKInv ==
  ASSUME KInv, K!TypeOK',
         \A q \in K!Procs : parent[q] = K!Daemon => parent'[q] = K!Daemon,
         \A q \in K!Procs : klife'[q] = "unborn" <=> klife[q] = "unborn",
         K!Living' \subseteq K!Living,
         \A q \in K!Procs : group'[q] => group[q],
         UNCHANGED <<mode, pc, todo, victims, err, K!marks>>
  PROVE  KInv'
<1> USE DEF KInv
<1>1. Modal' /\ Unlisted'
  BY DEF Modal, Unlisted
<1>2. Marked'
  BY DEF Marked, K!TypeOK
<1>3. GroupLooked' /\ OrphansLooked'
  BY DEF GroupLooked, OrphansLooked, K!TypeOK
<1>4. Result'
  BY DEF Result, Cleared, K!TypeOK
<1> QED
  BY <1>1, <1>2, <1>3, <1>4

LEMMA TreeKeepsKInv ==
  ASSUME KInv, K!Tree
  PROVE  KInv'
<1> USE ProcFacts
<1>1. K!TypeOK
  BY DEF KInv
<1>2. CASE K!Reap
  <2>1. /\ K!TypeOK' /\ K!Living' = K!Living /\ UNCHANGED <<parent, group>>
        /\ \A q \in K!Procs : klife'[q] = "unborn" <=> klife[q] = "unborn"
        /\ UNCHANGED <<mode, pc, todo, victims, err, K!marks>>
    BY <1>1, <1>2 DEF K!Reap, K!TypeOK, K!Living, K!Alive, K!hostVars, K!iceVars, K!stopVars
  <2> QED
    BY <2>1, LessKeepsKInv
<1>3. ASSUME NEW p \in K!Procs, K!Escape(p)
      PROVE  KInv'
  <2>1. /\ K!TypeOK' /\ K!Living' = K!Living /\ UNCHANGED <<klife, parent>>
        /\ \A q \in K!Procs : group'[q] => group[q]
        /\ UNCHANGED <<mode, pc, todo, victims, err, K!marks>>
    BY <1>1, <1>3 DEF K!Escape, K!TypeOK, K!Living, K!Alive, K!hostVars, K!iceVars, K!stopVars
  <2> QED
    BY <2>1, LessKeepsKInv
<1>4. ASSUME NEW p \in K!Procs, K!Exit(p)
      PROVE  KInv'
  <2>1. /\ K!TypeOK' /\ K!Living' = K!Living \ {p} /\ UNCHANGED group
        /\ \A q \in K!Procs : klife'[q] = "unborn" <=> klife[q] = "unborn"
        /\ UNCHANGED <<mode, pc, todo, victims, err, K!marks>>
    BY <1>1, <1>4 DEF K!Exit, K!Free, K!TypeOK, K!Living, K!Alive, K!hostVars, K!iceVars, K!stopVars
  <2>2. \A q \in K!Procs : parent[q] = K!Daemon => parent'[q] = K!Daemon
    BY <1>4 DEF K!Exit
  <2> QED
    BY <2>1, <2>2, LessKeepsKInv
<1>5. ASSUME NEW p \in K!Procs, K!Ice(p)
      PROVE  KInv'
  <2>1. /\ K!TypeOK' /\ K!Living' = K!Living /\ UNCHANGED <<klife, parent, group>>
        /\ UNCHANGED <<mode, pc, todo, victims, err, K!marks>>
    BY <1>1, <1>5 DEF K!Ice, K!TypeOK, K!Living, K!Alive, K!treeVars, K!hostVars, K!stopVars
  <2> QED
    BY <2>1, LessKeepsKInv
<1> QED
  BY <1>2, <1>3, <1>4, <1>5, ForkKeepsKInv DEF K!Tree

-----------------------------------------------------------------------------
(* StopWithin, while the tree stands still.                                 *)

Telling == {"verdictGroup", "verdictOrphans", "exitWait", "remove", "nil", "thawEmpty"}

(* A SIGKILL changes nothing of what the invariant speaks of.               *)
LEMMA DoomedLives ==
  ASSUME K!TypeOK, NEW S, klife' = K!Doomed(S)
  PROVE  /\ klife' \in [K!Procs -> {"unborn", "live", "doomed", "zombie", "gone"}]
         /\ K!Living' = K!Living
         /\ \A q \in K!Procs : klife'[q] = "unborn" <=> klife[q] = "unborn"
  BY DEF K!TypeOK, K!Doomed, K!Living, K!Alive

(* Steps between places at which nothing is claimed yet.                    *)
LEMMA PlainKeepsKInv ==
  ASSUME KInv, K!TypeOK', Modal', Unlisted', K!Living' = K!Living,
         \A q \in K!Procs : klife'[q] = "unborn" <=> klife[q] = "unborn",
         UNCHANGED <<parent, K!marks>>, pc' \notin Telling
  PROVE  KInv'
<1>1. Marked'
  BY DEF KInv, K!TypeOK, Marked
<1>2. GroupLooked' /\ OrphansLooked' /\ Result'
  BY DEF Telling, GroupLooked, OrphansLooked, Result
<1> QED
  BY <1>1, <1>2 DEF KInv

LEMMA KillStepsKeepKInv ==
  ASSUME KInv, K!GroupKill \/ K!KillVictim \/ K!CgroupKill
  PROVE  KInv'
<1> USE DEF Modal, Unlisted, PgidPlaces, CgroupPlaces, K!Places, K!Scans, K!Waits, Telling
<1>1. K!TypeOK /\ Modal /\ Unlisted
  BY DEF KInv
<1>2. CASE K!GroupKill
  <2>1. klife' = klife \/ \E S : klife' = K!Doomed(S)
    BY <1>2 DEF K!GroupKill
  <2>2. /\ klife' \in [K!Procs -> {"unborn", "live", "doomed", "zombie", "gone"}]
        /\ K!Living' = K!Living
        /\ \A q \in K!Procs : klife'[q] = "unborn" <=> klife[q] = "unborn"
    BY <1>1, <2>1, DoomedLives DEF K!TypeOK, K!Living, K!Alive
  <2>3. K!TypeOK' /\ Modal' /\ Unlisted' /\ UNCHANGED <<parent, K!marks>> /\ pc' \notin Telling
    BY <1>1, <1>2, <2>2 DEF K!GroupKill, K!TypeOK, K!hostVars, K!iceVars
  <2> QED
    BY <2>2, <2>3, PlainKeepsKInv
<1>3. CASE K!KillVictim
  <2>1. PICK p \in victims : klife' = K!Doomed({p}) /\ victims' = victims \ {p}
    BY <1>3 DEF K!KillVictim
  <2>2. /\ klife' \in [K!Procs -> {"unborn", "live", "doomed", "zombie", "gone"}]
        /\ K!Living' = K!Living
        /\ \A q \in K!Procs : klife'[q] = "unborn" <=> klife[q] = "unborn"
    BY <1>1, <2>1, DoomedLives
  <2>3. K!TypeOK' /\ Modal' /\ Unlisted' /\ UNCHANGED <<parent, K!marks>> /\ pc' \notin Telling
    BY <1>1, <1>3, <2>1, <2>2 DEF K!KillVictim, K!TypeOK, K!hostVars, K!iceVars
  <2> QED
    BY <2>2, <2>3, PlainKeepsKInv
<1>4. CASE K!CgroupKill
  <2>1. /\ klife' \in [K!Procs -> {"unborn", "live", "doomed", "zombie", "gone"}]
        /\ K!Living' = K!Living
        /\ \A q \in K!Procs : klife'[q] = "unborn" <=> klife[q] = "unborn"
    BY <1>1, <1>4, DoomedLives DEF K!CgroupKill
  <2>2. K!TypeOK' /\ Modal' /\ Unlisted' /\ UNCHANGED <<parent, K!marks>> /\ pc' \notin Telling
    BY <1>1, <1>4, <2>1 DEF K!CgroupKill, K!Goes, K!TypeOK, K!hostVars, K!iceVars
  <2> QED
    BY <2>1, <2>2, PlainKeepsKInv
<1> QED
  BY <1>2, <1>3, <1>4

LEMMA PlainStepsKeepKInv ==
  ASSUME KInv,
         \/ K!StopWithin \/ K!GracefulEnds \/ K!SweepEnds \/ K!KillsEnd \/ K!VerdictSeesOne
         \/ K!NoCgroupKill \/ K!Freeze \/ (K!Survivors /\ ~expired)
  PROVE  KInv'
<1> USE ProcFacts
        DEF Modal, Unlisted, PgidPlaces, CgroupPlaces, K!Places, K!Scans, K!Waits, Telling
<1>1. K!TypeOK /\ Modal /\ Unlisted
  BY DEF KInv
<1>2. mode \in {"cgroup-kill", "cgroup-freeze", "pgid"}
  BY <1>1, KillPathAssumption DEF K!TypeOK
<1>3. UNCHANGED <<klife, parent, group, K!marks>>
  BY DEF K!StopWithin, K!GracefulEnds, K!SweepEnds, K!KillsEnd, K!VerdictSeesOne, K!NoCgroupKill,
     K!Freeze, K!Survivors, K!treeVars
<1>4. K!Living' = K!Living
  BY <1>3 DEF K!Living, K!Alive
<1>5. pc' \notin Telling /\ Modal' /\ pc' \in K!Places
  <2>1. CASE \/ K!StopWithin \/ K!SweepEnds \/ K!KillsEnd \/ K!VerdictSeesOne
             \/ K!Survivors /\ ~expired
    BY <1>1, <2>1 DEF K!StopWithin, K!SweepEnds, K!KillsEnd, K!VerdictSeesOne, K!Survivors, K!Goes,
       K!hostVars
  <2>2. CASE K!GracefulEnds
    BY <1>2, <2>2 DEF K!GracefulEnds, K!Goes, K!hostVars
  <2>3. CASE K!NoCgroupKill \/ K!Freeze
    BY <1>1, <2>3 DEF K!NoCgroupKill, K!Freeze, K!Goes, K!hostVars
  <2> QED
    BY <2>1, <2>2, <2>3
<1>6. /\ mode' \in Modes /\ cgroup' \in BOOLEAN /\ frozen' \in BOOLEAN
      /\ iced' \in SUBSET K!Procs /\ expired' \in BOOLEAN /\ err' \in BOOLEAN
  BY <1>1 DEF K!TypeOK, K!StopWithin, K!GracefulEnds, K!SweepEnds, K!KillsEnd, K!VerdictSeesOne,
     K!NoCgroupKill, K!Freeze, K!Survivors, K!Goes, K!hostVars, K!iceVars
<1>7. todo' \in {todo, K!Unread} /\ victims' \in {victims, {}}
  BY DEF K!StopWithin, K!GracefulEnds, K!SweepEnds, K!KillsEnd, K!VerdictSeesOne, K!NoCgroupKill,
     K!Freeze, K!Survivors
<1>8. K!TypeOK'
  BY <1>1, <1>3, <1>5, <1>6, <1>7 DEF K!TypeOK
<1>9. Unlisted'
  BY <1>1 DEF K!StopWithin, K!GracefulEnds, K!SweepEnds, K!KillsEnd, K!VerdictSeesOne,
     K!NoCgroupKill, K!Freeze, K!Survivors, K!Goes
<1> QED
  BY <1>3, <1>4, <1>5, <1>8, <1>9, PlainKeepsKInv

-----------------------------------------------------------------------------
(* The scans and the verdict.                                               *)

LEMMA StillTree ==
  ASSUME KInv, UNCHANGED <<K!treeVars, K!marks>>
  PROVE  /\ K!Living' = K!Living /\ Marked'
         /\ Cleared \in BOOLEAN /\ (UNCHANGED mode => Cleared' = Cleared)
  BY DEF KInv, K!treeVars, K!Living, K!Alive, Marked, Cleared

LEMMA ReadProcKeepsKInv ==
  ASSUME KInv, K!ReadProc
  PROVE  KInv'
<1> USE ProcFacts DEF KInv
<1>1. /\ UNCHANGED <<K!treeVars, K!marks, mode, pc, victims, err>> /\ todo' = K!Living
      /\ pc \in K!Scans
  BY DEF K!ReadProc, K!hostVars
<1>2. K!TypeOK'
  BY DEF K!TypeOK, K!ReadProc, K!treeVars, K!hostVars, K!iceVars, K!Living
<1>3. Modal' /\ Unlisted' /\ GroupLooked' /\ OrphansLooked' /\ Result'
  BY <1>1, StillTree DEF Modal, Unlisted, GroupLooked, OrphansLooked, Result, K!Scans, K!treeVars
<1> QED
  BY <1>1, <1>2, <1>3, StillTree

(* The heart of it: a child of the daemon that lives and does not match is  *)
(* still in the group, which the scan before has found empty of the marked. *)
LEMMA LookKeepsKInv ==
  ASSUME KInv, K!Look
  PROVE  KInv'
<1> USE ProcFacts DEF KInv
<1>1. PICK p \in todo :
        /\ todo' = todo \ {p}
        /\ victims' = IF K!Matches(p) THEN victims \cup {p} ELSE victims
  BY DEF K!Look
<1>2. /\ UNCHANGED <<K!treeVars, K!marks, mode, pc, err>> /\ pc \in K!Scans /\ todo # K!Unread
      /\ todo \subseteq K!Procs
  BY DEF K!Look, K!hostVars, K!TypeOK
<1>3. K!TypeOK'
  BY <1>1, <1>2 DEF K!TypeOK, K!Look, K!treeVars, K!hostVars, K!iceVars
<1>4. p \in K!Procs
  BY <1>1, <1>2
<1>5. victims' = {} => victims = {} /\ ~K!Matches(p)
  BY <1>1
<1>6. GroupLooked'
  BY <1>1, <1>2, <1>4, <1>5, StillTree
     DEF GroupLooked, K!Matches, K!Scans, K!treeVars, K!Living, K!Alive
<1>7. OrphansLooked'
  <2> SUFFICES ASSUME pc = "verdictOrphans", victims' = {}, p \in orphans, p \in K!Living
               PROVE  FALSE
    BY <1>1, <1>2, <1>5, StillTree DEF OrphansLooked
  <2>1. K!Alive(p) /\ ~group[p] /\ parent[p] = K!Daemon
    BY DEF K!Living, GroupLooked, Marked
  <2> QED
    BY <1>5, <2>1 DEF K!Matches
<1>8. Modal' /\ Unlisted' /\ Result'
  BY <1>2, StillTree DEF Modal, Unlisted, Result, K!Scans
<1> QED
  BY <1>2, <1>3, <1>6, <1>7, <1>8, StillTree

LEMMA VerdictsKeepKInv ==
  ASSUME KInv, K!Verdict \/ K!GroupEmpty \/ K!TreeEmpty
  PROVE  KInv'
<1> USE ProcFacts
        DEF KInv, Modal, Unlisted, PgidPlaces, CgroupPlaces, K!Places, K!Scans, K!Waits
<1>1. CASE K!Verdict
  <2>1. /\ UNCHANGED <<K!treeVars, mode, todo, victims>> /\ todo = K!Unread
        /\ pc = "verdict" /\ pc' \in {"survivors", "verdictGroup"}
    BY <1>1 DEF K!Verdict, K!hostVars
  <2>2. K!Living' = K!Living /\ K!Living \subseteq K!Procs
    BY <2>1 DEF K!treeVars, K!Living, K!Alive
  <2>3. K!TypeOK'
    BY <1>1, <2>1, <2>2 DEF K!TypeOK, K!Verdict, K!treeVars, K!hostVars, K!iceVars
  <2>4. orphans' = {p \in K!Living : parent[p] = K!Daemon} /\ members' \subseteq K!Living
    BY <1>1 DEF K!Verdict
  <2>5. Marked'
    BY <2>1, <2>2, <2>4 DEF Marked, K!Living, K!Alive, K!treeVars
  <2>6. Modal' /\ Unlisted' /\ GroupLooked' /\ OrphansLooked' /\ Result'
    BY <2>1 DEF GroupLooked, OrphansLooked, Result
  <2> QED
    BY <2>3, <2>5, <2>6
<1>2. CASE K!GroupEmpty
  <2>1. /\ UNCHANGED <<K!treeVars, K!marks, mode, victims>> /\ pc = "verdictGroup"
        /\ pc' = "verdictOrphans" /\ todo = {} /\ todo' = K!Unread /\ victims = {}
    BY <1>2 DEF K!GroupEmpty, K!hostVars
  <2>2. K!TypeOK'
    BY <1>2, <2>1 DEF K!TypeOK, K!GroupEmpty, K!treeVars, K!hostVars, K!iceVars
  <2>3. GroupLooked'
    BY <2>1, StillTree DEF GroupLooked, K!treeVars
  <2>4. Modal' /\ Unlisted' /\ OrphansLooked' /\ Result'
    BY <2>1 DEF OrphansLooked, Result
  <2> QED
    BY <2>1, <2>2, <2>3, <2>4, StillTree
<1>3. CASE K!TreeEmpty
  <2>1. /\ UNCHANGED <<K!treeVars, K!marks, mode, victims>> /\ pc = "verdictOrphans"
        /\ pc' = "exitWait" /\ todo = {} /\ todo' = K!Unread /\ victims = {}
    BY <1>3 DEF K!TreeEmpty, K!ForceEnds, K!Goes, K!hostVars
  <2>2. K!TypeOK'
    BY <1>3, <2>1 DEF K!TypeOK, K!TreeEmpty, K!ForceEnds, K!Goes, K!treeVars, K!hostVars, K!iceVars
  <2>3. orphans \cap K!Living = {} /\ mode = "pgid" /\ Cleared
    BY <2>1 DEF OrphansLooked, GroupLooked, Cleared
  <2>4. Result'
    BY <2>1, <2>3, StillTree DEF Result, Cleared
  <2>5. Modal' /\ Unlisted' /\ GroupLooked' /\ OrphansLooked'
    BY <2>1 DEF GroupLooked, OrphansLooked
  <2> QED
    BY <2>1, <2>2, <2>4, <2>5, StillTree
<1> QED
  BY <1>1, <1>2, <1>3

-----------------------------------------------------------------------------
(* The steps that pass a result on: it is an error, or it is true.          *)

LEMMA ResultStepsKeepKInv ==
  ASSUME KInv,
         \/ (K!Survivors /\ expired) \/ K!FreezeFails \/ K!ReadProcs \/ K!Thaw \/ K!Drained
         \/ K!ExitWaitEnds
  PROVE  KInv'
<1> USE ProcFacts
        DEF KInv, Modal, Unlisted, PgidPlaces, CgroupPlaces, K!Places, K!Scans, K!Waits
<1>1. UNCHANGED <<K!treeVars, K!marks, mode, cgroup, todo>>
  BY DEF K!Survivors, K!FreezeFails, K!ReadProcs, K!Thaw, K!Drained, K!ExitWaitEnds, K!hostVars
<1>2. /\ frozen' \in BOOLEAN /\ iced' \in SUBSET K!Procs /\ expired' \in BOOLEAN
      /\ victims' \in SUBSET K!Procs
  BY DEF K!TypeOK, K!Survivors, K!FreezeFails, K!ReadProcs, K!Thaw, K!Drained, K!ExitWaitEnds,
     K!ForceEnds, K!Goes, K!Returns, K!iceVars, K!Living
<1>3. /\ pc' \in {"exitWait", "thawEmpty", "drainKill", "drain", "remove", "nil", "failed"}
      /\ err' \in BOOLEAN /\ Modal' /\ Unlisted' /\ Result'
  <2>1. CASE (K!Survivors /\ expired) \/ K!FreezeFails
    BY <1>1, <2>1 DEF K!Survivors, K!FreezeFails, K!ForceEnds, K!Goes, Result
  <2>2. CASE K!ReadProcs
    BY <1>1, <2>2, StillTree DEF K!ReadProcs, K!TypeOK, Result
  <2>3. CASE K!Thaw
    BY <1>1, <2>3, StillTree DEF K!Thaw, K!ForceEnds, K!Goes, K!TypeOK, Result, Cleared
  <2>4. CASE K!Drained
    <3>1. pc' = "exitWait" /\ (err' = TRUE \/ (err' = FALSE /\ K!Living = {}))
      BY <2>4 DEF K!Drained, K!ForceEnds, K!Goes
    <3>2. mode # "pgid" /\ pc = "drain"
      BY <2>4 DEF K!Drained
    <3> QED
      BY <1>1, <3>1, <3>2, StillTree DEF Result, Cleared
  <2>5. CASE K!ExitWaitEnds
    <3>1. pc = "exitWait" /\ err' = err /\ err \in BOOLEAN
      BY <2>5 DEF K!ExitWaitEnds, K!TypeOK
    <3>2. \/ pc' = "remove" /\ mode # "pgid"
          \/ pc' = "failed" /\ err
          \/ pc' = "nil" /\ ~err
      BY <2>5, <3>1 DEF K!ExitWaitEnds, K!Returns, K!Goes
    <3> QED
      BY <1>1, <3>1, <3>2, StillTree DEF Result
  <2> QED
    BY <2>1, <2>2, <2>3, <2>4, <2>5
<1>4. K!TypeOK'
  BY <1>1, <1>2, <1>3 DEF K!TypeOK, K!treeVars
<1>5. GroupLooked' /\ OrphansLooked'
  BY <1>3 DEF GroupLooked, OrphansLooked
<1> QED
  BY <1>1, <1>3, <1>4, <1>5, StillTree

LEMMA RemovalKeepsKInv ==
  ASSUME KInv, K!RemoveCgroup
  PROVE  KInv'
<1> USE ProcFacts
        DEF KInv, Modal, Unlisted, PgidPlaces, CgroupPlaces, K!Places, K!Scans, K!Waits
<1>1. UNCHANGED <<K!treeVars, K!marks, mode, frozen, iced, todo, victims>> /\ pc = "remove"
  BY DEF K!RemoveCgroup, K!iceVars
<1>2. /\ cgroup' \in BOOLEAN /\ expired' = FALSE /\ err' \in BOOLEAN
      /\ \/ pc' = "failed"
         \/ pc' = "nil" /\ K!Living = {}
  BY DEF K!RemoveCgroup, K!Returns, K!TypeOK
<1>3. K!TypeOK'
  BY <1>1, <1>2 DEF K!TypeOK, K!treeVars
<1>4. Result'
  BY <1>1, <1>2, StillTree DEF Result, Cleared
<1>5. Modal' /\ Unlisted' /\ GroupLooked' /\ OrphansLooked'
  BY <1>1, <1>2 DEF GroupLooked, OrphansLooked
<1> QED
  BY <1>1, <1>3, <1>4, <1>5, StillTree

LEMMA ExpireKeepsKInv ==
  ASSUME KInv, K!Expire \/ UNCHANGED K!vars
  PROVE  KInv'
<1>1. /\ UNCHANGED <<K!treeVars, K!marks, mode, pc, cgroup, frozen, iced, todo, victims, err>>
      /\ expired' \in BOOLEAN
  BY DEF KInv, K!TypeOK, K!Expire, K!vars, K!treeVars, K!hostVars, K!iceVars, K!stopVars
<1>2. K!TypeOK' /\ Modal' /\ Unlisted'
  BY <1>1 DEF KInv, K!TypeOK, Modal, Unlisted, K!treeVars
<1>3. GroupLooked' /\ OrphansLooked' /\ Result'
  BY <1>1, StillTree DEF KInv, GroupLooked, OrphansLooked, Result, K!treeVars
<1> QED
  BY <1>1, <1>2, <1>3, StillTree DEF KInv

LEMMA KNextKeepsKInv == KInv /\ [K!Next]_K!vars => KInv'
<1> SUFFICES ASSUME KInv, [K!Next]_K!vars
             PROVE  KInv'
  OBVIOUS
<1>1. CASE K!Tree
  BY <1>1, TreeKeepsKInv
<1>2. CASE K!StopWithin \/ K!GracefulEnds
  BY <1>2, PlainStepsKeepKInv
<1>3. CASE K!Expire \/ UNCHANGED K!vars
  BY <1>3, ExpireKeepsKInv
<1>4. CASE K!ForcePgid
  BY <1>4, KillStepsKeepKInv, PlainStepsKeepKInv, ReadProcKeepsKInv, LookKeepsKInv,
     VerdictsKeepKInv, ResultStepsKeepKInv DEF K!ForcePgid
<1>5. CASE K!ForceCgroup
  BY <1>5, KillStepsKeepKInv, PlainStepsKeepKInv, ResultStepsKeepKInv DEF K!ForceCgroup
<1>6. CASE K!ExitWaitEnds \/ K!RemoveCgroup
  BY <1>6, ResultStepsKeepKInv, RemovalKeepsKInv
<1> QED
  BY <1>1, <1>2, <1>3, <1>4, <1>5, <1>6 DEF K!Next, K!Stopper

THEOREM KillInvariance == K!Spec => []KInv
  BY KNextKeepsKInv, InitHasKInv, PTL DEF K!Spec

-----------------------------------------------------------------------------
(* Every variable keeps its type.                                           *)
THEOREM KillPathTyped == K!Spec => []K!TypeOK
<1>1. KInv => K!TypeOK
  BY DEF KInv
<1> QED
  BY <1>1, KillInvariance, PTL

(* A stop that reports success leaves nothing in a cgroup, and in pgid mode *)
(* what VerdictHolds says of the last verdict.                              *)
THEOREM SuccessIsTrue == K!Spec => []K!VerdictHolds
<1>1. KInv => K!VerdictHolds
  BY DEF KInv, Result, Cleared, K!VerdictHolds
<1> QED
  BY <1>1, KillInvariance, PTL

(* On a host with cgroups, success means that the tree is empty.            *)
THEOREM CgroupSuccessIsEmpty ==
  ASSUME "pgid" \notin Modes
  PROVE  K!Spec => []K!NilMeansEmpty
<1>1. KInv => K!NilMeansEmpty
  BY DEF KInv, K!TypeOK, Result, Cleared, K!NilMeansEmpty
<1> QED
  BY <1>1, KillInvariance, PTL

-----------------------------------------------------------------------------
(* Beside the reaper, the kill path is at rest or keeps its invariant.      *)
RestsOrKInv == pc = "rest" \/ KInv

THEOREM VerdictInvariance == ProcSpec => []RestsOrKInv
<1>1. ProcInit => RestsOrKInv
  BY InitHasKInv DEF ProcInit, KillRests, RestsOrKInv
<1>2. RestsOrKInv /\ [ProcNext]_<<vars, killVars>> => RestsOrKInv'
  <2> SUFFICES ASSUME RestsOrKInv, [ProcNext]_<<vars, killVars>>
               PROVE  RestsOrKInv'
    OBVIOUS
  <2>1. CASE UNCHANGED killVars
    <3>1. UNCHANGED K!vars
      BY <2>1 DEF killVars, K!vars, K!treeVars, K!hostVars, K!iceVars, K!stopVars
    <3>2. KInv => KInv'
      BY <3>1, KNextKeepsKInv
    <3> QED
      BY <2>1, <3>2 DEF killVars, RestsOrKInv
  <2>2. CASE pc # "rest" /\ K!Next
    BY <2>2, KNextKeepsKInv DEF RestsOrKInv
  <2> QED
    BY <2>1, <2>2 DEF ProcNext
<1> QED
  BY <1>1, <1>2, PTL DEF ProcSpec

(* ... so the run's property holds of a tree of any size.                   *)
THEOREM VerdictsHold == ProcSpec => []VerdictHolds
<1>1. RestsOrKInv => VerdictHolds
  BY DEF RestsOrKInv, KInv, Result, Cleared, VerdictHolds, K!VerdictHolds
<1> QED
  BY <1>1, VerdictInvariance, PTL
===============================================================================
