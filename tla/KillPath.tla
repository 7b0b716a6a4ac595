------------------------------- MODULE KillPath -------------------------------
(***************************************************************************)
(* The kill path of internal/proc: Handle.StopWithin with its three force  *)
(* paths, against a tree whose processes fork, leave the process group and *)
(* exit while they are being killed.                                       *)
(*                                                                         *)
(* A process is its pid; pids grow and are not reused here.  A process     *)
(* that was sent SIGKILL is doomed: it can no longer fork, but may take as *)
(* long as it likes to die.  Processes keep their cgroup and environment.  *)
(* The graceful signal obliges nobody; processes may exit at any time.     *)
(***************************************************************************)
EXTENDS Integers, KillPathBounds

Procs  == 1 .. MaxProcs
Leader == 1
Daemon == 0      \* the subreaper: orphans become its children
Unread == {Daemon}   \* /proc has not been listed for the scan at hand

VARIABLES
  life,     \* unborn, live, doomed, zombie (the leader's until reaped), gone
  parent, group,   \* parent of a process; whether it is in the leader's group
  mode, cgroup,    \* the handle's mode; whether its cgroup directory exists
  frozen, iced,    \* cgroup.freeze, and the tasks it has caught up with
  pc,       \* where StopWithin is
  expired,  \* the deadline of the phase at hand has passed
  todo,     \* pids listed from /proc and not looked at yet
  victims,  \* what a scan or a read of cgroup.procs found
  err,      \* the error to return, if any
  orphans, members  \* children of the daemon, and the group, when the last
                    \* verdict of treeEmpty began

treeVars == <<life, parent, group>>
hostVars == <<mode, cgroup>>
iceVars  == <<frozen, iced>>
marks    == <<orphans, members>>
stopVars == <<pc, expired, todo, victims, err, marks>>
vars == <<treeVars, hostVars, iceVars, stopVars>>

Scans == {"sweepGroup", "sweepOrphans", "verdictGroup", "verdictOrphans"}
Waits == {"graceful", "group", "survivors", "drain", "exitWait", "remove"}
Places == Scans \cup Waits \cup
  {"running", "kill", "verdict", "cgroupKill", "freeze", "read", "drainKill",
   "thawEmpty", "failed", "nil"}

TypeOK ==
  /\ life \in [Procs -> {"unborn", "live", "doomed", "zombie", "gone"}]
  /\ parent \in [Procs -> Procs \cup {Daemon}] /\ group \in [Procs -> BOOLEAN]
  /\ mode \in Modes /\ cgroup \in BOOLEAN
  /\ frozen \in BOOLEAN /\ iced \in SUBSET Procs
  /\ pc \in Places /\ expired \in BOOLEAN
  /\ todo \in (SUBSET Procs) \cup {Unread} /\ victims \in SUBSET Procs
  /\ err \in BOOLEAN /\ orphans \in SUBSET Procs /\ members \in SUBSET Procs

Init ==
  /\ life = [p \in Procs |-> IF p = Leader THEN "live" ELSE "unborn"]
  /\ parent = [p \in Procs |-> Daemon] /\ group = [p \in Procs |-> p = Leader]
  /\ mode \in Modes /\ cgroup = (mode # "pgid")
  /\ frozen = FALSE /\ iced = {}
  /\ pc = "running" /\ expired = FALSE /\ todo = Unread /\ victims = {}
  /\ err = FALSE /\ orphans = {} /\ members = {}

Alive(p) == life[p] \in {"live", "doomed"}
Living == {p \in Procs : Alive(p)}
NextPid(c) == life[c] = "unborn" /\ \A q \in Procs : q < c => life[q] # "unborn"
Free(p) == life[p] = "live" /\ p \notin iced
Doomed(S) == [p \in Procs |-> IF p \in S /\ life[p] = "live" THEN "doomed" ELSE life[p]]

-----------------------------------------------------------------------------
(* The tree.                                                                *)

Fork(p) ==
  /\ Free(p)
  /\ \E c \in Procs :
       /\ NextPid(c)
       /\ life' = [life EXCEPT ![c] = "live"]
       /\ parent' = [parent EXCEPT ![c] = p]
       /\ group' = [group EXCEPT ![c] = group[p]]
       /\ iced' = IF frozen THEN iced \cup {c} ELSE iced
  /\ UNCHANGED <<hostVars, frozen, stopVars>>

(* setsid: a leader of a group cannot.                                      *)
Escape(p) ==
  /\ mode = "pgid" /\ Free(p) /\ p # Leader /\ group[p]
  /\ group' = [group EXCEPT ![p] = FALSE]
  /\ UNCHANGED <<life, parent, hostVars, iceVars, stopVars>>

Exit(p) ==
  /\ Free(p) \/ life[p] = "doomed"
  /\ life' = [life EXCEPT ![p] = IF p = Leader THEN "zombie" ELSE "gone"]
  /\ parent' = [q \in Procs |-> IF parent[q] = p THEN Daemon ELSE parent[q]]
  /\ UNCHANGED <<group, hostVars, iceVars, stopVars>>

(* The reaper takes the leader, and Done closes.                            *)
Reap ==
  /\ life[Leader] = "zombie" /\ life' = [life EXCEPT ![Leader] = "gone"]
  /\ UNCHANGED <<parent, group, hostVars, iceVars, stopVars>>

(* The freezer reaches a task some time after the write.                    *)
Ice(p) ==
  /\ frozen /\ Free(p) /\ iced' = iced \cup {p}
  /\ UNCHANGED <<treeVars, hostVars, frozen, stopVars>>

-----------------------------------------------------------------------------
(* StopWithin: the graceful phase.                                          *)

Goes(place) == pc' = place /\ expired' = FALSE
LeaderGone == life[Leader] = "gone"

(* A stop that failed leaves the handle for another.                        *)
StopWithin ==
  /\ pc \in {"running", "failed"} /\ Goes("graceful") /\ err' = FALSE
  /\ UNCHANGED <<treeVars, hostVars, iceVars, todo, victims, marks>>

Expire ==
  /\ pc \in Waits \cup Scans \cup {"kill", "verdict"} /\ ~expired /\ expired' = TRUE
  /\ UNCHANGED <<treeVars, hostVars, iceVars, pc, todo, victims, err, marks>>

GracefulEnds ==
  /\ pc = "graceful" /\ (LeaderGone \/ expired)
  /\ Goes(CASE mode = "pgid" -> "group"
            [] mode = "cgroup-kill" -> "cgroupKill"
            [] mode = "cgroup-freeze" -> "freeze")
  /\ UNCHANGED <<treeVars, hostVars, iceVars, todo, victims, err, marks>>

(* What the force path decided; then the leader's exit is awaited.          *)
ForceEnds(failed) == Goes("exitWait") /\ err' = failed

-----------------------------------------------------------------------------
(* forcePgid, in rounds, with one deadline for all of them.                 *)

(* The group is signalled as long as the leader's pid is still the leader's. *)
GroupKill ==
  /\ pc = "group" /\ pc' = "sweepGroup" /\ victims' = {}
  /\ life' = IF LeaderGone THEN life ELSE Doomed({p \in Procs : group[p]})
  /\ UNCHANGED <<parent, group, hostVars, iceVars, expired, todo, err, marks>>

ReadProc ==
  /\ pc \in Scans /\ todo = Unread /\ todo' = Living
  /\ UNCHANGED <<treeVars, hostVars, iceVars, pc, expired, victims, err, marks>>

(* scanPgrpMembers and scanReparentedOrphans, at one pid.  The latter skips *)
(* the group: the former has seen it.  os.ReadDir sorts the pids as         *)
(* strings, and pids wrap: the order says nothing about age.                *)
Matches(p) ==
  /\ Alive(p)
  /\ IF pc \in {"sweepGroup", "verdictGroup"} THEN group[p]
     ELSE ~group[p] /\ parent[p] = Daemon

Look ==
  /\ pc \in Scans /\ todo # Unread
  /\ \E p \in todo :
       /\ todo' = todo \ {p}
       /\ victims' = IF Matches(p) THEN victims \cup {p} ELSE victims
  /\ UNCHANGED <<treeVars, hostVars, iceVars, pc, expired, err, marks>>

SweepEnds ==
  /\ pc \in {"sweepGroup", "sweepOrphans"} /\ todo = {} /\ todo' = Unread
  /\ pc' = IF pc = "sweepGroup" THEN "sweepOrphans" ELSE "kill"
  /\ UNCHANGED <<treeVars, hostVars, iceVars, expired, victims, err, marks>>

(* killVictimsVerified: one that died meanwhile is not signalled.           *)
KillVictim ==
  /\ pc \in {"kill", "drainKill"}
  /\ \E p \in victims : life' = Doomed({p}) /\ victims' = victims \ {p}
  /\ UNCHANGED <<parent, group, hostVars, iceVars, pc, expired, todo, err, marks>>

KillsEnd ==
  /\ pc = "kill" /\ victims = {} /\ pc' = "verdict"
  /\ UNCHANGED <<treeVars, hostVars, iceVars, expired, todo, victims, err, marks>>

(* treeEmpty: the leader, the group, the orphans, in this order.            *)
Verdict ==
  /\ pc = "verdict"
  /\ orphans' = {p \in Living : parent[p] = Daemon}
  /\ members' = {p \in Living : group[p]}
  /\ pc' = IF Alive(Leader) THEN "survivors" ELSE "verdictGroup"
  /\ UNCHANGED <<treeVars, hostVars, iceVars, expired, todo, victims, err>>

VerdictSeesOne ==
  /\ pc \in {"verdictGroup", "verdictOrphans"} /\ todo = {} /\ victims # {}
  /\ pc' = "survivors" /\ todo' = Unread /\ victims' = {}
  /\ UNCHANGED <<treeVars, hostVars, iceVars, expired, err, marks>>

(* The group alone is no verdict.                                           *)
GroupEmptyEnds ==
  /\ pc = "verdictGroup" /\ todo = {} /\ victims = {} /\ todo' = Unread
  /\ ForceEnds(FALSE)
  /\ UNCHANGED <<treeVars, hostVars, iceVars, victims, marks>>
GroupEmpty ==
  /\ pc = "verdictGroup" /\ todo = {} /\ victims = {} /\ todo' = Unread
  /\ pc' = "verdictOrphans"
  /\ UNCHANGED <<treeVars, hostVars, iceVars, expired, victims, err, marks>>

TreeEmpty ==
  /\ pc = "verdictOrphans" /\ todo = {} /\ victims = {} /\ todo' = Unread
  /\ ForceEnds(FALSE)
  /\ UNCHANGED <<treeVars, hostVars, iceVars, victims, marks>>

SurvivorsAgain ==
  /\ pc = "survivors" /\ pc' = "group"
  /\ UNCHANGED <<treeVars, hostVars, iceVars, expired, todo, victims, err, marks>>
Survivors ==
  /\ pc = "survivors"
  /\ IF expired THEN ForceEnds(TRUE) ELSE pc' = "group" /\ UNCHANGED <<expired, err>>
  /\ UNCHANGED <<treeVars, hostVars, iceVars, todo, victims, marks>>

-----------------------------------------------------------------------------
(* The cgroup force paths.                                                  *)

(* cgroup.kill takes the whole cgroup at once, forks in flight included; a  *)
(* kernel without it, or a cgroup that is gone, falls back to the freezer.  *)
CgroupKill ==
  /\ pc = "cgroupKill" /\ cgroup /\ Goes("drain")
  /\ life' = Doomed(Procs)
  /\ UNCHANGED <<parent, group, hostVars, iceVars, todo, victims, err, marks>>

NoCgroupKill ==
  /\ pc = "cgroupKill" /\ Goes("freeze")
  /\ UNCHANGED <<treeVars, hostVars, iceVars, todo, victims, err, marks>>

Freeze ==
  /\ pc = "freeze" /\ cgroup /\ frozen' = TRUE /\ Goes("read")
  /\ UNCHANGED <<treeVars, hostVars, iced, todo, victims, err, marks>>

FreezeFails ==
  /\ pc = "freeze" /\ ~cgroup /\ ForceEnds(TRUE)
  /\ UNCHANGED <<treeVars, hostVars, iceVars, todo, victims, marks>>

ReadProcs ==
  /\ pc = "read" /\ victims' = Living
  /\ pc' = IF Living = {} THEN "thawEmpty" ELSE "drainKill"
  /\ UNCHANGED <<treeVars, hostVars, iceVars, expired, todo, err, marks>>

(* The fatal signals sent, the cgroup is thawed; an empty one is done.      *)
Thaw ==
  /\ pc = "thawEmpty" \/ (pc = "drainKill" /\ victims = {})
  /\ frozen' = FALSE /\ iced' = {}
  /\ IF pc = "thawEmpty" THEN ForceEnds(FALSE) ELSE Goes("drain") /\ UNCHANGED err
  /\ UNCHANGED <<treeVars, hostVars, todo, victims, marks>>

(* waitCgroupEmpty.                                                         *)
Drained ==
  /\ pc = "drain" /\ (Living = {} \/ expired) /\ ForceEnds(Living # {})
  /\ UNCHANGED <<treeVars, hostVars, iceVars, todo, victims, marks>>

-----------------------------------------------------------------------------
(* The end of StopWithin.                                                   *)

Returns(failed) == pc' = (IF failed THEN "failed" ELSE "nil") /\ expired' = FALSE

ExitWaitEnds ==
  /\ pc = "exitWait" /\ (LeaderGone \/ expired)
  /\ IF mode = "pgid" THEN Returns(err) ELSE Goes("remove")
  /\ UNCHANGED <<treeVars, hostVars, iceVars, todo, victims, err, marks>>

(* removeCgroup tries for two seconds; the kernel refuses while a process   *)
(* is in it.                                                                *)
RemoveCgroup ==
  /\ pc = "remove"
  /\ \/ Living = {} /\ cgroup' = FALSE /\ Returns(err) /\ UNCHANGED err
     \/ Living # {} /\ expired /\ err' = TRUE /\ Returns(TRUE) /\ UNCHANGED cgroup
  /\ UNCHANGED <<treeVars, mode, iceVars, todo, victims, marks>>

-----------------------------------------------------------------------------
Tree == Reap \/ \E p \in Procs : Fork(p) \/ Escape(p) \/ Exit(p) \/ Ice(p)
ForcePgid ==
  \/ GroupKill \/ ReadProc \/ Look \/ SweepEnds \/ KillVictim \/ KillsEnd
  \/ Verdict \/ VerdictSeesOne \/ GroupEmpty \/ TreeEmpty \/ Survivors
ForceCgroup ==
  \/ CgroupKill \/ NoCgroupKill \/ Freeze \/ FreezeFails \/ ReadProcs \/ Thaw \/ Drained
Stopper == GracefulEnds \/ ForcePgid \/ ForceCgroup \/ ExitWaitEnds \/ RemoveCgroup

Next == Tree \/ StopWithin \/ Expire \/ Stopper

Spec == Init /\ [][Next]_vars

(* The actor's goroutine runs and time passes.  Nothing is asked of the     *)
(* processes: a doomed one may stay for ever, in an uninterruptible sleep.  *)
Fairness == WF_vars(Stopper) /\ WF_vars(Expire)

FairSpec == Spec /\ Fairness

-----------------------------------------------------------------------------
(* proc.go:11, I1, as far as it goes: a stop that reports success leaves    *)
(* nothing in a cgroup.  In pgid mode, where the tree is read pid by pid    *)
(* while it changes, it leaves nothing that was the daemon's child when the *)
(* last verdict began, and no member of the group then that still is one.   *)
VerdictHolds ==
  pc = "nil" => \A p \in Living :
    mode = "pgid" /\ p \notin orphans /\ (p \in members => ~group[p])

(* proc.go:12, I5: the kill path ends in bounded time whatever the tree     *)
(* does, and if it never dies.                                              *)
StopReturns == pc = "graceful" ~> pc \in {"nil", "failed"}

(* proc.go:11, I1: "after Stop, zero live processes remain in the tree".    *)
NilMeansEmpty == pc = "nil" => Living = {}
===============================================================================
