-------------------------------- MODULE MCProc --------------------------------
(* The exit delivery (Reaper) and the kill path (KillPath) of internal/proc *)
(* side by side in one run.  They meet only in the leader's exit, which     *)
(* KillPath takes for delivered: a behaviour is one of Reaper or of         *)
(* KillPath, and the other rests.                                           *)
EXTENDS MCReaper, KillPathBounds

VARIABLES
  klife, parent, group, mode, cgroup, frozen, iced, pc, expired, todo, victims,
  err, orphans, members

killVars ==
  <<klife, parent, group, mode, cgroup, frozen, iced, pc, expired, todo, victims,
    err, orphans, members>>

K == INSTANCE KillPath WITH life <- klife

ReaperRests ==
  /\ life = [p \in Procs |-> "rest"] /\ pidOf = [p \in Procs |-> None]
  /\ lpc = [l \in Launches |-> "rest"] /\ got = [l \in Launches |-> None]
  /\ waiting = [q \in Pids |-> None] /\ cache = [q \in Pids |-> None]
  /\ order = << >> /\ rpc = "rest" /\ reaped = None /\ kick = FALSE /\ evicted = {}
KillRests ==
  /\ klife = [p \in 1 .. MaxProcs |-> "gone"] /\ parent = [p \in 1 .. MaxProcs |-> 0]
  /\ group = [p \in 1 .. MaxProcs |-> FALSE] /\ mode = "pgid" /\ cgroup = FALSE
  /\ frozen = FALSE /\ iced = {} /\ pc = "rest" /\ expired = FALSE /\ todo = {}
  /\ victims = {} /\ err = FALSE /\ orphans = {} /\ members = {}

ProcInit == (Init /\ KillRests) \/ (ReaperRests /\ K!Init)

ProcNext ==
  \/ rpc # "rest" /\ Next /\ UNCHANGED killVars
  \/ pc # "rest" /\ K!Next /\ UNCHANGED vars

ProcSpec ==
  /\ ProcInit /\ [][ProcNext]_<<vars, killVars>>
  /\ Fairness /\ K!Fairness

(* KillPath's property: a stop that succeeds leaves nothing in a cgroup,    *)
(* and in pgid mode nothing that was the daemon's child, or in the group,   *)
(* when its last verdict began, and stayed so.                              *)
VerdictHolds == K!VerdictHolds

(* KillPath's: a stop returns, whatever the tree does.                      *)
StopReturns == K!StopReturns
===============================================================================
