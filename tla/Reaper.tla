-------------------------------- MODULE Reaper --------------------------------
(***************************************************************************)
(* Exit delivery of internal/proc: one loop owns every wait4 of the daemon *)
(* and hands each reaped exit to the launch registered for that pid, or    *)
(* caches it for a Register still to come.  Launches spawn and register in *)
(* two steps; the daemon is a subreaper, so orphans it never launched are  *)
(* reaped, and cached, too.                                                *)
(*                                                                         *)
(* Deregister and CachedExit have no caller outside tests.  The length of  *)
(* the idle park (25ms, doubling to 800ms) is left out: an idle park ends. *)
(***************************************************************************)
EXTENDS Integers, Sequences, FiniteSets

CONSTANTS
  Launches,   \* launches: each spawns one process and waits for its exit
  Orphans,    \* processes reparented to the daemon
  Pids,
  None,
  CacheCap,   \* exits cached at most (1024 in the code)
  Reuse       \* whether the kernel hands out a pid a second time

Procs == Launches \cup Orphans

ASSUME ProcsAssumption == Launches \cap Orphans = {} /\ None \notin Procs \cup Pids
ASSUME CacheCapAssumption == CacheCap \in Nat \ {0}
ASSUME ReuseAssumption == Reuse \in BOOLEAN

VARIABLES
  life,      \* life[p]: a process is new, running, a zombie, or reaped
  pidOf,     \* pidOf[p]: its pid, None before it is spawned
  lpc,       \* lpc[l]: where launch l is: spawn, register, wait, done
  got,       \* got[l]: whose exit arrived on l's channel, None if none yet
  waiting,   \* waiting[pid]: the launch registered for pid, or None
  cache,     \* cache[pid]: whose exit is cached for pid, or None
  order,     \* pids in the order they were cached
  rpc,       \* the loop: try (WNOHANG), block (wait4), idle, deliver
  reaped,    \* the process the loop has reaped and not yet delivered
  kick,      \* Register's nudge of the idle park (buffered, 1)
  evicted    \* history: processes whose cached exit was evicted

vars == <<life, pidOf, lpc, got, waiting, cache, order, rpc, reaped, kick, evicted>>

TypeOK ==
  /\ life \in [Procs -> {"new", "run", "zombie", "reaped"}]
  /\ pidOf \in [Procs -> Pids \cup {None}]
  /\ lpc \in [Launches -> {"spawn", "register", "wait", "done"}]
  /\ got \in [Launches -> Procs \cup {None}]
  /\ waiting \in [Pids -> Launches \cup {None}]
  /\ cache \in [Pids -> Procs \cup {None}]
  /\ order \in Seq(Pids) /\ Len(order) <= CacheCap
  /\ rpc \in {"try", "block", "idle", "deliver"}
  /\ reaped \in Procs \cup {None}
  /\ kick \in BOOLEAN /\ evicted \in SUBSET Procs

Init ==
  /\ life = [p \in Procs |-> "new"] /\ pidOf = [p \in Procs |-> None]
  /\ lpc = [l \in Launches |-> "spawn"] /\ got = [l \in Launches |-> None]
  /\ waiting = [q \in Pids |-> None] /\ cache = [q \in Pids |-> None]
  /\ order = << >> /\ rpc = "try" /\ reaped = None
  /\ kick = FALSE /\ evicted = {}

Present(p) == life[p] \in {"run", "zombie"}

-----------------------------------------------------------------------------
(* The kernel's processes.                                                  *)

(* A pid comes round again, if it does, only long after its last process    *)
(* was reaped: never while the loop still has that exit in its hands.       *)
PidFree(q) ==
  \A p \in Procs : pidOf[p] = q => Reuse /\ life[p] = "reaped" /\ reaped # p

Born(p) ==
  /\ life[p] = "new"
  /\ \E q \in Pids : PidFree(q) /\ pidOf' = [pidOf EXCEPT ![p] = q]
  /\ life' = [life EXCEPT ![p] = "run"]
  /\ UNCHANGED <<got, waiting, cache, order, rpc, reaped, kick, evicted>>

OrphanArrives(p) == p \in Orphans /\ Born(p) /\ UNCHANGED lpc

Dies(p) ==
  /\ life[p] = "run"
  /\ life' = [life EXCEPT ![p] = "zombie"]
  /\ UNCHANGED <<pidOf, lpc, got, waiting, cache, order, rpc, reaped, kick, evicted>>

-----------------------------------------------------------------------------
(* A launch: fork+exec, then Register, then the goroutine that waits.       *)

Spawn(l) ==
  /\ lpc[l] = "spawn" /\ Born(l)
  /\ lpc' = [lpc EXCEPT ![l] = "register"]

Without(s, q) ==
  LET i == CHOOSE i \in DOMAIN s : s[i] = q /\ \A j \in 1 .. i - 1 : s[j] # q
  IN  IF \A k \in DOMAIN s : s[k] # q THEN s
      ELSE SubSeq(s, 1, i - 1) \o SubSeq(s, i + 1, Len(s))

(* The exit is cached already: it is taken from the cache.                  *)
RegisterCached(l) ==
  /\ lpc[l] = "register" /\ cache[pidOf[l]] # None
  /\ got' = [got EXCEPT ![l] = cache[pidOf[l]]]
  /\ lpc' = [lpc EXCEPT ![l] = "wait"]
  /\ cache' = [cache EXCEPT ![pidOf[l]] = None]
  /\ order' = Without(order, pidOf[l])
  /\ UNCHANGED <<life, pidOf, waiting, rpc, reaped, kick, evicted>>

(* A registration that does not look into the cache loses an early exit.    *)
RegisterBlind(l) ==
  /\ lpc[l] = "register"
  /\ waiting' = [waiting EXCEPT ![pidOf[l]] = l]
  /\ lpc' = [lpc EXCEPT ![l] = "wait"]
  /\ kick' = TRUE
  /\ UNCHANGED <<life, pidOf, got, cache, order, rpc, reaped, evicted>>
RegisterWaits(l) ==
  /\ lpc[l] = "register" /\ cache[pidOf[l]] = None
  /\ waiting' = [waiting EXCEPT ![pidOf[l]] = l]
  /\ lpc' = [lpc EXCEPT ![l] = "wait"]
  /\ kick' = TRUE
  /\ UNCHANGED <<life, pidOf, got, cache, order, rpc, reaped, evicted>>

(* setExit closes the handle's Done.                                        *)
SetExit(l) ==
  /\ lpc[l] = "wait" /\ got[l] # None
  /\ lpc' = [lpc EXCEPT ![l] = "done"]
  /\ UNCHANGED <<life, pidOf, got, waiting, cache, order, rpc, reaped, kick, evicted>>

-----------------------------------------------------------------------------
(* The loop.                                                                *)

Reap(p) ==
  /\ rpc \in {"try", "block"} /\ life[p] = "zombie"
  /\ life' = [life EXCEPT ![p] = "reaped"]
  /\ reaped' = p /\ rpc' = "deliver"
  /\ UNCHANGED <<pidOf, lpc, got, waiting, cache, order, kick, evicted>>

(* Children, none dead: block.                                              *)
NoneDead ==
  /\ rpc = "try" /\ \A p \in Procs : life[p] # "zombie"
  /\ \E p \in Procs : life[p] = "run"
  /\ rpc' = "block"
  /\ UNCHANGED <<life, pidOf, lpc, got, waiting, cache, order, reaped, kick, evicted>>

(* ECHILD: park until a kick or the poll interval.                          *)
NoChildren ==
  /\ rpc = "try" /\ \A p \in Procs : ~Present(p)
  /\ rpc' = "idle"
  /\ UNCHANGED <<life, pidOf, lpc, got, waiting, cache, order, reaped, kick, evicted>>

(* ECHILD in the blocking call: another wait took the last child (none does *)
(* here), or EINTR: the loop starts over.                                   *)
Interrupted ==
  /\ rpc = "block"
  /\ rpc' = "try"
  /\ UNCHANGED <<life, pidOf, lpc, got, waiting, cache, order, reaped, kick, evicted>>

IdleEnds ==
  /\ rpc = "idle"
  /\ rpc' = "try" /\ kick' \in {kick, FALSE}
  /\ UNCHANGED <<life, pidOf, lpc, got, waiting, cache, order, reaped, evicted>>

Deliver ==
  /\ rpc = "deliver" /\ waiting[pidOf[reaped]] # None
  /\ got' = [got EXCEPT ![waiting[pidOf[reaped]]] = reaped]
  /\ waiting' = [waiting EXCEPT ![pidOf[reaped]] = None]
  /\ reaped' = None /\ rpc' = "try"
  /\ UNCHANGED <<life, pidOf, lpc, cache, order, kick, evicted>>

(* Nobody waits yet: cache it, and evict the oldest over the cap.           *)
DeliverDrops ==
  /\ rpc = "deliver" /\ waiting[pidOf[reaped]] = None
  /\ reaped' = None /\ rpc' = "try"
  /\ UNCHANGED <<life, pidOf, lpc, got, waiting, cache, order, kick, evicted>>
CacheExit ==
  /\ rpc = "deliver" /\ waiting[pidOf[reaped]] = None
  /\ LET filled == [cache EXCEPT ![pidOf[reaped]] = reaped]
         longer == Append(order, pidOf[reaped])
     IN  IF Len(longer) <= CacheCap
         THEN cache' = filled /\ order' = longer /\ UNCHANGED evicted
         ELSE /\ cache' = [filled EXCEPT ![Head(longer)] = None]
              /\ order' = Tail(longer)
              /\ evicted' = evicted \cup ({filled[Head(longer)]} \ {None})
  /\ reaped' = None /\ rpc' = "try"
  /\ UNCHANGED <<life, pidOf, lpc, got, waiting, kick>>

-----------------------------------------------------------------------------
Loop ==
  \/ \E p \in Procs : Reap(p)
  \/ NoneDead \/ NoChildren \/ IdleEnds \/ Deliver \/ CacheExit
Launch(l) == Spawn(l) \/ RegisterCached(l) \/ RegisterWaits(l) \/ SetExit(l)

Next ==
  \/ \E p \in Procs : OrphanArrives(p) \/ Dies(p)
  \/ \E l \in Launches : Launch(l)
  \/ Loop \/ Interrupted

Spec == Init /\ [][Next]_vars

(* The loop goroutine and the launching goroutines are scheduled; wait4     *)
(* reaps a zombie sooner or later; the idle park is a timer.                *)
Fairness ==
  /\ WF_vars(Loop) /\ \A p \in Procs : SF_vars(Reap(p))
  /\ \A l \in Launches : WF_vars(RegisterCached(l) \/ RegisterWaits(l) \/ SetExit(l))

FairSpec == Spec /\ Fairness

-----------------------------------------------------------------------------
(* No exit falls between spawn and Register, whichever comes first: a       *)
(* process that was reaped is in the loop's hands, in the cache, delivered  *)
(* to its launch, or was evicted before the launch asked.                   *)
NoExitLost ==
  \A l \in Launches : life[l] = "reaped" =>
    \/ reaped = l \/ got[l] = l \/ l \in evicted
    \/ lpc[l] = "register" /\ cache[pidOf[l]] = l

(* handle_linux.go:33: Done is closed "when the leader's exit is            *)
(* delivered", the leader's own.                                            *)
DoneIsOwnExit == \A l \in Launches : got[l] \in {None, l}

(* A registered launch is waited for exactly where its process will be      *)
(* delivered, and its channel, of capacity one, is never sent to twice.     *)
OneWaiterPerExit ==
  \A q \in Pids : waiting[q] # None =>
    /\ cache[q] = None /\ pidOf[waiting[q]] = q
    /\ lpc[waiting[q]] = "wait" /\ got[waiting[q]] = None

(* The eviction queue and the cache agree: what is cached will be evicted   *)
(* in its turn, and the cache is as bounded as the queue.                   *)
CacheBounded ==
  /\ \A q \in Pids : cache[q] # None => \E i \in DOMAIN order : order[i] = q
  /\ Cardinality({q \in Pids : cache[q] # None}) <= CacheCap

(* The exit of a registered process closes its handle's Done.               *)
ExitArrives ==
  \A l \in Launches :
    (life[l] \in {"zombie", "reaped"} /\ l \notin evicted)
      ~> (lpc[l] = "done" \/ l \in evicted)
===============================================================================
