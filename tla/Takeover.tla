------------------------------ MODULE Takeover ------------------------------
(***************************************************************************)
(* Who owns the control socket: daemon boots racing each other, and        *)
(* daemons that crash, re-exec or shut down, over one socket path and one  *)
(* pid file (internal/daemon/daemon.go and pidfile_linux.go, Run of the    *)
(* daemon command).                                                        *)
(*                                                                         *)
(* A process stands for its (pid, starttime) pair, which is never reused.  *)
(* Time goes in rounds, one poll of the takeover loop each: what a boot    *)
(* does between two sleeps, and the way from the bind to the serving of    *)
(* requests, takes less than a round, and boots that sleep wake together.  *)
(***************************************************************************)
EXTENDS Integers, FiniteSets

CONSTANTS
  N,           \* daemon processes, numbered in the order they start
  Delay,       \* takeoverDelay, in rounds (300ms)
  Grace,       \* bootGrace, in rounds (2s)
  MaxFaults    \* bound: unclean deaths and re-execs

ASSUME NAssumption == N \in Nat
ASSUME DelayAssumption == Delay \in Nat /\ Grace \in Nat /\ Delay <= Grace
ASSUME FaultsAssumption == MaxFaults \in Nat

Procs == 1 .. N
Free == 0     \* the socket path, or the pid file, does not exist
Stale == -1   \* the path is a socket nobody listens on any more

VARIABLES
  path,      \* whose listener the socket path leads to, or Free, or Stale
  record,    \* the process the pid file names, Free if there is no file
  pc,        \* pc[p]: where the main goroutine of p is
  stale,     \* stale[p]: p's verdict that the recorded owner was dead
  waited,    \* waited[p]: rounds since the takeover loop began, up to Grace
  term,      \* term[p]: where the goroutine that serves SIGTERM is
  kill,      \* kill[p]: where the goroutine of a KillDaemon call is
  faults,    \* unclean deaths and re-execs so far
  settled    \* history: daemons that have served a whole round on the path

vars == <<path, record, pc, stale, waited, term, kill, faults, settled>>

Booting == {"judge", "record", "listen", "ping", "unlink", "relisten", "bound",
            "close", "leave"}

TypeOK ==
  /\ path \in Procs \cup {Free, Stale} /\ record \in Procs \cup {Free}
  /\ pc \in [Procs -> Booting \cup {"off", "sleep", "serve", "dead"}]
  /\ stale \in [Procs -> BOOLEAN] /\ waited \in [Procs -> 0 .. Grace]
  /\ term \in [Procs -> {"idle", "unrecord", "stopall"}]
  /\ kill \in [Procs -> {"idle", "stopall", "unrecord"}]
  /\ faults \in 0 .. MaxFaults
  /\ settled \in SUBSET Procs

Init ==
  /\ path = Free /\ record = Free
  /\ pc = [p \in Procs |-> "off"] /\ stale = [p \in Procs |-> FALSE]
  /\ waited = [p \in Procs |-> 0]
  /\ term = [p \in Procs |-> "idle"] /\ kill = [p \in Procs |-> "idle"]
  /\ faults = 0 /\ settled = {}

Goto(p, l) == pc' = [pc EXCEPT ![p] = l]
Down == <<term, kill, faults>>

(* p ends: its goroutines stop where they are, its listener is closed.      *)
Ends(p) ==
  /\ Goto(p, "dead") /\ UNCHANGED <<term, kill>>
  /\ stale' = [stale EXCEPT ![p] = FALSE] /\ waited' = [waited EXCEPT ![p] = 0]
  /\ settled' = settled \ {p}
  /\ path' = IF path = p THEN Stale ELSE path

-----------------------------------------------------------------------------
(* A boot.  Start is the CLI's detached spawn, or `pm0 daemon` by hand.     *)

Start(p) ==
  /\ pc[p] = "off" /\ \A q \in 1 .. p - 1 : pc[q] # "off"
  /\ Goto(p, "judge")
  /\ UNCHANGED <<path, record, stale, waited, Down, settled>>

(* A missing record is no proof: the grace is kept.                         *)
OwnerDead == record \in Procs /\ pc[record] = "dead"

Judge(p) ==
  /\ pc[p] = "judge" /\ Goto(p, "record")
  /\ stale' = [stale EXCEPT ![p] = OwnerDead]
  /\ UNCHANGED <<path, record, waited, Down, settled>>

(* The record of whoever is there is overwritten, before the bind; a write  *)
(* that fails is only logged.                                               *)
WriteRecord(p) ==
  /\ pc[p] = "record" /\ Goto(p, "listen")
  /\ record' \in {p, record}
  /\ waited' = [waited EXCEPT ![p] = 0]
  /\ UNCHANGED <<path, stale, Down, settled>>

(* A bind fails on any existing path, a dead socket too.                    *)
Bind(p, otherwise) ==
  /\ IF path = Free
     THEN /\ path' = p /\ Goto(p, "bound")
          /\ stale' = [stale EXCEPT ![p] = FALSE] /\ waited' = [waited EXCEPT ![p] = 0]
     ELSE /\ Goto(p, otherwise) /\ UNCHANGED <<path, stale, waited>>
  /\ UNCHANGED <<record, Down, settled>>

Listen(p) == pc[p] = "listen" /\ Bind(p, "ping")

Answers == path \in Procs /\ pc[path] = "serve"
Mute == path \in Procs /\ pc[path] \in {"bound", "close"}

(* A ping of a socket that is bound and not yet served waits in the         *)
(* kernel's queue until it is.                                              *)
PingAnswered(p) ==
  /\ pc[p] = "ping" /\ Answers /\ Goto(p, "leave")
  /\ UNCHANGED <<path, record, stale, waited, Down, settled>>

MayUnlinkAtOnce(p) == TRUE
MayUnlinkIfStale(p) == stale[p] /\ waited[p] >= Delay
MayUnlink(p) == waited[p] >= Grace \/ (stale[p] /\ waited[p] >= Delay)

PingFailsUnasked(p) ==
  /\ pc[p] = "ping" /\ ~Mute
  /\ Goto(p, IF MayUnlink(p) THEN "unlink" ELSE "sleep")
  /\ UNCHANGED <<path, record, stale, waited, Down, settled>>
PingFails(p) ==
  /\ pc[p] = "ping" /\ ~Answers /\ ~Mute
  /\ Goto(p, IF MayUnlink(p) THEN "unlink" ELSE "sleep")
  /\ UNCHANGED <<path, record, stale, waited, Down, settled>>

Unlink(p) ==
  /\ pc[p] = "unlink" /\ path' = Free /\ Goto(p, "relisten")
  /\ settled' = settled \ {path}
  /\ UNCHANGED <<record, stale, waited, Down>>

Relisten(p) == pc[p] = "relisten" /\ Bind(p, "sleep")

(* The chmod of the socket fails when somebody has unlinked it.             *)
Serve(p) ==
  /\ pc[p] = "bound" /\ Goto(p, IF path = Free THEN "close" ELSE "serve")
  /\ UNCHANGED <<path, record, stale, waited, Down, settled>>

(* The deferred Close of a listener unlinks the path, whoever it leads to.  *)
CloseListener(p) ==
  /\ pc[p] = "close" /\ path' = Free /\ Goto(p, "leave")
  /\ settled' = settled \ {path}
  /\ UNCHANGED <<record, stale, waited, Down>>

Unrecord(p) == record' = IF record = p THEN Free ELSE record

(* Run returns an error: the deferred removal of the record, and the exit.  *)
Leave(p) ==
  /\ pc[p] = "leave" /\ Unrecord(p) /\ Ends(p)
  /\ UNCHANGED <<faults>>

(* The sleeping boots wake.  A daemon that serves the path when a round     *)
(* ends has settled.                                                        *)
Tick ==
  /\ \E p \in Procs : pc[p] = "sleep"
  /\ \A p \in Procs : pc[p] \notin Booting
  /\ pc' = [p \in Procs |-> IF pc[p] = "sleep" THEN "listen" ELSE pc[p]]
  /\ waited' = [p \in Procs |-> IF pc[p] = "sleep" /\ waited[p] < Grace
                                THEN waited[p] + 1 ELSE waited[p]]
  /\ settled' = IF Answers THEN settled \cup {path} ELSE settled
  /\ UNCHANGED <<path, record, stale, Down>>

-----------------------------------------------------------------------------
(* The ends of a daemon that serves.                                        *)

FreePath == path' = Free /\ settled' = settled \ {path}

(* SIGTERM: the socket goes first, then the record, then the apps are       *)
(* stopped, which takes as long as it takes, then the exit.                 *)
Signal(p) ==
  /\ pc[p] = "serve" /\ term[p] = "idle"
  /\ FreePath /\ term' = [term EXCEPT ![p] = "unrecord"]
  /\ UNCHANGED <<record, pc, stale, waited, kill, faults>>

TermUnrecords(p) ==
  /\ pc[p] = "serve" /\ term[p] = "unrecord"
  /\ Unrecord(p) /\ term' = [term EXCEPT ![p] = "stopall"]
  /\ UNCHANGED <<path, pc, stale, waited, kill, faults, settled>>

TermExits(p) ==
  /\ pc[p] = "serve" /\ term[p] = "stopall" /\ Ends(p)
  /\ UNCHANGED <<record, faults>>

(* KillDaemon: the apps first (unless forced), at whatever length, while    *)
(* requests are served; then the socket, the record and the exit.           *)
KillCall(p) ==
  /\ pc[p] = "serve" /\ kill[p] = "idle"
  /\ kill' = [kill EXCEPT ![p] = "stopall"]
  /\ UNCHANGED <<path, record, pc, stale, waited, term, faults, settled>>

KillUnlinks(p) ==
  /\ pc[p] = "serve" /\ kill[p] = "stopall"
  /\ FreePath /\ kill' = [kill EXCEPT ![p] = "unrecord"]
  /\ UNCHANGED <<record, pc, stale, waited, term, faults>>

KillExits(p) ==
  /\ pc[p] = "serve" /\ kill[p] = "unrecord"
  /\ Unrecord(p) /\ Ends(p) /\ UNCHANGED faults

(* An unclean death, at any point.                                          *)
Crash(p) ==
  /\ pc[p] \notin {"off", "dead"} /\ faults < MaxFaults
  /\ Ends(p) /\ faults' = faults + 1 /\ UNCHANGED record

(* UpdateDaemon: the new image is the same process, without its listener    *)
(* (the socket file stays) and without its goroutines.                      *)
Update(p) ==
  /\ pc[p] = "serve" /\ faults < MaxFaults
  /\ Goto(p, "judge") /\ faults' = faults + 1
  /\ term' = [term EXCEPT ![p] = "idle"] /\ kill' = [kill EXCEPT ![p] = "idle"]
  /\ path' = IF path = p THEN Stale ELSE path
  /\ settled' = settled \ {p}
  /\ UNCHANGED <<record, stale, waited>>

-----------------------------------------------------------------------------
Boot(p) ==
  \/ Judge(p) \/ WriteRecord(p) \/ Listen(p)
  \/ PingAnswered(p) \/ PingFails(p) \/ Unlink(p) \/ Relisten(p)
  \/ Serve(p) \/ CloseListener(p) \/ Leave(p)

Shutdown(p) ==
  \/ TermUnrecords(p) \/ TermExits(p) \/ KillUnlinks(p) \/ KillExits(p)

Step(p) ==
  \/ Start(p) \/ Boot(p) \/ Shutdown(p)
  \/ Signal(p) \/ KillCall(p) \/ Crash(p) \/ Update(p)

Next == Tick \/ \E p \in Procs : Step(p)

Spec == Init /\ [][Next]_vars

(* The scheduler runs every goroutine, and time passes.                     *)
FairSpec ==
  /\ Spec /\ WF_vars(Tick)
  /\ \A p \in Procs : WF_vars(Boot(p)) /\ WF_vars(Shutdown(p))

-----------------------------------------------------------------------------
GoingDown(p) == term[p] # "idle" \/ kill[p] # "idle"
Owners == {p \in Procs : pc[p] \in {"bound", "serve"} /\ ~GoingDown(p)}

(* Without an unclean death or a re-exec, and with no daemon told to end    *)
(* twice over (by a signal and by a call: the second unlinks a successor's  *)
(* socket), boots that race each other and daemons that are shut down leave *)
(* one owner: nobody is stranded (daemon.go:225-229).  That is so for at    *)
(* most Grace + 2 processes: with one more, a boot can meet another daemon  *)
(* that comes and goes in every round of its grace, and unlink a live one.  *)
CleanSingle ==
  faults = 0 /\ (\A p \in Procs : term[p] = "idle" \/ kill[p] = "idle")
    => \A p, q \in Owners : p = q

(* A daemon that has served a round keeps its path until it ends, re-execs  *)
(* or unlinks it itself; what can take it away is only the shutdown of      *)
(* another daemon, which unlinks the path without looking.                  *)
SettledKept ==
  [][\A q \in settled :
       \/ q \in settled' \/ pc'[q] # "serve"
       \/ \E p \in Procs : term'[p] = "unrecord" /\ term[p] = "idle"
       \/ \E p \in Procs : kill'[p] = "unrecord" /\ kill[p] = "stopall"]_vars

(* A boot that finds a path nobody answers on does not poll for ever: it    *)
(* serves, is refused, or dies.                                             *)
BootEnds == \A p \in Procs : pc[p] = "judge" ~> pc[p] \in {"serve", "dead"}

(* No live socket is ever unlinked by a boot (daemon.go:228-229).           *)
LiveSocketKept ==
  [][\A p, q \in Procs :
       pc[p] = "unlink" /\ pc'[p] = "relisten" => ~(path = q /\ pc[q] = "serve")]_vars
=============================================================================
