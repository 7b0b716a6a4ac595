------------------------------- MODULE Options -------------------------------
(***************************************************************************)
(* What becomes of an app's options: from an ecosystem file or the flags   *)
(* of `pm0 start` (cmd/pm0, config) over the wire to the registered config *)
(* (daemon/convert.go), through scaling (control.go) and through the dump  *)
(* of a daemon that restarts (store.go).                                   *)
(*                                                                         *)
(* Numbers have the ranges of their types; strings are opaque.  Names and  *)
(* sinks are sequences: <<"web", 0>> is web-0, <<"web", "out">> its log.   *)
(***************************************************************************)
EXTENDS Integers, FiniteSets, Sequences

CONSTANTS
  Requests,   \* [via, name, script, interpreter, mode, out, merge, env, opts]
  Defaults,   \* config.Default: its options and their values
  MaxId,      \* bound: pm_ids 0 .. MaxId
  MaxStarts,  \* bound: requests that start apps
  IdRange     \* how many values an int32 has

Ids == 0 .. MaxId
Fields == DOMAIN Defaults

Int32Fields ==
  {"kill_timeout", "listen_timeout", "max_restarts", "instances",
   "log_rotate_retain", "health_check_retries"}
(* Durations and sizes: a file's may not be negative.                       *)
NonNegative == Fields \ {"max_restarts", "instances", "log_rotate_retain",
                         "health_check_retries"}
(* Zero stands for the default.                                             *)
Lifted ==
  {"max_restarts", "min_uptime", "kill_timeout", "listen_timeout", "instances",
   "log_rotate_retain", "health_check_interval", "health_check_retries"}
LiftedOnLoad ==
  {"log_rotate_retain", "health_check_interval", "health_check_retries"}

Int32(n) ==
  LET m == n % IdRange IN IF m < IdRange \div 2 THEN m ELSE m - IdRange
Narrow(f, v) == IF f \in Int32Fields THEN Int32(v) ELSE v
Lift(f, v) == IF f \in Lifted /\ v <= 0 THEN Defaults[f] ELSE v

(* log_rotate_max_bytes: in memory 0 is off; on the wire and in the dump 0  *)
(* is the default and -1 is off.                                            *)
WireRotateMaxSame(v) == v
WireRotateMax(v) == IF v = 0 THEN -1 ELSE v
MemRotateMax(v) ==
  IF v = 0 THEN Defaults["log_rotate_max_bytes"] ELSE IF v < 0 THEN 0 ELSE v

-----------------------------------------------------------------------------
(* From the request to the config.                                          *)

ParseOk(r) == \A f \in DOMAIN r.opts \cap NonNegative : r.opts[f] >= 0

(* A file's options stand on the defaults, absent flags are zeros.          *)
FileOptions(r) ==
  [f \in Fields |-> IF f \in DOMAIN r.opts THEN r.opts[f] ELSE Defaults[f]]
SpecFromFile(r) ==
  [f \in Fields |->
     LET v == FileOptions(r)[f]
     IN  IF f = "log_rotate_max_bytes" THEN WireRotateMax(v)
         ELSE IF f = "log_rotate_retain" /\ v <= 0 THEN 0 ELSE Narrow(f, v)]
SpecFromFlags(r) ==
  [f \in Fields |->
     LET v == IF f \in DOMAIN r.opts THEN r.opts[f] ELSE 0
     IN  IF f \in {"log_rotate_retain", "restart_delay"} /\ v <= 0 THEN 0
         ELSE Narrow(f, v)]

SpecToConfig(spec) ==
  [f \in Fields |->
     IF f = "log_rotate_max_bytes" THEN MemRotateMax(spec[f]) ELSE Lift(f, spec[f])]

OptionsOf(r) ==
  SpecToConfig(IF r.via = "file" THEN SpecFromFile(r) ELSE SpecFromFlags(r))

(* -i with what looks like a node script means cluster mode.                *)
LooksLikeNode(r) ==
  \/ r.interpreter = "node"
  \/ r.interpreter = "" /\ r.script.ext \in {"js", "ts"}
ModeOf(r) ==
  IF r.mode # "" THEN r.mode
  ELSE IF r.via = "flags" /\ "instances" \in DOMAIN r.opts /\ LooksLikeNode(r)
       THEN "cluster" ELSE "fork"

(* The interpreter given; else a shebang means none, else by extension.     *)
ResolveInterpreter(r) ==
  IF r.interpreter # "" THEN r.interpreter
  ELSE IF r.script.shebang THEN "none"
  ELSE IF r.script.ext = "js" THEN "node"
  ELSE IF r.script.ext = "py" THEN "python3" ELSE "none"

(* Only node apps are clustered.                                            *)
ExecOk(r) == ModeOf(r) = "cluster" => ResolveInterpreter(r) = "node"

-----------------------------------------------------------------------------
(* Sinks.                                                                   *)

LogPath(a, stream) ==
  IF a.mode = "cluster" THEN a.name \o <<stream, a.instance>>
  ELSE Append(a.name, stream)

(* Only what is missing is filled in, under the pm_id.                      *)
FillPaths(a, id) ==
  LET out == IF a.out = <<>> THEN LogPath(a, "out") ELSE a.out
      err == IF a.merge /\ a.out = <<>> THEN out
             ELSE IF a.err = <<>> THEN LogPath(a, "error") ELSE a.err
  IN  [a EXCEPT !.out = out, !.err = err,
                !.pid = IF @ = <<>> THEN a.name \o <<"pid", id>> ELSE @]

(* An explicit out log is the error log too, when they are merged.          *)
Config(r) ==
  [name |-> <<r.name>>, instance |-> 0, mode |-> ModeOf(r), merge |-> r.merge,
   out |-> r.out, err |-> IF r.merge THEN r.out ELSE <<>>, pid |-> <<>>,
   env |-> r.env, opts |-> OptionsOf(r), from |-> r]

(* Instance i: a cluster shares the name, a fork family numbers it.         *)
Instance(a, base, i) ==
  IF a.mode = "cluster" THEN [a EXCEPT !.instance = i]
  ELSE [a EXCEPT !.name = Append(base, i)]

Expand(r) ==
  LET a == Config(r)
      n == a.opts["instances"]
  IN  IF n = 1 THEN <<a>> ELSE [k \in 1 .. n |-> Instance(a, a.name, k - 1)]

-----------------------------------------------------------------------------
VARIABLES
  apps,    \* the registered configs, by pm_id
  nextID,
  starts   \* requests served that started apps

vars == <<apps, nextID, starts>>

Init == apps = <<>> /\ nextID = 0 /\ starts = 0

StartApps(configs) ==
  LET n == Len(configs)
      block == nextID .. nextID + n - 1
  IN  /\ block \subseteq Ids /\ nextID' = nextID + n
      /\ apps' = [id \in DOMAIN apps \cup block |->
                    IF id \in block THEN FillPaths(configs[id - nextID + 1], id)
                    ELSE apps[id]]

Names == {apps[id].name : id \in DOMAIN apps}
InFamily(id, name) ==
  \/ apps[id].name = name
  \/ Len(apps[id].name) = Len(name) + 1 /\ SubSeq(apps[id].name, 1, Len(name)) = name
Family(name) == {id \in DOMAIN apps : InFamily(id, name)}

Start(r) ==
  /\ r.via = "file" => ParseOk(r) /\ <<r.name>> \notin Names
  /\ starts < MaxStarts /\ starts' = starts + 1
  /\ ExecOk(r) /\ StartApps(Expand(r))

(* A name that is there is restarted, with the file's environment, if any,  *)
(* and no other option of the file.                                         *)
RestartExisting(r) ==
  /\ r.via = "file" /\ ParseOk(r) /\ <<r.name>> \in Names /\ r.env # "none"
  /\ apps' = [id \in DOMAIN apps |->
                IF id \in Family(<<r.name>>) THEN [apps[id] EXCEPT !.env = r.env]
                ELSE apps[id]]
  /\ UNCHANGED <<nextID, starts>>

Lowest(S) == CHOOSE x \in S : \A y \in S : x <= y
Highest(S) == CHOOSE x \in S : \A y \in S : x >= y

(* One more instance: a clone of the first one's config, its sinks too.     *)
Index(a, name) ==
  IF a.mode = "cluster" THEN a.instance
  ELSE IF Len(a.name) > Len(name) THEN a.name[Len(a.name)] ELSE -1
ScaleUp(name) ==
  LET family == Family(name)
      base == apps[Lowest(family)]
      i == Highest({Index(apps[id], name) : id \in family}) + 1
  IN  family # {} /\ StartApps(<<Instance(base, name, i)>>) /\ UNCHANGED starts

Remove(id) ==
  /\ apps' = [j \in DOMAIN apps \ {id} |-> apps[j]]
  /\ nextID' = IF DOMAIN apps = {id} THEN 0 ELSE nextID
  /\ UNCHANGED starts

ScaleDown(name) ==
  Cardinality(Family(name)) > 1 /\ Remove(Highest(Family(name)))

Delete(id) == id \in DOMAIN apps /\ Remove(id)

(* The dump and back.                                                       *)
AppToRecord(a) ==
  [a EXCEPT !.opts["log_rotate_max_bytes"] = WireRotateMax(@)]
RecordToApp(a) ==
  [a EXCEPT !.opts =
     [f \in Fields |->
        IF f = "log_rotate_max_bytes" THEN MemRotateMax(a.opts[f])
        ELSE IF f \in LiftedOnLoad THEN Lift(f, a.opts[f]) ELSE a.opts[f]]]

Resurrect ==
  /\ DOMAIN apps # {}
  /\ apps' = [id \in DOMAIN apps |-> RecordToApp(AppToRecord(apps[id]))]
  /\ nextID' = Highest(DOMAIN apps) + 1 /\ UNCHANGED starts

Next ==
  \/ \E r \in Requests : Start(r) \/ RestartExisting(r)
  \/ \E name \in {<<r.name>> : r \in Requests} : ScaleUp(name) \/ ScaleDown(name)
  \/ \E id \in Ids : Delete(id)
  \/ Resurrect

Spec == Init /\ [][Next]_vars

-----------------------------------------------------------------------------
Off(r) == IF r.via = "file" THEN 0 ELSE -1
Fits(f, v) == v > 0 /\ (f \in Int32Fields => v < IdRange \div 2)

(* An option runs as it was given, through the wire, scaling, restarts from *)
(* a file and the dump; one not given has its default; rotation that was    *)
(* turned off stays off (convert.go:27-132, store.go:278-417).  Zeros of    *)
(* lifted options and numbers too large for the wire are not promised.      *)
OptionsKept ==
  \A id \in DOMAIN apps :
     LET a == apps[id]
     IN  /\ \A f \in Fields :
              /\ f \notin DOMAIN a.from.opts => a.opts[f] = Defaults[f]
              /\ f \in DOMAIN a.from.opts /\ Fits(f, a.from.opts[f]) =>
                   a.opts[f] = a.from.opts[f]
         /\ "log_rotate_max_bytes" \in DOMAIN a.from.opts =>
              (a.from.opts["log_rotate_max_bytes"] = Off(a.from) =>
                 a.opts["log_rotate_max_bytes"] = 0)
         /\ a.merge => a.err = a.out

(* store.go:112-116: "each instance of a same-named cluster group owns its  *)
(* log files" and "The pid file stays pm_id-keyed".                         *)
SinksApart ==
  \A i, j \in DOMAIN apps :
     i # j => /\ apps[i].pid # apps[j].pid
              /\ apps[i].mode = "cluster" /\ apps[i].from.out = <<>> =>
                   apps[i].out # apps[j].out
=============================================================================
