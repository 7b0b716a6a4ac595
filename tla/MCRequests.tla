----------------------------- MODULE MCRequests -----------------------------
(* What a command asks for, side by side in one run: the schedule of an     *)
(* app (Cron), its options (Options), and the apps a selector reaches       *)
(* (Fanout).  The three share no state: a behaviour is one of Cron, of      *)
(* Options or of Fanout, and the other two rest.                            *)
EXTENDS MCCron, OptionInputs, FanoutInputs, Sequences

CONSTANTS
  Requests, Defaults, MaxStarts, MaxConfigId, WireRange,
  Registries, Commands, Numbers, StartNames, MaxId, MaxOthers, IdRange

VARIABLES
  configs, configID, starts,
  apps, nextID, serial, cmd, stage, rpcs, result, others, asked, served, twice

optionVars == <<configs, configID, starts>>
fanoutVars ==
  <<apps, nextID, serial, cmd, stage, rpcs, result, others, asked, served, twice>>

O == INSTANCE Options WITH apps <- configs, nextID <- configID,
                           MaxId <- MaxConfigId, IdRange <- WireRange
F == INSTANCE Fanout WITH phase <- stage

(* Fanout's: registries are numbered from 0, a pm_id is an int32, and       *)
(* --parallel is 1 at least (commands.go:302).                              *)
ASSUME FanoutAssumption ==
  /\ MaxId \in Nat /\ MaxOthers \in Nat
  /\ IdRange \in Nat /\ MaxId < IdRange \div 2
  /\ \A reg \in Registries : \E k \in 0 .. MaxId + 1 : DOMAIN reg = 0 .. k - 1
  /\ \A c \in Commands :
       /\ c.n \in Nat /\ c.n >= 1
       /\ c.targets \in Seq([kind : {"all", "id", "name"}, id : Nat, name : Seq(STRING)])

(* Options': the defaults of config.Default fit the wire, and are 0 where a *)
(* 0 is not lifted.                                                         *)
ASSUME OptionsAssumption ==
  /\ MaxConfigId \in Nat /\ WireRange \in Nat /\ WireRange >= 2
  /\ {"instances", "log_rotate_max_bytes"} \subseteq DOMAIN Defaults
  /\ \A f \in DOMAIN Defaults :
       /\ Defaults[f] \in Nat
       /\ f \in O!Int32Fields => Defaults[f] < WireRange \div 2
       /\ f \notin O!Lifted \cup {"log_rotate_max_bytes"} => Defaults[f] = 0
  /\ \A r \in Requests :
       /\ r.via \in {"file", "flags"} /\ r.merge \in BOOLEAN
       /\ \A f \in DOMAIN r.opts : r.opts[f] \in Int

CronRests ==
  /\ phase = "rest" /\ spec = NoSchedule /\ sched = NoSchedule
  /\ after = NoSchedule /\ t = NoSchedule
FanoutRests ==
  /\ apps = <<>> /\ nextID = 0 /\ serial = 0 /\ cmd = NoSchedule /\ stage = "rest"
  /\ rpcs = <<>> /\ result = NoSchedule /\ others = MaxOthers
  /\ asked = {} /\ served = {} /\ twice = FALSE

RequestsInit ==
  \/ Init /\ O!Init /\ FanoutRests
  \/ CronRests /\ O!Init /\ FanoutRests
  \/ CronRests /\ O!Init /\ F!Init

RequestsNext ==
  \/ phase # "rest" /\ Next /\ UNCHANGED <<optionVars, fanoutVars>>
  \/ phase = "rest" /\ stage = "rest" /\ O!Next /\ UNCHANGED <<vars, fanoutVars>>
  \/ stage # "rest" /\ F!Next /\ UNCHANGED <<vars, optionVars>>

RequestsSpec == RequestsInit /\ [][RequestsNext]_<<vars, optionVars, fanoutVars>>

(* Options' property: an instance keeps every option it was asked to have,  *)
(* or the default, through the file, the wire and the registry.             *)
OptionsKept == O!OptionsKept

(* Fanout's: a command that reports success has reached every app its       *)
(* selector named.                                                          *)
SuccessCovers == F!SuccessCovers

(* Fanout's: what a command reports is what its requests did.               *)
ReportHonest == F!ReportHonest
=============================================================================
