---------------------------- MODULE OptionInputs ----------------------------
(* Each option alone, at the values where its conversions change.           *)
EXTENDS Integers

OptionDefaults ==
  [max_restarts |-> 16, min_uptime |-> 10, kill_timeout |-> 17,
   listen_timeout |-> 30, restart_delay |-> 0, exp_backoff_restart_delay |-> 0,
   max_memory_restart |-> 0, instances |-> 1, log_rotate_max_bytes |-> 100,
   log_rotate_retain |-> 31, health_check_interval |-> 33, health_check_retries |-> 3]

Js == [ext |-> "js", shebang |-> FALSE]
Env == [ext |-> "js", shebang |-> TRUE]
Ts == [ext |-> "ts", shebang |-> FALSE]
Py == [ext |-> "py", shebang |-> FALSE]
Elf == [ext |-> "bin", shebang |-> FALSE]

Request(via, script, mode, out, merge, env, opts) ==
  [via |-> via, name |-> "web", script |-> script, interpreter |-> "", mode |-> mode,
   out |-> out, merge |-> merge, env |-> env, opts |-> opts]

Values == {-1, 0, 1, 63, 64, 128}
OneOption ==
  {[f \in {g} |-> v] : g \in DOMAIN OptionDefaults \ {"instances"}, v \in Values}
Instances == {[f \in {"instances"} |-> v] : v \in {0, 1, 2}}

Vias == {"file", "flags"}
OptionRequests ==
  {Request(via, Py, "", <<>>, FALSE, "none", o) : via \in Vias, o \in OneOption}
  \cup {Request(via, s, m, <<>>, FALSE, "none", o) :
          via \in Vias, s \in {Js, Env, Ts, Elf}, m \in {"", "cluster"}, o \in Instances}
  \cup {Request(via, Js, "", out, merge, env, o) :
          via \in Vias, out \in {<<>>, <<"mine">>}, merge \in BOOLEAN,
          env \in {"none", "prod"}, o \in Instances}
=============================================================================
