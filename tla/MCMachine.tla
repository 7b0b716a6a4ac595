------------------------------ MODULE MCMachine ------------------------------
(* Instances of Machine for TLC: the configurations that tell the restart   *)
(* policy's branches apart.                                                 *)
EXTENDS Machine, TLC

CONSTANTS t1, t2, c1, c2

Base == [autorestart |-> TRUE, waitReady |-> FALSE, ipcHandoff |-> FALSE,
         minUptime |-> 1, maxRestarts |-> 2, restartDelay |-> 0, expBackoff |-> 0]

(* Immediate restarts, fixed delay with the ready gate, a min_uptime below  *)
(* one second (no window floor), and autorestart off.                       *)
PolicyConfigs ==
  {Base,
   [Base EXCEPT !.minUptime = 2, !.maxRestarts = 2, !.restartDelay = 1, !.waitReady = TRUE],
   [Base EXCEPT !.autorestart = FALSE, !.ipcHandoff = TRUE],
   [Base EXCEPT !.maxRestarts = 3, !.expBackoff = 2]}

(* A cluster worker behind the ready gate, restarted after a delay.          *)
CallConfigs ==
  {[Base EXCEPT !.ipcHandoff = TRUE, !.waitReady = TRUE, !.restartDelay = 1]}

AllCommands == [c \in Callers |-> Commands]

(* One caller wants the app up, the other retires it.                       *)
Rivals == [c \in Callers |-> IF c = c1 THEN {"start", "restart"}
                            ELSE {"stop", "deleteGraceful"}]

TreeSymmetry == Permutations(Trees)
===============================================================================
