---------------------------- MODULE KillPathBounds ----------------------------
(* The parameters of KillPath.                                              *)
EXTENDS Integers

CONSTANTS
  MaxProcs,   \* bound: processes the tree ever has
  Modes       \* kill modes of the hosts considered

ASSUME KillPathAssumption ==
  /\ MaxProcs \in Nat \ {0}
  /\ Modes \subseteq {"cgroup-kill", "cgroup-freeze", "pgid"}
===============================================================================
