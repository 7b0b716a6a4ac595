------------------------------ MODULE MCControl ------------------------------
EXTENDS Control, TLC

CallerSymmetry == Permutations(Callers)

(* A dump with the first pm_id and the last one.                            *)
EndsOnly == {{0, MaxId}}
=============================================================================
