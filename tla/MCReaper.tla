------------------------------- MODULE MCReaper -------------------------------
(* Instances of Reaper for TLC.                                             *)
EXTENDS Reaper
CONSTANTS l1, l2, o1, o2
===============================================================================
