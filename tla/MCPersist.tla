------------------------------ MODULE MCPersist ------------------------------
(* Persist for TLC, and for proofs that have Control beside it: with names  *)
(* of its own for what both modules have.                                   *)

EXTENDS Integers

CONSTANTS
  Savers, Adopter, Nobody, Names, NoName, MaxFaults, DumpMaxId, Failing

ASSUME DumpAssumption ==
  DumpMaxId \in Nat /\ MaxFaults \in Nat /\ NoName \notin Names

VARIABLES
  papps, pnextID, ptrees, pop, pat, ptodo,
  up, tmp, file, disk, saving, faults, acked, rival, loose, adopted, cut

P == INSTANCE Persist WITH
  apps <- papps, nextID <- pnextID, trees <- ptrees, op <- pop, at <- pat,
  todo <- ptodo, Callers <- Savers, MaxId <- DumpMaxId

PersistSpec == P!Spec

(* Persist's property: a power cut leaves a whole dump, and the one that    *)
(* was acknowledged.                                                        *)
AckedDurable == P!AckedDurable

(* Persist's: once the dump was gone through, every tree it names is run by *)
(* an app, but those whose kill or adoption failed.                         *)
SavedAdopted == P!SavedAdopted

(* Persist's: no app is launched beside a tree of its own, but one whose    *)
(* kill or adoption failed.                                                 *)
NeverTwice == P!NeverTwice
=============================================================================
