---------------------------- MODULE LogTailBounds ----------------------------
EXTENDS Integers

CONSTANTS
  RotateMax,     \* size at which a sink is rotated; 0: never
  Retain,        \* archives kept
  MaxBatch,      \* bytes of one read (64 MiB)
  MaxLine,       \* bytes of a line the ring keeps (MaxLineBytes)
  MaxOut,        \* bound: bytes the app writes
  MaxFaults      \* bound: flushes and failed copies and reads

ASSUME TailAssumption ==
  /\ RotateMax \in Nat /\ Retain \in Nat \ {0} /\ MaxBatch \in Nat /\ MaxLine \in Nat
  /\ MaxLine < MaxBatch /\ MaxOut \in Nat /\ MaxFaults \in Nat
=============================================================================
