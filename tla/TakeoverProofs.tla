--------------------------- MODULE TakeoverProofs ---------------------------
(***************************************************************************)
(* Proofs about Takeover, for every number of processes, every delay and   *)
(* grace and every number of crashes: what a settled daemon can rely on,   *)
(* and that runs without crashes leave one owner of the socket.            *)
(***************************************************************************)
EXTENDS Takeover, FiniteSetTheorems, TLAPS

(* While a daemon is settled the path leads to it, it serves, and no boot   *)
(* or closing listener is about to unlink the path.                         *)
SettledSafe ==
  \A q \in settled :
     /\ path = q /\ pc[q] = "serve"
     /\ \A p \in Procs : pc[p] \notin {"unlink", "close"}

IInv == TypeOK /\ SettledSafe

-----------------------------------------------------------------------------
LEMMA EndsType ==
  ASSUME TypeOK, NEW p \in Procs, Ends(p)
  PROVE  /\ path' \in Procs \cup {Free, Stale}
         /\ pc' \in [Procs -> Booting \cup {"off", "sleep", "serve", "dead"}]
         /\ stale' \in [Procs -> BOOLEAN] /\ waited' \in [Procs -> 0 .. Grace]
         /\ term' = term /\ kill' = kill /\ settled' \in SUBSET Procs
<1>1. 0 \in 0 .. Grace
  BY DelayAssumption
<1> QED
  BY <1>1 DEF Ends, Goto, TypeOK

(* A daemon that ends takes only itself out of the settled ones.            *)
LEMMA EndsSafe ==
  ASSUME IInv, NEW p \in Procs, Ends(p)
  PROVE  SettledSafe'
BY DEF Ends, Goto, IInv, TypeOK, SettledSafe, Booting

LEMMA BindType ==
  ASSUME TypeOK, NEW p \in Procs, NEW l \in {"ping", "sleep"}, Bind(p, l)
  PROVE  TypeOK'
<1>1. 0 \in 0 .. Grace
  BY DelayAssumption
<1> QED
  BY <1>1 DEF Bind, Goto, TypeOK, Booting, Down

(* Where a path can be bound there is no settled daemon.                    *)
LEMMA BindSafe ==
  ASSUME IInv, NEW p \in Procs, NEW l \in {"ping", "sleep"}, Bind(p, l),
         pc[p] \in {"listen", "relisten"}
  PROVE  SettledSafe'
<1>1. Free \notin Procs
  BY NAssumption DEF Free, Procs
<1> QED
  BY <1>1 DEF Bind, Goto, IInv, TypeOK, SettledSafe, Down

-----------------------------------------------------------------------------
LEMMA InitIInv == Init => IInv
<1>1. 0 \in 0 .. Grace /\ 0 \in 0 .. MaxFaults
  BY DelayAssumption, FaultsAssumption
<1> QED
  BY <1>1 DEF Init, IInv, TypeOK, SettledSafe, Booting

LEMMA BootType ==
  ASSUME TypeOK, NEW p \in Procs, Boot(p)
  PROVE  TypeOK'
<1> USE DEF TypeOK, Goto, Down, Booting
<1>1. CASE Judge(p)
  BY <1>1, Zenon DEF Judge, OwnerDead
<1>2. CASE WriteRecord(p)
  <2>1. 0 \in 0 .. Grace
    BY DelayAssumption
  <2> QED
    BY <1>2, <2>1 DEF WriteRecord
<1>3. CASE Listen(p)
  BY <1>3, BindType DEF Listen
<1>4. CASE PingAnswered(p)
  BY <1>4 DEF PingAnswered
<1>5. CASE PingFails(p)
  BY <1>5 DEF PingFails
<1>6. CASE Unlink(p)
  BY <1>6 DEF Unlink
<1>7. CASE Relisten(p)
  BY <1>7, BindType DEF Relisten
<1>8. CASE Serve(p)
  BY <1>8 DEF Serve
<1>9. CASE CloseListener(p)
  BY <1>9 DEF CloseListener
<1>10. CASE Leave(p)
  BY <1>10, EndsType DEF Leave, Unrecord
<1> QED
  BY <1>1, <1>2, <1>3, <1>4, <1>5, <1>6, <1>7, <1>8, <1>9, <1>10 DEF Boot

LEMMA BootSafe ==
  ASSUME IInv, NEW p \in Procs, Boot(p)
  PROVE  SettledSafe'
<1> USE DEF IInv, TypeOK, SettledSafe, Goto, Down
<1>0. Free \notin Procs
  BY NAssumption DEF Free, Procs
<1>1. CASE Judge(p)
  BY <1>1 DEF Judge
<1>2. CASE WriteRecord(p)
  BY <1>2 DEF WriteRecord
<1>3. CASE Listen(p)
  BY <1>3, BindSafe DEF Listen
<1>4. CASE PingAnswered(p)
  BY <1>4 DEF PingAnswered
<1>5. CASE PingFails(p)
  <2>1. settled = {}
    BY <1>5 DEF PingFails, Answers
  <2> QED
    BY <2>1, <1>5 DEF PingFails
<1>6. CASE Unlink(p)
  BY <1>6 DEF Unlink
<1>7. CASE Relisten(p)
  BY <1>7, BindSafe DEF Relisten
<1>8. CASE Serve(p)
  BY <1>0, <1>8 DEF Serve
<1>9. CASE CloseListener(p)
  BY <1>9 DEF CloseListener
<1>10. CASE Leave(p)
  BY <1>10, EndsSafe DEF Leave
<1> QED
  BY <1>1, <1>2, <1>3, <1>4, <1>5, <1>6, <1>7, <1>8, <1>9, <1>10 DEF Boot

(* Whoever ends, re-executes, or frees the path leaves nobody settled that  *)
(* the path does not lead to.                                               *)
LEMMA OtherSteps ==
  ASSUME IInv, NEW p \in Procs,
         Start(p) \/ Shutdown(p) \/ Signal(p) \/ KillCall(p) \/ Crash(p) \/ Update(p)
  PROVE  IInv'
<1>1. CASE Start(p)
  BY <1>1 DEF Start, Goto, Down, IInv, TypeOK, SettledSafe, Booting
<1>2. CASE TermUnrecords(p)
  BY <1>2 DEF TermUnrecords, Unrecord, IInv, TypeOK, SettledSafe
<1>3. CASE TermExits(p)
  BY <1>3, EndsType, EndsSafe DEF TermExits, IInv, TypeOK
<1>4. CASE KillUnlinks(p)
  BY <1>4 DEF KillUnlinks, FreePath, IInv, TypeOK, SettledSafe
<1>5. CASE KillExits(p)
  BY <1>5, EndsType, EndsSafe DEF KillExits, Unrecord, IInv, TypeOK
<1>6. CASE Signal(p)
  BY <1>6 DEF Signal, FreePath, IInv, TypeOK, SettledSafe
<1>7. CASE KillCall(p)
  BY <1>7 DEF KillCall, IInv, TypeOK, SettledSafe
<1>8. CASE Crash(p)
  <2>1. faults' \in 0 .. MaxFaults
    BY <1>8, FaultsAssumption DEF Crash, IInv, TypeOK
  <2> QED
    BY <2>1, <1>8, EndsType, EndsSafe DEF Crash, IInv, TypeOK
<1>9. CASE Update(p)
  <2>1. faults' \in 0 .. MaxFaults
    BY <1>9, FaultsAssumption DEF Update, IInv, TypeOK
  <2>2. TypeOK'
    BY <2>1, <1>9 DEF Update, Goto, IInv, TypeOK, Booting
  <2>3. SettledSafe'
    BY <1>9 DEF Update, Goto, IInv, TypeOK, SettledSafe
  <2> QED
    BY <2>2, <2>3 DEF IInv
<1> QED
  BY <1>1, <1>2, <1>3, <1>4, <1>5, <1>6, <1>7, <1>8, <1>9 DEF Shutdown

(* A round ends when no boot is between two sleeps: that is what makes a    *)
(* daemon that serves then safe from every verdict taken before.            *)
LEMMA TickKeeps ==
  ASSUME IInv, Tick
  PROVE  IInv'
<1>1. TypeOK'
  <2>1. waited' \in [Procs -> 0 .. Grace]
    BY DelayAssumption DEF Tick, IInv, TypeOK
  <2>2. pc' \in [Procs -> Booting \cup {"off", "sleep", "serve", "dead"}]
    BY DEF Tick, IInv, TypeOK, Booting
  <2>3. settled' \in SUBSET Procs
    BY DEF Tick, Answers, IInv, TypeOK
  <2> QED
    BY <2>1, <2>2, <2>3 DEF Tick, Down, IInv, TypeOK
<1>2. SettledSafe'
  <2>1. \A q \in settled' : path = q /\ pc[q] = "serve" /\ q \in Procs
    BY DEF Tick, Answers, IInv, TypeOK, SettledSafe
  <2>2. \A p \in Procs : /\ pc'[p] \notin {"unlink", "close"}
                         /\ pc[p] = "serve" => pc'[p] = "serve"
    BY DEF Tick, IInv, TypeOK, Booting
  <2> QED
    BY <2>1, <2>2 DEF Tick, SettledSafe
<1> QED
  BY <1>1, <1>2 DEF IInv

LEMMA NextIInv == IInv /\ [Next]_vars => IInv'
<1> SUFFICES ASSUME IInv, [Next]_vars PROVE IInv'
  OBVIOUS
<1>1. CASE Tick
  BY <1>1, TickKeeps
<1>2. ASSUME NEW p \in Procs, Step(p) PROVE IInv'
  <2>1. CASE Boot(p)
    BY <2>1, BootType, BootSafe DEF IInv
  <2> QED
    BY <1>2, <2>1, OtherSteps DEF Step
<1>3. CASE UNCHANGED vars
  BY <1>3 DEF vars, IInv, TypeOK, SettledSafe
<1> QED
  BY <1>1, <1>2, <1>3 DEF Next

LEMMA Invariant == Spec => []IInv
BY InitIInv, NextIInv, PTL DEF Spec

-----------------------------------------------------------------------------
(* Every variable keeps its type: a boot is somewhere on its way, waits no  *)
(* longer than the grace, and the path leads to a process or to nobody      *)
(* (daemon.go:225-275, pidfile_linux.go).                                   *)
THEOREM TypeCorrect == Spec => []TypeOK
<1>1. IInv => TypeOK
  BY DEF IInv
<1> QED
  BY <1>1, Invariant, PTL

(* A daemon that has served a round keeps its path from every boot, however *)
(* many race for it and die on the way: only a shutdown takes it away       *)
(* (daemon.go:225-275).                                                     *)
THEOREM SettledStays == Spec => SettledKept
<1> DEFINE Keeps ==
      \A q \in settled :
         \/ q \in settled' \/ pc'[q] # "serve"
         \/ \E p \in Procs : term'[p] = "unrecord" /\ term[p] = "idle"
         \/ \E p \in Procs : kill'[p] = "unrecord" /\ kill[p] = "stopall"
<1>1. IInv /\ [Next]_vars => [Keeps]_vars
  <2> SUFFICES ASSUME IInv, Next PROVE Keeps
    OBVIOUS
  <2>1. CASE Tick
    BY <2>1 DEF Tick
  <2>2. ASSUME NEW p \in Procs, Step(p) PROVE Keeps
    <3>1. CASE Start(p)
      BY <3>1 DEF Start
    <3>2. CASE Boot(p)
      <4>1. CASE Judge(p) \/ WriteRecord(p) \/ PingAnswered(p) \/ PingFails(p) \/ Serve(p)
        BY <4>1 DEF Judge, WriteRecord, PingAnswered, PingFails, Serve
      <4>2. CASE Listen(p) \/ Relisten(p)
        BY <4>2 DEF Listen, Relisten, Bind
      <4>3. CASE Unlink(p) \/ CloseListener(p)
        BY <4>3 DEF Unlink, CloseListener, IInv, SettledSafe
      <4>4. CASE Leave(p)
        BY <4>4 DEF Leave, Ends, Goto, IInv, TypeOK
      <4> QED
        BY <3>2, <4>1, <4>2, <4>3, <4>4 DEF Boot
    <3>3. CASE TermUnrecords(p) \/ KillCall(p)
      BY <3>3 DEF TermUnrecords, KillCall
    <3>4. CASE TermExits(p) \/ KillExits(p) \/ Crash(p)
      BY <3>4 DEF TermExits, KillExits, Crash, Ends, Goto, IInv, TypeOK
    <3>5. CASE KillUnlinks(p)
      BY <3>5 DEF KillUnlinks, IInv, TypeOK
    <3>6. CASE Signal(p)
      BY <3>6 DEF Signal, IInv, TypeOK
    <3>7. CASE Update(p)
      BY <3>7 DEF Update, Goto, IInv, TypeOK
    <3> QED
      BY <2>2, <3>1, <3>2, <3>3, <3>4, <3>5, <3>6, <3>7 DEF Step, Shutdown
  <2> QED
    BY <2>1, <2>2 DEF Next
<1>2. SettledKept <=> [][Keeps]_vars
  BY DEF SettledKept
<1> QED
  BY <1>1, <1>2, Invariant, PTL DEF Spec

-----------------------------------------------------------------------------
(* The runs CleanSingle is about.                                           *)
Clean == faults = 0 /\ \A p \in Procs : term[p] = "idle" \/ kill[p] = "idle"

(* Daemons with a listener they have not unlinked, and processes that have  *)
(* ended or unlinked theirs.                                                *)
Holder(p) == pc[p] \in {"bound", "serve"} /\ term[p] = "idle" /\ kill[p] # "unrecord"
Released(p) == pc[p] = "dead" \/ term[p] # "idle" \/ kill[p] = "unrecord"
Others(p) == {q \in Procs \ {p} : Released(q)}

(* The path leads to the one daemon that holds a listener, or is free.      *)
HolderOnPath ==
  /\ \A p \in Procs : Holder(p) => path = p
  /\ path \in Procs => Holder(path)
  /\ path # Stale /\ \A p \in Procs : pc[p] # "close"

(* No boot can take the recorded owner for dead: who ends unrecords itself. *)
RecordAlive ==
  /\ \A p \in Procs : ~stale[p]
  /\ record \in Procs => pc[record] # "dead" /\ term[record] # "stopall"
EndsServing == \A p \in Procs : GoingDown(p) => pc[p] \in {"serve", "dead"}

(* Every round a boot has waited, another daemon came and went; one that    *)
(* unlinks the path has seen all of them go.                                *)
Paid(p) ==
  /\ pc[p] \in {"listen", "ping"} => Cardinality(Others(p)) >= waited[p]
  /\ (pc[p] = "ping" /\ path = Free) \/ pc[p] = "sleep"
       => Cardinality(Others(p)) >= waited[p] + 1
  /\ pc[p] \in {"unlink", "relisten"} => Others(p) = Procs \ {p}
RoundsPaid == \A p \in Procs : Paid(p)

CleanSafe == HolderOnPath /\ RecordAlive /\ EndsServing /\ RoundsPaid
CleanInv == IInv /\ (Clean => CleanSafe)

-----------------------------------------------------------------------------
LEMMA OthersFinite ==
  ASSUME NEW p \in Procs
  PROVE  /\ IsFiniteSet(Others(p)) /\ Cardinality(Others(p)) \in Nat
         /\ Others(p) \subseteq Procs \ {p}
         /\ Cardinality(Others(p)) >= N - 1 => Others(p) = Procs \ {p}
<1>1. IsFiniteSet(Procs) /\ Cardinality(Procs) = N
  BY NAssumption, FS_Interval DEF Procs
<1>2. /\ IsFiniteSet(Procs \ {p}) /\ Cardinality(Procs \ {p}) = N - 1
  BY <1>1, FS_RemoveElement
<1>3. Others(p) \subseteq Procs \ {p}
  BY DEF Others
<1>4. IsFiniteSet(Others(p)) /\ Cardinality(Others(p)) \in Nat
  BY <1>2, <1>3, FS_Subset, FS_CardinalityType
<1>5. Cardinality(Others(p)) >= N - 1 => Others(p) = Procs \ {p}
  <2>1. /\ Cardinality(Others(p)) <= N - 1
        /\ Cardinality(Others(p)) = N - 1 => Others(p) = Procs \ {p}
    BY <1>2, <1>3, FS_Subset
  <2> QED
    BY <1>4, <2>1, NAssumption
<1> QED
  BY <1>3, <1>4, <1>5

(* Who is released stays so: the others of a boot only grow.                *)
LEMMA OthersGrow ==
  ASSUME NEW p \in Procs, \A q \in Procs : Released(q) => Released(q)'
  PROVE  /\ Cardinality(Others(p)') \in Nat
         /\ Cardinality(Others(p)') >= Cardinality(Others(p))
         /\ (\E q \in Procs \ {p} : ~Released(q) /\ Released(q)')
              => Cardinality(Others(p)') >= Cardinality(Others(p)) + 1
         /\ Others(p) = Procs \ {p} => Others(p)' = Procs \ {p}
<1> DEFINE A == Others(p)
           B == Others(p)'
<1>1. A \subseteq B /\ B \subseteq Procs \ {p}
  BY DEF Others
<1>2. IsFiniteSet(A) /\ Cardinality(A) \in Nat
  BY OthersFinite
<1>3. IsFiniteSet(B) /\ Cardinality(B) \in Nat
  <2>1. IsFiniteSet(Procs)
    BY NAssumption, FS_Interval DEF Procs
  <2> QED
    BY <1>1, <2>1, FS_Subset, FS_CardinalityType
<1>4. Cardinality(A) <= Cardinality(B)
  BY <1>1, <1>3, FS_Subset
<1>5. ASSUME NEW q \in Procs \ {p}, ~Released(q), Released(q)'
      PROVE  Cardinality(B) >= Cardinality(A) + 1
  <2>1. q \in B /\ q \notin A
    BY <1>5 DEF Others
  <2> HIDE DEF A, B
  <2>2. Cardinality(A) # Cardinality(B)
    BY <1>1, <1>3, <2>1, FS_Subset
  <2> QED
    BY <1>2, <1>3, <1>4, <2>2
<1> QED
  BY <1>1, <1>2, <1>3, <1>4, <1>5

(* A step of somebody else keeps what a boot has paid: if it frees the      *)
(* path, one more is released.                                              *)
LEMMA OthersPaid ==
  ASSUME IInv, NEW p \in Procs, Paid(p),
         \A q \in Procs : Released(q) => Released(q)',
         pc'[p] = pc[p], waited'[p] = waited[p],
         path' = Free => \/ path = Free
                         \/ \E q \in Procs \ {p} : ~Released(q) /\ Released(q)'
  PROVE  Paid(p)'
<1>1. waited[p] \in Nat
  BY DelayAssumption DEF IInv, TypeOK
<1>2. Cardinality(Others(p)) \in Nat
  BY OthersFinite
<1>3. /\ Cardinality(Others(p)') \in Nat
      /\ Cardinality(Others(p)') >= Cardinality(Others(p))
      /\ (\E q \in Procs \ {p} : ~Released(q) /\ Released(q)')
           => Cardinality(Others(p)') >= Cardinality(Others(p)) + 1
      /\ Others(p) = Procs \ {p} => Others(p)' = Procs \ {p}
  BY OthersGrow
<1> HIDE DEF Others, Released
<1>4. pc[p] \in {"listen", "ping"} => Cardinality(Others(p)') >= waited[p]
  BY <1>1, <1>2, <1>3 DEF Paid
<1>5. (pc[p] = "ping" /\ path' = Free) \/ pc[p] = "sleep"
        => Cardinality(Others(p)') >= waited[p] + 1
  BY <1>1, <1>2, <1>3 DEF Paid
<1>6. pc[p] \in {"unlink", "relisten"} => Others(p)' = Procs \ {p}
  BY <1>3 DEF Paid
<1> QED
  BY <1>4, <1>5, <1>6 DEF Paid

(* In a clean run nobody is told to end twice over, crashes or re-execs.    *)
LEMMA CleanBefore ==
  ASSUME IInv, [Next]_vars, Clean'
  PROVE  /\ Clean /\ \A p \in Procs : Released(p) => Released(p)'
         /\ \A p \in Procs : ~Crash(p) /\ ~Update(p)
<1>0. faults \in Nat /\ faults' = 0
  BY FaultsAssumption DEF IInv, TypeOK, Clean
<1>1. \A p \in Procs : ~Crash(p) /\ ~Update(p)
  BY <1>0 DEF Crash, Update
<1> DEFINE Firm ==
      /\ faults' = faults
      /\ \A p \in Procs :
           /\ term[p] # "idle" => term'[p] # "idle"
           /\ kill[p] # "idle" => kill'[p] # "idle"
           /\ kill[p] = "unrecord" => kill'[p] = "unrecord"
           /\ pc[p] = "dead" => pc'[p] = "dead"
<1>2. Firm
  <2> USE DEF IInv, TypeOK, Down
  <2>1. CASE UNCHANGED vars
    BY <2>1 DEF vars
  <2>2. CASE Tick
    BY <2>2 DEF Tick
  <2>3. ASSUME NEW p \in Procs, Step(p)
        PROVE  Firm
    <3>1. CASE Start(p)
      BY <3>1 DEF Start, Goto
    <3>2. CASE Boot(p)
      <4>1. CASE Judge(p) \/ WriteRecord(p) \/ PingAnswered(p) \/ PingFails(p)
                   \/ Unlink(p) \/ Serve(p) \/ CloseListener(p)
        BY <4>1 DEF Judge, WriteRecord, PingAnswered, PingFails, Unlink, Serve,
                    CloseListener, Goto
      <4>2. CASE Listen(p) \/ Relisten(p)
        BY <4>2 DEF Listen, Relisten, Bind, Goto
      <4>3. CASE Leave(p)
        BY <4>3 DEF Leave, Ends, Goto
      <4> QED
        BY <3>2, <4>1, <4>2, <4>3 DEF Boot
    <3>3. CASE TermUnrecords(p) \/ KillUnlinks(p) \/ Signal(p) \/ KillCall(p)
      BY <3>3 DEF TermUnrecords, KillUnlinks, Signal, KillCall, FreePath
    <3>4. CASE TermExits(p) \/ KillExits(p)
      BY <3>4 DEF TermExits, KillExits, Ends, Goto
    <3> QED
      BY <1>1, <2>3, <3>1, <3>2, <3>3, <3>4 DEF Step, Shutdown
  <2> QED
    BY <2>1, <2>2, <2>3 DEF Next
<1>3. Clean
  <2>1. \A p \in Procs : term'[p] = "idle" \/ kill'[p] = "idle"
    BY DEF Clean
  <2>2. \A p \in Procs : term[p] = "idle" \/ kill[p] = "idle"
    BY <1>2, <2>1 DEF Firm
  <2> QED
    BY <1>0, <1>2, <2>2 DEF Clean
<1>4. ASSUME NEW p \in Procs, Released(p)
      PROVE  Released(p)'
  BY <1>2, <1>4 DEF Released, Firm
<1> QED
  BY <1>1, <1>3, <1>4

-----------------------------------------------------------------------------
(* A boot in a clean run.                                                   *)
LEMMA CleanBoot ==
  ASSUME N <= Grace + 2, IInv, IInv', Clean, CleanSafe, NEW p \in Procs, Boot(p),
         \A q \in Procs : Released(q) => Released(q)'
  PROVE  CleanSafe'
<1> DEFINE Elsewhere == \A q \in Procs \ {p} : pc'[q] = pc[q] /\ waited'[q] = waited[q]
<1>0. /\ Free \notin Procs /\ Stale \notin Procs /\ Free # Stale
      /\ N \in Nat /\ Grace \in Nat /\ waited[p] \in Nat
  BY NAssumption, DelayAssumption DEF Free, Stale, Procs, IInv, TypeOK
<1>1. /\ Cardinality(Others(p)) \in Nat
      /\ Cardinality(Others(p)') \in Nat
      /\ Cardinality(Others(p)') >= Cardinality(Others(p))
      /\ Others(p) = Procs \ {p} => Others(p)' = Procs \ {p}
  BY OthersFinite, OthersGrow
<1>2. ASSUME Elsewhere, path' = Free => path = Free, Paid(p)'
      PROVE  RoundsPaid'
  <2>1. \A q \in Procs \ {p} : Paid(q)'
    BY <1>2, OthersPaid DEF CleanSafe, RoundsPaid
  <2> QED
    BY <1>2, <2>1 DEF RoundsPaid
<1> HIDE DEF Elsewhere
<1>3. Paid(p)
  BY DEF CleanSafe, RoundsPaid
<1>4. path \in Procs \/ path = Free
  BY DEF CleanSafe, HolderOnPath, IInv, TypeOK
(* Alone: the boot unlinks the path, or binds it again.                     *)
<1>5. pc[p] \in {"unlink", "relisten"} => path = Free
  <2> SUFFICES ASSUME pc[p] \in {"unlink", "relisten"}, path \in Procs
               PROVE  FALSE
    BY <1>4
  <2>1. Holder(path)
    BY DEF CleanSafe, HolderOnPath
  <2>2. path # p
    BY <2>1 DEF Holder
  <2>3. Released(path)
    BY <1>3, <2>2 DEF Paid, Others
  <2> QED
    BY <2>1, <2>3 DEF Holder, Released
<1>6. pc[p] # "dead" /\ pc[p] # "serve" => term[p] = "idle" /\ kill[p] = "idle"
  BY DEF CleanSafe, EndsServing, GoingDown
<1> USE DEF CleanSafe, HolderOnPath, RecordAlive, EndsServing, Holder, GoingDown
<1>7. CASE Judge(p)
  <2>1. ~OwnerDead
    BY DEF OwnerDead
  <2>1a. OwnerDead = FALSE
    BY <2>1, Zenon DEF OwnerDead
  <2>2. /\ pc' = [pc EXCEPT ![p] = "record"] /\ stale' = [stale EXCEPT ![p] = FALSE]
        /\ UNCHANGED <<path, record, waited, term, kill, faults>>
    BY <1>7, <2>1a DEF Judge, Goto, Down
  <2>3. Elsewhere /\ path' = path /\ pc'[p] = "record"
    BY <2>2 DEF Elsewhere, IInv, TypeOK
  <2>4. RoundsPaid'
    BY <1>2, <2>3 DEF Paid
  <2> QED
    BY <2>2, <2>4, <1>7 DEF Judge, IInv, TypeOK
<1>8. CASE WriteRecord(p)
  <2>1. /\ Elsewhere /\ path' = path /\ pc'[p] = "listen" /\ waited'[p] = 0
        /\ pc[p] = "record"
    BY <1>8 DEF WriteRecord, Goto, Elsewhere, IInv, TypeOK
  <2>2. Paid(p)'
    BY <1>1, <2>1 DEF Paid
  <2>3. RoundsPaid'
    BY <1>2, <2>1, <2>2
  <2> QED
    BY <1>6, <1>8, <2>1, <2>3 DEF WriteRecord, Goto, Down, IInv, TypeOK
<1>9. CASE Listen(p)
  <2>1. CASE path = Free
    <3>1. /\ pc' = [pc EXCEPT ![p] = "bound"] /\ path' = p /\ pc[p] = "listen"
          /\ stale' = [stale EXCEPT ![p] = FALSE] /\ waited' = [waited EXCEPT ![p] = 0]
          /\ UNCHANGED <<record, term, kill>>
      BY <1>9, <2>1 DEF Listen, Bind, Goto, Down
    <3>2. Elsewhere /\ pc'[p] = "bound"
      BY <3>1 DEF Elsewhere, IInv, TypeOK
    <3>3. RoundsPaid'
      BY <1>0, <1>2, <3>1, <3>2 DEF Paid
    <3> QED
      BY <1>0, <1>6, <2>1, <3>1, <3>3 DEF IInv, TypeOK
  <2>2. CASE path # Free
    <3>1. /\ pc' = [pc EXCEPT ![p] = "ping"] /\ pc[p] = "listen"
          /\ UNCHANGED <<path, record, stale, waited, term, kill>>
      BY <1>9, <2>2 DEF Listen, Bind, Goto, Down
    <3>2. Elsewhere /\ pc'[p] = "ping" /\ waited'[p] = waited[p]
      BY <3>1 DEF Elsewhere, IInv, TypeOK
    <3>3. Cardinality(Others(p)') >= waited[p]
      BY <1>0, <1>1, <1>3, <3>1 DEF Paid
    <3>4. Paid(p)'
      BY <2>2, <3>1, <3>2, <3>3 DEF Paid
    <3>5. RoundsPaid'
      BY <1>2, <3>1, <3>2, <3>4
    <3> QED
      BY <3>1, <3>5 DEF IInv, TypeOK
  <2> QED
    BY <2>1, <2>2
<1>10. CASE PingAnswered(p)
  <2>1. /\ pc' = [pc EXCEPT ![p] = "leave"] /\ pc[p] = "ping"
        /\ UNCHANGED <<path, record, stale, waited, term, kill>>
    BY <1>10 DEF PingAnswered, Goto, Down
  <2>2. Elsewhere /\ pc'[p] = "leave"
    BY <2>1 DEF Elsewhere, IInv, TypeOK
  <2>3. RoundsPaid'
    BY <1>2, <2>1, <2>2 DEF Paid
  <2> QED
    BY <1>6, <2>1, <2>3 DEF IInv, TypeOK
<1>11. CASE PingFails(p)
  <2>1. /\ pc' = [pc EXCEPT ![p] = IF MayUnlink(p) THEN "unlink" ELSE "sleep"]
        /\ pc[p] = "ping" /\ UNCHANGED <<path, record, stale, waited, term, kill>>
    BY <1>11 DEF PingFails, Goto, Down
  <2>2. path = Free
    BY <1>4, <1>11 DEF PingFails, Answers, Mute
  <2>3. Cardinality(Others(p)) >= waited[p] + 1
    BY <1>3, <2>1, <2>2 DEF Paid
  <2>4. MayUnlink(p) => Others(p) = Procs \ {p}
    <3>1. MayUnlink(p) => waited[p] >= Grace
      BY DEF MayUnlink
    <3>2. waited[p] >= Grace => Cardinality(Others(p)) >= N - 1
      BY <1>0, <1>1, <2>3
    <3> QED
      BY <3>1, <3>2, OthersFinite
  <2>5. /\ Elsewhere /\ waited'[p] = waited[p]
        /\ pc'[p] = IF MayUnlink(p) THEN "unlink" ELSE "sleep"
    BY <2>1 DEF Elsewhere, IInv, TypeOK
  <2>6. Paid(p)'
    BY <1>0, <1>1, <2>3, <2>4, <2>5 DEF Paid
  <2>7. RoundsPaid'
    BY <1>2, <2>1, <2>5, <2>6
  <2> QED
    BY <1>6, <2>1, <2>7 DEF IInv, TypeOK
<1>12. CASE Unlink(p)
  <2>1. /\ pc' = [pc EXCEPT ![p] = "relisten"] /\ pc[p] = "unlink"
        /\ path' = Free /\ path = Free
        /\ UNCHANGED <<record, stale, waited, term, kill>>
    BY <1>5, <1>12 DEF Unlink, Goto, Down
  <2>2. Elsewhere /\ pc'[p] = "relisten"
    BY <2>1 DEF Elsewhere, IInv, TypeOK
  <2>3. Paid(p)'
    BY <1>1, <1>3, <2>1, <2>2 DEF Paid
  <2>4. RoundsPaid'
    BY <1>2, <2>1, <2>2, <2>3
  <2> QED
    BY <1>0, <1>6, <2>1, <2>4 DEF IInv, TypeOK
<1>13. CASE Relisten(p)
  <2>1. /\ pc' = [pc EXCEPT ![p] = "bound"] /\ path' = p /\ pc[p] = "relisten"
        /\ stale' = [stale EXCEPT ![p] = FALSE] /\ waited' = [waited EXCEPT ![p] = 0]
        /\ UNCHANGED <<record, term, kill>> /\ path = Free
    BY <1>5, <1>13 DEF Relisten, Bind, Goto, Down
  <2>2. Elsewhere /\ pc'[p] = "bound"
    BY <2>1 DEF Elsewhere, IInv, TypeOK
  <2>3. RoundsPaid'
    BY <1>0, <1>2, <2>1, <2>2 DEF Paid
  <2> QED
    BY <1>0, <1>6, <2>1, <2>3 DEF IInv, TypeOK
<1>14. CASE Serve(p)
  <2>1. pc[p] = "bound" /\ path = p
    BY <1>6, <1>14 DEF Serve
  <2>2. /\ pc' = [pc EXCEPT ![p] = "serve"]
        /\ UNCHANGED <<path, record, stale, waited, term, kill>>
    BY <1>0, <1>14, <2>1 DEF Serve, Goto, Down
  <2>3. Elsewhere /\ pc'[p] = "serve"
    BY <2>2 DEF Elsewhere, IInv, TypeOK
  <2>4. RoundsPaid'
    BY <1>2, <2>2, <2>3 DEF Paid
  <2> QED
    BY <1>6, <2>1, <2>2, <2>4 DEF IInv, TypeOK
<1>15. CASE CloseListener(p)
  BY <1>15 DEF CloseListener
<1>16. CASE Leave(p)
  <2>1. /\ pc' = [pc EXCEPT ![p] = "dead"] /\ pc[p] = "leave" /\ path # p
    BY <1>16 DEF Leave, Ends, Goto
  <2>2. /\ path' = path /\ record' = IF record = p THEN Free ELSE record
        /\ stale' = [stale EXCEPT ![p] = FALSE] /\ waited' = [waited EXCEPT ![p] = 0]
        /\ UNCHANGED <<term, kill>>
    BY <1>16, <2>1 DEF Leave, Ends, Unrecord
  <2>3. Elsewhere /\ pc'[p] = "dead"
    BY <2>1, <2>2 DEF Elsewhere, IInv, TypeOK
  <2>4. RoundsPaid'
    BY <1>2, <2>2, <2>3 DEF Paid
  <2> QED
    BY <1>0, <1>6, <2>1, <2>2, <2>4 DEF IInv, TypeOK
<1> QED
  BY <1>7, <1>8, <1>9, <1>10, <1>11, <1>12, <1>13, <1>14, <1>15, <1>16 DEF Boot

(* Starts and shutdowns: who frees the path is released with it.            *)
LEMMA CleanOthers ==
  ASSUME IInv, IInv', Clean, Clean', CleanSafe, NEW p \in Procs,
         Start(p) \/ Shutdown(p) \/ Signal(p) \/ KillCall(p),
         \A q \in Procs : Released(q) => Released(q)'
  PROVE  CleanSafe'
<1> DEFINE Elsewhere == \A q \in Procs \ {p} : pc'[q] = pc[q] /\ waited'[q] = waited[q]
<1>0. Free \notin Procs /\ Stale \notin Procs /\ Free # Stale
  BY NAssumption DEF Free, Stale, Procs
<1>1. ASSUME Elsewhere, Paid(p)',
             path' = Free => path = Free \/ (~Released(p) /\ Released(p)')
      PROVE  RoundsPaid'
  <2>1. ASSUME NEW q \in Procs \ {p}
        PROVE  Paid(q)'
    <3>1. path' = Free => \/ path = Free
                          \/ \E r \in Procs \ {q} : ~Released(r) /\ Released(r)'
      BY <1>1
    <3> HIDE DEF Released
    <3> QED
      BY <1>1, <3>1, OthersPaid DEF CleanSafe, RoundsPaid
  <2> QED
    BY <1>1, <2>1 DEF RoundsPaid
<1>2. term'[p] = "idle" \/ kill'[p] = "idle"
  BY DEF Clean
<1> HIDE DEF Elsewhere
<1> USE DEF CleanSafe, HolderOnPath, RecordAlive, EndsServing, Holder, GoingDown
<1>3. CASE Start(p)
  <2>1. /\ pc' = [pc EXCEPT ![p] = "judge"] /\ pc[p] = "off"
        /\ UNCHANGED <<path, record, stale, waited, term, kill>>
    BY <1>3 DEF Start, Goto, Down
  <2>2. Elsewhere /\ pc'[p] = "judge"
    BY <2>1 DEF Elsewhere, IInv, TypeOK
  <2>3. RoundsPaid'
    BY <1>1, <2>1, <2>2 DEF Paid
  <2> QED
    BY <2>1, <2>3 DEF IInv, TypeOK
<1>4. CASE Signal(p)
  <2>1. /\ pc[p] = "serve" /\ term[p] = "idle" /\ path' = Free
        /\ term' = [term EXCEPT ![p] = "unrecord"]
        /\ UNCHANGED <<record, pc, stale, waited, kill>>
    BY <1>4 DEF Signal, FreePath
  <2>2. kill[p] = "idle" /\ path = p
    BY <1>2, <2>1 DEF IInv, TypeOK
  <2>3. ~Released(p) /\ Released(p)'
    BY <2>1, <2>2 DEF Released, IInv, TypeOK
  <2>4. RoundsPaid'
    BY <1>1, <2>1, <2>3 DEF Elsewhere, Paid
  <2> QED
    BY <1>0, <2>1, <2>2, <2>4 DEF IInv, TypeOK
<1>5. CASE TermUnrecords(p)
  <2>1. /\ pc[p] = "serve" /\ term[p] = "unrecord"
        /\ record' = IF record = p THEN Free ELSE record
        /\ term' = [term EXCEPT ![p] = "stopall"]
        /\ UNCHANGED <<path, pc, stale, waited, kill>>
    BY <1>5 DEF TermUnrecords, Unrecord
  <2>2. RoundsPaid'
    BY <1>1, <2>1 DEF Elsewhere, Paid
  <2> QED
    BY <1>0, <2>1, <2>2 DEF IInv, TypeOK
<1>6. CASE TermExits(p)
  <2>1. /\ pc[p] = "serve" /\ term[p] = "stopall" /\ path # p /\ record # p
        /\ pc' = [pc EXCEPT ![p] = "dead"]
    BY <1>6 DEF TermExits, Ends, Goto
  <2>2. /\ stale' = [stale EXCEPT ![p] = FALSE] /\ waited' = [waited EXCEPT ![p] = 0]
        /\ UNCHANGED <<path, record, term, kill>>
    BY <1>6, <2>1 DEF TermExits, Ends
  <2>3. Elsewhere /\ pc'[p] = "dead"
    BY <2>1, <2>2 DEF Elsewhere, IInv, TypeOK
  <2>4. RoundsPaid'
    BY <1>1, <2>2, <2>3 DEF Paid
  <2> QED
    BY <1>0, <2>1, <2>2, <2>4 DEF IInv, TypeOK
<1>7. CASE KillCall(p)
  <2>1. /\ pc[p] = "serve" /\ kill[p] = "idle" /\ kill' = [kill EXCEPT ![p] = "stopall"]
        /\ UNCHANGED <<path, record, pc, stale, waited, term>>
    BY <1>7 DEF KillCall
  <2>2. RoundsPaid'
    BY <1>1, <2>1 DEF Elsewhere, Paid
  <2> QED
    BY <2>1, <2>2 DEF IInv, TypeOK
<1>8. CASE KillUnlinks(p)
  <2>1. /\ pc[p] = "serve" /\ kill[p] = "stopall" /\ path' = Free
        /\ kill' = [kill EXCEPT ![p] = "unrecord"]
        /\ UNCHANGED <<record, pc, stale, waited, term>>
    BY <1>8 DEF KillUnlinks, FreePath
  <2>2. term[p] = "idle" /\ path = p
    BY <2>1 DEF Clean
  <2>3. ~Released(p) /\ Released(p)'
    BY <2>1, <2>2 DEF Released, IInv, TypeOK
  <2>4. RoundsPaid'
    BY <1>1, <2>1, <2>3 DEF Elsewhere, Paid
  <2> QED
    BY <1>0, <2>1, <2>2, <2>4 DEF IInv, TypeOK
<1>9. CASE KillExits(p)
  <2>1. /\ pc[p] = "serve" /\ kill[p] = "unrecord" /\ path # p
        /\ record' = IF record = p THEN Free ELSE record
        /\ pc' = [pc EXCEPT ![p] = "dead"]
    BY <1>9 DEF KillExits, Ends, Goto, Unrecord
  <2>2. /\ stale' = [stale EXCEPT ![p] = FALSE] /\ waited' = [waited EXCEPT ![p] = 0]
        /\ UNCHANGED <<path, term, kill>>
    BY <1>9, <2>1 DEF KillExits, Ends
  <2>3. Elsewhere /\ pc'[p] = "dead"
    BY <2>1, <2>2 DEF Elsewhere, IInv, TypeOK
  <2>4. RoundsPaid'
    BY <1>1, <2>2, <2>3 DEF Paid
  <2> QED
    BY <1>0, <2>1, <2>2, <2>4 DEF IInv, TypeOK
<1> QED
  BY <1>3, <1>4, <1>5, <1>6, <1>7, <1>8, <1>9 DEF Shutdown

(* A round ends: a boot that slept has seen one more daemon go.             *)
LEMMA CleanTick ==
  ASSUME IInv, Clean, CleanSafe, Tick,
         \A q \in Procs : Released(q) => Released(q)'
  PROVE  CleanSafe'
<1>1. /\ UNCHANGED <<path, record, stale, term, kill>>
      /\ \A p \in Procs :
           /\ pc'[p] = IF pc[p] = "sleep" THEN "listen" ELSE pc[p]
           /\ waited'[p] = IF pc[p] = "sleep" /\ waited[p] < Grace
                           THEN waited[p] + 1 ELSE waited[p]
  BY DEF Tick, Down
<1>2. ASSUME NEW p \in Procs
      PROVE  Paid(p)'
  <2>0. waited[p] \in Nat /\ Grace \in Nat
    BY DelayAssumption DEF IInv, TypeOK
  <2>1. CASE pc[p] = "sleep"
    <3>1. pc'[p] = "listen" /\ waited'[p] \in Nat /\ waited'[p] <= waited[p] + 1
      BY <1>1, <2>0, <2>1
    <3>2. Cardinality(Others(p)) >= waited[p] + 1
      BY <2>1 DEF CleanSafe, RoundsPaid, Paid
    <3>3. /\ Cardinality(Others(p)) \in Nat /\ Cardinality(Others(p)') \in Nat
          /\ Cardinality(Others(p)') >= Cardinality(Others(p))
      BY OthersFinite, OthersGrow
    <3>4. Cardinality(Others(p)') >= waited'[p]
      BY <2>0, <3>1, <3>2, <3>3
    <3> QED
      BY <3>1, <3>4 DEF Paid
  <2>2. CASE pc[p] # "sleep"
    <3>1. pc'[p] = pc[p] /\ waited'[p] = waited[p] /\ path' = path
      BY <1>1, <2>2
    <3> QED
      BY <3>1, OthersPaid DEF CleanSafe, RoundsPaid
  <2> QED
    BY <2>1, <2>2
<1>3. RoundsPaid'
  BY <1>2 DEF RoundsPaid
<1>4. HolderOnPath'
  <2>1. \A p \in Procs : Holder(p)' <=> Holder(p)
    BY <1>1 DEF Holder
  <2> QED
    BY <1>1, <2>1 DEF CleanSafe, HolderOnPath
<1>5. RecordAlive' /\ EndsServing'
  BY <1>1 DEF CleanSafe, RecordAlive, EndsServing, GoingDown
<1> QED
  BY <1>3, <1>4, <1>5 DEF CleanSafe

-----------------------------------------------------------------------------
LEMMA CleanStep ==
  ASSUME N <= Grace + 2, CleanInv, [Next]_vars
  PROVE  CleanInv'
<1>1. IInv /\ IInv'
  BY NextIInv DEF CleanInv
<1> SUFFICES ASSUME Clean'
             PROVE  CleanSafe'
  BY <1>1 DEF CleanInv
<1>2. /\ Clean /\ \A p \in Procs : Released(p) => Released(p)'
      /\ \A p \in Procs : ~Crash(p) /\ ~Update(p)
  BY <1>1, CleanBefore
<1>3. CleanSafe
  BY <1>2 DEF CleanInv
<1>4. CASE Tick
  BY <1>1, <1>2, <1>3, <1>4, CleanTick
<1>5. ASSUME NEW p \in Procs, Step(p)
      PROVE  CleanSafe'
  <2>1. CASE Boot(p)
    BY <1>1, <1>2, <1>3, <2>1, CleanBoot
  <2>2. CASE Start(p) \/ Shutdown(p) \/ Signal(p) \/ KillCall(p)
    BY <1>1, <1>2, <1>3, <2>2, CleanOthers
  <2> QED
    BY <1>2, <1>5, <2>1, <2>2 DEF Step
<1>6. CASE UNCHANGED vars
  BY <1>3, <1>6 DEF vars, CleanSafe, HolderOnPath, RecordAlive, EndsServing, RoundsPaid,
                    Paid, Holder, GoingDown, Others, Released
<1> QED
  BY <1>4, <1>5, <1>6 DEF Next

(* Boots that race each other and daemons that are shut down leave one      *)
(* owner of the socket, with at most Grace + 2 processes, none of which     *)
(* dies, re-execs or is told to end twice over: every round that a boot     *)
(* waits is paid for by another daemon that came and went, so that who      *)
(* unlinks the path at the end of its grace is alone (daemon.go:225-275).   *)
THEOREM CleanHasOneOwner == ASSUME N <= Grace + 2 PROVE Spec => []CleanSingle
<1>1. Init => CleanInv
  <2>1. ASSUME Init PROVE CleanSafe
    <3>1. path = Free /\ record = Free /\ Free \notin Procs /\ Free # Stale
      BY <2>1, NAssumption DEF Init, Free, Stale, Procs
    <3> QED
      BY <2>1, <3>1 DEF Init, CleanSafe, HolderOnPath, RecordAlive, EndsServing,
                        RoundsPaid, Paid, Holder, GoingDown
  <2> QED
    BY <2>1, InitIInv DEF CleanInv
<1>2. CleanInv /\ [Next]_vars => CleanInv'
  BY CleanStep
<1>3. CleanInv => CleanSingle
  BY DEF CleanInv, Clean, CleanSafe, HolderOnPath, Holder, CleanSingle, Owners, GoingDown
<1> QED
  BY <1>1, <1>2, <1>3, PTL DEF Spec
=============================================================================
