------------------------------- MODULE Persist -------------------------------
(***************************************************************************)
(* What outlives a daemon: the process trees, and the dump that names the  *)
(* apps they belong to.  Save and its atomic write (internal/store), the   *)
(* re-exec of an update, the polite death, crashes and power cuts, and the *)
(* resurrect that adopts a live tree or starts an app afresh               *)
(* (internal/daemon/control.go, internal/proc/adopt_linux.go).             *)
(*                                                                         *)
(* Starting, stopping and deleting an app are one step each here: Control  *)
(* and Machine have their detail.                                          *)
(***************************************************************************)
EXTENDS Integers

CONSTANTS
  Callers,    \* request handlers at work at the same time
  Adopter,    \* the goroutine that adopts after a re-exec, no caller
  Nobody,
  Names,      \* app names
  NoName,
  MaxId,      \* bound: pm_ids 0 .. MaxId
  MaxFaults,  \* bound: ends of the daemon, polite or not, and re-execs
  Failing     \* bound: the pm_ids at which one kill or adoption may fail

Workers == Callers \cup {Adopter}
Ids == 0 .. MaxId

(* The leader of a tree is a child of this daemon process or not, and its   *)
(* exit goes to the app that runs it ("app"), to somebody else ("stolen"),  *)
(* or the tree is lost: no app runs it ("nobody").                          *)
Trees == [id : Ids, name : Names, child : BOOLEAN, exit : {"app", "stolen", "nobody"}]
Entries == [id : Ids, name : Names]
Dumps == [list : SUBSET Entries, synced : BOOLEAN]

VARIABLES
  up,       \* the daemon runs
  apps,     \* apps[id]: the name registered at pm_id id, or NoName
  nextID,   \* the registry's id counter
  trees,    \* the live process trees
  tmp,      \* the temporary dump of the save that holds the mutex
  file,     \* the dump as a reader finds it
  disk,     \* the dump as a power cut would leave it
  saving,   \* the worker that holds the save mutex, or Nobody
  op, at,   \* op[c], at[c]: the request worker c serves, and where it is
  todo,     \* todo[c]: the entries it still has to write, adopt or stop
  faults,
  acked,    \* history: the last save to rename its dump was acknowledged
  rival,    \* history: a start took the id of a lost tree
  loose,    \* history: the entries a tree of which outlived a kill, or was
            \* there when its adoption failed
  adopted,  \* history: the dump was gone through since the daemon came up
  cut       \* history: the daemon ended other than by a re-exec

registry == <<apps, nextID>>
store == <<tmp, file, disk, saving, acked>>
work == <<op, at, todo>>
past == <<rival, loose, adopted, cut>>
vars == <<up, registry, trees, store, work, faults, past>>

Requests == {"save", "update", "resurrect", "kill"}
Places == {"idle", "lock", "rename", "dirsync", "exec", "load", "adopt",
           "startat", "reply", "stopall"}

TypeOK ==
  /\ up \in BOOLEAN /\ apps \in [Ids -> Names \cup {NoName}]
  /\ nextID \in 0 .. MaxId + 1
  /\ trees \in SUBSET Trees
  /\ tmp \in Dumps /\ file \in Dumps /\ disk \in Dumps /\ acked \in BOOLEAN
  /\ saving \in Workers \cup {Nobody}
  /\ op \in [Workers -> Requests \cup {"none"}] /\ at \in [Workers -> Places]
  /\ todo \in [Workers -> SUBSET Entries] /\ faults \in 0 .. MaxFaults
  /\ rival \in BOOLEAN /\ loose \in SUBSET Entries
  /\ adopted \in BOOLEAN /\ cut \in BOOLEAN

NoDump == [list |-> {}, synced |-> TRUE]
Torn == [list |-> {}, synced |-> FALSE]

Init ==
  /\ up = TRUE /\ apps = [i \in Ids |-> NoName] /\ nextID = 0
  /\ trees = {} /\ tmp = NoDump /\ file = NoDump /\ disk = NoDump
  /\ acked = TRUE /\ saving = Nobody
  /\ op = [c \in Workers |-> "none"] /\ at = [c \in Workers |-> "idle"]
  /\ todo = [c \in Workers |-> {}] /\ faults = 0
  /\ rival = FALSE /\ loose = {} /\ adopted = FALSE /\ cut = FALSE

Registered == {i \in Ids : apps[i] # NoName}
Listing == {[id |-> i, name |-> apps[i]] : i \in Registered}
TreeOf(i) == {t \in trees : t.id = i /\ t.exit # "nobody"}
Lost == {t \in trees : t.exit = "nobody"}
Entry(t) == [id |-> t.id, name |-> t.name]
First(E) == CHOOSE e \in E : \A f \in E : e.id <= f.id

Goes(c, p, E) ==
  /\ at' = [at EXCEPT ![c] = p] /\ todo' = [todo EXCEPT ![c] = E]
  /\ op' = IF p = "idle" THEN [op EXCEPT ![c] = "none"] ELSE op

Request(c, r, p, E) ==
  /\ up /\ c \in Callers /\ at[c] = "idle"
  /\ op' = [op EXCEPT ![c] = r] /\ at' = [at EXCEPT ![c] = p]
  /\ todo' = [todo EXCEPT ![c] = E]
  /\ UNCHANGED <<up, registry, trees, store, faults, past>>

-----------------------------------------------------------------------------
(* Apps come and go, under the registry's lock.                             *)

Spawned(i, n) == [id |-> i, name |-> n, child |-> TRUE, exit |-> "app"]

Register(i, n) ==
  /\ apps' = [apps EXCEPT ![i] = n]
  /\ nextID' = IF i >= nextID THEN i + 1 ELSE nextID

Apart == UNCHANGED <<up, store, work, faults, adopted, cut>>

(* Start and resurrect race for ids after a re-exec: the next free id may   *)
(* be one the dump has an entry for.                                        *)
Start(n) ==
  /\ up /\ nextID <= MaxId /\ Register(nextID, n)
  /\ trees' = trees \cup {Spawned(nextID, n)}
  /\ rival' = (rival \/ \E t \in Lost : t.id = nextID /\ Entry(t) \notin loose)
  /\ UNCHANGED loose /\ Apart

Loosens(E) ==
  loose' = loose \cup E /\ \A e \in E : e.id \in Failing /\ e \notin loose

(* The kill path, to its outcome: survivors are nobody's from here on, if   *)
(* not at once, and may end at any time.                                    *)
Kills(i) ==
  \E S \in SUBSET TreeOf(i) :
     /\ trees' = (trees \ TreeOf(i)) \cup {[t EXCEPT !.exit = "nobody"] : t \in S}
     /\ Loosens({Entry(t) : t \in S})

(* A stopped app stays registered, and one whose kill or spawn failed; the  *)
(* dump does not tell it from others.                                       *)
Stop(i) ==
  /\ up /\ i \in Registered /\ Kills(i)
  /\ UNCHANGED <<registry, rival>> /\ Apart

Restart(i) ==
  /\ up /\ i \in Registered
  /\ trees' = (trees \ TreeOf(i)) \cup {Spawned(i, apps[i])}
  /\ UNCHANGED <<registry, rival, loose>> /\ Apart

(* An emptied registry counts from 0 again.                                 *)
Delete(i) ==
  /\ up /\ i \in Registered
  /\ apps' = [apps EXCEPT ![i] = NoName] /\ Kills(i)
  /\ nextID' = IF Registered = {i} THEN 0 ELSE nextID
  /\ UNCHANGED rival /\ Apart

TreeExits(t) ==
  /\ t \in trees /\ trees' = trees \ {t}
  /\ UNCHANGED <<registry, rival, loose>> /\ Apart

-----------------------------------------------------------------------------
(* Save: the listing first, then the file, under a mutex of its own.        *)

Save(c) == \E r \in {"save", "update"} : Request(c, r, "lock", Listing)

StoreStep(c, p, next) ==
  /\ at[c] = p /\ Goes(c, next, {})
  /\ UNCHANGED <<up, registry, trees, faults, past>>

WriteTmpUnsynced(c) ==
  /\ at[c] = "lock" /\ Goes(c, "rename", {})
  /\ saving = Nobody /\ saving' = c
  /\ tmp' = [list |-> todo[c], synced |-> FALSE]
  /\ UNCHANGED <<up, registry, trees, faults, past>>
  /\ UNCHANGED <<file, disk, acked>>

(* The temporary file is written, synced and closed.                        *)
WriteTmp(c) ==
  /\ at[c] = "lock" /\ Goes(c, "rename", {})
  /\ saving = Nobody /\ saving' = c
  /\ tmp' = [list |-> todo[c], synced |-> TRUE]
  /\ UNCHANGED <<up, registry, trees, faults, past>>
  /\ UNCHANGED <<file, disk, acked>>

RenameTmp(c) ==
  /\ StoreStep(c, "rename", "dirsync")
  /\ file' = tmp /\ acked' = FALSE /\ tmp' = NoDump /\ UNCHANGED <<disk, saving>>

(* The reply: the save is acknowledged, or the update goes on.              *)
SyncDir(c) ==
  /\ StoreStep(c, "dirsync", IF op[c] = "update" THEN "exec" ELSE "idle")
  /\ disk' = file /\ acked' = TRUE /\ saving' = Nobody
  /\ UNCHANGED <<tmp, file>>

(* An error before the rename leaves the old dump; one after it the new     *)
(* one, not acknowledged.  An update stops there.                           *)
SaveFails(c) ==
  /\ \E p \in {"rename", "dirsync"} : StoreStep(c, p, "idle")
  /\ saving' = Nobody /\ tmp' = NoDump /\ UNCHANGED <<file, disk, acked>>

-----------------------------------------------------------------------------
(* Resurrect: the entries of the dump, adopted or started, one by one.      *)

Resurrect(c) == Request(c, "resurrect", "load", {})

(* No dump, or one that does not parse, is an empty batch.                  *)
Load(c) ==
  /\ at[c] = "load"
  /\ Goes(c, IF file.list = {} THEN "reply" ELSE "adopt", file.list)
  /\ UNCHANGED <<up, registry, trees, store, faults, past>>

Reply(c) ==
  /\ at[c] = "reply" /\ Goes(c, "idle", {}) /\ adopted' = TRUE
  /\ UNCHANGED <<up, registry, trees, store, faults, rival, loose, cut>>

NextEntry(c, e) ==
  LET rest == todo[c] \ {e} IN Goes(c, IF rest = {} THEN "reply" ELSE "adopt", rest)

MarkedChildren(e) == {t \in trees : t.child /\ t.id = e.id /\ t.name = e.name}

(* The trees that carry the entry's marker, name and pm_id.  Of several the *)
(* one with the oldest leader is taken, which may be any.                   *)
Marked(e) == {t \in trees : t.id = e.id /\ t.name = e.name}

(* The reaper has one subscription per pid: that of a leader which is our   *)
(* child is replaced, also if an app of ours holds it.                      *)
Deaf(t) ==
  IF t.child /\ t.exit = "app"
  THEN (trees \ {t}) \cup {[t EXCEPT !.exit = "stolen"]} ELSE trees

(* A tree that is there may fail to be adopted - its cgroup or its leader   *)
(* is not found, or the actor is not built - and then, as when the pm_id is *)
(* taken, the entry is started like one without a tree.                     *)
Adopt(c) ==
  /\ at[c] = "adopt"
  /\ LET e == First(todo[c])
     IN  \/ \E t \in Marked(e) :
            /\ e.id \notin Registered /\ Register(e.id, e.name)
            /\ trees' = (trees \ {t}) \cup {[t EXCEPT !.exit = "app"]}
            /\ NextEntry(c, e) /\ UNCHANGED loose
         \/ \E t \in Marked(e) :
            /\ trees' \in {trees, Deaf(t)} /\ Goes(c, "startat", todo[c])
            /\ Loosens(IF e.id \in Registered THEN {} ELSE {e})
            /\ UNCHANGED registry
         \/ /\ Marked(e) = {} /\ Goes(c, "startat", todo[c])
            /\ UNCHANGED <<registry, trees, loose>>
  /\ UNCHANGED <<up, store, faults, rival, adopted, cut>>

StartAtIDAborts(c) ==
  /\ at[c] = "startat"
  /\ LET e == First(todo[c])
     IN  \/ e.id \in Registered /\ Goes(c, "reply", {}) /\ UNCHANGED <<registry, trees>>
         \/ /\ e.id \notin Registered /\ Register(e.id, e.name) /\ NextEntry(c, e)
            /\ trees' = trees \cup {Spawned(e.id, e.name)}
         \/ /\ e.id \notin Registered /\ Register(e.id, e.name) /\ Goes(c, "reply", {})
            /\ UNCHANGED trees
  /\ UNCHANGED <<up, store, faults, past>>

(* An id that is taken counts as an error, and so does a failed spawn,      *)
(* which leaves the app registered and parked; the batch goes on.           *)
StartAtID(c) ==
  /\ at[c] = "startat"
  /\ LET e == First(todo[c])
     IN  /\ NextEntry(c, e)
         /\ \/ e.id \in Registered /\ UNCHANGED <<registry, trees>>
            \/ /\ e.id \notin Registered /\ Register(e.id, e.name)
               /\ trees' = trees \cup {Spawned(e.id, e.name)}
            \/ /\ e.id \notin Registered /\ Register(e.id, e.name)
               /\ UNCHANGED trees
  /\ UNCHANGED <<up, store, faults, past>>

-----------------------------------------------------------------------------
(* The ends of a daemon.                                                    *)

(* A process image is over: its registry and its requests with it.          *)
ImageEnds ==
  /\ up /\ faults < MaxFaults /\ faults' = faults + 1
  /\ apps' = [i \in Ids |-> NoName] /\ nextID' = 0
  /\ todo' = [c \in Workers |-> {}] /\ saving' = Nobody /\ tmp' = NoDump
  /\ adopted' = FALSE /\ UNCHANGED <<rival, loose>>

Down ==
  /\ ImageEnds /\ up' = FALSE /\ cut' = TRUE
  /\ at' = [c \in Workers |-> "idle"] /\ op' = [c \in Workers |-> "none"]

Orphaned(T) == {[t EXCEPT !.child = FALSE, !.exit = "nobody"] : t \in T}

(* A crash, or a forced kill: the trees live on.                            *)
Crash == Down /\ trees' = Orphaned(trees) /\ UNCHANGED <<file, disk, acked>>

(* A directory entry that was not synced may or may not have made it; a     *)
(* file that was not synced is torn.                                        *)
PowerCut ==
  /\ Down /\ trees' = {}
  /\ \E d \in {disk, file} :
       LET left == IF d.synced THEN d ELSE Torn IN file' = left /\ disk' = left
  /\ UNCHANGED acked

(* KillDaemon, and SIGTERM: every app of one listing is stopped, whatever   *)
(* comes of it, while requests are still served; then the exit.             *)
Kill(c) == Request(c, "kill", "stopall", Listing)

StopNext(c) ==
  /\ at[c] = "stopall" /\ todo[c] # {}
  /\ LET e == First(todo[c])
     IN  /\ IF e.id \in Registered THEN Kills(e.id) ELSE UNCHANGED <<trees, loose>>
         /\ Goes(c, "stopall", todo[c] \ {e})
  /\ UNCHANGED <<up, registry, store, faults, rival, adopted, cut>>

Exit(c) ==
  /\ at[c] = "stopall" /\ todo[c] = {} /\ Down
  /\ trees' = Orphaned(trees) /\ UNCHANGED <<file, disk, acked>>

Boot ==
  /\ ~up /\ up' = TRUE
  /\ UNCHANGED <<registry, trees, store, work, faults, past>>

(* UpdateDaemon, once its save is through: the same process, a new image,   *)
(* which adopts in a goroutine while it serves.                             *)
Exec(c) ==
  /\ at[c] = "exec" /\ ImageEnds
  /\ at' = [d \in Workers |-> IF d = Adopter THEN "load" ELSE "idle"]
  /\ op' = [d \in Workers |-> IF d = Adopter THEN "resurrect" ELSE "none"]
  /\ trees' = {[t EXCEPT !.exit = "nobody"] : t \in trees}
  /\ UNCHANGED <<up, file, disk, acked, cut>>

ExecFails(c) ==
  /\ at[c] = "exec" /\ Goes(c, "idle", {})
  /\ UNCHANGED <<up, registry, trees, store, faults, past>>

-----------------------------------------------------------------------------
Api ==
  \/ \E n \in Names : Start(n)
  \/ \E i \in Ids : Stop(i) \/ Restart(i) \/ Delete(i)
  \/ \E t \in trees : TreeExits(t)

Handler(c) ==
  \/ Save(c) \/ WriteTmp(c) \/ RenameTmp(c) \/ SyncDir(c) \/ SaveFails(c)
  \/ Resurrect(c) \/ Load(c) \/ Adopt(c) \/ StartAtID(c) \/ Reply(c)
  \/ Kill(c) \/ StopNext(c) \/ Exit(c) \/ Exec(c) \/ ExecFails(c)

Next == Api \/ Crash \/ PowerCut \/ Boot \/ \E c \in Workers : Handler(c)

Spec == Init /\ [][Next]_vars

-----------------------------------------------------------------------------
(* What a power cut leaves is a whole dump, and the one that was           *)
(* acknowledged, unless a later save got as far as its rename               *)
(* (store.go:198-200, invariant I4).                                        *)
AckedDurable == file.synced /\ disk.synced /\ (acked => disk = file)

(* Once a new daemon has gone through the dump, no tree the dump names is   *)
(* without an app, unless the tree outlived a kill, its own adoption failed *)
(* (and no other's: control.go:350-352, one broken entry never aborts the   *)
(* batch), or a start took ids before the dump was gone through.            *)
SavedAdopted ==
  up /\ adopted /\ ~rival =>
    \A t \in Lost : Entry(t) \notin file.list \ loose

(* A resurrect launches no app beside a tree of its own that runs, but one  *)
(* it failed to adopt, or one that outlived a kill: "without killing or     *)
(* duplicating its apps" (adopt_linux.go:4-6).                              *)
NeverTwice ==
  ~rival => \A t, u \in trees :
               Entry(t) = Entry(u) /\ Entry(t) \notin loose => t = u

(* The end of a leader reaches the app that runs it (reaper_linux.go:74-76, *)
(* a channel that receives exactly one exit).                               *)
ExitHeard == \A t \in trees : t.exit # "stolen"

(* daemon.go:378-380: "the children survive (same PID is their parent), the *)
(* new image re-adopts them".                                               *)
UpdateAdopts == adopted /\ ~cut /\ ~rival => Lost = {}

(* daemon.go:184-185: "Children are never orphaned by a polite daemon       *)
(* death."                                                                  *)
PoliteDeath == [][\A c \in Workers : Exit(c) => trees' = {}]_vars
=============================================================================
