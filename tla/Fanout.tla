-------------------------------- MODULE Fanout --------------------------------
(***************************************************************************)
(* One stop, restart, delete or reload command: the selector made of its   *)
(* targets (cmd/pm0, http.go), the client's parallel RPCs (pkg/client),    *)
(* and the daemon serving them app by app while other clients start and    *)
(* delete (daemon.go, control.go).                                         *)
(*                                                                         *)
(* What serving an app does to its tree is Machine's; here it works, or    *)
(* fails.  A name is a sequence: <<"web">>, and <<"web", "0">> for web-0.  *)
(***************************************************************************)
EXTENDS Integers, Sequences

CONSTANTS
  Registries,   \* apps registered at the start: functions from pm_ids to names
  Commands,     \* [op, via, n, targets]: n is --parallel
  Numbers,      \* last parts of a name that are digits
  StartNames,   \* names another client may start
  MaxId,        \* bound: pm_ids 0 .. MaxId
  MaxOthers,    \* bound: starts and deletes of other clients
  IdRange       \* how many values an int32 has

Ids == 0 .. MaxId

VARIABLES
  apps,     \* apps[id]: name and serial of the app registered there
  nextID, serial,
  cmd,      \* the command
  phase,    \* "start", "calls" or "done"
  rpcs,     \* the RPCs sent, in the order of their results
  result,   \* what the command reports: ids, and whether there was an error
  others,   \* starts and deletes of other clients so far
  asked,    \* history: the apps the targets name at the start
  served,   \* history: the apps served
  twice     \* history: an app was served more than once

registry == <<apps, nextID, serial>>
past == <<asked, served, twice>>
vars == <<registry, cmd, phase, rpcs, result, others, past>>

-----------------------------------------------------------------------------
(* Selectors.                                                               *)

(* <base>-<digits>                                                          *)
InstanceOf(app, base) ==
  /\ Len(app) > 1 /\ SubSeq(app, 1, Len(app) - 1) = base
  /\ app[Len(app)] \in Numbers
InFamily(app, name) == app = name \/ InstanceOf(app, name)

(* An id is narrowed to an int32.                                           *)
Int32(n) ==
  LET m == n % IdRange IN IF m < IdRange \div 2 THEN m ELSE m - IdRange

Sel(ids, names, all) == [ids |-> ids, names |-> names, all |-> all]

(* Targets are "all", pm_ids and names; no target is "all".                 *)
SelectorOf(targets) ==
  Sel({Int32(t.id) : t \in {u \in targets : u.kind = "id"}},
      {t.name : t \in {u \in targets : u.kind = "name"}},
      targets = {} \/ \E t \in targets : t.kind = "all")

Explicit(sel) == ~sel.all /\ (sel.ids # {} \/ sel.names # {})

(* The ids, then the names, each in the order given.                        *)
Gathered(targets) ==
  {[i \in DOMAIN targets |-> targets[p[i]]] :
     p \in {q \in [DOMAIN targets -> DOMAIN targets] :
              /\ \A k \in DOMAIN targets : \E i \in DOMAIN targets : q[i] = k
              /\ \A i, j \in DOMAIN targets : i < j =>
                   \/ targets[q[i]].kind = targets[q[j]].kind /\ q[i] < q[j]
                   \/ targets[q[i]].kind = "id" /\ targets[q[j]].kind = "name"}}

(* One selector for each, n at most: the last one takes what is left.       *)
PackShort(targets, n) ==
  IF Len(targets) <= n THEN [i \in 1 .. Len(targets) |-> SelectorOf({targets[i]})]
  ELSE [i \in 1 .. n |->
          SelectorOf(IF i < n THEN {targets[i]}
                     ELSE {targets[j] : j \in n + 1 .. Len(targets)})]
Pack(targets, n) ==
  IF Len(targets) <= n THEN [i \in 1 .. Len(targets) |-> SelectorOf({targets[i]})]
  ELSE [i \in 1 .. n |->
          SelectorOf(IF i < n THEN {targets[i]}
                     ELSE {targets[j] : j \in n .. Len(targets)})]

SplitSelector(targets, n) ==
  IF n <= 1 \/ Len(targets) <= 1
  THEN <<SelectorOf({targets[i] : i \in DOMAIN targets})>>
  ELSE Pack(targets, n)

(* "all" becomes the ids listed, in ascending order.                        *)
Listings(ids) ==
  {[i \in DOMAIN s |-> [kind |-> "id", id |-> s[i], name |-> <<>>]] :
     s \in {s \in UNION {[1 .. k -> ids] : k \in 0 .. MaxId + 1} :
              /\ \A id \in ids : \E i \in DOMAIN s : s[i] = id
              /\ \A i, j \in DOMAIN s : i < j => s[i] < s[j]}}

(* The daemon's side: "all" counts when it stands alone.                    *)
Meant(sel) ==
  Sel(sel.ids, sel.names, sel.all /\ sel.ids = {} /\ sel.names = {})
Nothing == Sel({}, {}, FALSE)

-----------------------------------------------------------------------------
(* What the targets mean: the OR of their fields.                           *)
Named(targets) ==
  {id \in DOMAIN apps :
     \/ targets = {}
     \/ \E t \in targets : \/ t.kind = "all"
                           \/ t.kind = "id" /\ t.id = id
                           \/ t.kind = "name" /\ InFamily(apps[id].name, t.name)}

TargetSet == {cmd.targets[i] : i \in DOMAIN cmd.targets}
Selection == SelectorOf(TargetSet)

App(id) == [id |-> id, serial |-> apps[id].serial]
Apps(ids) == {App(id) : id \in ids}

Init ==
  /\ \E reg \in Registries, k \in 0 .. MaxId + 1 :
       /\ DOMAIN reg = 0 .. k - 1 /\ nextID = k /\ serial = k
       /\ apps = [id \in DOMAIN reg |-> [name |-> reg[id], serial |-> id + 1]]
  /\ cmd \in Commands /\ phase = "start" /\ rpcs = <<>> /\ others = 0
  /\ result = [ids |-> {}, err |-> FALSE]
  /\ asked = Apps(Named(TargetSet)) /\ served = {} /\ twice = FALSE

(* What is left to resolve of a selector, and to serve of what was resolved.*)
Call(sel) ==
  [sel |-> sel, left |-> Meant(sel), todo |-> {}, ids |-> {}, err |-> FALSE,
   ended |-> FALSE, answer |-> "none"]

Send(sels) ==
  /\ phase' = "calls" /\ rpcs' = [i \in DOMAIN sels |-> Call(sels[i])]
  /\ UNCHANGED <<registry, cmd, result, others, past>>

(* HTTP requests and reloads go out as they are.                            *)
Direct ==
  /\ phase = "start" /\ (cmd.via = "http" \/ cmd.op = "reload")
  /\ Send(<<Selection>>)

Parallel == phase = "start" /\ cmd.via = "cli" /\ cmd.op # "reload"
SendSplit ==
  /\ Parallel /\ Explicit(Selection)
  /\ \E ts \in Gathered(cmd.targets) : Send(SplitSelector(ts, cmd.n))
SendListed ==
  /\ Parallel /\ ~Explicit(Selection) /\ DOMAIN apps # {}
  /\ \E ts \in Listings(DOMAIN apps) : Send(Pack(ts, cmd.n))
(* The list is empty, or fails: the selector goes out as it is.             *)
SendUnlisted == Parallel /\ ~Explicit(Selection) /\ Send(<<Selection>>)

-----------------------------------------------------------------------------
(* The daemon resolves one id or name at a time, the ids first: the registry*)
(* moves in between.                                                        *)

Resolved(i, left, ids) ==
  /\ rpcs' = [rpcs EXCEPT ![i].left = left, ![i].todo = @ \cup ids]
  /\ UNCHANGED <<registry, cmd, phase, result, others, past>>

ResolveAll(i) ==
  rpcs[i].left.all /\ Resolved(i, Nothing, DOMAIN apps)
ResolveId(i) ==
  \E id \in rpcs[i].left.ids :
     Resolved(i, [rpcs[i].left EXCEPT !.ids = @ \ {id}], {id} \cap DOMAIN apps)
ResolveName(i) ==
  /\ rpcs[i].left.ids = {}
  /\ \E name \in rpcs[i].left.names :
       Resolved(i, [rpcs[i].left EXCEPT !.names = @ \ {name}],
                {id \in DOMAIN apps : InFamily(apps[id].name, name)})

(* The lowest pm_id is next; a reload goes by instance numbers.             *)
Turn(i, id) ==
  /\ rpcs[i].left = Nothing /\ id \in rpcs[i].todo
  /\ cmd.op = "reload" \/ \A j \in rpcs[i].todo : id <= j

(* RPC i is through with id; an error ends all but a reload.                *)
ServedOk(i, id) ==
  rpcs' = [rpcs EXCEPT ![i].todo = @ \ {id}, ![i].ids = @ \cup {id}]
ServedErr(i, id) ==
  rpcs' = [rpcs EXCEPT ![i].todo = IF cmd.op = "reload" THEN @ \ {id} ELSE {},
                       ![i].err = TRUE]

(* An emptied registry counts from 0 again.                                 *)
Unregister(id) ==
  /\ apps' = [j \in DOMAIN apps \ {id} |-> apps[j]]
  /\ nextID' = IF DOMAIN apps = {id} THEN 0 ELSE nextID
  /\ serial' = serial

(* Served, with or without an error: a delete that fails forgets its app    *)
(* all the same.                                                            *)
Serve(i, id) ==
  /\ Turn(i, id) /\ id \in DOMAIN apps
  /\ served' = served \cup {App(id)} /\ twice' = (twice \/ App(id) \in served)
  /\ ServedOk(i, id) \/ ServedErr(i, id)
  /\ IF cmd.op = "delete" THEN Unregister(id) ELSE UNCHANGED registry
  /\ UNCHANGED <<cmd, phase, result, others, asked>>

(* The app is gone since it was resolved.                                   *)
ServeGone(i, id) ==
  /\ Turn(i, id) /\ id \notin DOMAIN apps /\ ServedErr(i, id)
  /\ UNCHANGED <<registry, cmd, phase, result, others, past>>

(* http.go:264: a reload over HTTP fails only when it rolled nothing.       *)
Lenient == cmd.via = "http" /\ cmd.op = "reload"

(* "no matching app" when nothing was served.                               *)
Reply(i) ==
  /\ rpcs[i].left = Nothing /\ rpcs[i].todo = {} /\ ~rpcs[i].ended
  /\ LET ok == rpcs[i].ids # {} /\ (~rpcs[i].err \/ Lenient)
     IN  rpcs' = [rpcs EXCEPT ![i].ended = TRUE,
                    ![i].answer = IF @ # "none" THEN @ ELSE IF ok THEN "ok" ELSE "err"]
  /\ UNCHANGED <<registry, cmd, phase, result, others, past>>

(* The client's deadline passes; the daemon goes on.                        *)
Deadline(i) ==
  /\ rpcs[i].answer = "none" /\ rpcs' = [rpcs EXCEPT ![i].answer = "err"]
  /\ UNCHANGED <<registry, cmd, phase, result, others, past>>

(* An RPC that failed loses the ids it has served.                          *)
MergeLast(calls) == calls[Len(calls)].ids
MergeIDs(calls) ==
  UNION {calls[i].ids : i \in {j \in DOMAIN calls : calls[j].answer = "ok"}}

Merge ==
  /\ phase = "calls" /\ \A i \in DOMAIN rpcs : rpcs[i].answer # "none"
  /\ phase' = "done"
  /\ result' = [ids |-> MergeIDs(rpcs),
                err |-> \E i \in DOMAIN rpcs : rpcs[i].answer = "err"]
  /\ UNCHANGED <<registry, cmd, rpcs, others, past>>

-----------------------------------------------------------------------------
(* Other clients.                                                           *)

OtherStarts ==
  /\ others < MaxOthers /\ nextID \in Ids
  /\ \E name \in StartNames :
       apps' = [j \in DOMAIN apps \cup {nextID} |->
                  IF j = nextID THEN [name |-> name, serial |-> serial + 1]
                  ELSE apps[j]]
  /\ nextID' = nextID + 1 /\ serial' = serial + 1 /\ others' = others + 1
  /\ UNCHANGED <<cmd, phase, rpcs, result, past>>

OtherDeletes ==
  /\ others < MaxOthers /\ \E id \in DOMAIN apps : Unregister(id)
  /\ others' = others + 1
  /\ UNCHANGED <<cmd, phase, rpcs, result, past>>

-----------------------------------------------------------------------------
Resolve(i) == ResolveAll(i) \/ ResolveId(i) \/ ResolveName(i)
Daemon(i) ==
  \/ Resolve(i) \/ Reply(i)
  \/ \E id \in rpcs[i].todo : Serve(i, id) \/ ServeGone(i, id)

Next ==
  \/ Direct \/ SendSplit \/ SendListed \/ SendUnlisted \/ Merge
  \/ \E i \in DOMAIN rpcs : Daemon(i) \/ Deadline(i)
  \/ OtherStarts \/ OtherDeletes

Spec == Init /\ [][Next]_vars

-----------------------------------------------------------------------------
(* An RPC carries "all" beside ids or names.                                *)
Mixed == \E i \in DOMAIN rpcs : rpcs[i].sel # Meant(rpcs[i].sel)

(* A command that reports no error has served every app that its targets    *)
(* named when it began and that is still there: packing the tail, listing,  *)
(* and deletes in between lose none (client.go:161-239).  "all" with more,  *)
(* sent as it is, is left to SelectorOred; a reload over HTTP that rolled   *)
(* one reports no error.                                                    *)
SuccessCovers ==
  phase = "done" /\ ~result.err /\ ~Mixed /\ ~Lenient =>
    asked \cap Apps(DOMAIN apps) \subseteq served

(* A command reports nothing it did not do, and leaves out only what an RPC *)
(* that failed has done; it serves no app twice, unless the app was named   *)
(* twice over parallel RPCs (client.go:161-340).                            *)
ReportHonest ==
  phase = "done" =>
    /\ result.ids \subseteq {v.id : v \in served}
    /\ ~result.err /\ ~Lenient => result.ids = {v.id : v \in served}
    /\ cmd.n = 1 \/ ~Explicit(Selection) => ~twice

(* daemon.proto:87: "If multiple fields are set, they are OR-ed".           *)
SelectorOred ==
  phase = "done" /\ ~result.err /\ ~Lenient =>
    asked \cap Apps(DOMAIN apps) \subseteq served
=============================================================================
