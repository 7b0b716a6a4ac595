------------------------------- MODULE Control -------------------------------
(***************************************************************************)
(* The requests of the control plane (internal/daemon/control.go) served   *)
(* side by side over one registry, and the log route of every pm_id        *)
(* (logroute.go).                                                          *)
(*                                                                         *)
(* A handler resolves its selector once and then takes the registry's lock *)
(* for one app at a time; everything in between belongs to others.  The    *)
(* machine actor is reduced to running or parked and its kill path to its  *)
(* outcome: Machine and KillPath have the detail.  Reload is modelled in   *)
(* Supervisor, what survives the daemon in Persist.                        *)
(***************************************************************************)
EXTENDS Integers, FiniteSets

CONSTANTS
  Callers,    \* request handlers at work at the same time
  MaxId,      \* bound: pm_ids 0 .. MaxId
  Dumps,      \* bound: the sets of pm_ids a dump may hold
  MaxSerial,  \* bound: registrations
  MaxFailed   \* bound: trees that outlive a kill at a time

Ids == 0 .. MaxId

ASSUME BoundsAssumption ==
  MaxId \in Nat /\ MaxSerial \in Nat /\ MaxFailed \in Nat

ASSUME DumpsAssumption == Dumps \subseteq SUBSET Ids /\ {} \notin Dumps

(* One app family is enough; which instance of it an app is, is left out.   *)
Serials == 0 .. MaxSerial
None == [serial |-> 0, run |-> FALSE]

Apps == [serial : Serials, run : BOOLEAN]
Trees == [id : Ids, serial : Serials]
Views == [id : Ids, serial : Serials]

VARIABLES
  apps,     \* apps[id]: the app registered at pm_id id, or None
  nextID,   \* the registry's id counter
  serial,   \* registrations so far
  routes,   \* routes[id]: the serial of the app whose log route it is, or 0
  trees,    \* the registrations some of whose processes live
  op, at,   \* op[c], at[c]: the request c serves, and where it is
  todo,     \* todo[c]: the views it still has to act on
  fresh,    \* fresh[c]: the views it still has to give a route
  failed,   \* history: the trees that survived a kill
  reuse,    \* history: reuse[c]: the pm_ids c has resolved that went round since
  recycled, \* history: the pm_ids given out while a predecessor's route, or a
            \* lookup of the predecessor, was there
  emptied,  \* history: the registry was emptied
  deleted   \* history: a delete was requested

registry == <<apps, nextID, serial>>
work == <<op, at, todo, fresh>>
past == <<reuse, recycled, emptied, deleted>>
vars == <<registry, routes, trees, work, failed, past>>

Requests ==
  {"start", "stop", "restart", "delete", "grow", "shrink", "logs", "resurrect"}

TypeOK ==
  /\ apps \in [Ids -> Apps] /\ nextID \in 0 .. MaxId + 1 /\ serial \in Serials
  /\ routes \in [Ids -> Serials]
  /\ trees \in SUBSET Trees /\ failed \in SUBSET Trees
  /\ op \in [Callers -> Requests \cup {"none"}]
  /\ at \in [Callers -> {"idle", "act", "close", "describe", "ensure", "grow", "revive"}]
  /\ todo \in [Callers -> SUBSET Views] /\ fresh \in [Callers -> SUBSET Views]
  /\ reuse \in [Callers -> SUBSET Ids] /\ recycled \in SUBSET Ids
  /\ emptied \in BOOLEAN /\ deleted \in BOOLEAN

Init ==
  /\ apps = [i \in Ids |-> None] /\ nextID = 0 /\ serial = 0
  /\ routes = [i \in Ids |-> 0] /\ trees = {} /\ failed = {}
  /\ op = [c \in Callers |-> "none"] /\ at = [c \in Callers |-> "idle"]
  /\ todo = [c \in Callers |-> {}] /\ fresh = [c \in Callers |-> {}]
  /\ reuse = [c \in Callers |-> {}] /\ recycled = {}
  /\ emptied = FALSE /\ deleted = FALSE

Registered == {i \in Ids : apps[i].serial # 0}
View(i) == [id |-> i, serial |-> apps[i].serial]
Listing == {View(i) : i \in Registered}
TreeOf(i) == {t \in trees : t.id = i /\ t.serial = apps[i].serial}

(* Views are handled in the order of their pm_ids.                          *)
First(V) == CHOOSE v \in V : \A w \in V : v.id <= w.id
Last(V) == CHOOSE v \in V : \A w \in V : v.id >= w.id

(* Handler c is at p of its request r, with V to act on, and R to give a    *)
(* route.                                                                   *)
Answers(c, r, p, V, R) ==
  /\ op' = [op EXCEPT ![c] = IF p = "idle" THEN "none" ELSE r]
  /\ at' = [at EXCEPT ![c] = p] /\ todo' = [todo EXCEPT ![c] = V]
  /\ fresh' = [fresh EXCEPT ![c] = R]
Goes(c, p, V, R) == Answers(c, op[c], p, V, R)
Ends(c) == Goes(c, "idle", {}, {})

Request(c, r, p, V, R) ==
  at[c] = "idle" /\ Answers(c, r, p, V, R) /\ reuse' = [reuse EXCEPT ![c] = {}]

(* What is next for a handler whose views at p are all served but V.        *)
Then(p, V) == IF V = {} THEN "idle" ELSE p

(* The pm_id's predecessor is still known by a route, or about to get one.  *)
InHand(i) ==
  \/ routes[i] # 0
  \/ \E d \in Callers : /\ at[d] \in {"describe", "ensure"}
                        /\ \E v \in fresh[d] : v.id = i /\ v.serial # 0
GivenAgain(I) ==
  reuse' = [d \in Callers |-> reuse[d] \cup (I \cap {v.id : v \in todo[d]})]

-----------------------------------------------------------------------------
(* Start and scale up: a block of ids under the lock, then the routes.      *)

(* StartApps registers n apps at the next ids, whatever is there; a failed  *)
(* spawn leaves its app registered and parked.                              *)
StartApps(n, ok) ==
  LET block == nextID .. nextID + n - 1
      Nth(i) == serial + 1 + (i - nextID)
  IN  /\ apps' = [i \in Ids |-> IF i \in block THEN [serial |-> Nth(i), run |-> i \in ok]
                                               ELSE apps[i]]
      /\ nextID' = nextID + n /\ serial' = serial + n
      /\ trees' = trees \cup {[id |-> i, serial |-> Nth(i)] : i \in ok}

(* Any failed spawn of the batch ends the request before its routes.        *)
StartBatch(c, r, n) ==
  LET block == nextID .. nextID + n - 1
      views == {[id |-> i, serial |-> 0] : i \in block}
  IN  /\ nextID + n - 1 <= MaxId /\ serial + n <= MaxSerial
      /\ \E ok \in SUBSET block :
           /\ StartApps(n, ok)
           /\ IF ok = block THEN Answers(c, r, "describe", {}, views)
                            ELSE Answers(c, r, "idle", {}, {})
      /\ recycled' = recycled \cup {i \in block : emptied /\ InHand(i)}
      /\ UNCHANGED <<routes, failed, reuse, emptied, deleted>>

StartOne(c) == at[c] = "idle" /\ StartBatch(c, "start", 1)
StartTwo(c) == at[c] = "idle" /\ StartBatch(c, "start", 2)

(* The family is listed, and one instance more started in a second step.    *)
Grow(c) ==
  /\ Listing # {} /\ Request(c, "grow", "grow", {}, {})
  /\ UNCHANGED <<registry, routes, trees, failed, recycled, emptied, deleted>>
GrowStarts(c) == at[c] = "grow" /\ StartBatch(c, "grow", 1)

(* ensureRoutesFor looks an id up, and creates its route in a second step.  *)
(* A resurrect has its next entry to go on with.                            *)
Describe(c) ==
  /\ at[c] = "describe"
  /\ LET v == First(fresh[c])
         rest == fresh[c] \ {v}
         done == IF rest = {} THEN Then("revive", todo[c]) ELSE "describe"
     IN  IF v.id \in Registered
         THEN Goes(c, "ensure", todo[c], rest \cup {View(v.id)})
         ELSE Goes(c, done, todo[c], rest)
  /\ UNCHANGED <<registry, routes, trees, failed, past>>

(* A route that is there is kept, whoever it was made for.                  *)
EnsureRoute(c) ==
  /\ at[c] = "ensure"
  /\ LET v == First(fresh[c])
         rest == fresh[c] \ {v}
         more == IF op[c] = "logs" THEN "ensure" ELSE "describe"
         done == IF rest = {} THEN Then("revive", todo[c]) ELSE more
     IN  /\ routes' = IF routes[v.id] = 0 THEN [routes EXCEPT ![v.id] = v.serial]
                                          ELSE routes
         /\ Goes(c, done, todo[c], rest)
  /\ UNCHANGED <<registry, trees, failed, past>>

-----------------------------------------------------------------------------
(* Resurrect: the apps of a dump come back, at the pm_ids they had.         *)

Resurrect(c) ==
  /\ \E D \in Dumps :
       Request(c, "resurrect", "revive", {[id |-> i, serial |-> 0] : i \in D}, {})
  /\ UNCHANGED <<registry, routes, trees, failed, recycled, emptied, deleted>>

RegisterAt(i, ok) ==
  /\ i \notin Registered /\ serial < MaxSerial /\ serial' = serial + 1
  /\ apps' = [apps EXCEPT ![i] = [serial |-> serial + 1, run |-> ok]]
  /\ nextID' = IF i >= nextID THEN i + 1 ELSE nextID
  /\ GivenAgain({i})
  /\ recycled' = recycled \cup {j \in {i} : InHand(j)}

(* A survivor at the pm_id is adopted, or else an app is started; a pm_id   *)
(* that is taken, or a failed spawn, is counted, and the next one is due.   *)
Revive(c) ==
  /\ at[c] = "revive"
  /\ LET v == First(todo[c])
         rest == todo[c] \ {v}
         new == [id |-> v.id, serial |-> serial + 1]
     IN  \/ /\ RegisterAt(v.id, TRUE)
            /\ \E T \in {{}} \cup {{t} : t \in {u \in trees : u.id = v.id}} :
                 /\ trees' = (trees \ T) \cup {new} /\ failed' = failed \ T
            /\ Goes(c, "describe", rest, {v})
         \/ /\ RegisterAt(v.id, FALSE) /\ Goes(c, Then("revive", rest), rest, {})
            /\ UNCHANGED <<trees, failed>>
         \/ /\ v.id \in Registered /\ Goes(c, Then("revive", rest), rest, {})
            /\ UNCHANGED <<registry, trees, failed, reuse, recycled>>
  /\ UNCHANGED <<routes, emptied, deleted>>

-----------------------------------------------------------------------------
(* Requests that act on resolved ids, one by one.                           *)

(* A selector: all, or one app.                                             *)
Selections == {Listing} \cup {{v} : v \in Listing}

Resolved(c, r, V) ==
  /\ V # {} /\ Request(c, r, "act", V, {})
  /\ UNCHANGED <<registry, routes, trees, failed, recycled, emptied>>

Stop(c) == \E V \in Selections : Resolved(c, "stop", V) /\ UNCHANGED deleted
Restart(c) == \E V \in Selections : Resolved(c, "restart", V) /\ UNCHANGED deleted
Delete(c) == \E V \in Selections : Resolved(c, "delete", V) /\ deleted' = TRUE

(* Scale down by one: never the whole family; of the apps listed the one    *)
(* with the highest pm_id goes.                                             *)
ShrinkToNone(c) ==
  /\ Cardinality(Listing) >= 1
  /\ Resolved(c, "shrink", {Last(Listing)}) /\ UNCHANGED deleted
Shrink(c) ==
  /\ Cardinality(Listing) >= 2
  /\ Resolved(c, "shrink", {Last(Listing)}) /\ UNCHANGED deleted

(* StreamLogs attaches to each app it has listed.                           *)
Logs(c) ==
  /\ Listing # {} /\ Request(c, "logs", "ensure", {}, Listing)
  /\ UNCHANGED <<registry, routes, trees, failed, recycled, emptied, deleted>>

(* The kill path: nothing of the app's tree lives, or there are survivors,  *)
(* which is an error.  A start or restart of an app whose kill failed lets  *)
(* go of the survivors, and they are out of reach of later kills.           *)
KillEnds(i) == trees' = trees \ TreeOf(i) /\ failed' = failed \ TreeOf(i)
KillFails(i) ==
  /\ TreeOf(i) # {} /\ Cardinality(failed \cup TreeOf(i)) <= MaxFailed
  /\ UNCHANGED trees /\ failed' = failed \cup TreeOf(i)
KillMisses(i) == TreeOf(i) \cap failed # {} /\ UNCHANGED <<trees, failed>>
Kills(i) == KillEnds(i) \/ KillMisses(i)

Sets(i, r) == apps' = [apps EXCEPT ![i].run = r]

(* One app, by its id; an id that is gone, or an error, ends the request.   *)
ActStop(c) ==
  /\ at[c] = "act" /\ op[c] = "stop"
  /\ LET v == First(todo[c])
         rest == todo[c] \ {v}
     IN  \/ /\ v.id \in Registered /\ Sets(v.id, FALSE)
            /\ Kills(v.id) /\ Goes(c, Then("act", rest), rest, {})
         \/ /\ v.id \in Registered /\ Sets(v.id, FALSE)
            /\ KillFails(v.id) /\ Ends(c)
         \/ v.id \notin Registered /\ Ends(c) /\ UNCHANGED <<apps, trees, failed>>
  /\ UNCHANGED <<nextID, serial, routes, past>>

(* The old tree goes, and a new one is spawned, or fails to.                *)
ActRestart(c) ==
  /\ at[c] = "act" /\ op[c] = "restart"
  /\ LET v == First(todo[c])
         rest == todo[c] \ {v}
         new == [id |-> v.id, serial |-> apps[v.id].serial]
     IN  \/ /\ v.id \in Registered /\ Sets(v.id, TRUE)
            /\ trees' = trees \cup {new}
            /\ failed' = failed \ TreeOf(v.id) \/ failed' = failed
            /\ Goes(c, Then("act", rest), rest, {})
         \/ /\ v.id \in Registered /\ Sets(v.id, FALSE)
            /\ (Kills(v.id) \/ KillFails(v.id)) /\ Ends(c)
         \/ v.id \notin Registered /\ Ends(c) /\ UNCHANGED <<apps, trees, failed>>
  /\ UNCHANGED <<nextID, serial, routes, past>>

(* The entry goes, whatever the kill said.  An emptied registry counts from *)
(* 0 again.                                                                 *)
UnregisterResets(i) ==
  LET last == Registered = {i}
  IN  /\ apps' = [apps EXCEPT ![i] = None] /\ nextID' = 0
      /\ IF last THEN GivenAgain(Ids) ELSE UNCHANGED reuse
      /\ emptied' = (emptied \/ last)
UnregisterRewinds(i) ==
  LET last == Registered = {i}
  IN  /\ apps' = [apps EXCEPT ![i] = None]
      /\ nextID' = IF last THEN 0 ELSE IF nextID = i + 1 THEN i ELSE nextID
      /\ IF last THEN GivenAgain(Ids) ELSE UNCHANGED reuse
      /\ emptied' = (emptied \/ last)
Unregister(i) ==
  LET last == Registered = {i}
  IN  /\ apps' = [apps EXCEPT ![i] = None]
      /\ nextID' = IF last THEN 0 ELSE nextID
      /\ IF last THEN GivenAgain(Ids) ELSE UNCHANGED reuse
      /\ emptied' = (emptied \/ last)

(* An error ends the request, after the route.                              *)
ActDelete(c) ==
  /\ at[c] = "act" /\ op[c] \in {"delete", "shrink"}
  /\ LET v == First(todo[c])
     IN  \/ /\ v.id \in Registered /\ Unregister(v.id)
            /\ Kills(v.id) /\ Goes(c, "close", todo[c], {})
         \/ /\ v.id \in Registered /\ Unregister(v.id)
            /\ KillFails(v.id) /\ Goes(c, "close", {v}, {})
         \/ /\ v.id \notin Registered /\ Goes(c, "close", {v}, {})
            /\ UNCHANGED <<apps, trees, failed, nextID, reuse, emptied>>
  /\ UNCHANGED <<serial, routes, recycled, deleted>>

(* The route goes after the app, whoever has the id by now.                 *)
CloseRoute(c) ==
  /\ at[c] = "close"
  /\ LET v == First(todo[c])
         rest == todo[c] \ {v}
     IN  /\ routes' = [routes EXCEPT ![v.id] = 0]
         /\ Goes(c, Then("act", rest), rest, {})
  /\ UNCHANGED <<registry, trees, failed, past>>

(* A tree ends by itself, and its actor parks the app; or the tree launched *)
(* beside survivors does, and they are left.                                *)
TreeExits(t) ==
  /\ t \in trees
  /\ \/ trees' = trees \ {t} /\ failed' = failed \ {t}
     \/ t \in failed /\ UNCHANGED <<trees, failed>>
  /\ apps' = IF apps[t.id].serial = t.serial
             THEN [apps EXCEPT ![t.id].run = FALSE] ELSE apps
  /\ UNCHANGED <<nextID, serial, routes, work, past>>

-----------------------------------------------------------------------------
Handler(c) ==
  \/ StartOne(c) \/ StartTwo(c) \/ Grow(c) \/ GrowStarts(c)
  \/ Stop(c) \/ Restart(c) \/ Delete(c) \/ Shrink(c) \/ Logs(c) \/ Resurrect(c)
  \/ Describe(c) \/ EnsureRoute(c) \/ Revive(c)
  \/ ActStop(c) \/ ActRestart(c) \/ ActDelete(c) \/ CloseRoute(c)

Next == (\E c \in Callers : Handler(c)) \/ \E t \in trees : TreeExits(t)

Spec == Init /\ [][Next]_vars

-----------------------------------------------------------------------------
(* Every live tree no kill of which has failed is its registered app's, and *)
(* the app's only one: no block of ids runs over an app that is there, no   *)
(* id that is given again finds the tree of its last owner, and a request   *)
(* that forgets an app leaves nothing of it but what its error spoke of     *)
(* (control.go:29-161, supervisor.go:120-160, 248-269).                     *)
TreesOwned ==
  \A t \in trees \ failed :
     /\ apps[t.id].serial = t.serial /\ apps[t.id].run
     /\ \A u \in trees \ failed : u.id = t.id => u = t

(* A request acts on the app it resolved, or on none: a pm_id can have gone *)
(* to another app only if a resurrect gave it out since, or the registry    *)
(* was emptied.                                                             *)
TargetKept ==
  \A c \in Callers : at[c] = "act" =>
     \A v \in todo[c] :
        v.id \notin reuse[c] => apps[v.id].serial \in {0, v.serial}

(* Scaling never empties a family, whatever scales at the same time on a    *)
(* count that is out of date (control.go:257-262).                          *)
ScaleKeepsOne == ~deleted /\ serial > 0 => Registered # {}

(* An app's log route was made for that app, unless its pm_id came round,   *)
(* by a resurrect or after the registry was emptied, before the route or a  *)
(* lookup of its last owner was gone (logroute.go:124-127): a delete that   *)
(* closes the route late, a lookup gone stale and a lazy attach never mix   *)
(* up two apps otherwise.                                                   *)
RouteOwned ==
  \A i \in Registered \ recycled : routes[i] \in {0, apps[i].serial}

(* logroute.go:124-127 without the exception: "a reused pm_id never         *)
(* inherits a stale ring", once no request is under way.                    *)
RouteFresh ==
  (\A c \in Callers : at[c] = "idle") =>
    \A i \in Registered : routes[i] \in {0, apps[i].serial}
=============================================================================
