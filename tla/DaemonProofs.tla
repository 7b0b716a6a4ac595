---------------------------- MODULE DaemonProofs -----------------------------
(***************************************************************************)
(* Proofs about the daemon's requests: Control, for every number of        *)
(* callers, ids and registrations and every set of dumps, and, in the      *)
(* second half, Persist, for every number of callers, ids, names, ends of  *)
(* the daemon and pm_ids with a kill or an adoption that fails.            *)
(*                                                                         *)
(* What Control's safety properties need and do not say: the counter is    *)
(* above every registered id and above every id a request still holds,     *)
(* unless the registry was emptied or a resurrect took the id in between;  *)
(* and the lowest app of a family is nobody's to shrink away.              *)
(***************************************************************************)
EXTENDS Control, MCPersist, FiniteSetTheorems, WellFoundedInduction, TLAPS

Places == {"idle", "act", "close", "describe", "ensure", "grow", "revive"}

(* A request has something left to do wherever it reads its first view, and *)
(* a resurrect looks up what it has registered.                             *)
Busy ==
  \A c \in Callers :
     /\ at[c] \in {"act", "close", "revive"} => todo[c] # {}
     /\ at[c] \in {"describe", "ensure"} => fresh[c] # {}
     /\ at[c] \in {"describe", "ensure", "revive"} => \A v \in todo[c] : v.serial = 0

(* The counters are above every registered app.                             *)
Counted ==
  \A i \in Ids : apps[i].serial # 0 => i < nextID /\ apps[i].serial <= serial

Owned == TreesOwned /\ \A t \in trees : t.serial # 0

(* TargetKept, and the ids held stay below the counter.                     *)
TargetKnown ==
  \A c \in Callers :
     at[c] \in {"act", "close"} =>
       \A v \in todo[c] :
          v.id \notin reuse[c] =>
            v.id < nextID /\ apps[v.id].serial \in {0, v.serial}

(* m is the lowest registered pm_id, and no shrink under way holds it.      *)
Lowest(m) ==
  /\ \A j \in Registered : m <= j
  /\ \A c \in Callers : op[c] = "shrink" => \A v \in todo[c] : m < v.id

LowestKept ==
  /\ \A c \in Callers : /\ op[c] = "delete" => deleted
                        /\ op[c] = "shrink" => serial > 0
  /\ ~deleted /\ serial > 0 => \E m \in Registered : Lowest(m)

(* Handler c is to make routes.                                             *)
Routing(c) == at[c] \in {"describe", "ensure"}

(* Above the counter no pm_id has a route, or is to get one.                *)
RoutesCounted ==
  ~emptied => /\ \A i \in Ids : i >= nextID => routes[i] = 0
              /\ \A c \in Callers : Routing(c) => \A v \in fresh[c] : v.id < nextID

(* RouteOwned, and no route is promised to another app than the one that    *)
(* has the id.                                                              *)
RoutesKnown ==
  /\ \A i \in Ids \ recycled : apps[i].serial # 0 => routes[i] \in {0, apps[i].serial}
  /\ \A c \in Callers : Routing(c) =>
       \A v \in fresh[c] :
          v.id \notin recycled /\ v.serial # 0 /\ apps[v.id].serial # 0
            => apps[v.id].serial = v.serial

IInv ==
  /\ TypeOK /\ Busy /\ Counted /\ Owned /\ TargetKnown /\ LowestKept
  /\ RoutesCounted /\ RoutesKnown

-----------------------------------------------------------------------------
(* First and Last name a member of any set of views.                        *)
LEMMA LeastNatural ==
  ASSUME NEW S \in SUBSET Nat, S # {}
  PROVE  \E x \in S : \A y \in S : x <= y
<1>1. PICK x \in S : \A y \in S : ~ (<<y, x>> \in OpToRel(<, Nat))
  BY NatLessThanWellFounded, WFMin
<1>2. \A y \in S : ~ (y < x)
  BY <1>1 DEF OpToRel
<1> QED
  BY <1>2

LEMMA FirstMember ==
  ASSUME NEW V \in SUBSET Views, V # {}
  PROVE  First(V) \in V /\ \A w \in V : First(V).id <= w.id
<1> USE BoundsAssumption DEF Ids, Views
<1>0. {v.id : v \in V} \in SUBSET Nat /\ {v.id : v \in V} # {}
  OBVIOUS
<1>1. PICK x \in {v.id : v \in V} : \A y \in {v.id : v \in V} : x <= y
  BY <1>0, LeastNatural
<1>2. \E v \in V : \A w \in V : v.id <= w.id
  BY <1>1
<1> QED
  BY <1>2 DEF First

LEMMA LastMember ==
  ASSUME NEW V \in SUBSET Views, V # {}
  PROVE  Last(V) \in V /\ \A w \in V : Last(V).id >= w.id
<1> USE BoundsAssumption DEF Ids, Views
<1>0. {MaxId - v.id : v \in V} \in SUBSET Nat /\ {MaxId - v.id : v \in V} # {}
  OBVIOUS
<1>1. PICK x \in {MaxId - v.id : v \in V} : \A y \in {MaxId - v.id : v \in V} : x <= y
  BY <1>0, LeastNatural
<1>2. PICK v \in V : x = MaxId - v.id
  BY <1>1
<1>3. \A w \in V : v.id >= w.id
  <2> SUFFICES ASSUME NEW w \in V PROVE v.id >= w.id
    OBVIOUS
  <2>1. MaxId - v.id <= MaxId - w.id
    BY <1>1, <1>2
  <2>2. v.id \in Int /\ w.id \in Int /\ MaxId \in Int
    OBVIOUS
  <2> QED
    BY <2>1, <2>2
<1>4. \E u \in V : \A w \in V : u.id >= w.id
  BY <1>3
<1> QED
  BY <1>4 DEF Last

-----------------------------------------------------------------------------
(* What a listing holds: the registered apps, as they are.                  *)
LEMMA ListingViews ==
  ASSUME TypeOK
  PROVE  /\ Listing \in SUBSET Views
         /\ \A v \in Listing : v.id \in Registered /\ v.serial = apps[v.id].serial
<1> QED
  BY DEF TypeOK, Listing, View, Registered, Views, Apps

-----------------------------------------------------------------------------
(* What the kill path leaves at a pm_id is a tree whose kill failed.        *)
LEMMA KillsLeave ==
  ASSUME TypeOK, Owned, NEW i \in Ids, Kills(i) \/ KillFails(i)
  PROVE  /\ trees' \in SUBSET trees /\ failed' \in SUBSET Trees
         /\ \A t \in trees' \ failed' : t \in trees \ failed /\ t.id # i
<1>1. trees \in SUBSET Trees /\ failed \in SUBSET Trees
  BY DEF TypeOK
<1>2. \A t \in trees \ failed : t.id = i => t \in TreeOf(i)
  BY DEF Owned, TreesOwned, TreeOf
<1>3. CASE KillEnds(i)
  BY <1>1, <1>2, <1>3 DEF KillEnds
<1>4. CASE KillFails(i)
  BY <1>1, <1>2, <1>4 DEF KillFails, TreeOf
<1>5. CASE KillMisses(i)
  <2>1. PICK u \in TreeOf(i) : u \in failed
    BY <1>5 DEF KillMisses
  <2>2. \A t \in TreeOf(i) : t = u
    BY <1>1, <2>1 DEF TreeOf, Trees
  <2>3. \A t \in trees \ failed : t.id # i
    BY <1>2, <2>1, <2>2
  <2> QED
    BY <2>3, <1>1, <1>5 DEF KillMisses
<1> QED
  BY <1>3, <1>4, <1>5 DEF Kills

(* A step of a handler that leaves the apps where they are keeps what IInv  *)
(* says of requests and counters.                                           *)
LEMMA StepKeeps ==
  ASSUME IInv, NEW c \in Callers, NEW p \in Places,
         NEW V \in SUBSET todo[c], NEW R \in SUBSET Views, Goes(c, p, V, R),
         UNCHANGED <<nextID, serial, past>>,
         apps' \in [Ids -> Apps], \A i \in Ids : apps'[i].serial = apps[i].serial,
         routes' \in [Ids -> Serials],
         trees' \in SUBSET Trees, failed' \in SUBSET Trees, Owned',
         p \in {"act", "close"} => at[c] \in {"act", "close"},
         p \in {"describe", "ensure", "revive"} =>
           at[c] \in {"describe", "ensure", "revive"},
         p \in {"act", "close", "revive"} => V # {},
         p \in {"describe", "ensure"} => R # {},
         RoutesCounted', RoutesKnown'
  PROVE  IInv'
<1> USE BoundsAssumption
<1>1. TypeOK /\ todo[c] \in SUBSET Views /\ UNCHANGED <<reuse, recycled, emptied, deleted>>
  BY DEF IInv, TypeOK, past
<1> V \in SUBSET Views /\ Answers(c, op[c], p, V, R)
  BY <1>1 DEF Goes
<1>2. /\ op' \in [Callers -> Requests \cup {"none"}] /\ at' \in [Callers -> Places]
      /\ todo' \in [Callers -> SUBSET Views] /\ fresh' \in [Callers -> SUBSET Views]
      /\ at'[c] = p /\ todo'[c] = V /\ fresh'[c] = R /\ op'[c] \in {op[c], "none"}
      /\ \A d \in Callers \ {c} : /\ op'[d] = op[d] /\ at'[d] = at[d]
                                  /\ todo'[d] = todo[d] /\ fresh'[d] = fresh[d]
  BY <1>1 DEF TypeOK, Places, Answers
<1>3. TypeOK'
  BY <1>1, <1>2 DEF TypeOK, Places
<1>4. Busy'
  BY <1>2 DEF IInv, Busy
<1>5. Counted'
  BY DEF IInv, Counted
<1>6. TargetKnown'
  <2>1. \A d \in Callers : /\ at'[d] \in {"act", "close"} => at[d] \in {"act", "close"}
                           /\ todo'[d] \in SUBSET todo[d]
    BY <1>2
  <2>2. \A d \in Callers : \A v \in todo[d] : v.id \in Ids
    BY <1>1 DEF TypeOK, Views
  <2> QED
    BY <2>1, <2>2, <1>1 DEF IInv, TargetKnown
<1>7. LowestKept'
  <2>1. Registered' = Registered
    BY DEF Registered
  <2>2. \A m \in Registered : Lowest(m) => Lowest(m)'
    BY <2>1, <1>2 DEF Lowest
  <2> QED
    BY <2>1, <2>2, <1>1, <1>2 DEF IInv, LowestKept
<1> QED
  BY <1>3, <1>4, <1>5, <1>6, <1>7 DEF IInv

(* A new request, with views of apps that are registered as they are, or    *)
(* the pm_ids of a dump.                                                    *)
LEMMA RequestKeeps ==
  ASSUME IInv, NEW c \in Callers, NEW r \in Requests, NEW p \in Places \ {"close"},
         NEW V \in SUBSET Views, NEW R \in SUBSET Listing, Request(c, r, p, V, R),
         UNCHANGED <<registry, routes, trees, failed, recycled, emptied>>,
         deleted' \in BOOLEAN, deleted => deleted', r = "delete" => deleted',
         p = "act" => V \in SUBSET Listing,
         p \in {"describe", "ensure", "revive"} => \A v \in V : v.serial = 0,
         p \in {"act", "revive"} => V # {},
         p \in {"describe", "ensure"} => R # {},
         r = "shrink" => /\ Listing # {}
                         /\ ~deleted => \A v \in V : \E j \in Registered : j < v.id
  PROVE  IInv'
<1> USE BoundsAssumption
<1>1. /\ TypeOK /\ Listing \in SUBSET Views
      /\ \A v \in Listing : v.id \in Registered /\ v.serial = apps[v.id].serial
      /\ UNCHANGED <<apps, nextID, serial>>
  BY ListingViews DEF IInv, registry
<1>2. Answers(c, r, p, V, R) /\ reuse' = [reuse EXCEPT ![c] = {}]
  BY DEF Request
<1> p \in Places /\ R \in SUBSET Views
  BY <1>1
<1>3. /\ op' \in [Callers -> Requests \cup {"none"}] /\ at' \in [Callers -> Places]
      /\ todo' \in [Callers -> SUBSET Views] /\ fresh' \in [Callers -> SUBSET Views]
      /\ at'[c] = p /\ todo'[c] = V /\ fresh'[c] = R /\ op'[c] \in {r, "none"}
      /\ \A d \in Callers \ {c} : /\ op'[d] = op[d] /\ at'[d] = at[d]
                                  /\ todo'[d] = todo[d] /\ fresh'[d] = fresh[d]
  BY <1>1, <1>2 DEF TypeOK, Places, Answers
<1>4. TypeOK'
  <2>1. reuse' \in [Callers -> SUBSET Ids]
    BY <1>1, <1>2 DEF TypeOK
  <2> QED
    BY <2>1, <1>1, <1>3 DEF TypeOK, Places
<1>5. Busy'
  BY <1>3 DEF IInv, Busy
<1>6. Counted' /\ Owned'
  BY <1>1 DEF IInv, Counted, Owned, TreesOwned
<1>7. TargetKnown'
  <2>1. p = "act" => \A v \in V : v.id < nextID /\ apps[v.id].serial = v.serial
    BY <1>1 DEF IInv, Counted, Registered
  <2>2. \A d \in Callers \ {c} : reuse'[d] = reuse[d]
    BY <1>1, <1>2 DEF TypeOK
  <2> QED
    BY <2>1, <2>2, <1>1, <1>3 DEF IInv, TargetKnown
<1>8. LowestKept'
  <2>1. Registered' = Registered
    BY <1>1 DEF Registered
  <2>2. r = "shrink" => serial > 0
    BY <1>1 DEF IInv, Counted, TypeOK, Registered, Apps, Serials
  <2>3. ASSUME ~deleted', serial' > 0 PROVE \E m \in Registered' : Lowest(m)'
    <3>1. PICK m \in Registered : Lowest(m)
      BY <2>3, <1>1 DEF IInv, LowestKept
    <3>2. r = "shrink" => \A v \in V : m < v.id
      BY <2>3, <3>1 DEF Lowest, Registered, Ids, Views
    <3>3. Lowest(m)'
      BY <3>1, <3>2, <2>1, <1>3 DEF Lowest
    <3> QED
      BY <3>1, <3>3, <2>1
  <2> QED
    BY <2>2, <2>3, <1>1, <1>3 DEF IInv, LowestKept
<1>9. RoutesCounted'
  BY <1>1, <1>3 DEF IInv, RoutesCounted, Routing, Counted, Registered
<1>10. RoutesKnown'
  BY <1>1, <1>3 DEF IInv, RoutesKnown, Routing
<1> QED
  BY <1>4, <1>5, <1>6, <1>7, <1>8, <1>9, <1>10 DEF IInv

-----------------------------------------------------------------------------
(* One lemma per action: it preserves every part of IInv.                   *)

(* Of two apps or more, one is below the last.                              *)
LEMMA ShrinkKeeps ==
  ASSUME IInv, NEW c \in Callers, Shrink(c)
  PROVE  IInv'
<1> USE BoundsAssumption
<1>1. /\ Cardinality(Listing) >= 2 /\ Resolved(c, "shrink", {Last(Listing)})
      /\ deleted' = deleted
  BY DEF Shrink
<1>2. Listing # {} /\ Listing \in SUBSET Views
  BY <1>1, FS_EmptySet, ListingViews DEF IInv
<1>3. Last(Listing) \in Listing /\ \A w \in Listing : Last(Listing).id >= w.id
  BY <1>2, LastMember
<1>4. \E j \in Registered : j < Last(Listing).id
  <2>1. Listing # {Last(Listing)}
    <3>1. Cardinality({Last(Listing)}) = 1
      BY FS_Singleton
    <3> QED
      BY <3>1, <1>1
  <2>2. PICK w \in Listing : w # Last(Listing)
    BY <2>1, <1>3
  <2>3. w.id # Last(Listing).id
    <3>1. PICK i \in Registered : w = View(i)
      BY <2>2 DEF Listing
    <3>2. PICK j \in Registered : Last(Listing) = View(j)
      BY <1>3 DEF Listing
    <3>3. w.id = i /\ Last(Listing).id = j
      BY <3>1, <3>2 DEF View
    <3> QED
      BY <2>2, <3>1, <3>2, <3>3
  <2> QED
    BY <2>2, <2>3, <1>2, <1>3, ListingViews DEF IInv, Views, Ids
<1>5. deleted \in BOOLEAN
  BY DEF IInv, TypeOK
<1> DEFINE V == {Last(Listing)}
<1>7. V \in SUBSET Views /\ V \in SUBSET Listing /\ V # {}
  BY <1>2, <1>3
<1>8. /\ Request(c, "shrink", "act", V, {})
      /\ UNCHANGED <<registry, routes, trees, failed, recycled, emptied>>
  BY <1>1 DEF Resolved
<1>9. "shrink" \in Requests /\ "act" \in Places \ {"close"} /\ {} \in SUBSET Listing
  BY DEF Requests, Places
<1>10. \A v \in V : \E j \in Registered : j < v.id
  BY <1>4
<1> HIDE DEF V
<1> QED
  BY <1>1, <1>2, <1>5, <1>7, <1>8, <1>9, <1>10, RequestKeeps

LEMMA SelectKeeps ==
  ASSUME IInv, NEW c \in Callers, Stop(c) \/ Restart(c) \/ Delete(c)
  PROVE  IInv'
<1>1. /\ \A V \in Selections : V \in SUBSET Listing
      /\ deleted \in BOOLEAN /\ Listing \in SUBSET Views
  BY ListingViews DEF Selections, IInv, TypeOK
<1>2. PICK r \in {"stop", "restart", "delete"}, V \in Selections :
        Resolved(c, r, V) /\ deleted' = (deleted \/ r = "delete")
  BY <1>1 DEF Stop, Restart, Delete
<1>3. V \in SUBSET Views /\ V \in SUBSET Listing
  BY <1>1
<1>4. /\ V # {} /\ Request(c, r, "act", V, {})
      /\ UNCHANGED <<registry, routes, trees, failed, recycled, emptied>>
  BY <1>2 DEF Resolved
<1>5. r \in Requests /\ "act" \in Places \ {"close"} /\ {} \in SUBSET Listing
  BY DEF Requests, Places
<1>6. deleted' \in BOOLEAN /\ (deleted => deleted') /\ (r = "delete" => deleted')
  BY <1>1, <1>2
<1> QED
  BY <1>3, <1>4, <1>5, <1>6, RequestKeeps

LEMMA ListKeeps ==
  ASSUME IInv, NEW c \in Callers, Logs(c) \/ Grow(c)
  PROVE  IInv'
<1>1. /\ deleted \in BOOLEAN /\ {} \in SUBSET Views
      /\ {} \in SUBSET Listing /\ Listing \in SUBSET Listing /\ Listing # {}
      /\ UNCHANGED <<registry, routes, trees, failed, recycled, emptied, deleted>>
  BY DEF IInv, TypeOK, Logs, Grow
<1>2. PICK r \in {"logs", "grow"}, p \in {"ensure", "grow"}, R \in {{}, Listing} :
        Request(c, r, p, {}, R) /\ (p = "ensure" => R = Listing)
  BY DEF Logs, Grow
<1>3. r \in Requests /\ p \in Places \ {"close"} /\ R \in SUBSET Listing
  BY <1>1 DEF Requests, Places
<1>4. p \in {"describe", "ensure"} => R # {}
  BY <1>1, <1>2
<1> QED
  BY <1>1, <1>2, <1>3, <1>4, RequestKeeps

(* A resurrect begins with the pm_ids of a dump.                            *)
LEMMA ResurrectKeeps ==
  ASSUME IInv, NEW c \in Callers, Resurrect(c)
  PROVE  IInv'
<1>1. PICK D \in Dumps :
        Request(c, "resurrect", "revive", {[id |-> i, serial |-> 0] : i \in D}, {})
  BY DEF Resurrect
<1> DEFINE V == {[id |-> i, serial |-> 0] : i \in D}
<1>2. V \in SUBSET Views /\ V # {} /\ (\A v \in V : v.serial = 0)
  <2>1. D \in SUBSET Ids /\ D # {}
    BY DumpsAssumption
  <2>2. 0 \in Serials
    BY BoundsAssumption DEF Serials
  <2>3. \A i \in D : [id |-> i, serial |-> 0] \in Views
    BY <2>1, <2>2 DEF Views
  <2>4. V \in SUBSET Views
    BY <2>3, Zenon
  <2>5. V # {} /\ (\A v \in V : v.serial = 0)
    <3>1. PICK i \in D : TRUE
      BY <2>1
    <3>2. [id |-> i, serial |-> 0] \in V
      BY <3>1
    <3> QED
      BY <3>2
  <2> QED
    BY <2>4, <2>5
<1>3. UNCHANGED <<registry, routes, trees, failed, recycled, emptied, deleted>>
  BY DEF Resurrect
<1>4. deleted \in BOOLEAN
  BY DEF IInv, TypeOK
<1> HIDE DEF V
<1>5. Request(c, "resurrect", "revive", V, {})
  BY <1>1 DEF V
<1>6. "resurrect" \in Requests /\ "revive" \in Places \ {"close"} /\ {} \in SUBSET Listing
  BY DEF Requests, Places
<1> QED
  BY <1>2, <1>3, <1>4, <1>5, <1>6, RequestKeeps

(* The lookup of a new app's id finds the app that has it, or none.         *)
LEMMA DescribeKeeps ==
  ASSUME IInv, NEW c \in Callers, Describe(c)
  PROVE  IInv'
<1> DEFINE v == First(fresh[c])
           rest == fresh[c] \ {v}
<1> USE BoundsAssumption
<1>1. /\ at[c] = "describe" /\ UNCHANGED <<registry, routes, trees, failed, past>>
      /\ UNCHANGED <<nextID, serial, apps>>
  BY DEF Describe, registry
<1>2. TypeOK /\ v \in fresh[c] /\ fresh[c] \in SUBSET Views /\ todo[c] \in SUBSET Views
  BY <1>1, FirstMember DEF IInv, Busy, TypeOK
<1>3. PICK p \in {"idle", "describe", "ensure", "revive"}, R \in SUBSET Views :
        /\ Goes(c, p, todo[c], R)
        /\ p \in {"describe", "ensure"} => R # {}
        /\ p = "revive" => todo[c] # {}
        /\ R \in SUBSET (rest \cup {w \in {View(v.id)} : v.id \in Registered})
  <2>1. CASE v.id \in Registered
    <3>1. View(v.id) \in Views
      BY <2>1, <1>2 DEF View, Views, Registered, TypeOK, Apps
    <3>2. Goes(c, "ensure", todo[c], rest \cup {View(v.id)})
      BY <2>1 DEF Describe
    <3> QED
      BY <2>1, <3>1, <3>2, <1>2
  <2>2. CASE v.id \notin Registered
    <3>1. Goes(c, IF rest = {} THEN Then("revive", todo[c]) ELSE "describe", todo[c], rest)
      BY <2>2 DEF Describe
    <3> QED
      BY <3>1, <1>2 DEF Then
  <2> QED
    BY <2>1, <2>2
<1>4. /\ at'[c] = p /\ fresh'[c] = R
      /\ \A d \in Callers \ {c} : at'[d] = at[d] /\ fresh'[d] = fresh[d]
  BY <1>2, <1>3 DEF Goes, Answers, TypeOK
<1>5. \A w \in R :
         /\ ~emptied => w.id < nextID
         /\ w.id \notin recycled /\ w.serial # 0 /\ apps[w.id].serial # 0
              => apps[w.id].serial = w.serial
  <2>1. v.id \in Registered =>
           View(v.id).id = v.id /\ View(v.id).serial = apps[v.id].serial
    BY DEF View
  <2> QED
    BY <2>1, <1>1, <1>2, <1>3 DEF IInv, RoutesCounted, RoutesKnown, Routing
<1>6. Owned'
  BY <1>1 DEF IInv, Owned, TreesOwned
<1>7. RoutesCounted'
  BY <1>1, <1>4, <1>5 DEF IInv, RoutesCounted, Routing, past
<1>8. RoutesKnown'
  BY <1>1, <1>4, <1>5 DEF IInv, RoutesKnown, Routing, past
<1>9. /\ apps' \in [Ids -> Apps] /\ routes' \in [Ids -> Serials]
      /\ trees' \in SUBSET Trees /\ failed' \in SUBSET Trees
      /\ todo[c] \in SUBSET todo[c] /\ p \in Places
  BY <1>1, <1>2 DEF TypeOK, Places
<1> HIDE DEF v, rest
<1> QED
  BY <1>1, <1>3, <1>6, <1>7, <1>8, <1>9, StepKeeps

(* A route is made for the app that was looked up.                          *)
LEMMA EnsureKeeps ==
  ASSUME IInv, NEW c \in Callers, EnsureRoute(c)
  PROVE  IInv'
<1> DEFINE v == First(fresh[c])
           rest == fresh[c] \ {v}
<1> USE BoundsAssumption
<1>1. /\ at[c] = "ensure" /\ UNCHANGED <<registry, trees, failed, past>>
      /\ UNCHANGED <<nextID, serial, apps>>
      /\ routes' = IF routes[v.id] = 0 THEN [routes EXCEPT ![v.id] = v.serial] ELSE routes
  BY DEF EnsureRoute, registry
<1>2. /\ TypeOK /\ v \in fresh[c] /\ fresh[c] \in SUBSET Views /\ todo[c] \in SUBSET Views
      /\ v.id \in Ids /\ v.serial \in Serials
  BY <1>1, FirstMember DEF IInv, Busy, TypeOK, Views
<1>3. PICK p \in {"idle", "describe", "ensure", "revive"} :
        /\ Goes(c, p, todo[c], rest)
        /\ p \in {"describe", "ensure"} => rest # {}
        /\ p = "revive" => todo[c] # {}
  BY DEF EnsureRoute, Then
<1>4. /\ at'[c] = p /\ fresh'[c] = rest
      /\ \A d \in Callers \ {c} : at'[d] = at[d] /\ fresh'[d] = fresh[d]
  BY <1>2, <1>3 DEF Goes, Answers, TypeOK
<1>5. \A i \in Ids : routes'[i] = IF i = v.id /\ routes[i] = 0 THEN v.serial ELSE routes[i]
  BY <1>1, <1>2 DEF TypeOK
<1>6. Owned'
  BY <1>1 DEF IInv, Owned, TreesOwned
<1>7. RoutesCounted'
  <2> SUFFICES ASSUME ~emptied PROVE RoutesCounted'
    BY <1>1 DEF RoutesCounted, past
  <2>1. \A w \in fresh[c] : w.id < nextID
    BY <1>1 DEF IInv, RoutesCounted, Routing
  <2>2. \A d \in Callers : Routing(d)' => \A w \in fresh'[d] : w.id < nextID
    BY <2>1, <1>4 DEF IInv, RoutesCounted, Routing
  <2>3. \A i \in Ids : i >= nextID => routes[i] = 0 /\ i # v.id
    BY <2>1, <1>2 DEF IInv, RoutesCounted, Ids, TypeOK
  <2> QED
    BY <2>2, <2>3, <1>1, <1>5 DEF RoutesCounted
<1>8. RoutesKnown'
  <2>1. v.id \notin recycled /\ v.serial # 0 /\ apps[v.id].serial # 0
          => apps[v.id].serial = v.serial
    BY <1>1, <1>2 DEF IInv, RoutesKnown, Routing
  <2>2. \A i \in Ids \ recycled : apps[i].serial # 0 => routes'[i] \in {0, apps[i].serial}
    BY <2>1, <1>5 DEF IInv, RoutesKnown
  <2> QED
    BY <2>2, <1>1, <1>4 DEF IInv, RoutesKnown, Routing, past
<1>9. /\ apps' \in [Ids -> Apps] /\ routes' \in [Ids -> Serials]
      /\ trees' \in SUBSET Trees /\ failed' \in SUBSET Trees
      /\ todo[c] \in SUBSET todo[c] /\ p \in Places /\ rest \in SUBSET Views
  BY <1>1, <1>2 DEF TypeOK, Places
<1> HIDE DEF v, rest
<1> QED
  BY <1>1, <1>3, <1>6, <1>7, <1>8, <1>9, StepKeeps

(* The route of a deleted app is closed, the handler goes on.               *)
LEMMA CloseKeeps ==
  ASSUME IInv, NEW c \in Callers, CloseRoute(c)
  PROVE  IInv'
<1> DEFINE v == First(todo[c])
           rest == todo[c] \ {v}
<1> USE BoundsAssumption
<1>1. /\ at[c] = "close" /\ UNCHANGED <<registry, trees, failed, past>>
      /\ UNCHANGED <<nextID, serial, apps>>
      /\ routes' = [routes EXCEPT ![v.id] = 0]
  BY DEF CloseRoute, registry
<1>2. TypeOK /\ v \in todo[c] /\ todo[c] \in SUBSET Views /\ v.id \in Ids
  BY <1>1, FirstMember DEF IInv, Busy, TypeOK, Views
<1>3. PICK p \in {"idle", "act"} : Goes(c, p, rest, {}) /\ (p # "idle" => rest # {})
  BY DEF CloseRoute, Then
<1>4. /\ at'[c] = p /\ fresh'[c] = {}
      /\ \A d \in Callers \ {c} : at'[d] = at[d] /\ fresh'[d] = fresh[d]
  BY <1>2, <1>3 DEF Goes, Answers, TypeOK
<1>5. routes' \in [Ids -> Serials] /\ \A i \in Ids : routes'[i] \in {0, routes[i]}
  <2>1. 0 \in Serials
    BY DEF Serials
  <2> QED
    BY <2>1, <1>1, <1>2 DEF TypeOK
<1>6. Owned'
  BY <1>1 DEF IInv, Owned, TreesOwned
<1>7. RoutesCounted'
  BY <1>1, <1>4, <1>5 DEF IInv, RoutesCounted, Routing, past
<1>8. RoutesKnown'
  BY <1>1, <1>4, <1>5 DEF IInv, RoutesKnown, Routing, past
<1>9. /\ apps' \in [Ids -> Apps]
      /\ trees' \in SUBSET Trees /\ failed' \in SUBSET Trees
      /\ rest \in SUBSET todo[c] /\ p \in Places /\ {} \in SUBSET Views
  BY <1>1, <1>2 DEF TypeOK, Places
<1> HIDE DEF v, rest
<1> QED
  BY <1>1, <1>3, <1>5, <1>6, <1>7, <1>8, <1>9, StepKeeps

(* A stop leaves a tree of the app only if its kill failed.                 *)
LEMMA ActStopKeeps ==
  ASSUME IInv, NEW c \in Callers, ActStop(c)
  PROVE  IInv'
<1> DEFINE v == First(todo[c])
           rest == todo[c] \ {v}
<1>1. /\ at[c] = "act" /\ UNCHANGED <<nextID, serial, routes, past>>
      /\ UNCHANGED <<nextID, serial>>
  BY DEF ActStop
<1>2. TypeOK /\ v \in todo[c] /\ todo[c] \in SUBSET Views /\ v.id \in Ids
  BY <1>1, FirstMember DEF IInv, Busy, TypeOK, Views
<1>3. PICK p \in {"idle", "act"}, V \in SUBSET todo[c] :
        Goes(c, p, V, {}) /\ (p # "idle" => V # {})
  <2>1. rest \in SUBSET todo[c] /\ {} \in SUBSET todo[c]
    OBVIOUS
  <2>2. Goes(c, Then("act", rest), rest, {}) \/ Goes(c, "idle", {}, {})
    BY DEF ActStop, Ends
  <2> QED
    BY <2>1, <2>2 DEF Then
<1>4. /\ apps' \in [Ids -> Apps]
      /\ \A i \in Ids : apps'[i].serial = apps[i].serial
      /\ trees' \in SUBSET Trees /\ failed' \in SUBSET Trees /\ Owned'
  <2>1. CASE v.id \in Registered
    <3>1. apps' = [apps EXCEPT ![v.id].run = FALSE] /\ (Kills(v.id) \/ KillFails(v.id))
      BY <2>1 DEF ActStop, Sets
    <3>2. apps[v.id] \in Apps /\ apps \in [Ids -> Apps]
      BY <1>2 DEF TypeOK
    <3>3. /\ apps' \in [Ids -> Apps]
          /\ \A i \in Ids : apps'[i].serial = apps[i].serial
          /\ \A i \in Ids \ {v.id} : apps'[i] = apps[i]
      BY <3>1, <3>2, <1>2 DEF Apps
    <3>4. /\ trees' \in SUBSET trees /\ failed' \in SUBSET Trees
          /\ \A t \in trees' \ failed' : t \in trees \ failed /\ t.id # v.id
      BY <3>1, <1>2, KillsLeave DEF IInv
    <3>5. Owned'
      BY <3>3, <3>4, <1>2 DEF IInv, Owned, TreesOwned, TypeOK, Trees
    <3> QED
      BY <3>3, <3>4, <3>5, <1>2 DEF TypeOK
  <2>2. CASE v.id \notin Registered
    <3>1. UNCHANGED <<apps, trees, failed>>
      BY <2>2 DEF ActStop
    <3> QED
      BY <3>1, <1>2 DEF IInv, TypeOK, Owned, TreesOwned
  <2> QED
    BY <2>1, <2>2
<1>5. /\ at'[c] = p /\ fresh'[c] = {}
      /\ \A d \in Callers \ {c} : at'[d] = at[d] /\ fresh'[d] = fresh[d]
  BY <1>2, <1>3 DEF Goes, Answers, TypeOK
<1>6. RoutesCounted'
  BY <1>1, <1>3, <1>5 DEF IInv, RoutesCounted, Routing, past
<1>7. RoutesKnown'
  BY <1>1, <1>2, <1>3, <1>4, <1>5 DEF IInv, RoutesKnown, Routing, past, TypeOK, Views
<1>8. routes' \in [Ids -> Serials] /\ p \in Places /\ {} \in SUBSET Views
  BY <1>1, <1>2 DEF TypeOK, Places
<1> HIDE DEF v, rest
<1> QED
  BY <1>1, <1>3, <1>4, <1>6, <1>7, <1>8, StepKeeps

(* A restart puts a tree in the place of another, or none, or one beside    *)
(* survivors.                                                               *)
LEMMA ActRestartKeeps ==
  ASSUME IInv, NEW c \in Callers, ActRestart(c)
  PROVE  IInv'
<1> DEFINE v == First(todo[c])
           rest == todo[c] \ {v}
           new == [id |-> v.id, serial |-> apps[v.id].serial]
<1>1. /\ at[c] = "act" /\ UNCHANGED <<nextID, serial, routes, past>>
      /\ UNCHANGED <<nextID, serial>>
  BY DEF ActRestart
<1>2. TypeOK /\ v \in todo[c] /\ todo[c] \in SUBSET Views /\ v.id \in Ids
  BY <1>1, FirstMember DEF IInv, Busy, TypeOK, Views
<1>3. PICK p \in {"idle", "act"}, V \in SUBSET todo[c] :
        Goes(c, p, V, {}) /\ (p # "idle" => V # {})
  <2>1. rest \in SUBSET todo[c] /\ {} \in SUBSET todo[c]
    OBVIOUS
  <2>2. Goes(c, Then("act", rest), rest, {}) \/ Goes(c, "idle", {}, {})
    BY DEF ActRestart, Ends
  <2> QED
    BY <2>1, <2>2 DEF Then
<1>4. /\ apps' \in [Ids -> Apps]
      /\ \A i \in Ids : apps'[i].serial = apps[i].serial
      /\ trees' \in SUBSET Trees /\ failed' \in SUBSET Trees /\ Owned'
  <2>1. /\ apps[v.id] \in Apps /\ apps \in [Ids -> Apps]
        /\ trees \in SUBSET Trees /\ failed \in SUBSET Trees
    BY <1>2 DEF TypeOK
  <2>2. CASE /\ v.id \in Registered
             /\ apps' = [apps EXCEPT ![v.id].run = TRUE]
             /\ trees' = trees \cup {new}
             /\ failed' = failed \ TreeOf(v.id) \/ failed' = failed
    <3>1. /\ apps' \in [Ids -> Apps]
          /\ \A i \in Ids : apps'[i].serial = apps[i].serial
          /\ \A i \in Ids \ {v.id} : apps'[i] = apps[i]
          /\ apps'[v.id].run
      BY <2>1, <2>2, <1>2 DEF Apps
    <3>2. new \in Trees /\ new.id = v.id /\ new.serial = apps[v.id].serial /\ new.serial # 0
      BY <2>1, <2>2, <1>2 DEF Trees, Apps, Registered
    <3>3. \A t \in TreeOf(v.id) : t = new
      BY <2>1, <3>2 DEF TreeOf, Trees
    <3>4. \A t \in trees' \ failed' : t \in trees \ failed \/ t = new
      BY <3>3, <2>2
    <3>5. \A t \in trees \ failed : t.id = v.id => t = new
      BY <3>3 DEF IInv, Owned, TreesOwned, TreeOf
    <3>6. \A t \in trees' : t.serial # 0
      BY <2>2, <3>2 DEF IInv, Owned
    <3>7. \A t \in trees' \ failed' : apps'[t.id].serial = t.serial /\ apps'[t.id].run
      BY <3>1, <3>2, <3>4, <3>5, <2>1 DEF IInv, Owned, TreesOwned, Trees
    <3>8. \A t, u \in trees' \ failed' : u.id = t.id => u = t
      BY <3>2, <3>4, <3>5 DEF IInv, Owned, TreesOwned
    <3>9. failed' \in SUBSET Trees /\ trees' \in SUBSET Trees
      BY <2>1, <2>2, <3>2
    <3> HIDE DEF new
    <3>10. TreesOwned'
      BY <3>7, <3>8 DEF TreesOwned
    <3> QED
      BY <3>1, <3>6, <3>9, <3>10 DEF Owned
  <2>3. CASE /\ v.id \in Registered
             /\ apps' = [apps EXCEPT ![v.id].run = FALSE]
             /\ Kills(v.id) \/ KillFails(v.id)
    <3>1. /\ apps' \in [Ids -> Apps]
          /\ \A i \in Ids : apps'[i].serial = apps[i].serial
          /\ \A i \in Ids \ {v.id} : apps'[i] = apps[i]
      BY <2>1, <2>3, <1>2 DEF Apps
    <3>2. /\ trees' \in SUBSET trees /\ failed' \in SUBSET Trees
          /\ \A t \in trees' \ failed' : t \in trees \ failed /\ t.id # v.id
      BY <2>3, <1>2, KillsLeave DEF IInv
    <3>3. Owned'
      BY <3>1, <3>2, <1>2 DEF IInv, Owned, TreesOwned, TypeOK, Trees
    <3> QED
      BY <3>1, <3>2, <3>3, <2>1
  <2>4. CASE UNCHANGED <<apps, trees, failed>>
    BY <2>1, <2>4 DEF IInv, Owned, TreesOwned
  <2> QED
    BY <2>2, <2>3, <2>4 DEF ActRestart, Sets
<1>5. /\ at'[c] = p /\ fresh'[c] = {}
      /\ \A d \in Callers \ {c} : at'[d] = at[d] /\ fresh'[d] = fresh[d]
  BY <1>2, <1>3 DEF Goes, Answers, TypeOK
<1>6. RoutesCounted'
  BY <1>1, <1>3, <1>5 DEF IInv, RoutesCounted, Routing, past
<1>7. RoutesKnown'
  BY <1>1, <1>2, <1>3, <1>4, <1>5 DEF IInv, RoutesKnown, Routing, past, TypeOK, Views
<1>8. routes' \in [Ids -> Serials] /\ p \in Places /\ {} \in SUBSET Views
  BY <1>1, <1>2 DEF TypeOK, Places
<1> HIDE DEF v, rest, new
<1> QED
  BY <1>1, <1>3, <1>4, <1>6, <1>7, <1>8, StepKeeps

(* A tree that ends, or is left by its actor, leaves no tree of the app     *)
(* but one whose kill failed.                                               *)
LEMMA TreeExitsKeeps ==
  ASSUME IInv, NEW t \in trees, TreeExits(t)
  PROVE  IInv'
<1>1. /\ trees' \in SUBSET trees /\ failed' \in SUBSET failed
      /\ \A u \in trees' \ failed' : u \in trees \ failed /\ u # t
      /\ UNCHANGED <<nextID, serial, routes, work, past>>
      /\ UNCHANGED <<op, at, todo, fresh, reuse, recycled, emptied, deleted>>
  BY DEF TreeExits, work, past
<1>2. /\ apps \in [Ids -> Apps] /\ trees \in SUBSET Trees /\ failed \in SUBSET Trees
      /\ TypeOK /\ t.id \in Ids
  BY DEF IInv, TypeOK, Trees
<1>3. /\ apps' \in [Ids -> Apps]
      /\ \A i \in Ids : apps'[i].serial = apps[i].serial
      /\ \A i \in Ids : apps'[i] = apps[i] \/ (i = t.id /\ apps[i].serial = t.serial)
  <2>1. CASE apps[t.id].serial = t.serial
    <3>1. apps' = [apps EXCEPT ![t.id].run = FALSE] /\ apps[t.id] \in Apps
      BY <2>1, <1>2 DEF TreeExits
    <3> QED
      BY <2>1, <3>1, <1>2 DEF Apps
  <2>2. CASE apps[t.id].serial # t.serial
    BY <2>2, <1>2 DEF TreeExits
  <2> QED
    BY <2>1, <2>2
<1>4. \A u \in trees' \ failed' : apps'[u.id] = apps[u.id]
  <2> SUFFICES ASSUME NEW u \in trees' \ failed', apps'[u.id] # apps[u.id] PROVE FALSE
    OBVIOUS
  <2>1. u \in trees \ failed /\ u # t /\ u \in Trees /\ t \in Trees
    BY <1>1, <1>2
  <2>2. u.id = t.id /\ apps[u.id].serial = t.serial
    BY <2>1, <1>3 DEF Trees
  <2>3. u.serial = t.serial
    BY <2>1, <2>2 DEF IInv, Owned, TreesOwned
  <2> QED
    BY <2>1, <2>2, <2>3 DEF Trees
<1>5. TypeOK'
  BY <1>1, <1>2, <1>3 DEF TypeOK
<1>6. Busy' /\ Counted'
  BY <1>1, <1>3 DEF IInv, Busy, Counted
<1>7. Owned'
  BY <1>1, <1>4 DEF IInv, Owned, TreesOwned
<1>8. TargetKnown'
  BY <1>1, <1>2, <1>3 DEF IInv, TargetKnown, TypeOK, Views
<1>9. LowestKept'
  <2>1. Registered' = Registered
    BY <1>3 DEF Registered
  <2>2. \A m \in Registered : Lowest(m) => Lowest(m)'
    BY <2>1, <1>1 DEF Lowest
  <2> QED
    BY <2>1, <2>2, <1>1 DEF IInv, LowestKept
<1>10. RoutesCounted'
  BY <1>1 DEF IInv, RoutesCounted, Routing
<1>11. RoutesKnown'
  BY <1>1, <1>2, <1>3 DEF IInv, RoutesKnown, Routing, TypeOK, Views
<1> QED
  BY <1>5, <1>6, <1>7, <1>8, <1>9, <1>10, <1>11 DEF IInv

(* A start registers ids nobody holds, or recycles them.                    *)
LEMMA StartBatchKeeps ==
  ASSUME IInv, NEW c \in Callers, NEW r \in {"start", "grow"}, NEW n \in 1 .. 2,
         StartBatch(c, r, n)
  PROVE  IInv'
<1> DEFINE block == nextID .. nextID + n - 1
           Nth(i) == serial + 1 + (i - nextID)
           views == {[id |-> i, serial |-> 0] : i \in block}
<1> USE BoundsAssumption
<1>1. nextID \in Nat /\ serial \in Nat /\ block \in SUBSET Ids
  BY DEF IInv, TypeOK, StartBatch, Serials, Ids
<1>2. PICK ok \in SUBSET block :
        /\ StartApps(n, ok)
        /\ Answers(c, r, "describe", {}, views) \/ Answers(c, r, "idle", {}, {})
  BY DEF StartBatch
<1>3. /\ nextID + n - 1 <= MaxId /\ serial + n <= MaxSerial
      /\ recycled' = recycled \cup {i \in block : emptied /\ InHand(i)}
      /\ UNCHANGED <<routes, failed, reuse, emptied, deleted>>
  BY DEF StartBatch
<1>4. \A i \in block : /\ Nth(i) \in Serials /\ i \in Ids
                       /\ Nth(i) > serial /\ Nth(i) <= serial + n
  BY <1>1, <1>3 DEF Serials, Ids
<1>5. /\ \A i \in Ids \ block : apps'[i] = apps[i]
      /\ \A i \in block : apps'[i].serial = Nth(i) /\ apps'[i] \in Apps
      /\ \A i \in ok : apps'[i].run
      /\ apps' \in [Ids -> Apps]
  <2>1. apps' = [i \in Ids |-> IF i \in block THEN [serial |-> Nth(i), run |-> i \in ok]
                                              ELSE apps[i]]
    BY <1>2 DEF StartApps
  <2>2. \A i \in block : [serial |-> Nth(i), run |-> i \in ok] \in Apps
    BY <1>4 DEF Apps
  <2>3. \A i \in ok : i \in block /\ [serial |-> Nth(i), run |-> TRUE].run
    BY <1>2
  <2>4. \A i \in ok : apps'[i] = [serial |-> Nth(i), run |-> TRUE]
    <3>1. \A i \in ok : i \in Ids /\ i \in block /\ (i \in ok) = TRUE
      BY <1>1, <1>2
    <3> QED
      BY <2>1, <3>1, Zenon
  <2>5. \A i \in ok : apps'[i].run
    BY <2>3, <2>4, Zenon
  <2>6. apps \in [Ids -> Apps]
    BY DEF IInv, TypeOK
  <2> QED
    BY <2>1, <2>2, <2>5, <2>6, <1>1
<1>6. \A i \in block : apps[i].serial = 0
  BY <1>1, <1>4 DEF IInv, Counted
<1>7. nextID' = nextID + n /\ serial' = serial + n
  BY <1>2 DEF StartApps
<1>8. trees' = trees \cup {[id |-> i, serial |-> Nth(i)] : i \in ok}
  BY <1>2 DEF StartApps
<1>9. views \in SUBSET Views /\ views # {}
  <2>1. nextID \in block
    BY <1>1
  <2>2. \A i \in block : [id |-> i, serial |-> 0] \in Views
    BY <1>4 DEF Views, Serials
  <2> QED
    BY <2>1, <2>2
<1>10. /\ op' \in [Callers -> Requests \cup {"none"}] /\ at' \in [Callers -> Places]
       /\ todo' \in [Callers -> SUBSET Views] /\ fresh' \in [Callers -> SUBSET Views]
       /\ at'[c] \in {"describe", "idle"} /\ todo'[c] = {}
       /\ at'[c] = "describe" => fresh'[c] = views
       /\ op'[c] \in {"start", "grow", "none"}
       /\ \A d \in Callers \ {c} : /\ op'[d] = op[d] /\ at'[d] = at[d]
                                   /\ todo'[d] = todo[d] /\ fresh'[d] = fresh[d]
  BY <1>2, <1>9 DEF IInv, TypeOK, Places, Answers, Requests
<1>11. TypeOK'
  <2>1. trees' \in SUBSET Trees
    <3>1. \A i \in block : [id |-> i, serial |-> Nth(i)] \in Trees
      BY <1>4 DEF Trees
    <3>2. {[id |-> i, serial |-> Nth(i)] : i \in ok} \in SUBSET Trees
      BY <1>2, <3>1
    <3> QED
      BY <1>8, <3>2 DEF IInv, TypeOK
  <2>2. nextID' \in 0 .. MaxId + 1 /\ serial' \in Serials
    BY <1>1, <1>3, <1>7 DEF Serials
  <2>3. recycled' \in SUBSET Ids
    BY <1>1, <1>3 DEF IInv, TypeOK
  <2> QED
    BY <1>3, <1>5, <1>10, <2>1, <2>2, <2>3 DEF IInv, TypeOK, Places
<1>12. Busy'
  BY <1>9, <1>10 DEF IInv, Busy
<1>13. Counted'
  <2>1. \A i \in block : i < nextID' /\ apps'[i].serial <= serial'
    BY <1>1, <1>4, <1>5, <1>7
  <2>2. \A i \in Ids \ block : apps'[i].serial # 0 => i < nextID' /\ apps'[i].serial <= serial'
    <3>1. \A i \in Ids : i \in Int /\ apps[i].serial \in Int
      BY DEF IInv, TypeOK, Apps, Serials, Ids
    <3> QED
      BY <3>1, <1>1, <1>5, <1>7 DEF IInv, Counted
  <2> QED
    BY <2>1, <2>2 DEF Counted
<1>14. Owned'
  <2>1. \A t \in trees \ failed : t.id \in Ids \ block
    BY <1>6 DEF IInv, TypeOK, Trees, Owned, TreesOwned
  <2>2. \A t \in trees \ failed : apps'[t.id].serial = t.serial /\ apps'[t.id].run
    BY <2>1, <1>5 DEF IInv, Owned, TreesOwned
  <2>3. \A i \in ok : Nth(i) # 0 /\ apps'[i].serial = Nth(i) /\ apps'[i].run
    BY <1>1, <1>4, <1>5
  <2>4. \A t \in trees' \ failed' : apps'[t.id].serial = t.serial /\ apps'[t.id].run
    BY <2>2, <2>3, <1>3, <1>8
  <2>5. \A t \in trees' \ failed' : \A u \in trees' \ failed' : u.id = t.id => u = t
    BY <2>1, <1>3, <1>8 DEF IInv, Owned, TreesOwned
  <2>6. \A t \in trees' : t.serial # 0
    <3>1. \A t \in trees : t.serial # 0
      BY DEF IInv, Owned
    <3>2. \A t \in {[id |-> i, serial |-> Nth(i)] : i \in ok} : t.serial # 0
      BY <2>3
    <3> QED
      BY <3>1, <3>2, <1>8
  <2> QED
    BY <2>4, <2>5, <2>6 DEF Owned, TreesOwned
<1>15. TargetKnown'
  BY <1>1, <1>3, <1>5, <1>7, <1>10 DEF IInv, TargetKnown, TypeOK, Views, Ids
<1>16. LowestKept'
  <2>1. \A d \in Callers : /\ op'[d] = "delete" => deleted'
                           /\ op'[d] = "shrink" => serial' > 0
    BY <1>1, <1>3, <1>7, <1>10 DEF IInv, LowestKept
  <2>2. Registered' = Registered \cup block
    BY <1>1, <1>4, <1>5 DEF Registered
  <2>3. CASE deleted
    BY <2>1, <2>3, <1>3 DEF LowestKept
  <2>4. CASE ~deleted /\ serial > 0
    <3>1. PICK m \in Registered : Lowest(m)
      BY <2>4 DEF IInv, LowestKept
    <3>2. m \in Int /\ m < nextID
      BY <3>1, <1>1 DEF IInv, Counted, Registered, Ids
    <3>3. \A j \in Registered' : m <= j
      <4>1. \A j \in Registered : m <= j
        BY <3>1 DEF Lowest
      <4>2. \A j \in block : m <= j
        BY <3>2, <1>1
      <4> QED
        BY <4>1, <4>2, <2>2
    <3>4. Lowest(m)'
      BY <3>1, <3>3, <1>10 DEF Lowest
    <3> QED
      BY <3>1, <3>4, <2>1, <2>2 DEF LowestKept
  <2>5. CASE ~deleted /\ serial = 0
    <3>1. Registered = {}
      BY <2>5 DEF IInv, Counted, Registered, TypeOK, Apps, Serials
    <3>2. \A d \in Callers : op[d] # "shrink"
      BY <2>5 DEF IInv, LowestKept
    <3>3. PICK m \in block : \A j \in block : m <= j
      BY <1>1
    <3>4. Registered' = block /\ \A d \in Callers : op'[d] # "shrink"
      BY <3>1, <3>2, <2>2, <1>10
    <3>5. m \in Registered' /\ Lowest(m)'
      BY <3>3, <3>4 DEF Lowest
    <3> QED
      BY <3>5, <2>1 DEF LowestKept
  <2> QED
    BY <2>3, <2>4, <2>5, <1>1
<1>17. RoutesCounted'
  <2> SUFFICES ASSUME ~emptied PROVE RoutesCounted'
    BY <1>3 DEF RoutesCounted
  <2>1. \A i \in Ids : i >= nextID' => routes'[i] = 0
    BY <1>1, <1>3, <1>7 DEF IInv, RoutesCounted, Ids
  <2>2. \A d \in Callers \ {c} : Routing(d)' => \A v \in fresh'[d] : v.id < nextID'
    BY <1>1, <1>7, <1>10 DEF IInv, RoutesCounted, Routing, TypeOK, Views, Ids
  <2>3. Routing(c)' => \A v \in fresh'[c] : v.id < nextID'
    BY <1>1, <1>7, <1>10 DEF Routing
  <2> QED
    BY <2>1, <2>2, <2>3 DEF RoutesCounted
<1>18. RoutesKnown'
  <2>1. \A i \in block \ recycled' : ~InHand(i)
    <3>1. ASSUME NEW i \in block, ~emptied PROVE ~InHand(i)
      <4>1. i \in Ids /\ i >= nextID
        BY <3>1, <1>1
      <4>2. routes[i] = 0
        BY <3>1, <4>1 DEF IInv, RoutesCounted
      <4>3. \A d \in Callers : Routing(d) => \A v \in fresh[d] : v.id # i
        BY <3>1, <4>1, <1>1 DEF IInv, RoutesCounted, TypeOK, Views, Ids
      <4> QED
        BY <4>2, <4>3 DEF InHand, Routing
    <3> QED
      BY <3>1, <1>3
  <2>2. \A i \in Ids \ recycled' : apps'[i].serial # 0 => routes'[i] \in {0, apps'[i].serial}
    BY <2>1, <1>3, <1>5 DEF IInv, RoutesKnown, InHand
  <2>3. ASSUME NEW d \in Callers \ {c}, Routing(d)', NEW v \in fresh'[d],
               v.id \notin recycled', v.serial # 0, apps'[v.id].serial # 0
        PROVE  apps'[v.id].serial = v.serial
    <3>1. Routing(d) /\ v \in fresh[d] /\ v.id \in Ids
      BY <2>3, <1>10 DEF Routing, IInv, TypeOK, Views
    <3>2. v.id \notin block
      BY <2>1, <2>3, <3>1 DEF InHand, Routing
    <3> QED
      BY <2>3, <3>1, <3>2, <1>3, <1>5 DEF IInv, RoutesKnown
  <2>4. Routing(c)' => \A v \in fresh'[c] : v.serial = 0
    BY <1>10 DEF Routing
  <2> QED
    BY <2>2, <2>3, <2>4 DEF RoutesKnown
<1> QED
  BY <1>11, <1>12, <1>13, <1>14, <1>15, <1>16, <1>17, <1>18 DEF IInv

(* A pm_id that a resurrect gives out, with the tree it started or adopted. *)
Brings(i, ok) ==
  /\ trees' \in SUBSET Trees /\ failed' \in SUBSET Trees
  /\ \A t \in trees' : t.serial # 0
  /\ \A t \in trees' \ failed' :
        t \in trees \ failed \/ (ok /\ t = [id |-> i, serial |-> serial + 1])

LEMMA RegisterKeeps ==
  ASSUME IInv, NEW c \in Callers, at[c] = "revive", NEW i \in Ids, NEW ok \in BOOLEAN,
         RegisterAt(i, ok),
         NEW p \in {"idle", "describe", "revive"}, NEW V \in SUBSET todo[c],
         NEW R \in SUBSET Views, Goes(c, p, V, R),
         p = "revive" => V # {},
         p = "describe" => R # {},
         \A v \in R : v.id = i /\ v.serial = 0,
         Brings(i, ok), UNCHANGED <<routes, emptied, deleted>>
  PROVE  IInv'
<1> DEFINE new == [id |-> i, serial |-> serial + 1]
<1> USE BoundsAssumption
<1>1. /\ TypeOK /\ nextID \in Nat /\ serial \in Nat /\ i \in Nat /\ serial + 1 \in Serials
      /\ apps[i].serial = 0 /\ todo[c] \in SUBSET Views
  BY DEF IInv, TypeOK, RegisterAt, Registered, Serials, Ids
<1>2. /\ serial' = serial + 1
      /\ nextID' = IF i >= nextID THEN i + 1 ELSE nextID
      /\ recycled' = recycled \cup {j \in {i} : InHand(j)}
      /\ reuse' = [d \in Callers |-> reuse[d] \cup ({i} \cap {v.id : v \in todo[d]})]
  BY DEF RegisterAt, GivenAgain
<1>3. /\ apps' \in [Ids -> Apps] /\ apps'[i].serial = serial + 1
      /\ \A j \in Ids \ {i} : apps'[j] = apps[j]
      /\ Registered' = Registered \cup {i}
  <2>1. apps' = [apps EXCEPT ![i] = [serial |-> serial + 1, run |-> ok]]
    BY DEF RegisterAt
  <2>2. [serial |-> serial + 1, run |-> ok] \in Apps
    BY <1>1 DEF Apps
  <2> QED
    BY <2>1, <2>2, <1>1 DEF TypeOK, Registered
<1>4. ok => apps'[i].run
  <2> SUFFICES ASSUME ok PROVE apps'[i].run
    OBVIOUS
  <2>1. apps \in [Ids -> Apps] /\ [serial |-> serial + 1, run |-> ok].run
    BY <1>1 DEF TypeOK
  <2> QED
    BY <2>1 DEF RegisterAt
<1>5. nextID' \in Nat /\ nextID' >= nextID /\ i < nextID' /\ nextID' \in 0 .. MaxId + 1
  BY <1>1, <1>2 DEF TypeOK, Ids
<1>6. V \in SUBSET Views
  BY <1>1
<1>7. /\ op' \in [Callers -> Requests \cup {"none"}] /\ at' \in [Callers -> Places]
      /\ todo' \in [Callers -> SUBSET Views] /\ fresh' \in [Callers -> SUBSET Views]
      /\ at'[c] = p /\ todo'[c] = V /\ fresh'[c] = R /\ op'[c] \in {op[c], "none"}
      /\ \A d \in Callers \ {c} : /\ op'[d] = op[d] /\ at'[d] = at[d]
                                  /\ todo'[d] = todo[d] /\ fresh'[d] = fresh[d]
  BY <1>1, <1>6 DEF TypeOK, Places, Goes, Answers
<1>8. TypeOK'
  <2>1. reuse' \in [Callers -> SUBSET Ids] /\ recycled' \in SUBSET Ids
    BY <1>1, <1>2 DEF TypeOK
  <2> QED
    BY <2>1, <1>1, <1>2, <1>3, <1>5, <1>7 DEF TypeOK, Places, Brings
<1>9. Busy'
  BY <1>7 DEF IInv, Busy
<1>10. Counted'
  <2>1. \A j \in Ids \ {i} : apps'[j].serial # 0 => j < nextID' /\ apps'[j].serial <= serial'
    <3> SUFFICES ASSUME NEW j \in Ids \ {i}, apps'[j].serial # 0
                 PROVE  j < nextID' /\ apps'[j].serial <= serial'
      OBVIOUS
    <3>1. j \in Int /\ apps[j].serial \in Int /\ apps'[j] = apps[j]
      BY <1>1, <1>3 DEF TypeOK, Apps, Serials, Ids
    <3>2. j < nextID /\ apps[j].serial <= serial
      BY <3>1 DEF IInv, Counted
    <3> QED
      BY <3>1, <3>2, <1>1, <1>2, <1>5
  <2> QED
    BY <2>1, <1>1, <1>2, <1>3, <1>5 DEF Counted
<1>11. Owned'
  <2>1. \A t \in trees \ failed : t.id \in Ids \ {i}
    BY <1>1 DEF IInv, TypeOK, Trees, Owned, TreesOwned
  <2>2. new.id = i /\ new.serial = serial + 1
    OBVIOUS
  <2> HIDE DEF new
  <2>3. /\ \A t \in trees' \ failed' : t \in trees \ failed \/ (ok /\ t = new)
        /\ \A t \in trees' : t.serial # 0
    BY DEF new, Brings
  <2>4. \A t \in trees' \ failed' : apps'[t.id].serial = t.serial /\ apps'[t.id].run
    BY <2>1, <2>2, <2>3, <1>3, <1>4 DEF IInv, Owned, TreesOwned
  <2>5. \A t \in trees' \ failed' : \A u \in trees' \ failed' : u.id = t.id => u = t
    BY <2>1, <2>2, <2>3 DEF IInv, Owned, TreesOwned
  <2> QED
    BY <2>3, <2>4, <2>5 DEF Owned, TreesOwned
<1>12. TargetKnown'
  <2> SUFFICES ASSUME NEW d \in Callers, at'[d] \in {"act", "close"},
                      NEW v \in todo'[d], v.id \notin reuse'[d]
               PROVE  v.id < nextID' /\ apps'[v.id].serial \in {0, v.serial}
    BY DEF TargetKnown
  <2>1. d # c /\ at[d] \in {"act", "close"} /\ v \in todo[d] /\ v.id \in Ids
    BY <1>7, <1>1 DEF TypeOK, Views
  <2>2. v.id \notin reuse[d] /\ v.id # i
    BY <2>1, <1>2
  <2>3. v.id < nextID /\ apps[v.id].serial \in {0, v.serial}
    BY <2>1, <2>2 DEF IInv, TargetKnown
  <2> QED
    BY <2>1, <2>2, <2>3, <1>1, <1>3, <1>5 DEF Ids
<1>13. LowestKept'
  <2>1. \A d \in Callers : /\ op'[d] = "delete" => deleted'
                           /\ op'[d] = "shrink" => serial' > 0
    BY <1>1, <1>2, <1>7 DEF IInv, LowestKept
  <2>2. \A m : Lowest(m) => \A d \in Callers : op'[d] = "shrink" => \A v \in todo'[d] : m < v.id
    BY <1>7 DEF Lowest
  <2>3. CASE deleted
    BY <2>1, <2>3 DEF LowestKept
  <2>4. CASE ~deleted /\ serial > 0
    <3>1. PICK m \in Registered : Lowest(m)
      BY <2>4 DEF IInv, LowestKept
    <3>2. m \in Int /\ \A d \in Callers : \A v \in todo'[d] : v.id \in Int
      BY <1>7 DEF Registered, Ids, Views
    <3>3. CASE m <= i
      <4>1. Lowest(m)'
        BY <3>1, <3>3, <2>2, <1>3 DEF Lowest
      <4> QED
        BY <4>1, <3>1, <2>1, <1>3 DEF LowestKept
    <3>4. CASE i < m
      <4>1. \A j \in Registered' : i <= j
        BY <3>1, <3>2, <3>4, <1>1, <1>3 DEF Lowest, Registered, Ids
      <4>2. Lowest(i)'
        BY <3>1, <3>2, <3>4, <4>1, <2>2, <1>1 DEF Lowest
      <4> QED
        BY <4>2, <2>1, <1>3 DEF LowestKept
    <3> QED
      BY <3>2, <3>3, <3>4, <1>1
  <2>5. CASE ~deleted /\ serial = 0
    <3>1. Registered = {}
      BY <2>5 DEF IInv, Counted, Registered, TypeOK, Apps, Serials
    <3>2. \A d \in Callers : op'[d] # "shrink"
      BY <2>5, <1>7 DEF IInv, LowestKept
    <3>3. i \in Registered' /\ Lowest(i)'
      BY <3>1, <3>2, <1>1, <1>3 DEF Lowest
    <3> QED
      BY <3>3, <2>1 DEF LowestKept
  <2> QED
    BY <2>3, <2>4, <2>5, <1>1
<1>14. RoutesCounted'
  <2> SUFFICES ASSUME ~emptied PROVE RoutesCounted'
    BY DEF RoutesCounted
  <2>1. \A j \in Ids : j >= nextID' => routes'[j] = 0
    BY <1>1, <1>5 DEF IInv, RoutesCounted, Ids
  <2>2. \A d \in Callers \ {c} : Routing(d)' => \A v \in fresh'[d] : v.id < nextID'
    BY <1>1, <1>5, <1>7 DEF IInv, RoutesCounted, Routing, TypeOK, Views, Ids
  <2>3. \A v \in fresh'[c] : v.id < nextID'
    BY <1>5, <1>7
  <2> QED
    BY <2>1, <2>2, <2>3 DEF RoutesCounted
<1>15. RoutesKnown'
  <2>1. i \notin recycled' => ~InHand(i)
    BY <1>2
  <2>2. \A j \in Ids \ recycled' : apps'[j].serial # 0 => routes'[j] \in {0, apps'[j].serial}
    BY <2>1, <1>2, <1>3 DEF IInv, RoutesKnown, InHand
  <2>3. ASSUME NEW d \in Callers \ {c}, Routing(d)', NEW v \in fresh'[d],
               v.id \notin recycled', v.serial # 0, apps'[v.id].serial # 0
        PROVE  apps'[v.id].serial = v.serial
    <3>1. Routing(d) /\ v \in fresh[d] /\ v.id \in Ids
      BY <2>3, <1>1, <1>7 DEF Routing, TypeOK, Views
    <3>2. v.id # i
      BY <2>1, <2>3, <3>1 DEF InHand, Routing
    <3> QED
      BY <2>3, <3>1, <3>2, <1>2, <1>3 DEF IInv, RoutesKnown
  <2>4. \A v \in fresh'[c] : v.serial = 0
    BY <1>7
  <2> QED
    BY <2>2, <2>3, <2>4 DEF RoutesKnown
<1> QED
  BY <1>8, <1>9, <1>10, <1>11, <1>12, <1>13, <1>14, <1>15 DEF IInv

(* An entry of the dump is adopted, started, parked or left.                *)
LEMMA ReviveKeeps ==
  ASSUME IInv, NEW c \in Callers, Revive(c)
  PROVE  IInv'
<1> DEFINE v == First(todo[c])
           rest == todo[c] \ {v}
           new == [id |-> v.id, serial |-> serial + 1]
<1>1. at[c] = "revive" /\ UNCHANGED <<routes, emptied, deleted>>
  BY DEF Revive
<1>2. /\ TypeOK /\ v \in todo[c] /\ todo[c] \in SUBSET Views /\ v.id \in Ids
      /\ v \in Views /\ v.serial = 0 /\ rest \in SUBSET todo[c]
      /\ trees \in SUBSET Trees /\ failed \in SUBSET Trees
      /\ \A t \in trees : t.serial # 0
  BY <1>1, FirstMember DEF IInv, Busy, TypeOK, Views, Owned
<1>3. ASSUME RegisterAt(v.id, TRUE), Goes(c, "describe", rest, {v}),
             NEW T \in SUBSET trees, trees' = (trees \ T) \cup {new}, failed' = failed \ T
      PROVE  IInv'
  <2>1. serial \in Nat /\ new \in Trees /\ new.serial # 0
    BY <1>2, <1>3, BoundsAssumption DEF TypeOK, Trees, Serials, RegisterAt
  <2>2. /\ trees' \in SUBSET Trees /\ failed' \in SUBSET Trees
        /\ \A t \in trees' : t.serial # 0
        /\ \A t \in trees' \ failed' : t \in trees \ failed \/ t = new
    BY <2>1, <1>2, <1>3
  <2> DEFINE R == {v}
  <2>3. /\ R \in SUBSET Views /\ R # {} /\ Goes(c, "describe", rest, R)
        /\ \A w \in R : w.id = v.id /\ w.serial = 0
    BY <1>2, <1>3
  <2>4. PICK ok \in BOOLEAN : ok /\ RegisterAt(v.id, ok)
    BY <1>3, Zenon
  <2>5. Brings(v.id, ok)
    BY <2>2, <2>4 DEF Brings
  <2> HIDE DEF v, rest, new, R
  <2> QED
    BY <1>1, <1>2, <2>3, <2>4, <2>5, RegisterKeeps
<1>4. CASE /\ RegisterAt(v.id, FALSE) /\ Goes(c, Then("revive", rest), rest, {})
           /\ UNCHANGED <<trees, failed>>
  <2>1. PICK p \in {"idle", "revive"} : Goes(c, p, rest, {}) /\ (p = "revive" => rest # {})
    BY <1>4 DEF Then
  <2>2. {} \in SUBSET Views /\ p \in {"idle", "describe", "revive"} /\ p # "describe"
    BY <2>1
  <2>3. /\ trees' \in SUBSET Trees /\ failed' \in SUBSET Trees
        /\ \A t \in trees' : t.serial # 0
        /\ \A t \in trees' \ failed' : t \in trees \ failed
    BY <1>2, <1>4
  <2>4. \A w \in {} : w.id = v.id /\ w.serial = 0
    OBVIOUS
  <2>5. PICK ok \in BOOLEAN : ~ok /\ RegisterAt(v.id, ok)
    BY <1>4, Zenon
  <2>6. Brings(v.id, ok)
    BY <2>3 DEF Brings
  <2> HIDE DEF v, rest
  <2> QED
    BY <1>1, <1>2, <2>1, <2>2, <2>4, <2>5, <2>6, RegisterKeeps
<1>5. CASE /\ Goes(c, Then("revive", rest), rest, {})
           /\ UNCHANGED <<registry, trees, failed, reuse, recycled>>
  <2>1. PICK p \in {"idle", "revive"} : Goes(c, p, rest, {}) /\ (p = "revive" => rest # {})
    BY <1>5 DEF Then
  <2>2. p \in Places /\ {} \in SUBSET Views
    BY <2>1 DEF Places
  <2>3. /\ UNCHANGED <<nextID, serial, past>> /\ UNCHANGED apps
        /\ UNCHANGED <<trees, failed, routes, emptied, recycled>>
    BY <1>1, <1>5 DEF registry, past
  <2>4. /\ apps' \in [Ids -> Apps] /\ routes' \in [Ids -> Serials]
        /\ trees' \in SUBSET Trees /\ failed' \in SUBSET Trees
    BY <2>3, <1>2 DEF TypeOK
  <2>5. /\ at'[c] = p /\ fresh'[c] = {}
        /\ \A d \in Callers \ {c} : at'[d] = at[d] /\ fresh'[d] = fresh[d]
    BY <1>2, <2>1 DEF Goes, Answers, TypeOK
  <2>6. Owned'
    BY <2>3 DEF IInv, Owned, TreesOwned
  <2>7. RoutesCounted' /\ RoutesKnown'
    BY <2>1, <2>3, <2>5 DEF IInv, RoutesCounted, RoutesKnown, Routing
  <2> HIDE DEF v, rest
  <2> QED
    BY <1>1, <1>2, <2>1, <2>2, <2>3, <2>4, <2>6, <2>7, StepKeeps
<1>6. \A t \in trees : {t} \in SUBSET trees
  OBVIOUS
<1> QED
  BY <1>3, <1>4, <1>5, <1>6 DEF Revive

(* A delete takes the app and, if it was the last, the counter; a tree is   *)
(* left only if its kill failed.                                            *)
LEMMA ActDeleteKeeps ==
  ASSUME IInv, NEW c \in Callers, ActDelete(c)
  PROVE  IInv'
<1> DEFINE v == First(todo[c])
           last == Registered = {v.id}
<1>1. /\ at[c] = "act" /\ op[c] \in {"delete", "shrink"}
      /\ UNCHANGED <<serial, routes, recycled, deleted>>
  BY DEF ActDelete
<1>2. /\ TypeOK /\ v \in todo[c] /\ todo[c] \in SUBSET Views /\ v.id \in Ids
      /\ trees \in SUBSET Trees /\ failed \in SUBSET Trees
  BY <1>1, FirstMember DEF IInv, Busy, TypeOK, Views
<1>3. PICK V \in SUBSET todo[c] : Goes(c, "close", V, {}) /\ V # {}
  BY <1>2 DEF ActDelete
<1>4. /\ op' \in [Callers -> Requests \cup {"none"}] /\ at' \in [Callers -> Places]
      /\ todo' \in [Callers -> SUBSET Views] /\ fresh' \in [Callers -> SUBSET Views]
      /\ at'[c] = "close" /\ todo'[c] = V /\ fresh'[c] = {} /\ op'[c] = op[c]
      /\ \A d \in Callers \ {c} : /\ op'[d] = op[d] /\ at'[d] = at[d]
                                  /\ todo'[d] = todo[d] /\ fresh'[d] = fresh[d]
  BY <1>1, <1>2, <1>3 DEF TypeOK, Places, Goes, Answers
<1>5. CASE v.id \notin Registered
  <2>1. UNCHANGED <<apps, trees, failed, nextID, reuse, emptied>>
    BY <1>5 DEF ActDelete
  <2>2. UNCHANGED <<nextID, serial, past>>
    BY <2>1, <1>1 DEF past
  <2>3. Owned'
    BY <2>1 DEF IInv, Owned, TreesOwned
  <2>4. RoutesCounted' /\ RoutesKnown'
    BY <2>1, <1>1, <1>4 DEF IInv, RoutesCounted, RoutesKnown, Routing
  <2>5. /\ apps' \in [Ids -> Apps] /\ routes' \in [Ids -> Serials]
        /\ trees' \in SUBSET Trees /\ failed' \in SUBSET Trees
        /\ \A i \in Ids : apps'[i].serial = apps[i].serial
        /\ "close" \in Places /\ {} \in SUBSET Views
    BY <2>1, <1>1, <1>2 DEF TypeOK, Places
  <2> HIDE DEF v, last
  <2> QED
    BY <1>1, <1>3, <2>2, <2>3, <2>4, <2>5, StepKeeps
<1>6. CASE v.id \in Registered
  <2>1. /\ apps' = [apps EXCEPT ![v.id] = None]
        /\ nextID' = IF last THEN 0 ELSE nextID
        /\ IF last THEN GivenAgain(Ids) ELSE UNCHANGED reuse
        /\ emptied' = (emptied \/ last)
        /\ Kills(v.id) \/ KillFails(v.id)
    BY <1>6 DEF ActDelete, Unregister
  <2>2. /\ None \in Apps /\ None.serial = 0 /\ apps \in [Ids -> Apps]
        /\ \A i \in Ids : apps[i].serial \in Nat
        /\ nextID \in Nat /\ nextID <= MaxId + 1
    BY BoundsAssumption DEF None, Apps, Serials, IInv, TypeOK
  <2>3. /\ apps' \in [Ids -> Apps] /\ apps'[v.id].serial = 0
        /\ \A i \in Ids \ {v.id} : apps'[i] = apps[i]
        /\ Registered' = Registered \ {v.id}
    BY <2>1, <2>2, <1>2 DEF Registered
  <2>4. /\ trees' \in SUBSET trees /\ failed' \in SUBSET Trees
        /\ \A t \in trees' \ failed' : t \in trees \ failed /\ t.id # v.id
    BY <2>1, <1>2, KillsLeave DEF IInv
  <2>5. last => \A i \in Ids : apps'[i].serial = 0
    BY <2>2, <2>3 DEF Registered
  <2>6. \A d \in Callers : /\ last => \A w \in todo[d] : w.id \in reuse'[d]
                           /\ ~last => reuse'[d] = reuse[d]
                           /\ reuse'[d] \in SUBSET Ids
    BY <2>1, <1>2 DEF GivenAgain, TypeOK, Views
  <2>7. reuse' \in [Callers -> SUBSET Ids]
    BY <2>1, <1>2 DEF GivenAgain, TypeOK
  <2>8. TypeOK'
    <3>1. nextID' \in 0 .. MaxId + 1 /\ emptied' \in BOOLEAN
      BY <2>1, <2>2, BoundsAssumption DEF IInv, TypeOK
    <3> QED
      BY <3>1, <2>3, <2>4, <2>7, <1>1, <1>2, <1>4 DEF TypeOK, Places
  <2>9. Busy'
    BY <1>3, <1>4 DEF IInv, Busy
  <2>10. Counted'
    BY <2>1, <2>3, <2>5, <1>1 DEF IInv, Counted
  <2>11. Owned'
    BY <2>3, <2>4, <1>2 DEF IInv, Owned, TreesOwned, Trees
  <2>12. TargetKnown'
    <3>1. \A d \in Callers : /\ at'[d] \in {"act", "close"} => at[d] \in {"act", "close"}
                             /\ todo'[d] \in SUBSET todo[d]
      BY <1>1, <1>3, <1>4
    <3>2. CASE last
      BY <3>1, <3>2, <2>6 DEF TargetKnown
    <3>3. CASE ~last
      <4>1. nextID' = nextID /\ \A d \in Callers : reuse'[d] = reuse[d]
        BY <3>3, <2>1, <2>6
      <4>2. \A i \in Ids : apps'[i].serial \in {0, apps[i].serial}
        BY <2>3
      <4>3. \A d \in Callers : \A w \in todo[d] : w.id \in Ids
        BY <1>2 DEF TypeOK, Views
      <4> QED
        BY <3>1, <4>1, <4>2, <4>3 DEF IInv, TargetKnown
    <3> QED
      BY <3>2, <3>3
  <2>13. LowestKept'
    <3>1. \A d \in Callers : /\ op'[d] = "delete" => deleted'
                             /\ op'[d] = "shrink" => serial' > 0
      BY <1>1, <1>4 DEF IInv, LowestKept
    <3>2. ASSUME ~deleted', serial' > 0 PROVE \E m \in Registered' : Lowest(m)'
      <4>1. PICK m \in Registered : Lowest(m)
        BY <3>2, <1>1 DEF IInv, LowestKept
      <4>2. op[c] = "shrink"
        BY <3>2, <1>1 DEF IInv, LowestKept
      <4>3. m \in Ids /\ m # v.id
        BY <4>1, <4>2, <1>2 DEF Lowest, Registered, Ids
      <4>4. m \in Registered' /\ Lowest(m)'
        BY <4>1, <4>3, <2>3, <1>4 DEF Lowest
      <4> QED
        BY <4>4
    <3> QED
      BY <3>1, <3>2 DEF LowestKept
  <2>14. RoutesCounted'
    <3> SUFFICES ASSUME ~emptied' PROVE RoutesCounted'
      BY DEF RoutesCounted
    <3>1. ~emptied /\ nextID' = nextID
      BY <2>1
    <3> QED
      BY <3>1, <1>1, <1>4 DEF IInv, RoutesCounted, Routing
  <2>15. RoutesKnown'
    <3>1. \A i \in Ids : apps'[i].serial \in {0, apps[i].serial}
      BY <2>3
    <3>2. \A d \in Callers : \A w \in fresh[d] : w.id \in Ids
      BY <1>2 DEF TypeOK, Views
    <3> QED
      BY <3>1, <3>2, <1>1, <1>4 DEF IInv, RoutesKnown, Routing
  <2> QED
    BY <2>8, <2>9, <2>10, <2>11, <2>12, <2>13, <2>14, <2>15 DEF IInv
<1> QED
  BY <1>5, <1>6

-----------------------------------------------------------------------------
LEMMA InitIInv == Init => IInv
<1> SUFFICES ASSUME Init PROVE IInv
  OBVIOUS
<1> USE BoundsAssumption
<1>1. /\ \A i \in Ids : apps[i] = None /\ routes[i] = 0
      /\ nextID = 0 /\ serial = 0 /\ trees = {} /\ ~deleted
      /\ \A c \in Callers : op[c] = "none" /\ at[c] = "idle"
  BY DEF Init
<1>2. None \in Apps /\ None.serial = 0 /\ 0 \in Serials /\ 0 \in 0 .. MaxId + 1
  BY DEF None, Apps, Serials
<1>3. TypeOK
  BY <1>2 DEF Init, TypeOK
<1>4. Busy /\ Counted /\ Owned /\ TargetKnown
  BY <1>1, <1>2 DEF Busy, Counted, Owned, TreesOwned, TargetKnown
<1>5. LowestKept /\ RoutesCounted /\ RoutesKnown
  BY <1>1, <1>2 DEF LowestKept, RoutesCounted, RoutesKnown, Routing
<1> QED
  BY <1>3, <1>4, <1>5 DEF IInv

LEMMA NextIInv == IInv /\ [Next]_vars => IInv'
<1> SUFFICES ASSUME IInv, [Next]_vars PROVE IInv'
  OBVIOUS
<1>1. CASE UNCHANGED vars
  BY <1>1 DEF vars, registry, work, past, IInv, TypeOK, Busy, Counted, Owned, TreesOwned,
     TargetKnown, LowestKept, Lowest, Registered, RoutesCounted, RoutesKnown, Routing
<1>2. ASSUME NEW c \in Callers, Handler(c) PROVE IInv'
  <2>1. CASE StartOne(c) \/ StartTwo(c) \/ GrowStarts(c)
    BY <2>1, StartBatchKeeps DEF StartOne, StartTwo, GrowStarts
  <2>2. CASE Logs(c) \/ Grow(c)
    BY <2>2, ListKeeps
  <2>3. CASE Stop(c) \/ Restart(c) \/ Delete(c)
    BY <2>3, SelectKeeps
  <2>4. CASE Shrink(c)
    BY <2>4, ShrinkKeeps
  <2>5. CASE Resurrect(c)
    BY <2>5, ResurrectKeeps
  <2>6. CASE Describe(c)
    BY <2>6, DescribeKeeps
  <2>7. CASE EnsureRoute(c)
    BY <2>7, EnsureKeeps
  <2>8. CASE Revive(c)
    BY <2>8, ReviveKeeps
  <2>9. CASE ActStop(c)
    BY <2>9, ActStopKeeps
  <2>10. CASE ActRestart(c)
    BY <2>10, ActRestartKeeps
  <2>11. CASE ActDelete(c)
    BY <2>11, ActDeleteKeeps
  <2>12. CASE CloseRoute(c)
    BY <2>12, CloseKeeps
  <2> QED
    BY <1>2, <2>1, <2>2, <2>3, <2>4, <2>5, <2>6, <2>7, <2>8, <2>9, <2>10, <2>11, <2>12
    DEF Handler
<1>3. ASSUME NEW t \in trees, TreeExits(t) PROVE IInv'
  BY <1>3, TreeExitsKeeps
<1> QED
  BY <1>1, <1>2, <1>3 DEF Next

LEMMA Invariant == Spec => []IInv
BY InitIInv, NextIInv, PTL DEF Spec

-----------------------------------------------------------------------------
(* Every variable keeps its type: no pm_id or registration leaves its range *)
(* (control.go, logroute.go).                                               *)
THEOREM TypeCorrect == Spec => []TypeOK
<1>1. IInv => TypeOK
  BY DEF IInv
<1> QED
  BY <1>1, Invariant, PTL

(* Every live tree no kill of which has failed is its registered app's and  *)
(* the only one it has, however starts, restarts, deletes, resurrects,      *)
(* failed kills and exits interleave (control.go:29-161,                    *)
(* supervisor.go:120-269).                                                  *)
THEOREM TreesHaveOwners == Spec => []TreesOwned
<1>1. IInv => TreesOwned
  BY DEF IInv, Owned
<1> QED
  BY <1>1, Invariant, PTL

(* A request acts on the apps it resolved, unless a resurrect gave their    *)
(* pm_id to another, or the registry was emptied, in between                *)
(* (control.go:105-161, supervisor.go:175-278).                             *)
THEOREM TargetsStay == Spec => []TargetKept
<1>1. IInv => TargetKept
  BY DEF IInv, TargetKnown, TargetKept
<1> QED
  BY <1>1, Invariant, PTL

(* Any number of scale requests together leave a family an app              *)
(* (control.go:257-262).                                                    *)
THEOREM ScalingKeepsOne == Spec => []ScaleKeepsOne
<1>1. IInv => ScaleKeepsOne
  BY DEF IInv, LowestKept, TypeOK, Serials, ScaleKeepsOne
<1> QED
  BY <1>1, Invariant, PTL

(* A log route is the route of the app that has its pm_id, unless the pm_id *)
(* was given out while a route or a lookup of its last owner was there      *)
(* (logroute.go:60-131).                                                    *)
THEOREM RoutesHaveOwners == Spec => []RouteOwned
<1>1. IInv => RouteOwned
  BY DEF IInv, RoutesKnown, RouteOwned, Registered
<1> QED
  BY <1>1, Invariant, PTL

-----------------------------------------------------------------------------
(* Persist.  What AckedDurable, SavedAdopted and NeverTwice need: dumps are *)
(* whole and name a pm_id once; a tree that is not lost is its app's; and,  *)
(* until a start takes the id of a lost tree, whatever names the pm_id of   *)
(* a lost tree names it alike, and a batch still has each lost tree of the  *)
(* dump before it.  The last two are of firm trees: no kill or adoption of  *)
(* their entry has failed.                                                  *)

Bears(e, t) == e.id = t.id /\ e.name = t.name
Listed(t, E) == \E e \in E : Bears(e, t)
OnePerId(E) == \A e, f \in E : e.id = f.id => e.name = f.name

(* Whatever is about to be renamed over the dump is whole and synced.       *)
DumpsWhole == file.synced /\ disk.synced /\ tmp.synced /\ (acked => disk = file)

DumpsOnePerId ==
  /\ OnePerId(file.list) /\ OnePerId(disk.list) /\ OnePerId(tmp.list)
  /\ \A c \in P!Workers : OnePerId(ptodo[c])

TreesHeld == \A t \in ptrees : t.exit # "nobody" => papps[t.id] = t.name
IdsCounted == \A i \in P!Ids : papps[i] # NoName => i < pnextID

(* An entry the daemon may still act on, or that a dump has.                *)
Known(e) ==
  \/ papps[e.id] = e.name \/ e \in file.list \/ e \in tmp.list
  \/ \E c \in P!Workers : e \in ptodo[c]

Firm(t) == P!Entry(t) \notin loose
FirmLost == {t \in P!Lost : Firm(t)}

TreesApart ==
  \A t, u \in ptrees : Firm(t) /\ t.id = u.id /\ t.name = u.name => t = u

LostApart ==
  \A t \in FirmLost :
    /\ papps[t.id] # t.name
    /\ \A e, f \in P!Entries :
         e.id = t.id /\ f.id = t.id /\ Known(e) /\ Known(f) => e.name = f.name

LostUnsaved ==
  \A t \in FirmLost :
    /\ ~ Listed(t, tmp.list)
    /\ \A c \in P!Workers : pat[c] = "lock" => ~ Listed(t, ptodo[c])

LostToDo ==
  \A c \in P!Workers, t \in FirmLost :
    /\ pat[c] \in {"adopt", "startat", "reply"} /\ Listed(t, file.list) =>
         Listed(t, ptodo[c])
    /\ pat[c] = "startat" => ~ Bears(P!First(ptodo[c]), t)

BatchBusy ==
  \A c \in P!Workers : /\ pat[c] \in {"adopt", "startat"} => ptodo[c] # {}
                       /\ pat[c] = "reply" => ptodo[c] = {}

Through == adopted => \A t \in FirmLost : ~ Listed(t, file.list)

Amicable ==
  ~rival => TreesApart /\ LostApart /\ LostUnsaved /\ LostToDo /\ Through

PInv == /\ P!TypeOK /\ DumpsWhole /\ DumpsOnePerId /\ TreesHeld /\ IdsCounted /\ BatchBusy
        /\ Amicable

LEMMA FirstEntry ==
  ASSUME NEW E \in SUBSET P!Entries, E # {}
  PROVE  P!First(E) \in E
<1> USE DumpAssumption DEF P!Ids, P!Entries
<1>0. {v.id : v \in E} \in SUBSET Nat /\ {v.id : v \in E} # {}
  OBVIOUS
<1>1. PICK x \in {v.id : v \in E} : \A y \in {v.id : v \in E} : x <= y
  BY <1>0, LeastNatural
<1>2. \E v \in E : \A w \in E : v.id <= w.id
  BY <1>1
<1> QED
  BY <1>2 DEF P!First

LEMMA ListingFacts ==
  ASSUME P!TypeOK
  PROVE  /\ P!Listing \in SUBSET P!Entries /\ OnePerId(P!Listing)
         /\ \A e \in P!Listing : papps[e.id] = e.name
BY DumpAssumption DEF P!TypeOK, P!Listing, P!Registered, P!Entries, OnePerId

LEMMA GoesFacts ==
  ASSUME P!TypeOK, NEW c \in P!Workers, NEW p \in P!Places,
         NEW E \in SUBSET P!Entries, P!Goes(c, p, E)
  PROVE  /\ pop' \in [P!Workers -> P!Requests \cup {"none"}]
         /\ pat' \in [P!Workers -> P!Places]
         /\ ptodo' \in [P!Workers -> SUBSET P!Entries]
         /\ pat'[c] = p /\ ptodo'[c] = E
         /\ \A d \in P!Workers \ {c} : pat'[d] = pat[d] /\ ptodo'[d] = ptodo[d]
BY DEF P!TypeOK, P!Goes

LEMMA RequestFacts ==
  ASSUME P!TypeOK, NEW c, NEW r \in P!Requests, NEW p \in P!Places,
         NEW E \in SUBSET P!Entries, P!Request(c, r, p, E)
  PROVE  /\ c \in P!Workers
         /\ pop' \in [P!Workers -> P!Requests \cup {"none"}]
         /\ pat' \in [P!Workers -> P!Places]
         /\ ptodo' \in [P!Workers -> SUBSET P!Entries]
         /\ pat'[c] = p /\ ptodo'[c] = E
         /\ \A d \in P!Workers \ {c} : pat'[d] = pat[d] /\ ptodo'[d] = ptodo[d]
         /\ UNCHANGED <<up, papps, pnextID, ptrees, tmp, file, disk, saving, acked>>
         /\ UNCHANGED <<faults, rival, loose, adopted, cut>>
BY DEF P!TypeOK, P!Request, P!Workers, P!registry, P!store, P!past

LEMMA RegisterFacts ==
  ASSUME P!TypeOK, NEW i \in P!Ids, NEW n \in Names, P!Register(i, n)
  PROVE  /\ papps' \in [P!Ids -> Names \cup {NoName}]
         /\ pnextID' \in 0 .. DumpMaxId + 1
         /\ papps'[i] = n /\ \A j \in P!Ids \ {i} : papps'[j] = papps[j]
         /\ IdsCounted => IdsCounted'
<1> USE DumpAssumption DEF P!TypeOK, P!Ids, P!Register
<1>1. papps' \in [P!Ids -> Names \cup {NoName}]
  OBVIOUS
<1>2. pnextID' \in 0 .. DumpMaxId + 1 /\ i < pnextID' /\ pnextID <= pnextID'
  OBVIOUS
<1>3. papps'[i] = n /\ \A j \in P!Ids \ {i} : papps'[j] = papps[j]
  OBVIOUS
<1>4. IdsCounted => IdsCounted'
  BY <1>1, <1>2, <1>3 DEF IdsCounted
<1> QED
  BY <1>1, <1>2, <1>3, <1>4

-----------------------------------------------------------------------------
LEMMA PInitHasPInv == P!Init => PInv
<1> SUFFICES ASSUME P!Init PROVE PInv
  OBVIOUS
<1> USE DumpAssumption DEF P!Init, P!NoDump
<1>1. P!TypeOK
  <2>1. [list |-> {}, synced |-> TRUE] \in P!Dumps
    BY DEF P!Dumps
  <2>2. /\ papps \in [P!Ids -> Names \cup {NoName}] /\ pnextID \in 0 .. DumpMaxId + 1
        /\ faults \in 0 .. MaxFaults
    OBVIOUS
  <2>3. /\ pop \in [P!Workers -> P!Requests \cup {"none"}]
        /\ pat \in [P!Workers -> P!Places] /\ ptodo \in [P!Workers -> SUBSET P!Entries]
    BY DEF P!Places
  <2> QED
    BY <2>1, <2>2, <2>3 DEF P!TypeOK
<1>2. ptrees = {} /\ FirmLost = {} /\ \A c \in P!Workers : ptodo[c] = {} /\ pat[c] = "idle"
  BY DEF P!Lost, FirmLost, Firm, P!Entry
<1>3. DumpsWhole /\ DumpsOnePerId /\ TreesHeld /\ IdsCounted
  BY <1>2 DEF DumpsWhole, DumpsOnePerId, OnePerId, TreesHeld, IdsCounted
<1>4. BatchBusy /\ Amicable
  BY <1>2 DEF BatchBusy, Amicable, TreesApart, Firm, P!Entry, LostApart, LostUnsaved, LostToDo, Through
<1> QED
  BY <1>1, <1>3, <1>4 DEF PInv

(* What an action leaves alone, the parts of the invariant that read it     *)
(* keep.                                                                    *)
LEMMA StutterKeeps == PInv /\ UNCHANGED P!vars => PInv'
<1> SUFFICES ASSUME PInv, UNCHANGED P!vars PROVE PInv'
  OBVIOUS
<1>1. UNCHANGED <<papps, pnextID, ptrees, pop, pat, ptodo, up, tmp, file, disk, saving,
                  faults, acked, rival, loose, adopted, cut>>
  BY DEF P!vars, P!registry, P!store, P!work, P!past
<1>2. FirmLost' = FirmLost /\ \A e : Known(e)' = Known(e)
  BY <1>1 DEF P!Lost, FirmLost, Firm, P!Entry, Known
<1>3. P!TypeOK' /\ DumpsWhole' /\ DumpsOnePerId' /\ TreesHeld' /\ IdsCounted' /\ BatchBusy'
  BY <1>1 DEF PInv, P!TypeOK, DumpsWhole, DumpsOnePerId, OnePerId, TreesHeld, IdsCounted, BatchBusy
<1>4. Amicable'
  BY <1>1, <1>2 DEF PInv, Amicable, TreesApart, Firm, P!Entry, LostApart, LostUnsaved, LostToDo, Through,
     Listed
<1> QED
  BY <1>3, <1>4 DEF PInv

(* A request of a client: it holds nothing, or the listing.                 *)
LEMMA DumpRequestKeeps ==
  ASSUME PInv, NEW c, NEW r \in P!Requests, NEW p \in P!Places, NEW E,
         P!Request(c, r, p, E),
         \/ p \in {"lock", "stopall"} /\ E = P!Listing
         \/ p = "load" /\ E = {}
  PROVE  PInv'
<1>1. /\ P!TypeOK /\ E \in SUBSET P!Entries /\ OnePerId(E)
      /\ \A e \in E : papps[e.id] = e.name
  BY ListingFacts DEF PInv, OnePerId
<1>2. /\ c \in P!Workers
      /\ pop' \in [P!Workers -> P!Requests \cup {"none"}]
      /\ pat' \in [P!Workers -> P!Places]
      /\ ptodo' \in [P!Workers -> SUBSET P!Entries]
      /\ pat'[c] = p /\ ptodo'[c] = E
      /\ \A d \in P!Workers \ {c} : pat'[d] = pat[d] /\ ptodo'[d] = ptodo[d]
      /\ UNCHANGED <<up, papps, pnextID, ptrees, tmp, file, disk, saving, acked>>
      /\ UNCHANGED <<faults, rival, loose, adopted, cut>>
  BY <1>1, RequestFacts
<1>3. P!TypeOK'
  BY <1>1, <1>2 DEF P!TypeOK
<1>4. DumpsWhole' /\ DumpsOnePerId' /\ TreesHeld' /\ IdsCounted' /\ BatchBusy'
  BY <1>1, <1>2 DEF PInv, DumpsWhole, DumpsOnePerId, TreesHeld, IdsCounted, BatchBusy
<1>5. FirmLost' = FirmLost /\ \A e : Known(e)' => Known(e)
  BY <1>1, <1>2 DEF P!Lost, FirmLost, Firm, P!Entry, Known
<1>6. ASSUME ~rival PROVE TreesApart' /\ LostApart' /\ LostUnsaved' /\ LostToDo' /\ Through'
  <2>1. TreesApart /\ LostApart /\ LostUnsaved /\ LostToDo /\ Through
    BY <1>6 DEF PInv, Amicable
  <2>2. TreesApart' /\ LostApart' /\ Through'
    BY <1>2, <1>5, <2>1 DEF TreesApart, Firm, P!Entry, LostApart, Through, Listed
  <2>3. \A t \in FirmLost : p = "lock" => ~ Listed(t, E)
    BY <1>1, <2>1 DEF LostApart, Listed, Bears
  <2>4. LostUnsaved'
    BY <1>2, <1>5, <2>1, <2>3 DEF LostUnsaved, Listed
  <2>5. LostToDo'
    BY <1>2, <1>5, <2>1 DEF LostToDo, Listed
  <2> QED
    BY <2>2, <2>4, <2>5
<1> QED
  BY <1>2, <1>3, <1>4, <1>6 DEF PInv, Amicable

(* A step of a save, or an update that is given up.                         *)
LEMMA StoreStepKeeps ==
  ASSUME PInv, NEW c \in P!Workers, NEW p \in {"rename", "dirsync", "exec", "idle"},
         P!Goes(c, p, {}), tmp' \in P!Dumps, file' \in P!Dumps, disk' \in P!Dumps,
         saving' \in P!Workers \cup {Nobody}, acked' \in BOOLEAN,
         UNCHANGED <<up, papps, pnextID, ptrees, faults, rival, loose, adopted, cut>>,
         DumpsWhole',
         \/ tmp'.list = {} \/ tmp'.list = tmp.list
         \/ pat[c] = "lock" /\ tmp'.list = ptodo[c],
         file'.list = file.list \/ file'.list = tmp.list,
         disk'.list = disk.list \/ disk'.list = file.list
  PROVE  PInv'
<1>1. p \in P!Places /\ {} \in SUBSET P!Entries /\ P!TypeOK
  BY DEF P!Places, PInv
<1>2. /\ pop' \in [P!Workers -> P!Requests \cup {"none"}]
      /\ pat' \in [P!Workers -> P!Places]
      /\ ptodo' \in [P!Workers -> SUBSET P!Entries]
      /\ pat'[c] = p /\ ptodo'[c] = {}
      /\ \A d \in P!Workers \ {c} : pat'[d] = pat[d] /\ ptodo'[d] = ptodo[d]
  BY <1>1, GoesFacts
<1>3. P!TypeOK'
  BY <1>1, <1>2 DEF P!TypeOK
<1>4. DumpsOnePerId'
  BY <1>2 DEF PInv, DumpsOnePerId, OnePerId
<1>5. TreesHeld' /\ IdsCounted' /\ BatchBusy'
  BY <1>2 DEF PInv, TreesHeld, IdsCounted, BatchBusy
<1>6. FirmLost' = FirmLost /\ \A e : Known(e)' => Known(e)
  BY <1>2 DEF P!Lost, FirmLost, Firm, P!Entry, Known
<1>7. ASSUME ~rival PROVE TreesApart' /\ LostApart' /\ LostUnsaved' /\ LostToDo' /\ Through'
  <2>1. TreesApart /\ LostApart /\ LostUnsaved /\ LostToDo /\ Through
    BY <1>7 DEF PInv, Amicable
  <2>2. TreesApart' /\ LostApart'
    BY <1>6, <2>1 DEF TreesApart, Firm, P!Entry, LostApart
  <2>3. \A t \in FirmLost : /\ ~ Listed(t, tmp'.list)
                            /\ Listed(t, file'.list) => Listed(t, file.list)
    BY <2>1 DEF LostUnsaved, Listed
  <2>4. LostUnsaved'
    BY <1>2, <1>6, <2>1, <2>3 DEF LostUnsaved, Listed
  <2>5. LostToDo'
    BY <1>2, <1>6, <2>1, <2>3 DEF LostToDo, Listed
  <2>6. Through'
    BY <1>6, <2>1, <2>3 DEF Through, Listed
  <2> QED
    BY <2>2, <2>4, <2>5, <2>6
<1> QED
  BY <1>3, <1>4, <1>5, <1>7 DEF PInv, Amicable

LEMMA SaveStepsKeep ==
  ASSUME PInv, NEW c \in P!Workers,
         \/ P!WriteTmp(c) \/ P!RenameTmp(c) \/ P!SyncDir(c) \/ P!SaveFails(c)
         \/ P!ExecFails(c)
  PROVE  PInv'
<1>0. P!TypeOK /\ DumpsWhole /\ P!NoDump \in P!Dumps
  BY DEF PInv, P!NoDump, P!Dumps
<1>1. CASE P!WriteTmp(c)
  <2>1. /\ P!Goes(c, "rename", {}) /\ pat[c] = "lock" /\ ptodo[c] \in SUBSET P!Entries
        /\ tmp' = [list |-> ptodo[c], synced |-> TRUE] /\ saving' = c
        /\ UNCHANGED <<up, papps, pnextID, ptrees, faults, rival, loose, adopted, cut>>
        /\ UNCHANGED <<file, disk, acked>>
    BY <1>0, <1>1 DEF P!WriteTmp, P!registry, P!past, P!TypeOK
  <2>2. tmp' \in P!Dumps /\ tmp'.list = ptodo[c] /\ tmp'.synced
    BY <2>1 DEF P!Dumps
  <2> QED
    BY <1>0, <2>1, <2>2, StoreStepKeeps DEF DumpsWhole, P!TypeOK
<1>2. CASE P!RenameTmp(c)
  <2>1. /\ P!Goes(c, "dirsync", {})
        /\ file' = tmp /\ acked' = FALSE /\ tmp' = P!NoDump /\ UNCHANGED <<disk, saving>>
        /\ UNCHANGED <<up, papps, pnextID, ptrees, faults, rival, loose, adopted, cut>>
    BY <1>0, <1>2 DEF P!RenameTmp, P!StoreStep, P!registry, P!past, P!TypeOK
  <2>2. tmp'.list = {} /\ tmp'.synced
    BY <2>1 DEF P!NoDump
  <2> QED
    BY <1>0, <2>1, <2>2, StoreStepKeeps DEF DumpsWhole, P!TypeOK
<1>3. CASE P!SyncDir(c)
  <2>1. PICK p \in {"exec", "idle"} : P!Goes(c, p, {})
    BY <1>3 DEF P!SyncDir, P!StoreStep
  <2>2. /\ disk' = file /\ acked' = TRUE /\ saving' = Nobody /\ UNCHANGED <<tmp, file>>
        /\ UNCHANGED <<up, papps, pnextID, ptrees, faults, rival, loose, adopted, cut>>
    BY <1>0, <1>3 DEF P!SyncDir, P!StoreStep, P!registry, P!past, P!TypeOK
  <2> QED
    BY <1>0, <2>1, <2>2, StoreStepKeeps DEF DumpsWhole, P!TypeOK
<1>4. CASE P!SaveFails(c)
  <2>1. /\ P!Goes(c, "idle", {})
        /\ saving' = Nobody /\ tmp' = P!NoDump /\ UNCHANGED <<file, disk, acked>>
        /\ UNCHANGED <<up, papps, pnextID, ptrees, faults, rival, loose, adopted, cut>>
    BY <1>0, <1>4 DEF P!SaveFails, P!StoreStep, P!registry, P!past, P!TypeOK
  <2>2. tmp'.list = {} /\ tmp'.synced
    BY <2>1 DEF P!NoDump
  <2> QED
    BY <1>0, <2>1, <2>2, StoreStepKeeps DEF DumpsWhole, P!TypeOK
<1>5. CASE P!ExecFails(c)
  <2>1. /\ P!Goes(c, "idle", {}) /\ UNCHANGED <<tmp, saving, file, disk, acked>>
        /\ UNCHANGED <<up, papps, pnextID, ptrees, faults, rival, loose, adopted, cut>>
    BY <1>0, <1>5 DEF P!ExecFails, P!registry, P!past, P!store
  <2> QED
    BY <1>0, <2>1, StoreStepKeeps DEF DumpsWhole, P!TypeOK
<1> QED
  BY <1>1, <1>2, <1>3, <1>4, <1>5

(* The dump is read, and its batch reported as done.                        *)
LEMMA LoadKeeps ==
  ASSUME PInv, NEW c \in P!Workers, P!Load(c)
  PROVE  PInv'
<1>0. P!TypeOK /\ file.list \in SUBSET P!Entries /\ OnePerId(file.list)
  BY DEF PInv, P!TypeOK, P!Dumps, DumpsOnePerId
<1>1. PICK p \in {"reply", "adopt"} : /\ P!Goes(c, p, file.list)
                                      /\ p = "reply" <=> file.list = {}
  BY DEF P!Load
<1>2. UNCHANGED <<up, papps, pnextID, ptrees, tmp, file, disk, saving, acked, faults,
                  rival, loose, adopted, cut>>
  BY DEF P!Load, P!registry, P!store, P!past
<1>3. p \in P!Places
  BY DEF P!Places
<1>4. /\ pop' \in [P!Workers -> P!Requests \cup {"none"}]
      /\ pat' \in [P!Workers -> P!Places]
      /\ ptodo' \in [P!Workers -> SUBSET P!Entries]
      /\ pat'[c] = p /\ ptodo'[c] = file.list
      /\ \A d \in P!Workers \ {c} : pat'[d] = pat[d] /\ ptodo'[d] = ptodo[d]
  BY <1>0, <1>1, <1>3, GoesFacts
<1>5. P!TypeOK'
  BY <1>0, <1>2, <1>4 DEF P!TypeOK
<1>6. DumpsWhole' /\ DumpsOnePerId' /\ TreesHeld' /\ IdsCounted' /\ BatchBusy'
  BY <1>0, <1>1, <1>2, <1>4
     DEF PInv, DumpsWhole, DumpsOnePerId, OnePerId, TreesHeld, IdsCounted, BatchBusy
<1>7. FirmLost' = FirmLost /\ \A e : Known(e)' => Known(e)
  BY <1>2, <1>4 DEF P!Lost, FirmLost, Firm, P!Entry, Known
<1>8. ASSUME ~rival PROVE TreesApart' /\ LostApart' /\ LostUnsaved' /\ LostToDo' /\ Through'
  <2>1. TreesApart /\ LostApart /\ LostUnsaved /\ LostToDo /\ Through
    BY <1>8 DEF PInv, Amicable
  <2>2. TreesApart' /\ LostApart' /\ Through'
    BY <1>2, <1>7, <2>1 DEF TreesApart, Firm, P!Entry, LostApart, Through, Listed
  <2>3. LostUnsaved'
    BY <1>2, <1>4, <1>7, <2>1 DEF LostUnsaved, Listed
  <2>4. LostToDo'
    BY <1>2, <1>4, <1>7, <2>1 DEF LostToDo, Listed
  <2> QED
    BY <2>2, <2>3, <2>4
<1> QED
  BY <1>2, <1>5, <1>6, <1>8 DEF PInv, Amicable

LEMMA ReplyKeeps ==
  ASSUME PInv, NEW c \in P!Workers, P!Reply(c)
  PROVE  PInv'
<1>1. P!TypeOK /\ pat[c] = "reply" /\ ptodo[c] = {} /\ "idle" \in P!Places
  BY DEF PInv, P!Reply, BatchBusy, P!Places
<1>2. UNCHANGED <<up, papps, pnextID, ptrees, tmp, file, disk, saving, acked, faults,
                  rival, loose, cut>> /\ adopted' = TRUE
  BY DEF P!Reply, P!registry, P!store
<1>3. /\ pop' \in [P!Workers -> P!Requests \cup {"none"}]
      /\ pat' \in [P!Workers -> P!Places]
      /\ ptodo' \in [P!Workers -> SUBSET P!Entries]
      /\ pat'[c] = "idle" /\ ptodo'[c] = {}
      /\ \A d \in P!Workers \ {c} : pat'[d] = pat[d] /\ ptodo'[d] = ptodo[d]
  BY <1>1, GoesFacts DEF P!Reply
<1>4. P!TypeOK'
  BY <1>1, <1>2, <1>3 DEF P!TypeOK
<1>5. DumpsWhole' /\ DumpsOnePerId' /\ TreesHeld' /\ IdsCounted' /\ BatchBusy'
  BY <1>2, <1>3
     DEF PInv, DumpsWhole, DumpsOnePerId, OnePerId, TreesHeld, IdsCounted, BatchBusy
<1>6. FirmLost' = FirmLost /\ \A e : Known(e)' => Known(e)
  BY <1>2, <1>3 DEF P!Lost, FirmLost, Firm, P!Entry, Known
<1>7. ASSUME ~rival PROVE TreesApart' /\ LostApart' /\ LostUnsaved' /\ LostToDo' /\ Through'
  <2>1. TreesApart /\ LostApart /\ LostUnsaved /\ LostToDo
    BY <1>7 DEF PInv, Amicable
  <2>2. TreesApart' /\ LostApart'
    BY <1>2, <1>6, <2>1 DEF TreesApart, Firm, P!Entry, LostApart
  <2>3. LostUnsaved' /\ LostToDo'
    BY <1>2, <1>3, <1>6, <2>1 DEF LostUnsaved, LostToDo, Listed
  <2>4. Through'
    BY <1>1, <1>2, <1>6, <2>1 DEF LostToDo, Listed, Through
  <2> QED
    BY <2>2, <2>3, <2>4
<1> QED
  BY <1>2, <1>4, <1>5, <1>7 DEF PInv, Amicable

-----------------------------------------------------------------------------
(* Apps come and go.  Trees that end disturb nothing, nor do survivors.     *)
Thinned ==
  /\ ptrees' \in SUBSET P!Trees /\ loose' \in SUBSET P!Entries /\ loose \in SUBSET loose'
  /\ \A t \in ptrees' : t \in ptrees \/ (t.exit = "nobody" /\ P!Entry(t) \in loose')

LEMMA KillsThin ==
  ASSUME P!TypeOK, NEW i \in P!Ids, P!Kills(i)
  PROVE  Thinned /\ \A t \in ptrees' : t.id = i => t.exit = "nobody"
<1>1. PICK S \in SUBSET P!TreeOf(i) :
        /\ ptrees' = (ptrees \ P!TreeOf(i)) \cup {[t EXCEPT !.exit = "nobody"] : t \in S}
        /\ loose' = loose \cup {P!Entry(t) : t \in S}
  BY DEF P!Kills, P!Loosens
<1>2. ptrees \in SUBSET P!Trees /\ loose \in SUBSET P!Entries /\ S \in SUBSET ptrees
  BY DEF P!TypeOK, P!TreeOf
<1> DEFINE O(t) == [t EXCEPT !.exit = "nobody"]
<1>3. \A t \in P!Trees : /\ O(t) \in P!Trees /\ O(t).exit = "nobody"
                         /\ P!Entry(O(t)) = P!Entry(t) /\ P!Entry(t) \in P!Entries
  BY DEF P!Trees, P!Entry, P!Entries
<1>4. ptrees' = (ptrees \ P!TreeOf(i)) \cup {O(t) : t \in S}
  BY <1>1
<1> HIDE DEF O
<1>5. \A t \in ptrees' : \/ t \in ptrees /\ t \notin P!TreeOf(i)
                         \/ \E u \in S : t = O(u)
  BY <1>4
<1>6. \A u \in S : P!Entry(u) \in loose'
  BY <1>1
<1>7. \A t \in ptrees' : \/ t \in ptrees /\ t \notin P!TreeOf(i)
                         \/ t.exit = "nobody" /\ P!Entry(t) \in loose' /\ t \in P!Trees
  BY <1>2, <1>3, <1>5, <1>6
<1>8. \A t \in ptrees' : t.id = i => t.exit = "nobody"
  BY <1>7 DEF P!TreeOf
<1>9. loose' \in SUBSET P!Entries /\ loose \in SUBSET loose'
  BY <1>1, <1>2, <1>3
<1>10. ptrees' \in SUBSET P!Trees
  BY <1>2, <1>7
<1> QED
  BY <1>7, <1>8, <1>9, <1>10 DEF Thinned

(* What a thinned forest keeps of the invariant.                            *)
LEMMA ThinnedKeep ==
  ASSUME PInv, Thinned
  PROVE  /\ FirmLost' \in SUBSET FirmLost
         /\ TreesApart => TreesApart'
         /\ ~rival => TreesApart /\ LostApart /\ LostUnsaved /\ LostToDo /\ Through
<1>1. \A t \in ptrees' : Firm(t)' => t \in ptrees /\ Firm(t)
  BY DEF Thinned, Firm, P!Entry
<1>2. FirmLost' \in SUBSET FirmLost
  BY <1>1 DEF P!Lost, FirmLost
<1>3. \A t, u \in ptrees' : t.id = u.id /\ t.name = u.name /\ Firm(t)' => Firm(u)'
  BY DEF Firm, P!Entry
<1>4. TreesApart => TreesApart'
  BY <1>1, <1>3 DEF TreesApart
<1> QED
  BY <1>2, <1>4 DEF PInv, Amicable

LEMMA FewerTreesKeep ==
  ASSUME PInv, Thinned,
         UNCHANGED <<papps, pnextID, pop, pat, ptodo, up, tmp, file, disk, saving,
                     faults, acked, rival, adopted, cut>>
  PROVE  PInv'
<1>1. FirmLost' \in SUBSET FirmLost /\ \A e : Known(e)' = Known(e)
  BY ThinnedKeep DEF Known
<1>2. P!TypeOK'
  BY DEF PInv, P!TypeOK, Thinned
<1>3. DumpsWhole' /\ DumpsOnePerId' /\ IdsCounted' /\ BatchBusy'
  BY DEF PInv, DumpsWhole, DumpsOnePerId, OnePerId, IdsCounted, BatchBusy
<1>4. TreesHeld'
  BY DEF PInv, TreesHeld, Thinned
<1>5. ASSUME ~rival PROVE TreesApart' /\ LostApart' /\ LostUnsaved' /\ LostToDo' /\ Through'
  <2>1. TreesApart /\ LostApart /\ LostUnsaved /\ LostToDo /\ Through /\ TreesApart'
    BY <1>5, ThinnedKeep
  <2>2. LostApart'
    BY <1>1, <2>1 DEF LostApart
  <2>3. LostUnsaved' /\ LostToDo' /\ Through'
    BY <1>1, <2>1 DEF LostUnsaved, LostToDo, Listed, Through
  <2> QED
    BY <2>1, <2>2, <2>3
<1> QED
  BY <1>2, <1>3, <1>4, <1>5 DEF PInv, Amicable

LEMMA StartKeeps ==
  ASSUME PInv, NEW n \in Names, P!Start(n)
  PROVE  PInv'
<1> USE DumpAssumption
<1>1. /\ P!TypeOK /\ pnextID \in P!Ids /\ P!Register(pnextID, n)
      /\ ptrees' = ptrees \cup {P!Spawned(pnextID, n)}
      /\ rival' = (rival \/ \E t \in FirmLost : t.id = pnextID)
      /\ UNCHANGED <<up, tmp, file, disk, saving, acked, pop, pat, ptodo, faults,
                     loose, adopted, cut>>
  BY DEF PInv, P!Start, P!TypeOK, P!Ids, P!Apart, P!store, P!work, FirmLost, Firm
<1>2. /\ papps' \in [P!Ids -> Names \cup {NoName}]
      /\ pnextID' \in 0 .. DumpMaxId + 1
      /\ papps'[pnextID] = n /\ \A j \in P!Ids \ {pnextID} : papps'[j] = papps[j]
      /\ IdsCounted'
  BY <1>1, RegisterFacts DEF PInv
<1>3. DEFINE s == P!Spawned(pnextID, n)
<1>4. s \in P!Trees /\ s.id = pnextID /\ s.name = n /\ s.exit = "app"
  BY <1>1 DEF P!Spawned, P!Trees
<1>5. \A t \in ptrees : t \in P!Trees /\ t.id \in P!Ids /\ t.name \in Names
  BY <1>1 DEF P!TypeOK, P!Trees
<1>6. \A t \in ptrees : t.exit # "nobody" => t.id # pnextID
  <2>1. papps[pnextID] = NoName
    BY <1>1 DEF PInv, IdsCounted, P!TypeOK, P!Ids
  <2> QED
    BY <2>1, <1>5 DEF PInv, TreesHeld
<1>7. P!TypeOK'
  <2>1. ptrees' \in SUBSET P!Trees
    BY <1>1, <1>4 DEF P!TypeOK
  <2>2. rival' \in BOOLEAN
    BY <1>1 DEF P!TypeOK
  <2> QED
    BY <1>1, <1>2, <2>1, <2>2 DEF P!TypeOK
<1>8. DumpsWhole' /\ DumpsOnePerId' /\ BatchBusy'
  BY <1>1 DEF PInv, DumpsWhole, DumpsOnePerId, OnePerId, BatchBusy
<1>9. TreesHeld'
  BY <1>1, <1>2, <1>4, <1>5, <1>6 DEF PInv, TreesHeld
<1>10. FirmLost' = FirmLost
  BY <1>1, <1>4 DEF P!Lost, FirmLost, Firm, P!Entry
<1>11. ASSUME ~rival' PROVE TreesApart' /\ LostApart' /\ LostUnsaved' /\ LostToDo' /\ Through'
  <2>1. TreesApart /\ LostApart /\ LostUnsaved /\ LostToDo /\ Through
    BY <1>1, <1>11 DEF PInv, Amicable
  <2>2. \A t \in FirmLost : t.id # pnextID /\ t \in ptrees
    BY <1>1, <1>11 DEF P!Lost, FirmLost
  <2>3. \A t \in ptrees : Firm(t) => t.id # pnextID
    BY <2>2, <1>6 DEF P!Lost, FirmLost
  <2>4. TreesApart'
    <3>1. \A t, v \in ptrees' : Firm(t) /\ t.id = v.id /\ t.name = v.name => Firm(v)
      BY DEF Firm, P!Entry
    <3>2. \A t : Firm(t)' = Firm(t)
      BY <1>1 DEF Firm, P!Entry
    <3> HIDE DEF s
    <3> QED
      BY <1>1, <1>4, <2>1, <2>3, <3>1, <3>2 DEF TreesApart, s
  <2>5. \A e \in P!Entries : e.id # pnextID /\ Known(e)' => Known(e)
    BY <1>1, <1>2 DEF Known, P!Entries
  <2>6. LostApart'
    BY <1>2, <1>5, <1>10, <2>1, <2>2, <2>5 DEF LostApart
  <2>7. LostUnsaved' /\ LostToDo' /\ Through'
    BY <1>1, <1>10, <2>1 DEF LostUnsaved, LostToDo, Listed, Through
  <2> QED
    BY <2>4, <2>6, <2>7
<1> QED
  BY <1>2, <1>7, <1>8, <1>9, <1>11 DEF PInv, Amicable

LEMMA RestartKeeps ==
  ASSUME PInv, NEW i \in P!Ids, P!Restart(i)
  PROVE  PInv'
<1> USE DumpAssumption
<1>1. /\ P!TypeOK /\ papps[i] # NoName /\ papps[i] \in Names
      /\ ptrees' = (ptrees \ P!TreeOf(i)) \cup {P!Spawned(i, papps[i])}
      /\ UNCHANGED <<papps, pnextID, up, tmp, file, disk, saving, acked, pop, pat, ptodo,
                     faults, rival, loose, adopted, cut>>
  BY DEF PInv, P!Restart, P!TypeOK, P!Registered, P!Apart, P!registry, P!store, P!work
<1>2. DEFINE s == P!Spawned(i, papps[i])
<1>3. s \in P!Trees /\ s.id = i /\ s.name = papps[i] /\ s.exit = "app"
  BY <1>1 DEF P!Spawned, P!Trees
<1> HIDE DEF s
<1>4. \A t \in ptrees' : t = s \/ (t \in ptrees /\ (t.id = i => t.exit = "nobody"))
  <2>1. ptrees' = (ptrees \ P!TreeOf(i)) \cup {s}
    BY <1>1 DEF s
  <2> QED
    BY <2>1 DEF P!TreeOf
<1>5. FirmLost' \in SUBSET FirmLost /\ \A e : Known(e)' = Known(e)
  BY <1>1, <1>3, <1>4 DEF P!Lost, FirmLost, Firm, P!Entry, Known
<1>6. P!TypeOK'
  BY <1>1, <1>3, <1>4 DEF P!TypeOK
<1>7. DumpsWhole' /\ DumpsOnePerId' /\ TreesHeld' /\ IdsCounted' /\ BatchBusy'
  BY <1>1, <1>3, <1>4
     DEF PInv, DumpsWhole, DumpsOnePerId, OnePerId, TreesHeld, IdsCounted, BatchBusy
<1>8. ASSUME ~rival PROVE TreesApart' /\ LostApart' /\ LostUnsaved' /\ LostToDo' /\ Through'
  <2>1. TreesApart /\ LostApart /\ LostUnsaved /\ LostToDo /\ Through
    BY <1>8 DEF PInv, Amicable
  <2>2. \A t \in ptrees' : Firm(t) /\ t.id = i /\ t.name = papps[i] => t = s
    BY <1>4, <2>1 DEF LostApart, P!Lost, FirmLost
  <2>3. TreesApart'
    <3>1. \A t, v \in ptrees' : Firm(t) /\ t.id = v.id /\ t.name = v.name => Firm(v)
      BY DEF Firm, P!Entry
    <3>2. \A t : Firm(t)' = Firm(t)
      BY <1>1 DEF Firm, P!Entry
    <3> QED
      BY <1>3, <1>4, <2>1, <2>2, <3>1, <3>2 DEF TreesApart
  <2>4. LostApart'
    BY <1>1, <1>5, <2>1 DEF LostApart
  <2>5. LostUnsaved' /\ LostToDo' /\ Through'
    BY <1>1, <1>5, <2>1 DEF LostUnsaved, LostToDo, Listed, Through
  <2> QED
    BY <2>3, <2>4, <2>5
<1> QED
  BY <1>1, <1>6, <1>7, <1>8 DEF PInv, Amicable

LEMMA DeleteKeeps ==
  ASSUME PInv, NEW i \in P!Ids, P!Delete(i)
  PROVE  PInv'
<1> USE DumpAssumption
<1>1. /\ P!TypeOK /\ papps' = [papps EXCEPT ![i] = NoName] /\ P!Kills(i)
      /\ pnextID' = IF P!Registered = {i} THEN 0 ELSE pnextID
      /\ UNCHANGED <<up, tmp, file, disk, saving, acked, pop, pat, ptodo, faults,
                     rival, adopted, cut>>
  BY DEF PInv, P!Delete, P!Apart, P!store, P!work
<1>2. /\ papps' \in [P!Ids -> Names \cup {NoName}]
      /\ papps'[i] = NoName /\ \A j \in P!Ids \ {i} : papps'[j] = papps[j]
  BY <1>1 DEF P!TypeOK
<1>3. Thinned /\ \A t \in ptrees' : t.id = i => t.exit = "nobody"
  BY <1>1, KillsThin
<1>4. \A t \in ptrees' : t.id \in P!Ids /\ t.name \in Names
  BY <1>3 DEF Thinned, P!Trees
<1>5. FirmLost' \in SUBSET FirmLost /\ \A e \in P!Entries : Known(e)' => Known(e)
  <2>1. \A e \in P!Entries : Known(e)' => Known(e)
    BY <1>1, <1>2 DEF Known, P!Entries
  <2> QED
    BY <2>1, <1>3, ThinnedKeep
<1>6. P!TypeOK'
  <2>1. pnextID' \in 0 .. DumpMaxId + 1
    BY <1>1 DEF P!TypeOK
  <2> QED
    BY <1>1, <1>2, <1>3, <2>1 DEF P!TypeOK, Thinned
<1>7. DumpsWhole' /\ DumpsOnePerId' /\ BatchBusy'
  BY <1>1 DEF PInv, DumpsWhole, DumpsOnePerId, OnePerId, BatchBusy
<1>8. TreesHeld'
  BY <1>2, <1>3, <1>4 DEF PInv, TreesHeld, Thinned
<1>9. IdsCounted'
  BY <1>1, <1>2 DEF PInv, IdsCounted, P!Registered
<1>10. ASSUME ~rival PROVE TreesApart' /\ LostApart' /\ LostUnsaved' /\ LostToDo' /\ Through'
  <2>1. TreesApart /\ LostApart /\ LostUnsaved /\ LostToDo /\ Through /\ TreesApart'
    BY <1>3, <1>10, ThinnedKeep
  <2>2. \A t \in FirmLost' : papps'[t.id] # t.name
    BY <1>2, <1>4, <1>5, <2>1 DEF LostApart, P!Lost, FirmLost
  <2>3. LostApart'
    BY <1>5, <2>1, <2>2 DEF LostApart
  <2>4. LostUnsaved' /\ LostToDo' /\ Through'
    BY <1>1, <1>5, <2>1 DEF LostUnsaved, LostToDo, Listed, Through
  <2> QED
    BY <2>1, <2>3, <2>4
<1> QED
  BY <1>1, <1>6, <1>7, <1>8, <1>9, <1>10 DEF PInv, Amicable

LEMMA ApiKeeps == PInv /\ P!Api => PInv'
<1> SUFFICES ASSUME PInv, P!Api PROVE PInv'
  OBVIOUS
<1>1. ASSUME NEW n \in Names, P!Start(n) PROVE PInv'
  BY <1>1, StartKeeps
<1>2. ASSUME NEW i \in P!Ids, P!Stop(i) PROVE PInv'
  <2>1. Thinned
    BY <1>2, KillsThin DEF PInv, P!Stop
  <2> QED
    BY <1>2, <2>1, FewerTreesKeep DEF P!Stop, P!Apart, P!registry, P!store, P!work
<1>3. ASSUME NEW i \in P!Ids, P!Restart(i) PROVE PInv'
  BY <1>3, RestartKeeps
<1>4. ASSUME NEW i \in P!Ids, P!Delete(i) PROVE PInv'
  BY <1>4, DeleteKeeps
<1>5. ASSUME NEW t \in ptrees, P!TreeExits(t) PROVE PInv'
  <2>1. Thinned
    BY <1>5 DEF PInv, P!TypeOK, P!TreeExits, Thinned
  <2> QED
    BY <1>5, <2>1, FewerTreesKeep DEF P!TreeExits, P!Apart, P!registry, P!store, P!work
<1> QED
  BY <1>1, <1>2, <1>3, <1>4, <1>5 DEF P!Api

-----------------------------------------------------------------------------
(* The batch of a resurrect, one entry at a time.                           *)
LEMMA RetoldTree ==
  ASSUME NEW t \in P!Trees, NEW x \in {"app", "stolen", "nobody"}
  PROVE  LET u == [t EXCEPT !.exit = x]
         IN  u \in P!Trees /\ u.id = t.id /\ u.name = t.name /\ u.exit = x
BY DEF P!Trees

LEMMA NextEntryFacts ==
  ASSUME P!TypeOK, NEW c \in P!Workers, ptodo[c] # {},
         P!NextEntry(c, P!First(ptodo[c]))
  PROVE  LET e == P!First(ptodo[c])
             rest == ptodo[c] \ {e}
         IN  /\ e \in ptodo[c] /\ e \in P!Entries /\ e.id \in P!Ids /\ e.name \in Names
             /\ pop' \in [P!Workers -> P!Requests \cup {"none"}]
             /\ pat' \in [P!Workers -> P!Places]
             /\ ptodo' \in [P!Workers -> SUBSET P!Entries]
             /\ pat'[c] \in {"reply", "adopt"} /\ (pat'[c] = "reply" <=> rest = {})
             /\ ptodo'[c] = rest
             /\ \A d \in P!Workers \ {c} : pat'[d] = pat[d] /\ ptodo'[d] = ptodo[d]
<1> DEFINE e == P!First(ptodo[c])
           rest == ptodo[c] \ {e}
<1>1. ptodo[c] \in SUBSET P!Entries /\ rest \in SUBSET P!Entries
  BY DEF P!TypeOK
<1>2. e \in ptodo[c] /\ e \in P!Entries
  BY <1>1, FirstEntry
<1>3. e.id \in P!Ids /\ e.name \in Names
  BY <1>2 DEF P!Entries
<1>4. PICK p \in {"reply", "adopt"} : P!Goes(c, p, rest) /\ (p = "reply" <=> rest = {})
  BY DEF P!NextEntry
<1>5. p \in P!Places
  BY DEF P!Places
<1> HIDE DEF e, rest
<1>6. /\ pop' \in [P!Workers -> P!Requests \cup {"none"}]
      /\ pat' \in [P!Workers -> P!Places]
      /\ ptodo' \in [P!Workers -> SUBSET P!Entries]
      /\ pat'[c] = p /\ ptodo'[c] = rest
      /\ \A d \in P!Workers \ {c} : pat'[d] = pat[d] /\ ptodo'[d] = ptodo[d]
  BY <1>1, <1>4, <1>5, GoesFacts
<1> QED
  BY <1>2, <1>3, <1>4, <1>6 DEF e, rest

(* A live tree is found, and no app has the id: the tree is adopted.        *)
LEMMA AdoptionKeeps ==
  ASSUME PInv, NEW c \in P!Workers, pat[c] = "adopt",
         NEW t \in P!Marked(P!First(ptodo[c])),
         P!First(ptodo[c]).id \notin P!Registered,
         P!Register(P!First(ptodo[c]).id, P!First(ptodo[c]).name),
         ptrees' = (ptrees \ {t}) \cup {[t EXCEPT !.exit = "app"]},
         P!NextEntry(c, P!First(ptodo[c])),
         UNCHANGED <<up, tmp, file, disk, saving, acked, faults, rival, loose, adopted, cut>>
  PROVE  PInv'
<1> USE DumpAssumption
<1> DEFINE e == P!First(ptodo[c])
           rest == ptodo[c] \ {e}
           u == [t EXCEPT !.exit = "app"]
<1>1. P!TypeOK /\ ptodo[c] # {}
  BY DEF PInv, BatchBusy
<1>2. /\ e \in ptodo[c] /\ e \in P!Entries /\ e.id \in P!Ids /\ e.name \in Names
      /\ pop' \in [P!Workers -> P!Requests \cup {"none"}]
      /\ pat' \in [P!Workers -> P!Places]
      /\ ptodo' \in [P!Workers -> SUBSET P!Entries]
      /\ pat'[c] \in {"reply", "adopt"} /\ (pat'[c] = "reply" <=> rest = {})
      /\ ptodo'[c] = rest
      /\ \A d \in P!Workers \ {c} : pat'[d] = pat[d] /\ ptodo'[d] = ptodo[d]
  BY <1>1, NextEntryFacts
<1>3. t \in ptrees /\ t \in P!Trees /\ t.id = e.id /\ t.name = e.name
  BY <1>1 DEF P!Marked, P!TypeOK
<1>4. u \in P!Trees /\ u.id = e.id /\ u.name = e.name /\ u.exit = "app"
  BY <1>3, RetoldTree
<1>5. papps[e.id] = NoName /\ P!Register(e.id, e.name) /\ ptrees' = (ptrees \ {t}) \cup {u}
  BY <1>1, <1>2 DEF P!Registered, P!TypeOK
<1> HIDE DEF e, rest, u
<1>6. /\ papps' \in [P!Ids -> Names \cup {NoName}]
      /\ pnextID' \in 0 .. DumpMaxId + 1
      /\ papps'[e.id] = e.name /\ \A j \in P!Ids \ {e.id} : papps'[j] = papps[j]
      /\ IdsCounted'
  BY <1>1, <1>2, <1>5, RegisterFacts DEF PInv
<1>7. P!TypeOK'
  <2>1. ptrees' \in SUBSET P!Trees
    BY <1>1, <1>4, <1>5 DEF P!TypeOK
  <2> QED
    BY <1>1, <1>2, <1>6, <2>1 DEF P!TypeOK
<1>8. \A v \in ptrees : v.id \in P!Ids /\ v.name \in Names
  BY <1>1 DEF P!TypeOK, P!Trees
<1>9. \A v \in ptrees : v.exit # "nobody" => v.id # e.id
  BY <1>5, <1>8 DEF PInv, TreesHeld
<1>10. TreesHeld'
  BY <1>4, <1>5, <1>6, <1>8, <1>9 DEF PInv, TreesHeld
<1>11. DumpsWhole' /\ DumpsOnePerId' /\ BatchBusy'
  BY <1>2 DEF PInv, DumpsWhole, DumpsOnePerId, OnePerId, BatchBusy, rest
<1>12. FirmLost' = FirmLost \ {t}
  <2>1. P!Lost' = P!Lost \ {t} /\ \A v : Firm(v)' = Firm(v)
    BY <1>4, <1>5 DEF P!Lost, Firm, P!Entry
  <2> QED
    BY <2>1 DEF FirmLost
<1>13. ASSUME ~rival PROVE TreesApart' /\ LostApart' /\ LostUnsaved' /\ LostToDo' /\ Through'
  <2>1. TreesApart /\ LostApart /\ LostUnsaved /\ LostToDo /\ Through
    BY <1>13 DEF PInv, Amicable
  <2>a. \A v \in ptrees : Bears(e, v) /\ Firm(v) => v = t
    BY <1>3, <2>1 DEF TreesApart, Bears
  <2>b. /\ \A v : Firm(v)' = Firm(v)
        /\ \A v, w \in ptrees' : Firm(v) /\ v.id = w.id /\ v.name = w.name => Firm(w)
    BY DEF Firm, P!Entry
  <2>2. TreesApart'
    BY <1>3, <1>4, <1>5, <2>1, <2>a, <2>b DEF TreesApart, Bears
  <2>3. \A v \in FirmLost' : v \in FirmLost /\ ~ Bears(e, v)
    BY <1>12, <2>a DEF P!Lost, FirmLost
  <2>4. \A v \in FirmLost' : papps'[v.id] # v.name
    BY <1>6, <1>8, <2>1, <2>3 DEF LostApart, P!Lost, FirmLost, Firm, P!Entry, Bears
  <2>5. \A f \in P!Entries : Known(f)' => Known(f) \/ (f.id = e.id /\ f.name = e.name)
    BY <1>2, <1>6 DEF Known, P!Entries, rest
  <2>6. Known(e)
    BY <1>2 DEF Known
  <2>7. LostApart'
    BY <1>2, <2>1, <2>3, <2>4, <2>5, <2>6 DEF LostApart
  <2>8. LostUnsaved' /\ Through'
    BY <1>2, <2>1, <2>3 DEF LostUnsaved, Listed, Through
  <2>9. \A v \in FirmLost' : Listed(v, file.list) => Listed(v, ptodo[c])
    BY <2>1, <2>3 DEF LostToDo
  <2>10. \A v \in FirmLost' : Listed(v, ptodo[c]) => Listed(v, rest)
    BY <2>3 DEF Listed, rest
  <2>11. LostToDo'
    BY <1>2, <2>1, <2>3, <2>9, <2>10 DEF LostToDo, Listed
  <2> QED
    BY <2>2, <2>7, <2>8, <2>11
<1> QED
  BY <1>6, <1>7, <1>10, <1>11, <1>13 DEF PInv, Amicable

(* The entry has to be started instead.  That no lost tree bears its names  *)
(* then, but one that failed to be adopted, is why no other is launched     *)
(* twice.                                                                   *)
LEMMA AdoptFailsKeeps ==
  ASSUME PInv, NEW c \in P!Workers, pat[c] = "adopt",
         P!Goes(c, "startat", ptodo[c]),
         UNCHANGED <<papps, pnextID, up, tmp, file, disk, saving, acked, faults, rival,
                     adopted, cut>>,
         loose \in SUBSET loose', loose' \in SUBSET (loose \cup {P!First(ptodo[c])}),
         \/ P!Marked(P!First(ptodo[c])) = {} /\ UNCHANGED ptrees
         \/ P!First(ptodo[c]) \in loose' /\ UNCHANGED ptrees
         \/ /\ P!First(ptodo[c]).id \in P!Registered
            /\ \E t \in P!Marked(P!First(ptodo[c])) : ptrees' \in {ptrees, P!Deaf(t)}
  PROVE  PInv'
<1> USE DumpAssumption
<1> DEFINE e == P!First(ptodo[c])
<1>1. /\ P!TypeOK /\ ptodo[c] # {} /\ ptodo[c] \in SUBSET P!Entries
      /\ "startat" \in P!Places
  BY DEF PInv, BatchBusy, P!TypeOK, P!Places
<1>2. /\ pop' \in [P!Workers -> P!Requests \cup {"none"}]
      /\ pat' \in [P!Workers -> P!Places]
      /\ ptodo' \in [P!Workers -> SUBSET P!Entries]
      /\ pat'[c] = "startat" /\ ptodo'[c] = ptodo[c]
      /\ \A d \in P!Workers \ {c} : pat'[d] = pat[d] /\ ptodo'[d] = ptodo[d]
  BY <1>1, GoesFacts
<1>3. ptodo' = ptodo
  BY <1>1, <1>2 DEF P!TypeOK
<1>4. e \in ptodo[c] /\ e \in P!Entries /\ e.id \in P!Ids
  <2>1. e \in ptodo[c] /\ e \in P!Entries
    BY <1>1, FirstEntry
  <2> QED
    BY <2>1 DEF P!Entries
<1>5. \/ ptrees' = ptrees
      \/ \E t \in ptrees, u \in P!Trees :
           /\ t.exit = "app" /\ u.exit = "stolen" /\ u.id = t.id /\ u.name = t.name
           /\ ptrees' = (ptrees \ {t}) \cup {u}
  <2>1. CASE ptrees' # ptrees
    <3>1. PICK t \in P!Marked(e) : ptrees' = P!Deaf(t)
      BY <2>1
    <3>2. t \in ptrees /\ t \in P!Trees
      BY <1>1, <3>1 DEF P!Marked, P!TypeOK
    <3> DEFINE u == [t EXCEPT !.exit = "stolen"]
    <3>3. u \in P!Trees /\ u.exit = "stolen" /\ u.id = t.id /\ u.name = t.name
      BY <3>2, RetoldTree
    <3>4. t.exit = "app" /\ ptrees' = (ptrees \ {t}) \cup {u}
      BY <2>1, <3>1 DEF P!Deaf
    <3> QED
      BY <3>2, <3>3, <3>4
  <2> QED
    BY <2>1
<1>6. /\ FirmLost' \in SUBSET FirmLost /\ \A f : Known(f)' = Known(f)
      /\ \A v : Firm(v)' => Firm(v)
  <2>1. P!Lost' = P!Lost /\ \A f : Known(f)' = Known(f)
    BY <1>3, <1>5 DEF P!Lost, Known
  <2>2. \A v : Firm(v)' => Firm(v)
    BY DEF Firm, P!Entry
  <2> QED
    BY <2>1, <2>2 DEF FirmLost
<1>7. P!TypeOK'
  <2>1. ptrees' \in SUBSET P!Trees /\ loose' \in SUBSET P!Entries
    BY <1>1, <1>4, <1>5 DEF P!TypeOK
  <2> QED
    BY <1>1, <1>2, <2>1 DEF P!TypeOK
<1>8. DumpsWhole' /\ DumpsOnePerId' /\ IdsCounted' /\ BatchBusy'
  BY <1>1, <1>2, <1>3 DEF PInv, DumpsWhole, DumpsOnePerId, OnePerId, IdsCounted, BatchBusy
<1>9. TreesHeld'
  BY <1>5 DEF PInv, TreesHeld
<1>10. ASSUME ~rival PROVE TreesApart' /\ LostApart' /\ LostUnsaved' /\ LostToDo' /\ Through'
  <2>1. TreesApart /\ LostApart /\ LostUnsaved /\ LostToDo /\ Through
    BY <1>10 DEF PInv, Amicable
  <2>2. TreesApart'
    <3>1. \A v, w : Firm(v) /\ v.id = w.id /\ v.name = w.name => Firm(w)
      BY DEF Firm, P!Entry
    <3> QED
      BY <1>5, <1>6, <2>1, <3>1 DEF TreesApart
  <2>3. LostApart' /\ Through'
    BY <1>6, <2>1 DEF LostApart, Through
  <2>4. LostUnsaved'
    BY <1>2, <1>3, <1>6, <2>1 DEF LostUnsaved
  <2>5. \A v \in FirmLost' : ~ Bears(e, v)
    <3> SUFFICES ASSUME NEW v \in FirmLost', Bears(e, v) PROVE FALSE
      OBVIOUS
    <3>1. v \in P!Marked(e) /\ v \in FirmLost
      BY <1>6 DEF P!Lost, FirmLost, Bears, P!Marked
    <3>a. e \notin loose'
      <4>1. P!Entry(v) = e
        BY <1>4 DEF P!Entry, P!Entries, Bears
      <4> QED
        BY <4>1 DEF FirmLost, Firm, P!Entry
    <3>2. papps[e.id] \in Names
      BY <1>1, <1>4, <3>1, <3>a DEF P!Registered, P!TypeOK
    <3> DEFINE f == [id |-> e.id, name |-> papps[e.id]]
    <3>3. f \in P!Entries /\ f.id = e.id /\ Known(f)
      BY <1>4, <3>2 DEF P!Entries, Known
    <3>4. Known(e)
      BY <1>4 DEF Known
    <3>5. papps[e.id] = e.name
      BY <1>4, <2>1, <3>1, <3>3, <3>4 DEF LostApart, Bears
    <3> QED
      BY <2>1, <3>1, <3>5 DEF LostApart, Bears
  <2>6. LostToDo'
    BY <1>2, <1>3, <1>6, <2>1, <2>5 DEF LostToDo
  <2> QED
    BY <2>2, <2>3, <2>4, <2>6
<1> QED
  BY <1>7, <1>8, <1>9, <1>10 DEF PInv, Amicable

LEMMA AdoptKeeps ==
  ASSUME PInv, NEW c \in P!Workers, P!Adopt(c)
  PROVE  PInv'
<1> DEFINE e == P!First(ptodo[c])
<1>1. /\ pat[c] = "adopt"
      /\ UNCHANGED <<up, tmp, file, disk, saving, acked, faults, rival, adopted, cut>>
  BY DEF P!Adopt, P!store
<1>2. \/ \E t \in P!Marked(e) :
           /\ e.id \notin P!Registered /\ P!Register(e.id, e.name)
           /\ ptrees' = (ptrees \ {t}) \cup {[t EXCEPT !.exit = "app"]}
           /\ P!NextEntry(c, e) /\ UNCHANGED loose
      \/ \E t \in P!Marked(e) :
           /\ ptrees' \in {ptrees, P!Deaf(t)} /\ P!Goes(c, "startat", ptodo[c])
           /\ loose' = loose \cup (IF e.id \in P!Registered THEN {} ELSE {e})
           /\ UNCHANGED <<papps, pnextID>>
      \/ /\ P!Marked(e) = {} /\ P!Goes(c, "startat", ptodo[c])
         /\ UNCHANGED <<papps, pnextID, ptrees, loose>>
  BY DEF P!Adopt, P!registry, P!Loosens
<1>3. ASSUME NEW t \in P!Marked(e), e.id \notin P!Registered
      PROVE  P!Deaf(t) = ptrees
  <2>1. P!TypeOK /\ ptodo[c] # {} /\ ptodo[c] \in SUBSET P!Entries
    BY <1>1 DEF PInv, BatchBusy, P!TypeOK
  <2>2. e \in P!Entries
    BY <2>1, FirstEntry
  <2>3. t \in ptrees /\ t.id = e.id /\ t.name = e.name /\ e.id \in P!Ids /\ e.name \in Names
    BY <2>2 DEF P!Marked, P!Entries
  <2>4. papps[e.id] = NoName
    BY <1>3, <2>3 DEF P!Registered
  <2>5. t.exit = "nobody"
    BY <2>3, <2>4, DumpAssumption DEF PInv, TreesHeld
  <2> QED
    BY <2>5 DEF P!Deaf
<1>4. ASSUME NEW t \in P!Marked(e), ptrees' \in {ptrees, P!Deaf(t)},
             P!Goes(c, "startat", ptodo[c]), UNCHANGED <<papps, pnextID>>,
             loose' = loose \cup (IF e.id \in P!Registered THEN {} ELSE {e})
      PROVE  PInv'
  <2>1. loose \in SUBSET loose' /\ loose' \in SUBSET (loose \cup {e})
    BY <1>4
  <2>2. CASE e.id \in P!Registered
    BY <1>1, <1>4, <2>1, <2>2, AdoptFailsKeeps
  <2>3. CASE e.id \notin P!Registered
    <3>1. e \in loose' /\ UNCHANGED ptrees
      BY <1>3, <1>4, <2>3
    <3> QED
      BY <1>1, <1>4, <2>1, <3>1, AdoptFailsKeeps
  <2> QED
    BY <2>2, <2>3
<1>5. ASSUME P!Marked(e) = {}, P!Goes(c, "startat", ptodo[c]),
             UNCHANGED <<papps, pnextID, ptrees, loose>>
      PROVE  PInv'
  <2>1. loose \in SUBSET loose' /\ loose' \in SUBSET (loose \cup {e})
    BY <1>5
  <2> QED
    BY <1>1, <1>5, <2>1, AdoptFailsKeeps
<1> QED
  BY <1>1, <1>2, <1>4, <1>5, AdoptionKeeps

(* The entry is skipped, started, or left parked.                           *)
LEMMA StartAtKeeps ==
  ASSUME PInv, NEW c \in P!Workers, P!StartAtID(c)
  PROVE  PInv'
<1> USE DumpAssumption
<1> DEFINE e == P!First(ptodo[c])
           rest == ptodo[c] \ {e}
           u == P!Spawned(e.id, e.name)
<1>1. /\ P!TypeOK /\ ptodo[c] # {} /\ pat[c] = "startat"
      /\ UNCHANGED <<up, tmp, file, disk, saving, acked, faults, rival, loose, adopted, cut>>
  BY DEF P!StartAtID, P!store, P!past, PInv, BatchBusy
<1>2. /\ e \in ptodo[c] /\ e \in P!Entries /\ e.id \in P!Ids /\ e.name \in Names
      /\ pop' \in [P!Workers -> P!Requests \cup {"none"}]
      /\ pat' \in [P!Workers -> P!Places]
      /\ ptodo' \in [P!Workers -> SUBSET P!Entries]
      /\ pat'[c] \in {"reply", "adopt"} /\ (pat'[c] = "reply" <=> rest = {})
      /\ ptodo'[c] = rest
      /\ \A d \in P!Workers \ {c} : pat'[d] = pat[d] /\ ptodo'[d] = ptodo[d]
  BY <1>1, NextEntryFacts DEF P!StartAtID
<1>3. u \in P!Trees /\ u.id = e.id /\ u.name = e.name /\ u.exit = "app"
  BY <1>2 DEF P!Spawned, P!Trees
<1>4. \/ UNCHANGED <<papps, pnextID, ptrees>>
      \/ /\ papps[e.id] = NoName /\ P!Register(e.id, e.name)
         /\ ptrees' = ptrees \cup {u} \/ ptrees' = ptrees
  BY <1>1, <1>2 DEF P!StartAtID, P!Registered, P!registry, P!TypeOK
<1> HIDE DEF e, rest, u
<1>5. \/ UNCHANGED <<papps, pnextID, ptrees>>
      \/ /\ papps[e.id] = NoName
         /\ papps' \in [P!Ids -> Names \cup {NoName}]
         /\ pnextID' \in 0 .. DumpMaxId + 1
         /\ papps'[e.id] = e.name /\ \A j \in P!Ids \ {e.id} : papps'[j] = papps[j]
         /\ IdsCounted'
         /\ ptrees' = ptrees \cup {u} \/ ptrees' = ptrees
  BY <1>1, <1>2, <1>4, RegisterFacts DEF PInv
<1>6. /\ papps' \in [P!Ids -> Names \cup {NoName}] /\ pnextID' \in 0 .. DumpMaxId + 1
      /\ ptrees' = ptrees \cup {u} \/ ptrees' = ptrees
  BY <1>1, <1>5 DEF P!TypeOK
<1>7. P!TypeOK'
  <2>1. ptrees' \in SUBSET P!Trees
    BY <1>1, <1>3, <1>6 DEF P!TypeOK
  <2> QED
    BY <1>1, <1>2, <1>6, <2>1 DEF P!TypeOK
<1>8. IdsCounted'
  BY <1>5 DEF PInv, IdsCounted
<1>9. \A v \in ptrees : v.id \in P!Ids /\ v.name \in Names
  BY <1>1 DEF P!TypeOK, P!Trees
<1>10. TreesHeld'
  <2>1. CASE UNCHANGED <<papps, pnextID, ptrees>>
    BY <2>1 DEF PInv, TreesHeld
  <2>2. CASE /\ papps[e.id] = NoName /\ papps'[e.id] = e.name
             /\ \A j \in P!Ids \ {e.id} : papps'[j] = papps[j]
    <3>1. \A v \in ptrees : v.exit # "nobody" => v.id # e.id
      BY <1>9, <2>2 DEF PInv, TreesHeld
    <3> QED
      BY <1>3, <1>6, <1>9, <2>2, <3>1 DEF PInv, TreesHeld
  <2> QED
    BY <1>5, <2>1, <2>2
<1>11. DumpsWhole' /\ DumpsOnePerId' /\ BatchBusy'
  BY <1>1, <1>2 DEF PInv, DumpsWhole, DumpsOnePerId, OnePerId, BatchBusy, rest
<1>12. FirmLost' = FirmLost
  <2>1. P!Lost' = P!Lost
    BY <1>3, <1>6 DEF P!Lost
  <2>2. \A v : Firm(v)' = Firm(v)
    BY <1>1 DEF Firm, P!Entry
  <2> QED
    BY <2>1, <2>2 DEF FirmLost
<1>13. ASSUME ~rival PROVE TreesApart' /\ LostApart' /\ LostUnsaved' /\ LostToDo' /\ Through'
  <2>1. TreesApart /\ LostApart /\ LostUnsaved /\ LostToDo /\ Through
    BY <1>13 DEF PInv, Amicable
  <2>2. \A v \in FirmLost : v \in ptrees /\ ~ Bears(e, v)
    BY <1>1, <2>1 DEF LostToDo, P!Lost, FirmLost, Firm, P!Entry, e
  <2>3. TreesApart'
    <3>1. CASE ptrees' = ptrees
      BY <1>1, <3>1, <2>1 DEF TreesApart, Firm, P!Entry
    <3>2. CASE papps[e.id] = NoName /\ ptrees' = ptrees \cup {u}
      <4>1. \A v \in ptrees : v.exit # "nobody" => v.id # e.id
        BY <1>9, <3>2 DEF PInv, TreesHeld
      <4>2. \A v \in ptrees : Firm(v) => ~ Bears(e, v)
        BY <2>2, <4>1 DEF P!Lost, FirmLost, Bears
      <4>3. /\ \A v : Firm(v)' = Firm(v)
            /\ \A v, w \in ptrees' : Firm(v) /\ v.id = w.id /\ v.name = w.name => Firm(w)
        BY <1>1 DEF Firm, P!Entry
      <4> QED
        BY <1>3, <2>1, <3>2, <4>2, <4>3 DEF TreesApart, Bears
    <3> QED
      BY <1>5, <3>1, <3>2
  <2>4. \A v \in FirmLost : papps'[v.id] # v.name
    BY <1>5, <1>9, <2>1, <2>2 DEF LostApart, Bears
  <2>5. \A f \in P!Entries : Known(f)' => Known(f) \/ (f.id = e.id /\ f.name = e.name)
    BY <1>1, <1>2, <1>5 DEF Known, P!Entries, rest
  <2>6. Known(e)
    BY <1>2 DEF Known
  <2>7. LostApart'
    BY <1>2, <1>12, <2>1, <2>4, <2>5, <2>6 DEF LostApart
  <2>8. LostUnsaved' /\ Through'
    BY <1>1, <1>2, <1>12, <2>1 DEF LostUnsaved, Listed, Through
  <2>9. \A v \in FirmLost : Listed(v, ptodo[c]) => Listed(v, rest)
    BY <2>2 DEF Listed, rest
  <2>10. LostToDo'
    BY <1>1, <1>2, <1>12, <2>1, <2>9 DEF LostToDo, Listed
  <2> QED
    BY <2>3, <2>7, <2>8, <2>10
<1> QED
  BY <1>1, <1>7, <1>8, <1>10, <1>11, <1>13 DEF PInv, Amicable

(* A polite death stops the apps of its listing.                            *)
LEMMA StopNextKeeps ==
  ASSUME PInv, NEW c \in P!Workers, P!StopNext(c)
  PROVE  PInv'
<1>1. /\ P!TypeOK /\ "stopall" \in P!Places /\ ptodo[c] # {}
      /\ UNCHANGED <<papps, pnextID, up, tmp, file, disk, saving, acked, faults, rival,
                     adopted, cut>>
  BY DEF PInv, P!StopNext, P!registry, P!store, P!Places
<1>2. PICK E \in SUBSET ptodo[c] : P!Goes(c, "stopall", E)
  BY DEF P!StopNext
<1>3. E \in SUBSET P!Entries /\ Thinned
  <2>1. ptodo[c] \in SUBSET P!Entries /\ ptrees \in SUBSET P!Trees /\ loose \in SUBSET P!Entries
    BY <1>1 DEF P!TypeOK
  <2>2. CASE UNCHANGED <<ptrees, loose>>
    BY <1>2, <2>1, <2>2 DEF Thinned
  <2>3. CASE P!Kills(P!First(ptodo[c]).id)
    <3>1. P!First(ptodo[c]).id \in P!Ids
      BY <1>1, <2>1, FirstEntry DEF P!Entries
    <3> QED
      BY <1>1, <1>2, <2>1, <2>3, <3>1, KillsThin
  <2> QED
    BY <2>2, <2>3 DEF P!StopNext
<1>4. /\ pop' \in [P!Workers -> P!Requests \cup {"none"}]
      /\ pat' \in [P!Workers -> P!Places]
      /\ ptodo' \in [P!Workers -> SUBSET P!Entries]
      /\ pat'[c] = "stopall" /\ ptodo'[c] = E
      /\ \A d \in P!Workers \ {c} : pat'[d] = pat[d] /\ ptodo'[d] = ptodo[d]
  BY <1>1, <1>2, <1>3, GoesFacts
<1>5. P!TypeOK'
  BY <1>1, <1>3, <1>4 DEF P!TypeOK, Thinned
<1>6. DumpsWhole' /\ DumpsOnePerId' /\ IdsCounted' /\ BatchBusy'
  BY <1>1, <1>2, <1>4
     DEF PInv, DumpsWhole, DumpsOnePerId, OnePerId, IdsCounted, BatchBusy
<1>7. TreesHeld'
  BY <1>1, <1>3 DEF PInv, TreesHeld, Thinned
<1>8. FirmLost' \in SUBSET FirmLost /\ \A e : Known(e)' => Known(e)
  <2>1. \A e : Known(e)' => Known(e)
    BY <1>1, <1>2, <1>4 DEF Known
  <2> QED
    BY <2>1, <1>3, ThinnedKeep
<1>9. ASSUME ~rival PROVE TreesApart' /\ LostApart' /\ LostUnsaved' /\ LostToDo' /\ Through'
  <2>1. TreesApart /\ LostApart /\ LostUnsaved /\ LostToDo /\ Through /\ TreesApart'
    BY <1>3, <1>9, ThinnedKeep
  <2>2. LostApart' /\ Through'
    BY <1>1, <1>8, <2>1 DEF LostApart, Through, Listed
  <2>3. LostUnsaved' /\ LostToDo'
    BY <1>1, <1>4, <1>8, <2>1 DEF LostUnsaved, LostToDo, Listed
  <2> QED
    BY <2>1, <2>2, <2>3
<1> QED
  BY <1>1, <1>5, <1>6, <1>7, <1>9 DEF PInv, Amicable

-----------------------------------------------------------------------------
(* An image ends: whatever it ran is lost, and bears the names it had.      *)
LEMMA EndKeeps ==
  ASSUME PInv, P!ImageEnds, up' \in BOOLEAN, cut' \in BOOLEAN,
         file' \in P!Dumps, disk' \in P!Dumps, UNCHANGED acked,
         file'.synced, disk'.synced, acked => disk' = file',
         OnePerId(file'.list), OnePerId(disk'.list),
         pop' \in [P!Workers -> P!Requests \cup {"none"}],
         pat' \in [P!Workers -> {"idle", "load"}],
         ptrees' \in SUBSET P!Trees,
         \A t \in ptrees' : t.exit = "nobody",
         \A t, v \in ptrees' :
            ~rival /\ Firm(t) /\ t.id = v.id /\ t.name = v.name => t = v
  PROVE  PInv'
<1> USE DumpAssumption
<1>1. P!TypeOK /\ DumpsWhole
  BY DEF PInv
<1>2. /\ papps' = [i \in P!Ids |-> NoName] /\ pnextID' = 0
      /\ ptodo' = [c \in P!Workers |-> {}] /\ saving' = Nobody
      /\ tmp' = [list |-> {}, synced |-> TRUE]
      /\ adopted' = FALSE /\ rival' = rival /\ loose' = loose /\ faults' \in 0 .. MaxFaults
  BY <1>1 DEF P!ImageEnds, P!NoDump, P!TypeOK
<1>3. tmp' \in P!Dumps /\ tmp'.list = {} /\ tmp'.synced
  BY <1>2 DEF P!Dumps
<1>4. P!TypeOK'
  <2>1. /\ papps' \in [P!Ids -> Names \cup {NoName}] /\ pnextID' \in 0 .. DumpMaxId + 1
        /\ ptodo' \in [P!Workers -> SUBSET P!Entries]
        /\ pat' \in [P!Workers -> P!Places]
    BY <1>2 DEF P!Places
  <2> QED
    BY <1>1, <1>2, <1>3, <2>1 DEF P!TypeOK
<1>5. DumpsWhole' /\ DumpsOnePerId'
  BY <1>2, <1>3 DEF DumpsWhole, DumpsOnePerId, OnePerId
<1>6. TreesHeld' /\ IdsCounted' /\ BatchBusy'
  BY <1>2 DEF TreesHeld, IdsCounted, BatchBusy
<1>7. \A t \in ptrees' : t.id \in P!Ids /\ t.name \in Names
  BY DEF P!Trees
<1>8. \A e \in P!Entries : Known(e)' => e \in file'.list
  BY <1>2, <1>3 DEF Known, P!Entries
<1>9. ASSUME ~rival PROVE TreesApart' /\ LostApart' /\ LostUnsaved' /\ LostToDo' /\ Through'
  <2>1. TreesApart'
    BY <1>2, <1>9 DEF TreesApart, Firm, P!Entry
  <2>2. LostApart'
    BY <1>2, <1>7, <1>8 DEF LostApart, P!Lost, FirmLost, Firm, P!Entry, OnePerId
  <2>3. LostUnsaved'
    BY <1>2, <1>3 DEF LostUnsaved, Listed
  <2>4. LostToDo' /\ Through'
    BY <1>2 DEF LostToDo, Through
  <2> QED
    BY <2>1, <2>2, <2>3, <2>4
<1> QED
  BY <1>2, <1>4, <1>5, <1>6, <1>9 DEF PInv, Amicable

(* The trees of a daemon that ended, and those an image handed on.          *)
LEMMA OrphanedTrees ==
  ASSUME PInv, \/ ptrees' = P!Orphaned(ptrees)
               \/ ptrees' = {[t EXCEPT !.exit = "nobody"] : t \in ptrees}
  PROVE  /\ ptrees' \in SUBSET P!Trees /\ \A t \in ptrees' : t.exit = "nobody"
         /\ \A t, v \in ptrees' :
               ~rival /\ Firm(t) /\ t.id = v.id /\ t.name = v.name => t = v
<1>1. ptrees \in SUBSET P!Trees
  BY DEF PInv, P!TypeOK
<1>2. ~rival => TreesApart
  BY DEF PInv, Amicable
<1>3. CASE ptrees' = P!Orphaned(ptrees)
  <2> DEFINE O(t) == [t EXCEPT !.child = FALSE, !.exit = "nobody"]
  <2>1. ptrees' = {O(t) : t \in ptrees}
    BY <1>3 DEF P!Orphaned
  <2>2. \A t \in P!Trees : /\ O(t) \in P!Trees /\ O(t).exit = "nobody"
                           /\ O(t).id = t.id /\ O(t).name = t.name
    BY DEF P!Trees
  <2> HIDE DEF O
  <2> QED
    BY <1>1, <1>2, <2>1, <2>2 DEF TreesApart, Firm, P!Entry
<1>4. CASE ptrees' = {[t EXCEPT !.exit = "nobody"] : t \in ptrees}
  <2> DEFINE O(t) == [t EXCEPT !.exit = "nobody"]
  <2>1. ptrees' = {O(t) : t \in ptrees}
    BY <1>4
  <2>2. \A t \in P!Trees : /\ O(t) \in P!Trees /\ O(t).exit = "nobody"
                           /\ O(t).id = t.id /\ O(t).name = t.name
    BY DEF P!Trees
  <2> HIDE DEF O
  <2> QED
    BY <1>1, <1>2, <2>1, <2>2 DEF TreesApart, Firm, P!Entry
<1> QED
  BY <1>3, <1>4

LEMMA EndsKeep ==
  ASSUME PInv, P!Crash \/ P!PowerCut \/ \E c \in P!Workers : P!Exit(c) \/ P!Exec(c)
  PROVE  PInv'
<1>1. /\ P!TypeOK /\ DumpsWhole /\ OnePerId(file.list) /\ OnePerId(disk.list)
      /\ file \in P!Dumps /\ disk \in P!Dumps
  BY DEF PInv, P!TypeOK, DumpsOnePerId
<1>2. ASSUME P!Down
      PROVE  /\ P!ImageEnds /\ up' \in BOOLEAN /\ cut' \in BOOLEAN
             /\ pop' \in [P!Workers -> P!Requests \cup {"none"}]
             /\ pat' \in [P!Workers -> {"idle", "load"}]
  BY <1>2 DEF P!Down
<1>3. CASE P!Crash \/ \E c \in P!Workers : P!Exit(c)
  <2>1. P!Down /\ ptrees' = P!Orphaned(ptrees) /\ UNCHANGED <<file, disk, acked>>
    BY <1>3 DEF P!Crash, P!Exit
  <2> QED
    BY <1>1, <1>2, <2>1, OrphanedTrees, EndKeeps DEF DumpsWhole
<1>4. CASE P!PowerCut
  <2>1. PICK d \in {disk, file} :
          LET left == IF d.synced THEN d ELSE P!Torn IN file' = left /\ disk' = left
    BY <1>4 DEF P!PowerCut
  <2>2. file' = d /\ disk' = d
    BY <1>1, <2>1 DEF DumpsWhole
  <2>3. P!Down /\ ptrees' = {} /\ UNCHANGED acked
    BY <1>4 DEF P!PowerCut
  <2> QED
    BY <1>1, <1>2, <2>2, <2>3, EndKeeps DEF DumpsWhole
<1>5. CASE \E c \in P!Workers : P!Exec(c)
  <2>1. /\ P!ImageEnds /\ UNCHANGED <<up, file, disk, acked, cut>>
        /\ pat' = [d \in P!Workers |-> IF d = Adopter THEN "load" ELSE "idle"]
        /\ pop' = [d \in P!Workers |-> IF d = Adopter THEN "resurrect" ELSE "none"]
        /\ ptrees' = {[t EXCEPT !.exit = "nobody"] : t \in ptrees}
    BY <1>5 DEF P!Exec
  <2>2. /\ pop' \in [P!Workers -> P!Requests \cup {"none"}]
        /\ pat' \in [P!Workers -> {"idle", "load"}]
    BY <2>1 DEF P!Requests
  <2>3. up' \in BOOLEAN /\ cut' \in BOOLEAN
    BY <1>1, <2>1 DEF P!TypeOK
  <2> QED
    BY <1>1, <2>1, <2>2, <2>3, OrphanedTrees, EndKeeps DEF DumpsWhole
<1> QED
  BY <1>3, <1>4, <1>5

LEMMA BootKeeps == PInv /\ P!Boot => PInv'
<1> SUFFICES ASSUME PInv, P!Boot PROVE PInv'
  OBVIOUS
<1>1. /\ UNCHANGED <<papps, pnextID, ptrees, pop, pat, ptodo, tmp, file, disk, saving,
                     faults, acked, rival, loose, adopted, cut>>
      /\ up' = TRUE
  BY DEF P!Boot, P!registry, P!store, P!work, P!past
<1>2. FirmLost' = FirmLost /\ \A e : Known(e)' = Known(e)
  BY <1>1 DEF P!Lost, FirmLost, Firm, P!Entry, Known
<1>3. P!TypeOK' /\ DumpsWhole' /\ DumpsOnePerId' /\ TreesHeld' /\ IdsCounted' /\ BatchBusy'
  BY <1>1 DEF PInv, P!TypeOK, DumpsWhole, DumpsOnePerId, OnePerId, TreesHeld, IdsCounted, BatchBusy
<1>4. Amicable'
  BY <1>1, <1>2 DEF PInv, Amicable, TreesApart, Firm, P!Entry, LostApart, LostUnsaved, LostToDo, Through,
     Listed
<1> QED
  BY <1>3, <1>4 DEF PInv

-----------------------------------------------------------------------------
LEMMA PNextKeeps == PInv /\ [P!Next]_P!vars => PInv'
<1> SUFFICES ASSUME PInv, [P!Next]_P!vars PROVE PInv'
  OBVIOUS
<1>1. CASE UNCHANGED P!vars
  BY <1>1, StutterKeeps
<1>2. CASE P!Api
  BY <1>2, ApiKeeps
<1>3. CASE P!Crash \/ P!PowerCut
  BY <1>3, EndsKeep
<1>4. CASE P!Boot
  BY <1>4, BootKeeps
<1>5. ASSUME NEW c \in P!Workers, P!Handler(c) PROVE PInv'
  <2>1. CASE P!Save(c) \/ P!Kill(c) \/ P!Resurrect(c)
    <3>1. \E r \in P!Requests, p \in P!Places : 
            \/ p \in {"lock", "stopall"} /\ P!Request(c, r, p, P!Listing)
            \/ p = "load" /\ P!Request(c, r, p, {})
      BY <2>1 DEF P!Save, P!Kill, P!Resurrect, P!Requests, P!Places
    <3> QED
      BY <3>1, DumpRequestKeeps
  <2>2. CASE \/ P!WriteTmp(c) \/ P!RenameTmp(c) \/ P!SyncDir(c) \/ P!SaveFails(c)
             \/ P!ExecFails(c)
    BY <2>2, SaveStepsKeep
  <2>3. CASE P!Load(c)
    BY <2>3, LoadKeeps
  <2>4. CASE P!Adopt(c)
    BY <2>4, AdoptKeeps
  <2>5. CASE P!StartAtID(c)
    BY <2>5, StartAtKeeps
  <2>6. CASE P!Reply(c)
    BY <2>6, ReplyKeeps
  <2>7. CASE P!StopNext(c)
    BY <2>7, StopNextKeeps
  <2>8. CASE P!Exit(c) \/ P!Exec(c)
    BY <2>8, EndsKeep
  <2> QED
    BY <1>5, <2>1, <2>2, <2>3, <2>4, <2>5, <2>6, <2>7, <2>8 DEF P!Handler
<1> QED
  BY <1>1, <1>2, <1>3, <1>4, <1>5 DEF P!Next

LEMMA DumpInvariance == PersistSpec => []PInv
BY PInitHasPInv, PNextKeeps, PTL DEF PersistSpec, P!Spec

(* What a power cut leaves is a whole dump, and the acknowledged one unless *)
(* a later save got as far as its rename (store.go:198-200).                *)
THEOREM DumpsDurable == PersistSpec => []AckedDurable
<1>1. PInv => AckedDurable
  BY DEF PInv, DumpsWhole, AckedDurable, P!AckedDurable
<1> QED
  BY <1>1, DumpInvariance, PTL

(* Whatever saves, kills, crashes and failed entries come in between, a     *)
(* batch that is through leaves no tree of the dump without an app, but     *)
(* those that outlived a kill or failed to be adopted themselves, unless a  *)
(* start took the id of a lost tree (control.go:350-397).                   *)
THEOREM DumpsAreAdopted == PersistSpec => []SavedAdopted
<1>1. PInv => SavedAdopted
  <2> SUFFICES ASSUME PInv, adopted, ~rival, NEW t \in P!Lost,
                      P!Entry(t) \in file.list \ loose
               PROVE  FALSE
    BY DEF SavedAdopted, P!SavedAdopted
  <2>1. ~ Listed(t, file.list)
    BY DEF PInv, Amicable, Through, FirmLost, Firm
  <2> QED
    BY <2>1 DEF Listed, Bears, P!Entry
<1> QED
  BY <1>1, DumpInvariance, PTL

(* Of one name and pm_id at most one tree runs, whatever daemons came and   *)
(* went, unless a tree of theirs outlived a kill or failed to be adopted    *)
(* (adopt_linux.go:4-6, control.go:366-394).                                *)
THEOREM NothingTwice == PersistSpec => []NeverTwice
<1>1. PInv => NeverTwice
  <2> SUFFICES ASSUME PInv, ~rival, NEW t \in ptrees, NEW u \in ptrees,
                      P!Entry(t) = P!Entry(u), P!Entry(t) \notin loose
               PROVE  t = u
    BY DEF NeverTwice, P!NeverTwice
  <2>1. t.id = u.id /\ t.name = u.name
    BY DEF P!Entry
  <2> QED
    BY <2>1 DEF PInv, Amicable, TreesApart, Firm
<1> QED
  BY <1>1, DumpInvariance, PTL

(* Every variable of Persist keeps its type.                                *)
THEOREM DumpsTyped == PersistSpec => []P!TypeOK
<1>1. PInv => P!TypeOK
  BY DEF PInv
<1> QED
  BY <1>1, DumpInvariance, PTL
=============================================================================
