-------------------------- MODULE NavServerProofs --------------------------
(***************************************************************************)
(* What the navigation server guarantees about the areas of its meshes, for  *)
(* any number of requests, maps, polygons and zones.                         *)
(*                                                                          *)
(* The inductive invariant has a part about each request (Placed: where it   *)
(* stands, it holds what that place asks for) and one about each mesh       *)
(* (Guarded: a polygon is stamped exactly if the holder of the write lock   *)
(* remembers it).                                                            *)
(***************************************************************************)
EXTENDS NavServer, Integers, TLAPS

Steps == {"permit", "mesh", "load", "params", "tiles", "publish", "pool", "not_found",
          "ask", "wait", "stamp", "search", "restore", "reply"}
Locking == {"stamp", "search", "restore"}
Loading == {"params", "tiles", "publish"}
Served == {"publish", "pool", "ask", "wait", "stamp", "search", "restore", "reply"}

Stamp == [poly : Polys, area : {"walkable"}]
Active == [step : Steps, kind : Kinds, game : GamesAsked, map : Maps, cell : Cells,
           zones : ZoneLists, legs : Int, stamps : Seq(Stamp), sawStamp : BOOLEAN]
LockType == [writer : Requests \cup {NoRequest}, readers : SUBSET Requests, queue : Seq(Requests)]

NavTypes ==
    /\ req \in [Requests -> {Idle} \cup Active]
    /\ mesh \in [Worlds -> {NoMesh} \cup [Polys -> Areas]]
    /\ loading \in [Worlds -> Requests \cup {NoRequest}]
    /\ lock \in [Worlds -> LockType]

Waits(r) == \E i \in DOMAIN lock[World(r)].queue : lock[World(r)].queue[i] = r
IsWriter(r) == lock[World(r)].writer = r
StampedOnce(r) ==
    \A i, j \in DOMAIN req[r].stamps : req[r].stamps[i].poly = req[r].stamps[j].poly => i = j

\* What a request that is under way holds and knows.
Placed(r) ==
    /\ Holds(r) => World(r) \in Worlds
    /\ req[r].step \in Loading => loading[World(r)] = r
    /\ req[r].step \in {"params", "tiles"} => mesh[World(r)] = NoMesh
    /\ req[r].step \in Served => mesh[World(r)] # NoMesh
    /\ req[r].step = "wait" => Waits(r)
    /\ req[r].step = "stamp" => IsWriter(r)
    /\ req[r].stamps # <<>> => req[r].step \in Locking /\ IsWriter(r)
    /\ (req[r].step \in Locking /\ Locks(req[r].kind, req[r].zones))
         => IsWriter(r) \/ r \in lock[World(r)].readers
    /\ Locks(req[r].kind, req[r].zones) => ~req[r].sawStamp
    /\ StampedOnce(r)

Uses(r, w) == req[r] # Idle /\ req[r].step \in Locking /\ World(r) = w

\* What holds of a mesh and its lock.
Guarded(w) ==
    /\ \A r \in lock[w].readers : Uses(r, w)
    /\ lock[w].writer = NoRequest => mesh[w] \in {NoMesh, Walkable}
    /\ lock[w].writer # NoRequest =>
         /\ Uses(lock[w].writer, w)
         /\ lock[w].readers = {}
         /\ \A p \in Polys : mesh[w][p] = "avoid" <=> p \in Stamped(lock[w].writer)

NavInv ==
    /\ NavTypes
    /\ \A r \in Requests : req[r] # Idle => Placed(r)
    /\ \A w \in Worlds : Guarded(w)

-----------------------------------------------------------------------------

\* A request that is under way has all its fields.
LEMMA UnderWay ==
    ASSUME NavTypes, NEW r \in Requests, req[r].step # "idle"
    PROVE  req[r] \in Active /\ req[r] # Idle
BY DEF NavTypes, Idle

\* Another step is all that changes.
LEMMA GoesTo ==
    ASSUME NavTypes, NEW r \in Requests, req[r].step # "idle", NEW step \in Steps, Goes(r, step)
    PROVE  /\ req' \in [Requests -> {Idle} \cup Active]
           /\ req'[r] = [req[r] EXCEPT !.step = step]
           /\ req'[r] \in Active /\ req'[r] # Idle
           /\ req'[r].step = step
           /\ World(r)' = World(r) /\ req'[r].zones = req[r].zones /\ req'[r].kind = req[r].kind
           /\ req'[r].stamps = req[r].stamps /\ req'[r].sawStamp = req[r].sawStamp
           /\ \A q \in Requests \ {r} : req'[q] = req[q]
<1>1. req[r] \in Active
  BY UnderWay
<1>2. req' = [req EXCEPT ![r] = [req[r] EXCEPT !.step = step]]
  BY DEF Goes
<1>3. req'[r] = [req[r] EXCEPT !.step = step]
  BY <1>2 DEF NavTypes
<1>4. req'[r] \in Active /\ req'[r].step = step
  BY <1>1, <1>3 DEF Active
<1>5. req'[r] # Idle
  BY <1>4 DEF Steps, Idle
<1>6. World(r)' = World(r) /\ req'[r].zones = req[r].zones /\ req'[r].kind = req[r].kind
      /\ req'[r].stamps = req[r].stamps /\ req'[r].sawStamp = req[r].sawStamp
  BY <1>1, <1>3 DEF Active, World
<1>7. \A q \in Requests \ {r} : req'[q] = req[q]
  BY <1>2 DEF NavTypes
<1>8. req' \in [Requests -> {Idle} \cup Active]
  BY <1>2, <1>3, <1>4 DEF NavTypes
<1> QED
  BY <1>3, <1>4, <1>5, <1>6, <1>7, <1>8

\* A step outside the search itself, of one request: what the others hold stays theirs.
LEMMA OutsideTheLeg ==
    ASSUME NavInv, NEW r \in Requests, req[r].step \notin Locking,
           req' \in [Requests -> {Idle} \cup Active],
           \A q \in Requests \ {r} : req'[q] = req[q],
           UNCHANGED <<mesh, lock>>,
           loading' \in [Worlds -> Requests \cup {NoRequest}],
           \A w \in Worlds : loading[w] \in {r, NoRequest} \/ loading'[w] = loading[w],
           req'[r] = Idle \/ Placed(r)'
    PROVE  NavInv'
<1>1. NavTypes'
  BY DEF NavInv, NavTypes
<1>2. ASSUME NEW q \in Requests, req'[q] # Idle
      PROVE  Placed(q)'
  <2>1. CASE q = r
    BY <2>1, <1>2
  <2>2. CASE q # r
    <3>1. req'[q] = req[q] /\ Placed(q)
      BY <2>2, <1>2 DEF NavInv
    <3>2. req[q].step \in Loading => loading'[World(q)] = q
      <4>1. req[q].step \in Loading => Holds(q)
        BY DEF Loading, Holds
      <4> QED
        BY <3>1, <4>1, <2>2, NavAssumption DEF Placed
    <3> QED
      BY <3>1, <3>2 DEF Placed, Holds, World, Waits, IsWriter, StampedOnce
  <2> QED
    BY <2>1, <2>2
<1>3. ASSUME NEW w \in Worlds
      PROVE  Guarded(w)'
  <2>1. Guarded(w) /\ lock[w] \in LockType
    BY DEF NavInv, NavTypes
  <2>2. \A q \in Requests : Uses(q, w) => q # r /\ Uses(q, w)' /\ Stamped(q)' = Stamped(q)
    BY DEF Uses, World, Stamped
  <2> QED
    BY <2>1, <2>2 DEF Guarded, LockType
<1> QED
  BY <1>1, <1>2, <1>3 DEF NavInv

\* A request moves on outside its search, with nothing new to hold.
LEMMA MovesOn ==
    ASSUME NavInv, NEW r \in Requests, req[r].step # "idle", req[r].step \notin Locking,
           NEW step \in Steps, Goes(r, step), UNCHANGED <<mesh, lock>>,
           loading' \in [Worlds -> Requests \cup {NoRequest}],
           \A w \in Worlds : loading[w] \in {r, NoRequest} \/ loading'[w] = loading[w],
           step # "permit" => World(r) \in Worlds,
           step \in Loading => loading'[World(r)] = r,
           step \in {"params", "tiles"} => mesh[World(r)] = NoMesh,
           step \in Served => mesh[World(r)] # NoMesh,
           step \notin {"wait", "stamp"},
           step \in Locking => ~Locks(req[r].kind, req[r].zones)
    PROVE  NavInv'
<1>1. NavTypes /\ Placed(r)
  BY UnderWay DEF NavInv
<1>2. /\ req' \in [Requests -> {Idle} \cup Active]
      /\ req'[r] \in Active /\ req'[r].step = step
      /\ World(r)' = World(r) /\ req'[r].zones = req[r].zones /\ req'[r].kind = req[r].kind
      /\ req'[r].stamps = req[r].stamps /\ req'[r].sawStamp = req[r].sawStamp
      /\ \A q \in Requests \ {r} : req'[q] = req[q]
  BY <1>1, GoesTo
<1>3. Placed(r)'
  BY <1>1, <1>2 DEF Placed, Holds, Waits, IsWriter, StampedOnce, Locking
<1> QED
  BY <1>2, <1>3, OutsideTheLeg

\* A request is over, or was never let in.
LEMMA Leaves ==
    ASSUME NavInv, NEW r \in Requests, req[r].step # "idle", req[r].step \notin Locking,
           req' = [req EXCEPT ![r] = Idle], UNCHANGED <<mesh, lock, loading>>
    PROVE  NavInv'
<1>1. /\ req' \in [Requests -> {Idle} \cup Active]
      /\ \A q \in Requests \ {r} : req'[q] = req[q]
      /\ req'[r] = Idle
      /\ loading' \in [Worlds -> Requests \cup {NoRequest}]
  BY DEF NavInv, NavTypes
<1> QED
  BY <1>1, OutsideTheLeg

\* A new request knows nothing yet and holds nothing.
LEMMA ArrivesInv ==
    ASSUME NavInv, NEW r \in Requests, NEW kind \in Kinds, NEW g \in GamesAsked, NEW m \in Maps,
           NEW c \in Cells, NEW zones \in ZoneLists, NEW legs \in 1..MaxLegs,
           Arrives(r, kind, g, m, c, zones, legs)
    PROVE  NavInv'
<1> DEFINE new == [step |-> "permit", kind |-> kind, game |-> g, map |-> m, cell |-> c,
                   zones |-> zones, legs |-> legs, stamps |-> <<>>, sawStamp |-> FALSE]
<1>1. new \in Active
  BY NavAssumption DEF Active, Steps
<1>2. req' = [req EXCEPT ![r] = new] /\ req[r] = Idle /\ UNCHANGED <<mesh, lock, loading>>
  BY DEF Arrives
<1> HIDE DEF new
<1>3. /\ req' \in [Requests -> {Idle} \cup Active]
      /\ req'[r] = new
      /\ \A q \in Requests \ {r} : req'[q] = req[q]
      /\ loading' \in [Worlds -> Requests \cup {NoRequest}]
  BY <1>1, <1>2 DEF NavInv, NavTypes
<1>4. req[r].step \notin Locking
  BY <1>2 DEF Idle, Locking
<1>5. Placed(r)'
  BY <1>3 DEF new, Placed, Holds, StampedOnce, Loading, Served, Locking
<1> QED
  BY <1>2, <1>3, <1>4, <1>5, OutsideTheLeg

\* try_acquire_permit and get_game: only requests for a configured game go on.
LEMMA TakesPermitInv == ASSUME NavInv, NEW r \in Requests, TakesPermit(r) PROVE NavInv'
<1>1. req[r].step = "permit" /\ UNCHANGED <<mesh, lock, loading>>
  BY DEF TakesPermit
<1>2. req[r] \in Active
  BY <1>1, UnderWay DEF NavInv
<1>3. CASE req' = [req EXCEPT ![r] = Idle]
  BY <1>1, <1>3, Leaves DEF Locking
<1>4. CASE req[r].game \in Games /\ Goes(r, "mesh")
  <2>1. World(r) \in Worlds
    BY <1>2, <1>4 DEF Active, World, Worlds
  <2> QED
    BY <1>1, <1>4, <2>1, MovesOn DEF NavInv, NavTypes, Locking, Loading, Served, Steps
<1> QED
  BY <1>3, <1>4 DEF TakesPermit

\* The fast path of get_or_load_mesh.
LEMMA LooksForMeshInv == ASSUME NavInv, NEW r \in Requests, LooksForMesh(r) PROVE NavInv'
<1>1. req[r].step = "mesh" /\ UNCHANGED <<mesh, lock, loading>>
  BY DEF LooksForMesh
<1>2. World(r) \in Worlds
  BY <1>1, UnderWay DEF NavInv, Placed, Holds
<1> QED
  BY <1>1, <1>2, MovesOn DEF LooksForMesh, NavInv, NavTypes, Locking, Loading, Served, Steps

\* The loading lock is taken only where nobody has it.
LEMMA LocksMapInv == ASSUME NavInv, NEW r \in Requests, LocksMap(r) PROVE NavInv'
<1>1. req[r].step = "load" /\ UNCHANGED <<mesh, lock>> /\ loading[World(r)] = NoRequest
  BY DEF LocksMap
<1>2. World(r) \in Worlds
  BY <1>1, UnderWay DEF NavInv, Placed, Holds
<1>3. CASE mesh[World(r)] # NoMesh /\ Goes(r, "pool") /\ UNCHANGED loading
  BY <1>1, <1>2, <1>3, MovesOn DEF NavInv, NavTypes, Locking, Loading, Served, Steps
<1>4. CASE mesh[World(r)] = NoMesh /\ Goes(r, "params") /\ loading' = [loading EXCEPT ![World(r)] = r]
  <2>1. /\ loading' \in [Worlds -> Requests \cup {NoRequest}]
        /\ loading'[World(r)] = r
        /\ \A w \in Worlds : loading[w] \in {r, NoRequest} \/ loading'[w] = loading[w]
    BY <1>1, <1>2, <1>4 DEF NavInv, NavTypes
  <2> QED
    BY <1>1, <1>2, <1>4, <2>1, MovesOn DEF Locking, Loading, Served, Steps
<1> QED
  BY <1>3, <1>4 DEF LocksMap

\* The holder of the loading lock gives it back.
LEMMA GivesMapBack ==
    ASSUME NavInv, NEW r \in Requests, World(r) \in Worlds, loading[World(r)] = r,
           loading' = [loading EXCEPT ![World(r)] = NoRequest]
    PROVE  /\ loading' \in [Worlds -> Requests \cup {NoRequest}]
           /\ \A w \in Worlds : loading[w] \in {r, NoRequest} \/ loading'[w] = loading[w]
BY DEF NavInv, NavTypes

\* load_map_params: on with the lock, or out without it.
LEMMA ReadsParamsInv == ASSUME NavInv, NEW r \in Requests, ReadsParams(r) PROVE NavInv'
<1>1. req[r].step = "params" /\ UNCHANGED <<mesh, lock>>
  BY DEF ReadsParams
<1>2. World(r) \in Worlds /\ loading[World(r)] = r /\ mesh[World(r)] = NoMesh
  BY <1>1, UnderWay DEF NavInv, Placed, Holds, Loading
<1>3. CASE Goes(r, "tiles") /\ UNCHANGED loading
  BY <1>1, <1>2, <1>3, MovesOn DEF NavInv, NavTypes, Locking, Loading, Served, Steps
<1>4. CASE Goes(r, "not_found") /\ loading' = [loading EXCEPT ![World(r)] = NoRequest]
  BY <1>1, <1>2, <1>4, GivesMapBack, MovesOn DEF Locking, Loading, Served, Steps
<1> QED
  BY <1>3, <1>4 DEF ReadsParams

\* The pool is there and the loading lock goes back.
LEMMA PublishesPoolInv == ASSUME NavInv, NEW r \in Requests, PublishesPool(r) PROVE NavInv'
<1>1. /\ req[r].step = "publish" /\ UNCHANGED <<mesh, lock>> /\ Goes(r, "pool")
      /\ loading' = [loading EXCEPT ![World(r)] = NoRequest]
  BY DEF PublishesPool
<1>2. World(r) \in Worlds /\ loading[World(r)] = r /\ mesh[World(r)] # NoMesh
  BY <1>1, UnderWay DEF NavInv, Placed, Holds, Loading, Served
<1> QED
  BY <1>1, <1>2, GivesMapBack, MovesOn DEF Locking, Loading, Served, Steps

\* Only a request that needs no lock goes straight to its search.
LEMMA TakesQueryInv == ASSUME NavInv, NEW r \in Requests, TakesQuery(r) PROVE NavInv'
<1>1. req[r].step = "pool" /\ UNCHANGED <<mesh, lock, loading>>
  BY DEF TakesQuery
<1>2. World(r) \in Worlds /\ mesh[World(r)] # NoMesh
  BY <1>1, UnderWay DEF NavInv, Placed, Holds, Served
<1>3. CASE Goes(r, "not_found") \/ Goes(r, "ask")
  BY <1>1, <1>2, <1>3, MovesOn DEF NavInv, NavTypes, Locking, Loading, Served, Steps
<1>4. CASE Goes(r, "search") /\ ~Locks(req[r].kind, req[r].zones)
  BY <1>1, <1>2, <1>4, MovesOn DEF NavInv, NavTypes, Locking, Loading, Served, Steps
<1> QED
  BY <1>3, <1>4 DEF TakesQuery

\* The mesh is published where there was none, so nobody was searching on it.
LEMMA PublishesMeshInv == ASSUME NavInv, NEW r \in Requests, PublishesMesh(r) PROVE NavInv'
<1> DEFINE w == World(r)
<1>1. /\ req[r].step = "tiles" /\ Goes(r, "publish") /\ UNCHANGED <<lock, loading>>
      /\ mesh' = [mesh EXCEPT ![w] = Walkable]
  BY DEF PublishesMesh
<1>2. NavTypes /\ Placed(r)
  BY <1>1, UnderWay DEF NavInv
<1>3. w \in Worlds /\ loading[w] = r /\ mesh[w] = NoMesh
  BY <1>1, <1>2 DEF Placed, Holds, Loading
<1>4. Walkable \in [Polys -> Areas] /\ Walkable # NoMesh
  BY NavAssumption DEF Walkable, Areas
<1>5. /\ req' \in [Requests -> {Idle} \cup Active]
      /\ req'[r] \in Active /\ req'[r].step = "publish"
      /\ World(r)' = w /\ req'[r].zones = req[r].zones /\ req'[r].kind = req[r].kind
      /\ req'[r].stamps = req[r].stamps /\ req'[r].sawStamp = req[r].sawStamp
      /\ \A q \in Requests \ {r} : req'[q] = req[q]
  BY <1>1, <1>2, GoesTo DEF Steps
<1>6. mesh'[w] = Walkable /\ \A v \in Worlds \ {w} : mesh'[v] = mesh[v]
  BY <1>1, <1>2, <1>3 DEF NavTypes
<1>7. mesh' \in [Worlds -> {NoMesh} \cup [Polys -> Areas]]
  BY <1>1, <1>2, <1>3, <1>4 DEF NavTypes
<1> HIDE DEF w
<1>8. NavTypes'
  BY <1>1, <1>2, <1>5, <1>7 DEF NavTypes
<1>9. ASSUME NEW q \in Requests, req'[q] # Idle
      PROVE  Placed(q)'
  <2>1. CASE q = r
    BY <2>1, <1>1, <1>2, <1>3, <1>4, <1>5, <1>6
    DEF Placed, Holds, Waits, IsWriter, StampedOnce, Locking, Loading
  <2>2. CASE q # r
    <3>1. req'[q] = req[q] /\ Placed(q)
      BY <2>2, <1>5, <1>9 DEF NavInv
    <3>2. World(q)' = World(q) /\ (World(q) # w \/ req[q].step \notin {"params", "tiles"})
      BY <3>1, <2>2, <1>3 DEF World, Placed, Loading
    <3>3. req[q].step \in {"params", "tiles"} => mesh'[World(q)] = NoMesh
      BY <3>1, <3>2, <1>6 DEF Placed, Holds
    <3>4. req[q].step \in Served => mesh'[World(q)] # NoMesh
      BY <3>1, <3>2, <1>4, <1>6 DEF Placed, Holds, Served
    <3> QED
      BY <1>1, <3>1, <3>2, <3>3, <3>4 DEF Placed, Holds, Waits, IsWriter, StampedOnce
  <2> QED
    BY <2>1, <2>2
<1>10. ASSUME NEW v \in Worlds
       PROVE  Guarded(v)'
  <2>1. Guarded(v) /\ lock[v] \in LockType
    BY <1>2 DEF NavInv, NavTypes
  <2>2. \A q \in Requests : Uses(q, v) => q # r /\ Uses(q, v)' /\ Stamped(q)' = Stamped(q)
    BY <1>1, <1>5 DEF Uses, World, Stamped, Locking
  <2>3. lock[v].writer # NoRequest => v # w
    <3> SUFFICES ASSUME lock[v].writer # NoRequest PROVE mesh[v] # NoMesh
      BY <1>3
    <3> DEFINE q == lock[v].writer
    <3>1. q \in Requests /\ Uses(q, v) /\ req[q] # Idle
      BY <2>1 DEF Guarded, LockType, Uses
    <3>2. Placed(q)
      BY <3>1 DEF NavInv
    <3> QED
      BY <3>1, <3>2 DEF Placed, Uses, Locking, Served
  <2> QED
    BY <1>1, <1>6, <2>1, <2>2, <2>3 DEF Guarded, LockType
<1> QED
  BY <1>8, <1>9, <1>10 DEF NavInv

\* The request queues up for the lock of its mesh.
LEMMA AsksLockInv == ASSUME NavInv, NEW r \in Requests, AsksLock(r) PROVE NavInv'
<1> DEFINE w == World(r)
<1>1. /\ req[r].step = "ask" /\ Goes(r, "wait") /\ UNCHANGED <<mesh, loading>>
      /\ lock' = [lock EXCEPT ![w].queue = Append(@, r)]
  BY DEF AsksLock
<1>2. NavTypes /\ Placed(r)
  BY <1>1, UnderWay DEF NavInv
<1>3. w \in Worlds /\ mesh[w] # NoMesh /\ lock[w] \in LockType
  BY <1>1, <1>2 DEF Placed, Holds, Served, NavTypes
<1>4. /\ req' \in [Requests -> {Idle} \cup Active]
      /\ req'[r] \in Active /\ req'[r].step = "wait"
      /\ World(r)' = w /\ req'[r].zones = req[r].zones /\ req'[r].kind = req[r].kind
      /\ req'[r].stamps = req[r].stamps /\ req'[r].sawStamp = req[r].sawStamp
      /\ \A q \in Requests \ {r} : req'[q] = req[q]
  BY <1>1, <1>2, GoesTo DEF Steps
<1>5. lock'[w] = [lock[w] EXCEPT !.queue = Append(lock[w].queue, r)]
  BY <1>1, <1>2, <1>3 DEF NavTypes
<1>6. /\ lock'[w] \in LockType
      /\ lock'[w].writer = lock[w].writer /\ lock'[w].readers = lock[w].readers
      /\ lock'[w].queue = Append(lock[w].queue, r)
  <2> DEFINE longer == Append(lock[w].queue, r)
  <2>1. longer \in Seq(Requests)
    BY <1>3 DEF LockType
  <2> HIDE DEF longer, w
  <2> QED
    BY <1>3, <1>5, <2>1 DEF LockType, longer
<1>7. \A v \in Worlds \ {w} : lock'[v] = lock[v]
  BY <1>1, <1>2 DEF NavTypes
<1>8. lock' \in [Worlds -> LockType]
  BY <1>1, <1>2, <1>3, <1>5, <1>6 DEF NavTypes
<1> HIDE DEF w
<1>9. NavTypes'
  BY <1>1, <1>2, <1>4, <1>8 DEF NavTypes
<1>10. \A v \in Worlds : lock'[v].writer = lock[v].writer /\ lock'[v].readers = lock[v].readers
  BY <1>6, <1>7
<1>11. /\ \A i \in DOMAIN lock[w].queue :
            i \in DOMAIN lock'[w].queue /\ lock'[w].queue[i] = lock[w].queue[i]
       /\ \E i \in DOMAIN lock'[w].queue : lock'[w].queue[i] = r
  <2>1. lock[w].queue \in Seq(Requests)
    BY <1>3 DEF LockType
  <2>2. Len(lock[w].queue) + 1 \in DOMAIN lock'[w].queue /\ lock'[w].queue[Len(lock[w].queue) + 1] = r
    BY <1>6, <2>1
  <2>3. \A i \in DOMAIN lock[w].queue :
            i \in DOMAIN lock'[w].queue /\ lock'[w].queue[i] = lock[w].queue[i]
    BY <1>6, <2>1
  <2> QED
    BY <2>2, <2>3
<1>12. ASSUME NEW q \in Requests, req'[q] # Idle
       PROVE  Placed(q)'
  <2>1. CASE q = r
    BY <2>1, <1>1, <1>2, <1>3, <1>4, <1>11
    DEF Placed, Holds, Waits, IsWriter, StampedOnce, Locking, Loading, Served
  <2>2. CASE q # r
    <3>1. req'[q] = req[q] /\ Placed(q) /\ World(q)' = World(q)
      BY <2>2, <1>4, <1>12 DEF NavInv, World
    <3>2. (Holds(q) /\ Waits(q)) => Waits(q)'
      BY <3>1, <1>7, <1>11 DEF Waits, Placed
    <3>3. Holds(q) => /\ IsWriter(q)' = IsWriter(q)
                      /\ lock'[World(q)].readers = lock[World(q)].readers
      BY <3>1, <1>10 DEF IsWriter, Placed
    <3>4. req[q].step \in Locking \cup {"wait"} => Holds(q)
      BY DEF Holds, Locking
    <3> QED
      BY <1>1, <3>1, <3>2, <3>3, <3>4 DEF Placed, Holds, StampedOnce, Locking
  <2> QED
    BY <2>1, <2>2
<1>13. ASSUME NEW v \in Worlds
       PROVE  Guarded(v)'
  <2>1. Guarded(v) /\ lock[v] \in LockType
    BY <1>2 DEF NavInv, NavTypes
  <2>2. \A q \in Requests : Uses(q, v) => q # r /\ Uses(q, v)' /\ Stamped(q)' = Stamped(q)
    BY <1>1, <1>4 DEF Uses, World, Stamped, Locking
  <2> QED
    BY <1>1, <1>10, <2>1, <2>2 DEF Guarded, LockType
<1> QED
  BY <1>9, <1>12, <1>13 DEF NavInv

\* The head of the queue gets the lock: for writing when nobody reads, for reading when
\* nobody writes.  A request that gets to write finds every polygon as it was built.
LEMMA GetsLockInv == ASSUME NavInv, NEW r \in Requests, GetsLock(r) PROVE NavInv'
<1> DEFINE w == World(r)
           next == IF Avoids(r) THEN "stamp" ELSE "search"
<1>1. /\ req[r].step = "wait" /\ Head(lock[w].queue) = r /\ lock[w].writer = NoRequest
      /\ Avoids(r) => lock[w].readers = {}
      /\ lock' = [lock EXCEPT ![w] =
                    [queue |-> Tail(lock[w].queue),
                     writer |-> IF Avoids(r) THEN r ELSE NoRequest,
                     readers |-> IF Avoids(r) THEN {} ELSE lock[w].readers \cup {r}]]
      /\ Goes(r, next)
      /\ UNCHANGED <<mesh, loading>>
  BY DEF GetsLock, Goes
<1>2. NavTypes /\ Placed(r) /\ req[r] # Idle
  BY <1>1, UnderWay DEF NavInv
<1>3. w \in Worlds /\ mesh[w] # NoMesh /\ lock[w] \in LockType /\ Waits(r)
  BY <1>1, <1>2 DEF Placed, Holds, Served, NavTypes
<1>4. next \in Steps
  BY DEF Steps
<1> HIDE DEF next
<1>5. /\ req' \in [Requests -> {Idle} \cup Active]
      /\ req'[r] \in Active /\ req'[r] # Idle /\ req'[r].step = next
      /\ World(r)' = w /\ req'[r].zones = req[r].zones /\ req'[r].kind = req[r].kind
      /\ req'[r].stamps = req[r].stamps /\ req'[r].sawStamp = req[r].sawStamp
      /\ \A q \in Requests \ {r} : req'[q] = req[q]
  BY <1>1, <1>2, <1>4, GoesTo
<1>6. /\ lock'[w] = [queue |-> Tail(lock[w].queue),
                     writer |-> IF Avoids(r) THEN r ELSE NoRequest,
                     readers |-> IF Avoids(r) THEN {} ELSE lock[w].readers \cup {r}]
      /\ \A v \in Worlds \ {w} : lock'[v] = lock[v]
  BY <1>1, <1>2, <1>3 DEF NavTypes
<1>7. lock[w].queue \in Seq(Requests) /\ lock[w].queue # <<>>
  BY <1>3 DEF LockType, Waits
<1>8. lock'[w] \in LockType
  <2> DEFINE rest == Tail(lock[w].queue)
             reading == IF Avoids(r) THEN {} ELSE lock[w].readers \cup {r}
             writing == IF Avoids(r) THEN r ELSE NoRequest
  <2>1. rest \in Seq(Requests)
    BY <1>7
  <2>2. reading \in SUBSET Requests /\ writing \in Requests \cup {NoRequest}
    BY <1>3 DEF LockType
  <2>3. lock'[w] = [queue |-> rest, writer |-> writing, readers |-> reading]
    BY <1>6
  <2> HIDE DEF rest, reading, writing, w
  <2> QED
    BY <2>1, <2>2, <2>3 DEF LockType
<1>9. lock' \in [Worlds -> LockType]
  BY <1>1, <1>2, <1>3, <1>6, <1>8 DEF NavTypes
<1>10. \A q \in Requests \ {r}, i \in DOMAIN lock[w].queue :
          lock[w].queue[i] = q => i - 1 \in DOMAIN lock'[w].queue /\ lock'[w].queue[i - 1] = q
  BY <1>1, <1>6, <1>7
<1> HIDE DEF w
<1>11. NavTypes'
  BY <1>1, <1>2, <1>5, <1>9 DEF NavTypes
<1>12. req[r].stamps = <<>>
  BY <1>1, <1>2 DEF Placed, Locking
<1>13. IF Avoids(r) THEN lock'[w].writer = r /\ lock'[w].readers = {}
       ELSE lock'[w].writer = NoRequest /\ lock'[w].readers = lock[w].readers \cup {r}
  BY <1>6
<1>14. next = IF Avoids(r) THEN "stamp" ELSE "search"
  BY DEF next
<1>15. ASSUME NEW q \in Requests, req'[q] # Idle
       PROVE  Placed(q)'
  <2>1. CASE q = r
    <3>1. IF Avoids(r) THEN IsWriter(r)' ELSE r \in lock'[w].readers
      BY <1>5, <1>13 DEF IsWriter
    <3> QED
      BY <2>1, <3>1, <1>1, <1>2, <1>3, <1>5, <1>12, <1>14
      DEF Placed, Holds, StampedOnce, Locking, Loading, Served
  <2>2. CASE q # r
    <3>1. req'[q] = req[q] /\ Placed(q) /\ World(q)' = World(q) /\ (Holds(q) => World(q) \in Worlds)
      BY <2>2, <1>5, <1>15 DEF NavInv, World, Placed
    <3>2. (Holds(q) /\ Waits(q)) => Waits(q)'
      <4>1. CASE World(q) = w
        BY <4>1, <2>2, <3>1, <1>10 DEF Waits
      <4>2. CASE World(q) # w
        BY <4>2, <3>1, <1>6 DEF Waits
      <4> QED
        BY <4>1, <4>2
    <3>3. (Holds(q) /\ IsWriter(q)) => IsWriter(q)'
      BY <3>1, <1>1, <1>6, NavAssumption DEF IsWriter
    <3>4. (Holds(q) /\ q \in lock[World(q)].readers) => q \in lock'[World(q)].readers
      BY <3>1, <1>1, <1>6, <1>13
    <3>5. req[q].step \in Locking \cup {"wait"} => Holds(q)
      BY DEF Holds, Locking
    <3> QED
      BY <1>1, <3>1, <3>2, <3>3, <3>4, <3>5 DEF Placed, Holds, StampedOnce, Locking
  <2> QED
    BY <2>1, <2>2
<1>16. ASSUME NEW v \in Worlds
       PROVE  Guarded(v)'
  <2>1. Guarded(v) /\ lock[v] \in LockType
    BY <1>2 DEF NavInv, NavTypes
  <2>2. \A q \in Requests : Uses(q, v) => q # r /\ Uses(q, v)' /\ Stamped(q)' = Stamped(q)
    BY <1>1, <1>5 DEF Uses, World, Stamped, Locking
  <2>3. CASE v # w
    BY <2>3, <1>1, <1>6, <2>1, <2>2 DEF Guarded, LockType
  <2>4. CASE v = w
    <3>1. Uses(r, v)'
      BY <1>5, <1>14, <2>4 DEF Uses, Locking
    <3>2. mesh[v] = Walkable /\ mesh' = mesh
      BY <1>1, <1>3, <2>1, <2>4 DEF Guarded
    <3>3. Stamped(r)' = {}
      BY <1>5, <1>12 DEF Stamped
    <3>4. CASE Avoids(r)
      <4>1. \A p \in Polys : mesh'[v][p] # "avoid"
        BY <3>2 DEF Walkable
      <4> QED
        BY <2>4, <3>1, <3>2, <3>3, <3>4, <4>1, <1>13, NavAssumption DEF Guarded
    <3>5. CASE ~Avoids(r)
      BY <2>1, <2>2, <2>4, <3>1, <3>2, <3>5, <1>13 DEF Guarded, LockType
    <3> QED
      BY <3>4, <3>5
  <2> QED
    BY <2>3, <2>4
<1> QED
  BY <1>11, <1>15, <1>16 DEF NavInv

-----------------------------------------------------------------------------
(* The search itself. *)

\* A step of a search that keeps its lock: only the holder of the write lock touches the
\* mesh, and what it stamped it remembers.
LEMMA InsideTheLeg ==
    ASSUME NavInv, NEW r \in Requests, req[r].step \in Locking,
           req' \in [Requests -> {Idle} \cup Active],
           req'[r] # Idle, req'[r].step \in Locking, World(r)' = World(r),
           \A q \in Requests \ {r} : req'[q] = req[q],
           UNCHANGED <<lock, loading>>,
           \A v \in Worlds \ {World(r)} : mesh'[v] = mesh[v],
           mesh' \in [Worlds -> {NoMesh} \cup [Polys -> Areas]],
           IF IsWriter(r) THEN \A p \in Polys : mesh'[World(r)][p] = "avoid" <=> p \in Stamped(r)'
           ELSE mesh' = mesh,
           mesh'[World(r)] # NoMesh,
           Placed(r)'
    PROVE  NavInv'
<1> DEFINE w == World(r)
<1>1. NavTypes /\ Placed(r) /\ req[r] # Idle
  BY UnderWay DEF NavInv, Locking
<1>2. w \in Worlds /\ mesh[w] # NoMesh
  BY <1>1 DEF Placed, Holds, Locking, Served
<1>3. NavTypes'
  BY <1>1 DEF NavTypes
<1>4. \A q \in Requests, v \in Worlds : Uses(q, v) => Uses(q, v)'
  BY <1>1 DEF Uses, World
<1>5. \A q \in Requests \ {r} : Stamped(q)' = Stamped(q)
  BY DEF Stamped
<1> HIDE DEF w
<1>6. \A v \in Worlds : mesh'[v] = NoMesh <=> mesh[v] = NoMesh
  BY <1>2 DEF w
<1>7. ASSUME NEW q \in Requests, req'[q] # Idle
      PROVE  Placed(q)'
  <2>1. CASE q = r
    BY <2>1
  <2>2. CASE q # r
    <3>1. req'[q] = req[q] /\ Placed(q) /\ World(q)' = World(q) /\ (Holds(q) => World(q) \in Worlds)
      BY <2>2, <1>7 DEF NavInv, World, Placed
    <3>2. req[q].step \in Served \cup {"params", "tiles"} => Holds(q)
      BY DEF Holds, Served
    <3> QED
      BY <1>6, <3>1, <3>2 DEF Placed, Holds, Waits, IsWriter, StampedOnce
  <2> QED
    BY <2>1, <2>2
<1>8. ASSUME NEW v \in Worlds
      PROVE  Guarded(v)'
  <2>1. Guarded(v) /\ lock[v] \in LockType
    BY <1>1 DEF NavInv, NavTypes
  <2>2. CASE v # w
    <3>1. mesh'[v] = mesh[v]
      BY <2>2 DEF w
    <3>2. ~Uses(r, v)
      BY <2>2 DEF Uses, w
    <3> QED
      BY <2>1, <3>1, <3>2, <1>4, <1>5 DEF Guarded, LockType
  <2>3. CASE v = w /\ IsWriter(r)
    BY <2>1, <2>3, <1>4, NavAssumption DEF Guarded, LockType, IsWriter, w
  <2>4. CASE v = w /\ ~IsWriter(r)
    <3>1. lock[v].writer # r /\ mesh' = mesh
      BY <2>4 DEF IsWriter, w
    <3> QED
      BY <2>1, <3>1, <1>4, <1>5 DEF Guarded, LockType
  <2> QED
    BY <2>2, <2>3, <2>4
<1> QED
  BY <1>3, <1>7, <1>8 DEF NavInv

\* What a request in its search finds: its mesh is there, and if it has the write lock the
\* stamped polygons are those it remembers.
LEMMA OnTheMesh ==
    ASSUME NavInv, NEW r \in Requests, req[r].step \in Locking
    PROVE  /\ NavTypes /\ Placed(r) /\ Guarded(World(r))
           /\ req[r] \in Active /\ req[r] # Idle
           /\ World(r) \in Worlds
           /\ mesh[World(r)] \in [Polys -> Areas]
           /\ lock[World(r)] \in LockType
           /\ IsWriter(r) => \A p \in Polys : mesh[World(r)][p] = "avoid" <=> p \in Stamped(r)
<1>1. NavTypes /\ Placed(r) /\ req[r] \in Active /\ req[r] # Idle
  BY UnderWay DEF NavInv, Locking
<1>2. World(r) \in Worlds /\ mesh[World(r)] # NoMesh
  BY <1>1 DEF Placed, Holds, Locking, Served
<1>3. Guarded(World(r)) /\ mesh[World(r)] \in [Polys -> Areas] /\ lock[World(r)] \in LockType
  BY <1>1, <1>2 DEF NavInv, NavTypes
<1> QED
  BY <1>1, <1>2, <1>3, NavAssumption DEF Guarded, IsWriter

\* Nothing is left to stamp.
LEMMA StampingEndsInv == ASSUME NavInv, NEW r \in Requests, StampingEnds(r) PROVE NavInv'
<1>1. req[r].step = "stamp" /\ Goes(r, "search") /\ UNCHANGED <<mesh, lock, loading>>
  BY DEF StampingEnds
<1>2. /\ NavTypes /\ Placed(r)
      /\ World(r) \in Worlds
      /\ mesh[World(r)] \in [Polys -> Areas]
      /\ IsWriter(r) => \A p \in Polys : mesh[World(r)][p] = "avoid" <=> p \in Stamped(r)
  BY <1>1, OnTheMesh DEF Locking
<1>3. /\ req' \in [Requests -> {Idle} \cup Active]
      /\ req'[r] # Idle /\ req'[r].step = "search"
      /\ World(r)' = World(r) /\ req'[r].zones = req[r].zones /\ req'[r].kind = req[r].kind
      /\ req'[r].stamps = req[r].stamps /\ req'[r].sawStamp = req[r].sawStamp
      /\ \A q \in Requests \ {r} : req'[q] = req[q]
  BY <1>1, <1>2, GoesTo DEF Steps
<1>4. Stamped(r)' = Stamped(r)
  BY <1>3 DEF Stamped
<1>5. mesh[World(r)] # NoMesh
  BY <1>2, NavAssumption
<1>6. Placed(r)'
  BY <1>1, <1>2, <1>3, <1>5 DEF Placed, Holds, IsWriter, StampedOnce, Locking, Loading, Served
<1>7. mesh' \in [Worlds -> {NoMesh} \cup [Polys -> Areas]]
  BY <1>1, <1>2 DEF NavTypes
<1> QED
  BY <1>1, <1>2, <1>3, <1>4, <1>5, <1>6, <1>7, InsideTheLeg DEF Locking

\* A polygon that is not stamped is stamped and remembered.
LEMMA StampsInv == ASSUME NavInv, NEW r \in Requests, Stamps(r) PROVE NavInv'
<1> DEFINE w == World(r)
<1>1. req[r].step = "stamp" /\ UNCHANGED <<lock, loading>>
  BY DEF Stamps
<1>2. PICK p \in ToStamp(r) :
        /\ req' = [req EXCEPT ![r].stamps = Append(@, [poly |-> p, area |-> mesh[w][p]])]
        /\ mesh' = [mesh EXCEPT ![w][p] = "avoid"]
  BY DEF Stamps
<1>3. /\ NavTypes /\ Placed(r)
      /\ req[r] \in Active
      /\ w \in Worlds
      /\ mesh[w] \in [Polys -> Areas]
      /\ IsWriter(r)
      /\ \A q \in Polys : mesh[w][q] = "avoid" <=> q \in Stamped(r)
  <2>1. /\ NavTypes /\ Placed(r) /\ req[r] \in Active /\ w \in Worlds /\ mesh[w] \in [Polys -> Areas]
        /\ IsWriter(r) => \A q \in Polys : mesh[w][q] = "avoid" <=> q \in Stamped(r)
    BY <1>1, OnTheMesh DEF Locking
  <2> QED
    BY <2>1, <1>1 DEF Placed
<1> HIDE DEF w
<1>4. p \in Polys /\ mesh[w][p] # "avoid"
  <2>1. req[r].zones \in Seq(SUBSET Polys)
    BY <1>3, NavAssumption DEF Active
  <2> QED
    BY <2>1 DEF ToStamp, w
<1>5. mesh[w][p] = "walkable" /\ p \notin Stamped(r)
  BY <1>3, <1>4 DEF Areas
<1> DEFINE stamp == [poly |-> p, area |-> "walkable"]
           stamps == Append(req[r].stamps, stamp)
<1>6. stamp \in Stamp /\ req[r].stamps \in Seq(Stamp)
  BY <1>3, <1>4 DEF Stamp, Active
<1>7. stamps \in Seq(Stamp)
  BY <1>6
<1>8. /\ DOMAIN stamps = 1..(Len(req[r].stamps) + 1)
      /\ DOMAIN req[r].stamps = 1..Len(req[r].stamps) /\ Len(req[r].stamps) \in Nat
      /\ \A i \in DOMAIN req[r].stamps : stamps[i] = req[r].stamps[i]
      /\ stamps[Len(req[r].stamps) + 1] = stamp
  BY <1>6
<1>9. stamp.poly = p
  OBVIOUS
<1> HIDE DEF stamp, stamps
<1>10. req'[r] = [req[r] EXCEPT !.stamps = stamps] /\ \A q \in Requests \ {r} : req'[q] = req[q]
  BY <1>2, <1>3, <1>5 DEF NavTypes, stamps, stamp
<1>11. /\ req'[r] \in Active
       /\ req'[r].step = "stamp" /\ req'[r].kind = req[r].kind /\ req'[r].zones = req[r].zones
       /\ World(r)' = w /\ req'[r].sawStamp = req[r].sawStamp
       /\ req'[r].stamps = stamps
  BY <1>1, <1>3, <1>7, <1>10 DEF Active, World, w
<1>12. req'[r] # Idle
  BY <1>11 DEF Idle
<1>13. req' \in [Requests -> {Idle} \cup Active]
  BY <1>2, <1>3, <1>10, <1>11 DEF NavTypes
<1>14. Stamped(r)' = Stamped(r) \cup {p}
  BY <1>8, <1>9, <1>11 DEF Stamped
<1>15. mesh'[w] = [mesh[w] EXCEPT ![p] = "avoid"] /\ \A v \in Worlds \ {w} : mesh'[v] = mesh[v]
  BY <1>2, <1>3 DEF NavTypes
<1>16. mesh'[w] \in [Polys -> Areas] /\ mesh'[w] # NoMesh
  BY <1>3, <1>15, NavAssumption DEF Areas
<1>17. mesh' \in [Worlds -> {NoMesh} \cup [Polys -> Areas]]
  BY <1>2, <1>3, <1>15, <1>16 DEF NavTypes
<1>18. \A q \in Polys : mesh'[w][q] = "avoid" <=> q \in Stamped(r)'
  BY <1>3, <1>4, <1>14, <1>15
<1>19. StampedOnce(r)'
  <2> SUFFICES ASSUME NEW i \in DOMAIN stamps, NEW j \in DOMAIN stamps, stamps[i].poly = stamps[j].poly
               PROVE  i = j
    BY <1>11 DEF StampedOnce
  <2> DEFINE n == Len(req[r].stamps) + 1
  <2>1. \A k \in DOMAIN stamps : k = n \/ (k \in DOMAIN req[r].stamps /\ stamps[k].poly # p)
    BY <1>5, <1>8 DEF Stamped
  <2>2. stamps[n].poly = p
    BY <1>8, <1>9
  <2> QED
    BY <1>3, <1>8, <2>1, <2>2 DEF Placed, StampedOnce
<1>20. IsWriter(r)'
  BY <1>1, <1>3, <1>11 DEF IsWriter, w
<1>21. Placed(r)'
  BY <1>1, <1>3, <1>11, <1>16, <1>19, <1>20 DEF Placed, Holds, Locking, Loading, Served, w
<1> QED
  BY <1>1, <1>3, <1>10, <1>11, <1>12, <1>13, <1>15, <1>16, <1>17, <1>18, <1>21, InsideTheLeg
  DEF Locking, w

\* A search with the lock reads no area but its own stamps: the writer because it is alone on
\* the mesh, a reader because nobody writes.
LEMMA SearchesInv == ASSUME NavInv, NEW r \in Requests, Searches(r) PROVE NavInv'
<1> DEFINE w == World(r)
           foreign == \E p \in Polys \ Stamped(r) : mesh[w][p] = "avoid"
<1>1. /\ req[r].step = "search" /\ UNCHANGED <<mesh, lock, loading>>
      /\ req' = [req EXCEPT ![r].step = "restore", ![r].legs = @ - 1, ![r].sawStamp = @ \/ foreign]
  BY DEF Searches
<1>2. /\ NavTypes /\ Placed(r) /\ Guarded(w)
      /\ req[r] \in Active
      /\ w \in Worlds
      /\ mesh[w] \in [Polys -> Areas]
      /\ lock[w] \in LockType
      /\ IsWriter(r) => \A p \in Polys : mesh[w][p] = "avoid" <=> p \in Stamped(r)
  BY <1>1, OnTheMesh DEF Locking
<1>3. Locks(req[r].kind, req[r].zones) => ~foreign
  <2> SUFFICES ASSUME Locks(req[r].kind, req[r].zones) PROVE ~foreign
    OBVIOUS
  <2>1. CASE IsWriter(r)
    BY <1>2, <2>1
  <2>2. CASE r \in lock[w].readers
    <3>1. mesh[w] = Walkable
      BY <1>2, <2>2, NavAssumption DEF Guarded
    <3> QED
      BY <3>1 DEF Walkable
  <2> QED
    BY <1>1, <1>2, <2>1, <2>2 DEF Placed, Locking
<1> DEFINE legs == req[r].legs - 1
           saw == req[r].sawStamp \/ foreign
<1> HIDE DEF foreign
<1>4. legs \in Int /\ saw \in BOOLEAN
  BY <1>2 DEF Active
<1>5. req' = [req EXCEPT ![r] = [req[r] EXCEPT !.step = "restore", !.legs = legs, !.sawStamp = saw]]
  BY <1>1, <1>2 DEF NavTypes
<1> HIDE DEF w, legs, saw
<1>6. /\ req'[r] = [req[r] EXCEPT !.step = "restore", !.legs = legs, !.sawStamp = saw]
      /\ \A q \in Requests \ {r} : req'[q] = req[q]
  BY <1>2, <1>5 DEF NavTypes
<1>7. /\ req'[r] \in Active
      /\ req'[r].step = "restore" /\ req'[r].kind = req[r].kind /\ req'[r].zones = req[r].zones
      /\ World(r)' = w /\ req'[r].sawStamp = saw
      /\ req'[r].stamps = req[r].stamps
  BY <1>2, <1>4, <1>6 DEF Active, World, Steps, w
<1>8. req'[r] # Idle /\ Stamped(r)' = Stamped(r)
  BY <1>7 DEF Idle, Stamped
<1>9. req' \in [Requests -> {Idle} \cup Active]
  BY <1>2, <1>5, <1>6, <1>7 DEF NavTypes
<1>10. mesh[w] # NoMesh
  BY <1>2, NavAssumption
<1>11. Locks(req[r].kind, req[r].zones) => ~saw
  BY <1>2, <1>3 DEF saw, Placed
<1>12. Locks(req'[r].kind, req'[r].zones) => ~req'[r].sawStamp
  BY <1>7, <1>11
<1>13. (IsWriter(r) <=> IsWriter(r)') /\ (StampedOnce(r) => StampedOnce(r)')
  <2>1. lock' = lock /\ World(r)' = World(r) /\ req'[r].stamps = req[r].stamps
    BY <1>1, <1>7 DEF w
  <2>2. IsWriter(r) <=> IsWriter(r)'
    BY <2>1 DEF IsWriter
  <2>3. StampedOnce(r) => StampedOnce(r)'
    BY <2>1 DEF StampedOnce
  <2> QED
    BY <2>2, <2>3
<1>14. Placed(r)'
  <2>1. w = World(r) /\ Holds(r) /\ Holds(r)'
    BY <1>1, <1>7 DEF Holds, w
  <2> QED
    BY <1>1, <1>2, <1>7, <1>10, <1>12, <1>13, <2>1 DEF Placed, Locking, Loading, Served
<1>15. mesh' \in [Worlds -> {NoMesh} \cup [Polys -> Areas]]
  BY <1>1, <1>2 DEF NavTypes
<1>16. IF IsWriter(r) THEN \A p \in Polys : mesh'[w][p] = "avoid" <=> p \in Stamped(r)'
       ELSE mesh' = mesh
  BY <1>1, <1>2, <1>8
<1>17. World(r)' = World(r) /\ mesh'[w] # NoMesh /\ req'[r].step \in Locking /\ req[r].step \in Locking
       /\ \A v \in Worlds \ {w} : mesh'[v] = mesh[v]
  BY <1>1, <1>7, <1>10 DEF Locking, w
<1> QED
  BY <1>1, <1>6, <1>8, <1>9, <1>14, <1>15, <1>16, <1>17, InsideTheLeg DEF w

\* The first stamp is taken back, and it alone.
LEMMA RestoresInv == ASSUME NavInv, NEW r \in Requests, Restores(r) PROVE NavInv'
<1> DEFINE w == World(r)
           s == Head(req[r].stamps)
           rest == Tail(req[r].stamps)
<1>1. /\ req[r].step = "restore" /\ req[r].stamps # <<>> /\ UNCHANGED <<lock, loading>>
      /\ mesh' = [mesh EXCEPT ![w][s.poly] = s.area]
      /\ req' = [req EXCEPT ![r].stamps = rest]
  BY DEF Restores
<1>2. /\ NavTypes /\ Placed(r)
      /\ req[r] \in Active
      /\ w \in Worlds
      /\ mesh[w] \in [Polys -> Areas]
      /\ IsWriter(r)
      /\ \A q \in Polys : mesh[w][q] = "avoid" <=> q \in Stamped(r)
  <2>1. /\ NavTypes /\ Placed(r) /\ req[r] \in Active /\ w \in Worlds /\ mesh[w] \in [Polys -> Areas]
        /\ IsWriter(r) => \A q \in Polys : mesh[w][q] = "avoid" <=> q \in Stamped(r)
    BY <1>1, OnTheMesh DEF Locking
  <2> QED
    BY <2>1, <1>1 DEF Placed
<1>3. req[r].stamps \in Seq(Stamp)
  BY <1>2 DEF Active
<1>4. /\ rest \in Seq(Stamp) /\ s \in Stamp /\ s = req[r].stamps[1]
      /\ Len(req[r].stamps) \in Nat \ {0} /\ DOMAIN req[r].stamps = 1..Len(req[r].stamps)
      /\ DOMAIN rest = 1..(Len(req[r].stamps) - 1)
      /\ \A i \in DOMAIN rest : rest[i] = req[r].stamps[i + 1]
  BY <1>1, <1>3
<1>5. s.poly \in Polys /\ s.area = "walkable"
  BY <1>4 DEF Stamp
<1> HIDE DEF w, s, rest
<1>6. req'[r] = [req[r] EXCEPT !.stamps = rest] /\ \A q \in Requests \ {r} : req'[q] = req[q]
  BY <1>1, <1>2 DEF NavTypes
<1>7. /\ req'[r] \in Active
      /\ req'[r].step = "restore" /\ req'[r].kind = req[r].kind /\ req'[r].zones = req[r].zones
      /\ World(r)' = w /\ req'[r].sawStamp = req[r].sawStamp
      /\ req'[r].stamps = rest
  <2>1. rest \in Seq(Stamp) /\ req[r].step = "restore" /\ req[r] \in Active
    BY <1>1, <1>2, <1>4
  <2>2. req'[r] = [req[r] EXCEPT !.stamps = rest]
    BY <1>6
  <2> QED
    BY <2>1, <2>2 DEF Active, World, w
<1>8. req'[r] # Idle
  BY <1>7 DEF Idle
<1>9. req' \in [Requests -> {Idle} \cup Active]
  BY <1>1, <1>2, <1>6, <1>7 DEF NavTypes
<1>10. Stamped(r)' = Stamped(r) \ {s.poly}
  <2>1. \A i \in DOMAIN req[r].stamps : req[r].stamps[i].poly = s.poly => i = 1
    BY <1>2, <1>4 DEF Placed, StampedOnce
  <2>2. \A i \in DOMAIN rest : i + 1 \in DOMAIN req[r].stamps /\ rest[i].poly # s.poly
    BY <1>4, <2>1
  <2>3. \A i \in DOMAIN req[r].stamps \ {1} : i - 1 \in DOMAIN rest /\ rest[i - 1] = req[r].stamps[i]
    BY <1>4
  <2>4. Stamped(r)' = {rest[i].poly : i \in DOMAIN rest}
    BY <1>7 DEF Stamped
  <2>5. Stamped(r) \ {s.poly} \subseteq {rest[i].poly : i \in DOMAIN rest}
    <3> SUFFICES ASSUME NEW i \in DOMAIN req[r].stamps, req[r].stamps[i].poly # s.poly
                 PROVE  req[r].stamps[i].poly \in {rest[k].poly : k \in DOMAIN rest}
      BY DEF Stamped
    <3>1. i # 1
      BY <1>4
    <3> QED
      BY <2>3, <3>1
  <2>6. {rest[i].poly : i \in DOMAIN rest} \subseteq Stamped(r) \ {s.poly}
    BY <1>4, <2>2 DEF Stamped
  <2> QED
    BY <2>4, <2>5, <2>6
<1>11. /\ mesh'[w] = [mesh[w] EXCEPT ![s.poly] = "walkable"]
       /\ \A v \in Worlds \ {w} : mesh'[v] = mesh[v]
  BY <1>1, <1>2, <1>5 DEF NavTypes
<1>12. mesh'[w] \in [Polys -> Areas] /\ mesh'[w] # NoMesh
  BY <1>2, <1>11, NavAssumption DEF Areas
<1>13. mesh' \in [Worlds -> {NoMesh} \cup [Polys -> Areas]]
  BY <1>1, <1>2, <1>5, <1>11, <1>12 DEF NavTypes
<1>14. \A q \in Polys : mesh'[w][q] = "avoid" <=> q \in Stamped(r)'
  BY <1>2, <1>5, <1>10, <1>11
<1>15. StampedOnce(r)'
  <2> SUFFICES ASSUME NEW i \in DOMAIN rest, NEW j \in DOMAIN rest, rest[i].poly = rest[j].poly
               PROVE  i = j
    BY <1>7 DEF StampedOnce
  <2>1. /\ i \in Nat /\ i + 1 \in DOMAIN req[r].stamps /\ rest[i] = req[r].stamps[i + 1]
        /\ j \in Nat /\ j + 1 \in DOMAIN req[r].stamps /\ rest[j] = req[r].stamps[j + 1]
    BY <1>4
  <2>2. i + 1 = j + 1
    BY <1>2, <2>1 DEF Placed, StampedOnce
  <2> QED
    BY <2>1, <2>2
<1>16. IsWriter(r)'
  BY <1>1, <1>2, <1>7 DEF IsWriter, w
<1>17. Placed(r)'
  BY <1>1, <1>2, <1>7, <1>12, <1>15, <1>16 DEF Placed, Holds, Locking, Loading, Served, w
<1> QED
  BY <1>1, <1>2, <1>6, <1>7, <1>8, <1>9, <1>11, <1>12, <1>13, <1>14, <1>17, InsideTheLeg
  DEF Locking, w

\* The lock of a leg goes back with every stamp restored.
LEMMA LegEndsInv == ASSUME NavInv, NEW r \in Requests, LegEnds(r) PROVE NavInv'
<1> DEFINE w == World(r)
           next == IF req[r].legs > 0
                   THEN IF Locks(req[r].kind, req[r].zones) THEN "ask" ELSE "search"
                   ELSE "reply"
           writing == IF lock[w].writer = r THEN NoRequest ELSE lock[w].writer
           reading == lock[w].readers \ {r}
<1>1. /\ req[r].step = "restore" /\ req[r].stamps = <<>> /\ UNCHANGED <<mesh, loading>>
      /\ lock' = [lock EXCEPT ![w].writer = IF @ = r THEN NoRequest ELSE @,
                              ![w].readers = @ \ {r}]
      /\ Goes(r, next)
  BY DEF LegEnds, Goes
<1>2. /\ NavTypes /\ Placed(r) /\ Guarded(w)
      /\ w \in Worlds
      /\ mesh[w] \in [Polys -> Areas]
      /\ lock[w] \in LockType
      /\ IsWriter(r) => \A p \in Polys : mesh[w][p] = "avoid" <=> p \in Stamped(r)
  BY <1>1, OnTheMesh DEF Locking
<1>3. next \in {"ask", "search", "reply"} /\ (next = "search" => ~Locks(req[r].kind, req[r].zones))
  OBVIOUS
<1>4. writing \in Requests \cup {NoRequest} /\ reading \in SUBSET Requests
  BY <1>2 DEF LockType
<1>5. lock' = [lock EXCEPT ![w] = [lock[w] EXCEPT !.writer = writing, !.readers = reading]]
  BY <1>1, <1>2 DEF NavTypes
<1> HIDE DEF next
<1>6. /\ req' \in [Requests -> {Idle} \cup Active]
      /\ req'[r] \in Active /\ req'[r].step = next
      /\ World(r)' = w /\ req'[r].zones = req[r].zones /\ req'[r].kind = req[r].kind
      /\ req'[r].stamps = <<>> /\ req'[r].sawStamp = req[r].sawStamp
      /\ \A q \in Requests \ {r} : req'[q] = req[q]
  BY <1>1, <1>2, <1>3, GoesTo DEF Steps
<1>7. \/ writing = lock[w].writer /\ lock[w].writer # r
      \/ writing = NoRequest /\ lock[w].writer = r
  OBVIOUS
<1>8. reading = lock[w].readers \ {r}
  OBVIOUS
<1> HIDE DEF writing, reading
<1>9. /\ lock'[w] = [lock[w] EXCEPT !.writer = writing, !.readers = reading]
      /\ \A v \in Worlds \ {w} : lock'[v] = lock[v]
  BY <1>2, <1>5 DEF NavTypes
<1> HIDE DEF w
<1>10. /\ lock'[w] \in LockType
       /\ lock'[w].writer = writing /\ lock'[w].readers = reading /\ lock'[w].queue = lock[w].queue
  BY <1>2, <1>4, <1>9 DEF LockType
<1>11. lock' \in [Worlds -> LockType]
  BY <1>2, <1>5, <1>9, <1>10 DEF NavTypes
<1>12. NavTypes'
  BY <1>1, <1>2, <1>6, <1>11 DEF NavTypes
<1>13. \A v \in Worlds : lock'[v].queue = lock[v].queue
  BY <1>9, <1>10
<1>14. mesh[w] # NoMesh
  BY <1>2, NavAssumption
<1>15. ASSUME NEW q \in Requests, req'[q] # Idle
       PROVE  Placed(q)'
  <2>1. CASE q = r
    <3>1. Holds(r) /\ World(r) = w
      BY <1>1 DEF Holds, w
    <3>2. StampedOnce(r)'
      BY <1>6 DEF StampedOnce
    <3> QED
      BY <2>1, <3>1, <3>2, <1>1, <1>2, <1>3, <1>6, <1>14
      DEF Placed, Holds, Locking, Loading, Served
  <2>2. CASE q # r
    <3>1. req'[q] = req[q] /\ Placed(q) /\ World(q)' = World(q) /\ (Holds(q) => World(q) \in Worlds)
      BY <2>2, <1>6, <1>15 DEF NavInv, World, Placed
    <3>2. (Holds(q) /\ Waits(q)) => Waits(q)'
      BY <3>1, <1>13 DEF Waits
    <3>3. (Holds(q) /\ IsWriter(q)) => IsWriter(q)'
      BY <2>2, <3>1, <1>7, <1>9, <1>10 DEF IsWriter
    <3>4. (Holds(q) /\ q \in lock[World(q)].readers) => q \in lock'[World(q)].readers
      BY <2>2, <3>1, <1>8, <1>9, <1>10
    <3>5. req[q].step \in Locking \cup {"wait"} => Holds(q)
      BY DEF Holds, Locking
    <3> QED
      BY <1>1, <3>1, <3>2, <3>3, <3>4, <3>5 DEF Placed, Holds, StampedOnce, Locking
  <2> QED
    BY <2>1, <2>2
<1>16. ASSUME NEW v \in Worlds
       PROVE  Guarded(v)'
  <2>1. Guarded(v) /\ lock[v] \in LockType
    BY <1>2 DEF NavInv, NavTypes
  <2>2. \A q \in Requests \ {r} : Uses(q, v) => Uses(q, v)' /\ Stamped(q)' = Stamped(q)
    BY <1>6 DEF Uses, World, Stamped
  <2>3. CASE v # w
    <3>1. ~Uses(r, v)
      BY <2>3 DEF Uses, w
    <3>2. \A q \in Requests : Uses(q, v) => Uses(q, v)' /\ Stamped(q)' = Stamped(q)
      BY <3>1, <2>2
    <3>3. lock'[v] = lock[v] /\ mesh'[v] = mesh[v]
      BY <1>1, <1>9, <2>3
    <3> QED
      BY <3>2, <3>3, <2>1 DEF Guarded, LockType
  <2>4. CASE v = w /\ lock[w].writer = r
    <3>1. Stamped(r) = {}
      BY <1>1 DEF Stamped
    <3>2. \A p \in Polys : mesh[v][p] = "walkable"
      BY <1>2, <2>4, <3>1 DEF Areas, IsWriter, w
    <3>3. mesh[v] = Walkable
      BY <1>2, <2>4, <3>2 DEF Walkable
    <3>4. lock[v].readers = {}
      BY <2>1, <2>4, NavAssumption DEF Guarded
    <3>5. lock'[v].writer = NoRequest /\ lock'[v].readers = {}
      BY <1>7, <1>8, <1>10, <2>4, <3>4
    <3> QED
      BY <1>1, <3>3, <3>5 DEF Guarded
  <2>5. CASE v = w /\ lock[w].writer # r
    <3>1. lock'[v].writer = lock[v].writer /\ lock'[v].readers = lock[v].readers \ {r}
      BY <1>7, <1>8, <1>10, <2>5
    <3>2. mesh'[v] = mesh[v] /\ lock[v].writer \in Requests \cup {NoRequest} /\ lock[v].readers \subseteq Requests
      BY <1>1, <2>1 DEF LockType
    <3>3. \A q \in lock'[v].readers : Uses(q, v)'
      BY <2>1, <2>2, <3>1, <3>2 DEF Guarded
    <3>4. lock'[v].writer = NoRequest => mesh'[v] \in {NoMesh, Walkable}
      BY <2>1, <3>1, <3>2 DEF Guarded
    <3>5. CASE lock[v].writer # NoRequest
      <4> PICK q \in Requests \ {r} : q = lock[v].writer
        BY <2>5, <3>2, <3>5
      <4>1. /\ Uses(q, v) /\ lock[v].readers = {}
            /\ \A p \in Polys : mesh[v][p] = "avoid" <=> p \in Stamped(q)
        BY <2>1, <3>5 DEF Guarded
      <4>2. Uses(q, v)' /\ Stamped(q)' = Stamped(q)
        BY <2>2, <4>1
      <4>3. lock'[v].writer = q /\ lock'[v].readers = {}
        BY <3>1, <4>1
      <4>4. Stamped(lock[v].writer)' = Stamped(q)
        BY <4>2, <4>3 DEF Stamped
      <4>5. Uses(lock[v].writer, v)'
        BY <4>2, <4>3 DEF Uses, World
      <4>6. \A p \in Polys : mesh'[v][p] = "avoid" <=> p \in Stamped(lock[v].writer)'
        BY <3>2, <4>1, <4>4
      <4> QED
        BY <3>3, <3>4, <4>3, <4>5, <4>6 DEF Guarded
    <3>6. CASE lock[v].writer = NoRequest
      BY <3>1, <3>3, <3>4, <3>6 DEF Guarded
    <3> QED
      BY <3>5, <3>6
  <2> QED
    BY <2>3, <2>4, <2>5
<1> QED
  BY <1>12, <1>15, <1>16 DEF NavInv

\* The error answer and the end of a handler.
LEMMA AnswersInv ==
    ASSUME NavInv, NEW r \in Requests, AnswersNotFound(r) \/ Replies(r)
    PROVE  NavInv'
BY Leaves DEF AnswersNotFound, Replies, Locking

-----------------------------------------------------------------------------

\* A server that has started serves nobody and has loaded nothing.
LEMMA NavInitInv == NavInit => NavInv
<1> SUFFICES ASSUME NavInit PROVE NavInv
  OBVIOUS
<1>1. NavTypes
  <2>1. [writer |-> NoRequest, readers |-> {}, queue |-> <<>>] \in LockType
    BY DEF LockType
  <2> QED
    BY <2>1 DEF NavInit, NavTypes
<1>2. \A w \in Worlds : Guarded(w)
  BY DEF NavInit, Guarded
<1> QED
  BY <1>1, <1>2 DEF NavInv, NavInit

\* Permits, pools, the naming of the files and the cache have no part in the invariant.
LEMMA Elsewhere == ASSUME NavInv, UNCHANGED <<req, mesh, loading, lock>> PROVE NavInv'
<1>1. NavTypes'
  BY DEF NavInv, NavTypes
<1>2. ASSUME NEW r \in Requests, req'[r] # Idle
      PROVE  Placed(r)'
  <2>1. Placed(r)
    BY <1>2 DEF NavInv
  <2> QED
    BY <2>1 DEF Placed, Holds, World, Waits, IsWriter, StampedOnce
<1>3. ASSUME NEW w \in Worlds
      PROVE  Guarded(w)'
  <2>1. Guarded(w)
    BY DEF NavInv
  <2>2. \A r : (Uses(r, w) <=> Uses(r, w)') /\ Stamped(r)' = Stamped(r)
    BY DEF Uses, World, Stamped
  <2> QED
    BY <2>1, <2>2 DEF Guarded
<1> QED
  BY <1>1, <1>2, <1>3 DEF NavInv

\* Every step of the server keeps the invariant.
LEMMA NavNextInv == ASSUME NavInv, [NavNext]_navVars PROVE NavInv'
<1>1. CASE UNCHANGED navVars
  BY <1>1, Elsewhere DEF navVars
<1>2. ASSUME NEW m \in Maps, NEW c \in Cells, CacheForgets(m, c)
      PROVE  NavInv'
  BY <1>2, Elsewhere DEF CacheForgets
<1>3. ASSUME NEW r \in Requests, Serves(r)
      PROVE  NavInv'
  BY <1>3, TakesPermitInv, LooksForMeshInv, ReadsParamsInv, PublishesMeshInv, PublishesPoolInv,
     TakesQueryInv, AnswersInv, AsksLockInv, GetsLockInv, StampsInv, StampingEndsInv,
     SearchesInv, RestoresInv, LegEndsInv
  DEF Serves
<1> QED
  BY <1>1, <1>2, <1>3, ArrivesInv, LocksMapInv DEF NavNext

\* The invariant holds for good; fairness has no part in it.
THEOREM NavInvariant == NavSpec => []NavInv
BY NavInitInv, NavNextInv, PTL DEF NavSpec

\* When nobody holds the write lock of a mesh every polygon has the area it was built with,
\* for any number of requests, any overlap of zones and any order of stamps and restores
\* (AreaRestoreGuard).
THEOREM AreasAreRestored == NavSpec => []AreasRestored
<1>1. NavInv => AreasRestored
  BY DEF NavInv, Guarded, AreasRestored
<1> QED
  BY <1>1, NavInvariant, PTL

\* No search under the lock ever reads a polygon that another request has stamped.
THEOREM LockedSearchesAreTrue == NavSpec => []LockedSearchesReadTrueAreas
<1>1. NavInv => LockedSearchesReadTrueAreas
  BY DEF NavInv, NavTypes, Placed, Holds, Idle, LockedSearchesReadTrueAreas
<1> QED
  BY <1>1, NavInvariant, PTL
=============================================================================
