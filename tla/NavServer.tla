------------------------------ MODULE NavServer ------------------------------
(***************************************************************************)
(* The navigation server as its concurrent requests see it: permits, one    *)
(* mesh and one query pool per map of a game, loaded on first use, the path *)
(* cache, and the avoidance zones that are stamped on the shared mesh for   *)
(* the time of a search.  Of what a search finds it only matters here which  *)
(* areas it reads.                                                          *)
(***************************************************************************)
EXTENDS Naturals, Sequences, FiniteSets, SequencesExt

CONSTANTS
    Requests, NoRequest,    \* slots of requests that are served at the same time
    Games, GamesAsked,      \* the games of the configuration, those clients name
    Maps, FileFormat,       \* [Maps -> naming of its files, or NoFormat when it has none]
    NoFormat,
    Cells,                  \* quantized start, end and options of a path
    Polys, ZoneLists,       \* polygons of a mesh; sequences of zones, each a set of polygons
    MaxLegs,                \* bound: legs of a path_multi, the smoothing included
    MaxPermits,             \* bound: configurations allow 1 to so many requests at once
    InitialQueries, MaxQueries,     \* query_pool_size, DEFAULT_MAX_POOL_SIZE
    NoMesh, NoPool, NoEntry

\* The area a polygon is built with, and the one zones stamp on it.
Areas == {"walkable", "avoid"}

ASSUME NavAssumption ==
    /\ MaxLegs \in Nat
    /\ NoRequest \notin Requests
    /\ NoMesh \notin [Polys -> Areas]
    /\ ZoneLists \subseteq Seq(SUBSET Polys)

VARIABLES
    limit,      \* max_concurrent_requests of the configuration
    permits,    \* request_semaphore
    detected,   \* per game: detected_format of its loader
    mesh,       \* per game and map: meshes, the area of every polygon
    pool,       \* per game and map: query_pools, the idle queries of the pool
    loading,    \* per game and map: who holds the loading lock
    lock,       \* per game and map: avoidance_lock
    cache,      \* path_cache: per map and cell, no entry or what was found
    req         \* the requests

navVars == <<limit, permits, detected, mesh, pool, loading, lock, cache, req>>

-----------------------------------------------------------------------------
(* Requests. *)

Worlds == Games \X Maps

\* What distinguishes the handlers.  find_path keeps what it finds; path_multi (path_tsp and
\* explore_route are alike here) searches leg after leg and then takes the lock once more to
\* smooth the whole path; find_path, find_path_random and a path_avoid without zones search
\* without the lock.
Kinds == {"find_path", "find_path_random", "path_avoid", "path_corridor", "path_multi"}
WithZones == {"path_avoid", "path_corridor", "path_multi"}
Legs(kind) == IF kind = "path_multi" THEN 2..MaxLegs ELSE {1}
Locks(kind, zones) ==
    kind \in {"path_corridor", "path_multi"} \/ (kind = "path_avoid" /\ zones # <<>>)

Idle == [step |-> "idle"]
Walkable == [p \in Polys |-> "walkable"]

NavInit ==
    /\ limit \in 1..MaxPermits
    /\ permits = limit
    /\ detected = [g \in Games |-> NoFormat]
    /\ mesh = [w \in Worlds |-> NoMesh]
    /\ pool = [w \in Worlds |-> NoPool]
    /\ loading = [w \in Worlds |-> NoRequest]
    /\ lock = [w \in Worlds |-> [writer |-> NoRequest, readers |-> {}, queue |-> <<>>]]
    /\ cache = [m \in Maps |-> [c \in Cells |-> NoEntry]]
    /\ req = [r \in Requests |-> Idle]

Goes(r, step) == req' = [req EXCEPT ![r].step = step]
World(r) == <<req[r].game, req[r].map>>

\* A request arrives and is validated.  find_path looks into the cache first, before it
\* knows the game; a hit is the answer.
Arrives(r, kind, game, map, cell, zones, legs) ==
    /\ req[r] = Idle
    /\ kind \in WithZones \/ zones = <<>>
    /\ legs \in Legs(kind)
    /\ ~(kind = "find_path" /\ cache[map][cell] # NoEntry)
    /\ req' = [req EXCEPT ![r] =
                 [step |-> "permit", kind |-> kind, game |-> game, map |-> map, cell |-> cell,
                  zones |-> zones, legs |-> legs, stamps |-> <<>>, sawStamp |-> FALSE]]
    /\ UNCHANGED <<limit, permits, detected, mesh, pool, loading, lock, cache>>

\* An entry of the cache expires or is evicted.
CacheForgets(m, c) ==
    /\ cache[m][c] # NoEntry
    /\ cache' = [cache EXCEPT ![m][c] = NoEntry]
    /\ UNCHANGED <<limit, permits, detected, mesh, pool, loading, lock, req>>

\* try_acquire_permit, then get_game: an unknown game gives the permit back.
TakesPermit(r) ==
    /\ req[r].step = "permit"
    /\ IF permits = 0 \/ req[r].game \notin Games
         THEN req' = [req EXCEPT ![r] = Idle] /\ UNCHANGED permits
         ELSE permits' = permits - 1 /\ Goes(r, "mesh")
    /\ UNCHANGED <<limit, detected, mesh, pool, loading, lock, cache>>

Holds(r) == req[r].step \notin {"idle", "permit"}

-----------------------------------------------------------------------------
(* Maps.  get_or_load_mesh, then get_query_pool. *)

\* The fast path reads `meshes` without any lock.
LooksForMesh(r) ==
    /\ req[r].step = "mesh"
    /\ Goes(r, IF mesh[World(r)] # NoMesh THEN "pool" ELSE "load")
    /\ UNCHANGED <<limit, permits, detected, mesh, pool, loading, lock, cache>>

\* The per-map lock, and the second look under it.
LocksMap(r) ==
    /\ req[r].step = "load"
    /\ loading[World(r)] = NoRequest
    /\ IF mesh[World(r)] # NoMesh
         THEN Goes(r, "pool") /\ UNCHANGED loading
         ELSE Goes(r, "params") /\ loading' = [loading EXCEPT ![World(r)] = r]
    /\ UNCHANGED <<limit, permits, detected, mesh, pool, lock, cache>>

\* find_and_read_mmap: files of the detected naming only, once there is one.
Readable(g, m) == FileFormat[m] # NoFormat /\ detected[g] \in {NoFormat, FileFormat[m]}

\* load_map_params: the first file that is read decides the naming of the directory.
ReadsParams(r) ==
    LET g == req[r].game IN
    /\ req[r].step = "params"
    /\ IF Readable(g, req[r].map)
         THEN /\ detected' = IF detected[g] = NoFormat
                               THEN [detected EXCEPT ![g] = FileFormat[req[r].map]] ELSE detected
              /\ Goes(r, "tiles")
              /\ UNCHANGED loading
         ELSE /\ Goes(r, "not_found")
              /\ loading' = [loading EXCEPT ![World(r)] = NoRequest]
              /\ UNCHANGED detected
    /\ UNCHANGED <<limit, permits, mesh, pool, lock, cache>>

\* The tiles are loaded and the mesh is published.
PublishesMesh(r) ==
    /\ req[r].step = "tiles"
    /\ mesh' = [mesh EXCEPT ![World(r)] = Walkable]
    /\ Goes(r, "publish")
    /\ UNCHANGED <<limit, permits, detected, pool, loading, lock, cache>>

\* Mutant: the lock is never given back.
PublishesPoolLocked(r) ==
    /\ req[r].step = "publish"
    /\ pool' = [pool EXCEPT ![World(r)] =
                  IF InitialQueries < MaxQueries THEN InitialQueries ELSE MaxQueries]
    /\ Goes(r, "pool")
    /\ UNCHANGED <<limit, permits, detected, mesh, loading, lock, cache>>

\* The pool follows in a step of its own, and the lock is given back.
PublishesPool(r) ==
    /\ req[r].step = "publish"
    /\ pool' = [pool EXCEPT ![World(r)] =
                  IF InitialQueries < MaxQueries THEN InitialQueries ELSE MaxQueries]
    /\ loading' = [loading EXCEPT ![World(r)] = NoRequest]
    /\ Goes(r, "pool")
    /\ UNCHANGED <<limit, permits, detected, mesh, lock, cache>>

\* get_query_pool answers none when the mesh is published and the pool is not; otherwise an
\* idle query is taken, or a new one made.
TakesQuery(r) ==
    LET w == World(r) IN
    /\ req[r].step = "pool"
    /\ IF pool[w] = NoPool
         THEN Goes(r, "not_found") /\ UNCHANGED pool
         ELSE /\ pool' = IF pool[w] > 0 THEN [pool EXCEPT ![w] = @ - 1] ELSE pool
              /\ Goes(r, IF Locks(req[r].kind, req[r].zones) THEN "ask" ELSE "search")
    /\ UNCHANGED <<limit, permits, detected, mesh, loading, lock, cache>>

\* The error answer drops the permit.
AnswersNotFound(r) ==
    /\ req[r].step = "not_found"
    /\ req' = [req EXCEPT ![r] = Idle]
    /\ permits' = permits + 1
    /\ UNCHANGED <<limit, detected, mesh, pool, loading, lock, cache>>

-----------------------------------------------------------------------------
(* Searches.  parking_lot's RwLock serves readers and writers in the order they come. *)

\* The last leg of path_multi is the smoothing, under the read lock.
Avoids(r) == req[r].zones # <<>> /\ ~(req[r].kind = "path_multi" /\ req[r].legs = 1)

AsksLock(r) ==
    /\ req[r].step = "ask"
    /\ lock' = [lock EXCEPT ![World(r)].queue = Append(@, r)]
    /\ Goes(r, "wait")
    /\ UNCHANGED <<limit, permits, detected, mesh, pool, loading, cache>>

\* Mutant: zones do not wait for the readers.
GetsLockBeforeReadersLeave(r) ==
    LET l == lock[World(r)] IN
    /\ req[r].step = "wait"
    /\ Head(l.queue) = r
    /\ l.writer = NoRequest
    /\ lock' = [lock EXCEPT ![World(r)] =
                  [queue |-> Tail(l.queue),
                   writer |-> IF Avoids(r) THEN r ELSE NoRequest,
                   readers |-> IF Avoids(r) THEN {} ELSE l.readers \cup {r}]]
    /\ req' = [req EXCEPT ![r].step = IF Avoids(r) THEN "stamp" ELSE "search"]
    /\ UNCHANGED <<limit, permits, detected, mesh, pool, loading, cache>>

\* pathfind_maybe_avoid: the write lock with zones, the read lock without.
GetsLock(r) ==
    LET l == lock[World(r)] IN
    /\ req[r].step = "wait"
    /\ Head(l.queue) = r
    /\ l.writer = NoRequest
    /\ Avoids(r) => l.readers = {}
    /\ lock' = [lock EXCEPT ![World(r)] =
                  [queue |-> Tail(l.queue),
                   writer |-> IF Avoids(r) THEN r ELSE NoRequest,
                   readers |-> IF Avoids(r) THEN {} ELSE l.readers \cup {r}]]
    /\ req' = [req EXCEPT ![r].step = IF Avoids(r) THEN "stamp" ELSE "search"]
    /\ UNCHANGED <<limit, permits, detected, mesh, pool, loading, cache>>

\* stamp_and_build_filter: one polygon of one zone after the other, in any order within a
\* zone; a polygon that is stamped already is passed over.
Stamped(r) == {req[r].stamps[i].poly : i \in DOMAIN req[r].stamps}
\* Mutant: a polygon is stamped once for every zone it is in.
ToStampAgain(r) ==
    {p \in Polys :
        Cardinality({i \in DOMAIN req[r].stamps : req[r].stamps[i].poly = p})
          < Cardinality({i \in DOMAIN req[r].zones : p \in req[r].zones[i]})}

ToStamp(r) ==
    {p \in UNION {req[r].zones[i] : i \in DOMAIN req[r].zones} : mesh[World(r)][p] # "avoid"}

Stamps(r) ==
    /\ req[r].step = "stamp"
    /\ \E p \in ToStamp(r) :
         /\ req' = [req EXCEPT ![r].stamps = Append(@, [poly |-> p, area |-> mesh[World(r)][p]])]
         /\ mesh' = [mesh EXCEPT ![World(r)][p] = "avoid"]
    /\ UNCHANGED <<limit, permits, detected, pool, loading, lock, cache>>

StampingEnds(r) ==
    /\ req[r].step = "stamp"
    /\ ToStamp(r) = {}
    /\ Goes(r, "search")
    /\ UNCHANGED <<limit, permits, detected, mesh, pool, loading, lock, cache>>

\* A search reads the areas of the mesh; what another request stamped it takes for real.
Searches(r) ==
    /\ req[r].step = "search"
    /\ req' = [req EXCEPT ![r].step = "restore", ![r].legs = @ - 1,
                          ![r].sawStamp = @ \/ \E p \in Polys \ Stamped(r) :
                                                 mesh[World(r)][p] = "avoid"]
    /\ UNCHANGED <<limit, permits, detected, mesh, pool, loading, lock, cache>>

\* The drop of AreaRestoreGuard, in the order of the stamps.
Restores(r) ==
    /\ req[r].step = "restore"
    /\ req[r].stamps # <<>>
    /\ LET s == Head(req[r].stamps) IN mesh' = [mesh EXCEPT ![World(r)][s.poly] = s.area]
    /\ req' = [req EXCEPT ![r].stamps = Tail(@)]
    /\ UNCHANGED <<limit, permits, detected, pool, loading, lock, cache>>

\* The lock of the leg is dropped before the next leg asks for its own.
LegEnds(r) ==
    LET w == World(r)
        next == IF Locks(req[r].kind, req[r].zones) THEN "ask" ELSE "search"
    IN  /\ req[r].step = "restore"
        /\ req[r].stamps = <<>>
        /\ lock' = [lock EXCEPT ![w].writer = IF @ = r THEN NoRequest ELSE @,
                                ![w].readers = @ \ {r}]
        /\ Goes(r, IF req[r].legs > 0 THEN next ELSE "reply")
        /\ UNCHANGED <<limit, permits, detected, mesh, pool, loading, cache>>

\* The end of a handler: find_path stores what it found under a key without the game; the
\* query goes back to the pool unless that is full, and the permit goes back.
Replies(r) ==
    LET w == World(r) IN
    /\ req[r].step = "reply"
    /\ cache' = IF req[r].kind = "find_path"
                  THEN [cache EXCEPT ![req[r].map][req[r].cell] =
                          [game |-> req[r].game, ofStamps |-> req[r].sawStamp]]
                  ELSE cache
    /\ pool' = IF pool[w] < MaxQueries THEN [pool EXCEPT ![w] = @ + 1] ELSE pool
    /\ permits' = permits + 1
    /\ req' = [req EXCEPT ![r] = Idle]
    /\ UNCHANGED <<limit, detected, mesh, loading, lock>>

-----------------------------------------------------------------------------
Serves(r) ==
    \/ TakesPermit(r) \/ LooksForMesh(r) \/ ReadsParams(r)
    \/ PublishesMesh(r) \/ PublishesPool(r) \/ TakesQuery(r) \/ AnswersNotFound(r)
    \/ AsksLock(r) \/ GetsLock(r) \/ Stamps(r) \/ StampingEnds(r)
    \/ Searches(r) \/ Restores(r) \/ LegEnds(r) \/ Replies(r)

NavNext ==
    \/ \E r \in Requests :
         \/ Serves(r)
         \/ LocksMap(r)
         \/ \E kind \in Kinds, g \in GamesAsked, m \in Maps, c \in Cells,
               zones \in ZoneLists, legs \in 1..MaxLegs :
              Arrives(r, kind, g, m, c, zones, legs)
    \/ \E m \in Maps, c \in Cells : CacheForgets(m, c)

\* Every request has a thread that goes on running; a mutex that is free again and again is
\* given to each thread that waits for it (parking_lot mutexes are fair in the long run).
NavFairness == \A r \in Requests : WF_navVars(Serves(r)) /\ SF_navVars(LocksMap(r))

NavSpec == NavInit /\ [][NavNext]_navVars /\ NavFairness

-----------------------------------------------------------------------------
(* Properties. *)

\* Whatever zones overlap, once no request with zones holds the lock of a mesh all of its
\* polygons have their own areas back.
AreasRestored ==
    \A w \in Worlds : (mesh[w] # NoMesh /\ lock[w].writer = NoRequest) => mesh[w] = Walkable

\* A search that takes the lock never reads a polygon that another request has stamped.
LockedSearchesReadTrueAreas ==
    \A r \in Requests : (Holds(r) /\ Locks(req[r].kind, req[r].zones)) => ~req[r].sawStamp

\* Every request is answered, however loads, zones and other requests interleave.
EveryRequestAnswered == \A r \in Requests : req[r] # Idle ~> req[r] = Idle

\* The doc of the pool says that normal pathfinding does not observe areas that are being
\* changed, so no path that is kept for later requests was found across another's zones.
CachedPathsAreTrue ==
    \A m \in Maps, c \in Cells : cache[m][c] # NoEntry => ~cache[m][c].ofStamps
=============================================================================
