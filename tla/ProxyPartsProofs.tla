--------------------------- MODULE ProxyPartsProofs ---------------------------
(***************************************************************************)
(* Proofs about ProxyParts.  First about Admission, for any routes, paths, *)
(* clients, limits and number of concurrent requests: the slots of a       *)
(* limiter are accounted for, its limit holds, and no request is filtered  *)
(* under a state that was replaced before it came.  Then about             *)
(* UpstreamMetrics, for any backends, any finite set of concurrent         *)
(* requests, any latencies and any smoothing factor between zero and one.  *)
(* Third about HealthProbe: types, and that no check takes another one's   *)
(* answer for its own.  Last about the five parts together.                *)
(***************************************************************************)
EXTENDS ProxyParts, Integers, FiniteSetTheorems, SequenceTheorems, TLAPS

-----------------------------------------------------------------------------
\* What a request knows at its place.  Nothing is held before the limiter; a
\* guard is of the limiter of the request's own state, which has a limit; and
\* as states only grow, that of the route is at least the one at the arrival.
Fits(d) ==
  /\ d.pc # "new" => Target[d.path] \in Route
  /\ d.pc \in {"new", "routed", "resolved", "filtered"} => d.guard = 0
  /\ d.pc \in {"filtered", "counted", "admitted", "proxied"}
       => d.state # 0 /\ d.since <= d.state
  /\ d.pc = "counted" => d.guard = d.state
  /\ d.guard # 0 =>
       /\ d.guard = d.state
       /\ states[d.state].max # NoLimit
       /\ d.pc # "counted" => d.count <= states[d.state].max
  /\ Target[d.path] \in Route => d.since <= current[Target[d.path]]

PlaceInv == \A q \in Request : request[q] # Free => Fits(request[q])

\* Only paths with a route are cached.
CacheInv == \A p \in Path : cache[p] # 0 => Target[p] \in Route

Holders(n, c) == {q \in Request : Holds(q, n, c)}

\* Of any holders of a limiter's slots one was told a count that is no less
\* than their number: the last of them to increment saw all the others.
RankInv ==
  \A n \in State, c \in Client : \A Q \in SUBSET Holders(n, c) :
    Q # {} => \E q \in Q : Cardinality(Q) <= request[q].count

PathInv == TypeOK /\ PlaceInv /\ CacheInv

AdmissionInv == PathInv /\ SlotsAccounted /\ RankInv

-----------------------------------------------------------------------------
\* What a request in one of the places of request_filter is.
LEMMA Occupied ==
  ASSUME TypeOK, NEW q \in Request, request[q].pc # "free"
  PROVE  request[q] \in Context /\ request[q] # Free
  BY DEF TypeOK, Free

\* The numbers of the states and the limits are naturals.
LEMMA StatesTyped ==
  ASSUME TypeOK
  PROVE  /\ Len(states) \in Nat /\ Len(states) <= MaxStates
         /\ \A n \in 1 .. Len(states) :
              /\ n \in State
              /\ states[n] \in [strip : BOOLEAN, max : Limits \cup {NoLimit}]
              /\ states[n].max # NoLimit => states[n].max \in Nat
         /\ \A r \in Route : current[r] \in 1 .. Len(states)
<1>1. Len(states) \in Nat /\ Len(states) <= MaxStates
  BY DEF TypeOK
<1>2. ASSUME NEW n \in 1 .. Len(states)
      PROVE  /\ n \in State
             /\ states[n] \in [strip : BOOLEAN, max : Limits \cup {NoLimit}]
  <2>1. n \in State
    BY <1>1, BoundsNat DEF State
  <2>2. states \in Seq([strip : BOOLEAN, max : Limits \cup {NoLimit}])
    BY DEF TypeOK
  <2>3. states[n] \in [strip : BOOLEAN, max : Limits \cup {NoLimit}]
    <3> DEFINE Record == [strip : BOOLEAN, max : Limits \cup {NoLimit}]
    <3>1. states \in Seq(Record)
      BY <2>2
    <3> HIDE DEF Record
    <3>2. states[n] \in Record
      BY <3>1
    <3> QED BY <3>2 DEF Record
  <2> QED BY <2>1, <2>3
<1>3. ASSUME NEW n \in 1 .. Len(states), states[n].max # NoLimit
      PROVE  states[n].max \in Nat
  <2>1. states[n].max \in Limits \cup {NoLimit}
    BY <1>2
  <2> QED BY <2>1, <1>3, LimitsNat
<1>4. \A r \in Route : current[r] \in 1 .. Len(states)
  BY DEF TypeOK
<1> QED BY <1>1, <1>2, <1>3, <1>4

LEMMA InitPath == Init => PathInv
<1> SUFFICES ASSUME Init PROVE PathInv
  OBVIOUS
<1> DEFINE N == Cardinality(Route)
<1>1. N \in Nat
  BY Finite, FS_CardinalityType
<1>2. PICK f \in [Route -> 1 .. N], strip \in BOOLEAN, max \in Limits \cup {NoLimit} :
        /\ current = f
        /\ states = [n \in 1 .. N |-> [strip |-> strip, max |-> max]]
  BY DEF Init
<1>3. Len(states) = N /\ states \in Seq([strip : BOOLEAN, max : Limits \cup {NoLimit}])
  <2> DEFINE Record == [strip : BOOLEAN, max : Limits \cup {NoLimit}]
             first == [strip |-> strip, max |-> max]
  <2>1. first \in Record
    OBVIOUS
  <2>2. states = [n \in 1 .. N |-> first]
    BY <1>2
  <2> HIDE DEF N, Record, first
  <2> QED BY <1>1, <2>1, <2>2 DEF Record
<1>4. TypeOK
  BY <1>1, <1>2, <1>3, BoundsNat DEF Init, TypeOK
<1>5. \A q \in Request : request[q] = Free
  BY DEF Init
<1>6. CacheInv
  BY DEF Init, CacheInv
<1> QED BY <1>4, <1>5, <1>6 DEF PathInv, PlaceInv

-----------------------------------------------------------------------------
\* One step of one request.

\* What the record of an occupied place is made of.
LEMMA ContextTyped ==
  ASSUME TypeOK, NEW d \in Context
  PROVE  /\ d.pc \in {"new", "routed", "resolved", "filtered", "counted",
                      "admitted", "proxied"}
         /\ d.client \in Client /\ d.path \in Path
         /\ d.resolved \in 0 .. Len(states) /\ d.state \in 0 .. Len(states)
         /\ d.guard \in 0 .. Len(states) /\ d.since \in 0 .. Len(states)
         /\ d.count \in Nat
         /\ d # Free
  BY DEF Context, Free

\* A request gets another record, which fits; the routes stay as they are.
LEMMA Move ==
  ASSUME PathInv, NEW q \in Request, NEW d \in {Free} \cup Context,
         request' = [request EXCEPT ![q] = d], d # Free => Fits(d),
         UNCHANGED <<states, current, reload>>,
         cache' \in [Path -> 0 .. Len(states)], CacheInv',
         inflight' \in [State -> [Client -> Nat]]
  PROVE  PathInv'
<1>1. TypeOK'
  BY DEF PathInv, TypeOK, Context
<1>2. \A e : Fits(e)' <=> Fits(e)
  BY DEF Fits
<1>3. ASSUME NEW r \in Request, request'[r] # Free PROVE Fits(request'[r])
  <2>1. CASE r = q
    BY <2>1, <1>3 DEF PathInv, TypeOK
  <2>2. CASE r # q
    BY <2>2, <1>3 DEF PathInv, TypeOK, PlaceInv
  <2> QED BY <2>1, <2>2
<1>4. PlaceInv'
  BY <1>2, <1>3 DEF PlaceInv
<1> QED BY <1>1, <1>4 DEF PathInv

\* The same, when only the record changes.
LEMMA MoveOn ==
  ASSUME PathInv, NEW q \in Request, NEW d \in {Free} \cup Context,
         request' = [request EXCEPT ![q] = d], d # Free => Fits(d),
         UNCHANGED <<states, current, cache, inflight, reload>>
  PROVE  PathInv'
<1>1. CacheInv' /\ cache' \in [Path -> 0 .. Len(states)]
  BY DEF PathInv, CacheInv, TypeOK
<1>2. inflight' \in [State -> [Client -> Nat]]
  BY DEF PathInv, TypeOK
<1> QED BY <1>1, <1>2, Move

\* A new request fits: it was told the current state of its route.
LEMMA ArriveFits ==
  ASSUME PathInv, NEW q \in Request, NEW c \in Client, NEW p \in Path, Arrive(q, c, p)
  PROVE  PathInv'
<1> DEFINE d == [pc |-> "new", client |-> c, path |-> p, resolved |-> 0, state |-> 0,
                 guard |-> 0, count |-> 0,
                 since |-> IF Target[p] = NoRoute THEN 0 ELSE current[Target[p]]]
<1>1. Target[p] \in Route \cup {NoRoute} /\ NoRoute \notin Route
  BY Targets
<1>2. d.since \in 0 .. Len(states)
  BY <1>1, StatesTyped DEF PathInv
<1>3. d \in Context
  BY <1>2, StatesTyped DEF PathInv, Context
<1>4. Fits(d)
  BY <1>1, StatesTyped DEF Fits, PathInv
<1> QED BY <1>3, <1>4, MoveOn DEF Arrive

\* A request that holds nothing moves on.
LEMMA RoutedFits ==
  ASSUME PathInv, NEW q \in Request,
         CacheHit(q) \/ RouteIn(q) \/ LoadState(q) \/ NotLimited(q)
  PROVE  PathInv'
<1> DEFINE d == request[q]
<1>1. d \in Context /\ Fits(d)
  <2>1. d.pc # "free"
    BY DEF CacheHit, RouteIn, LoadState, NotLimited
  <2> QED BY <2>1, Occupied DEF PathInv, PlaceInv
<1>2. Target[d.path] \in Route \cup {NoRoute}
  BY <1>1, Targets, ContextTyped DEF PathInv
<1> USE <1>1, <1>2, ContextTyped, StatesTyped DEF PathInv
<1>3. CASE CacheHit(q)
  <2> DEFINE e == [d EXCEPT !.pc = "resolved", !.resolved = cache[d.path]]
  <2>1. cache[d.path] \in 0 .. Len(states) /\ Target[d.path] \in Route
    BY <1>3 DEF CacheHit, CacheInv, TypeOK
  <2>2. e \in Context
    BY <2>1 DEF Context
  <2>3. Fits(e)
    BY <1>3, <2>1 DEF Fits, CacheHit
  <2>4. request' = [request EXCEPT ![q] = e]
    BY <1>3 DEF CacheHit, TypeOK
  <2> QED BY <1>3, <2>2, <2>3, <2>4, MoveOn DEF CacheHit
<1>4. CASE RouteIn(q)
  <2> DEFINE e == [d EXCEPT !.pc = "routed", !.resolved = current[Target[d.path]]]
  <2>1. Target[d.path] \in Route
    BY <1>4 DEF RouteIn, RouteOf
  <2>2. current[Target[d.path]] \in 0 .. Len(states) \ {0}
    BY <2>1
  <2>3. e \in Context
    BY <2>2 DEF Context
  <2>4. Fits(e)
    BY <1>4, <2>1 DEF Fits, RouteIn
  <2>5. request' = [request EXCEPT ![q] = e]
    BY <1>4 DEF RouteIn, RouteOf, TypeOK
  <2> QED BY <1>4, <2>3, <2>4, <2>5, MoveOn DEF RouteIn
<1>5. CASE LoadState(q)
  <2> DEFINE e == [d EXCEPT !.pc = "filtered", !.state = current[Target[d.path]]]
  <2>1. Target[d.path] \in Route
    BY <1>5 DEF LoadState, Fits
  <2>2. current[Target[d.path]] \in 0 .. Len(states) \ {0}
    BY <2>1
  <2>3. e \in Context
    BY <2>2 DEF Context
  <2>4. Fits(e)
    BY <1>5, <2>1, <2>2 DEF Fits, LoadState
  <2>5. request' = [request EXCEPT ![q] = e]
    BY <1>5 DEF LoadState, Snapshot, RouteOf, TypeOK
  <2> QED BY <1>5, <2>3, <2>4, <2>5, MoveOn DEF LoadState
<1>6. CASE NotLimited(q)
  <2> DEFINE e == [d EXCEPT !.pc = "admitted"]
  <2>1. e \in Context
    BY DEF Context
  <2>2. Fits(e)
    BY <1>6 DEF Fits, NotLimited
  <2>3. request' = [request EXCEPT ![q] = e]
    BY <1>6 DEF NotLimited, TypeOK
  <2> QED BY <1>6, <2>1, <2>2, <2>3, MoveOn DEF NotLimited
<1> QED BY <1>3, <1>4, <1>5, <1>6

\* The resolved route goes into the cache.
LEMMA CacheInsertFits ==
  ASSUME PathInv, NEW q \in Request, CacheInsert(q)
  PROVE  PathInv'
<1> DEFINE d == request[q]
           e == [d EXCEPT !.pc = "resolved"]
<1>1. d \in Context /\ Fits(d)
  <2>1. d.pc # "free"
    BY DEF CacheInsert
  <2> QED BY <2>1, Occupied DEF PathInv, PlaceInv
<1>2. d.pc = "routed" /\ d.path \in Path /\ d.resolved \in 0 .. Len(states)
  BY <1>1, ContextTyped DEF CacheInsert, PathInv
<1>3. e \in Context
  BY <1>1 DEF Context
<1>4. Fits(e)
  BY <1>1, <1>2 DEF Fits
<1>5. request' = [request EXCEPT ![q] = e]
  BY DEF CacheInsert, PathInv, TypeOK
<1>6. cache' = [cache EXCEPT ![d.path] = d.resolved]
  BY DEF CacheInsert
<1>7. cache' \in [Path -> 0 .. Len(states)]
  BY <1>2, <1>6 DEF PathInv, TypeOK
<1>8. CacheInv'
  BY <1>1, <1>2, <1>6 DEF PathInv, CacheInv, TypeOK, Fits
<1>9. inflight' \in [State -> [Client -> Nat]]
  BY DEF CacheInsert, PathInv, TypeOK
<1> QED BY <1>3, <1>4, <1>5, <1>7, <1>8, <1>9, Move DEF CacheInsert

\* A request under a limit takes a slot.
LEMMA AcquireFits ==
  ASSUME PathInv, NEW q \in Request, Acquire(q)
  PROVE  PathInv'
<1> DEFINE d == request[q]
           n == d.state
           c == d.client
           e == [d EXCEPT !.pc = "counted", !.guard = n, !.count = inflight[n][c] + 1]
<1>1. d \in Context /\ Fits(d) /\ d.pc = "filtered"
  <2>1. d.pc = "filtered"
    BY DEF Acquire
  <2> QED BY <2>1, Occupied DEF PathInv, PlaceInv
<1>2. n \in 1 .. Len(states) /\ n \in 0 .. Len(states) /\ c \in Client
  BY <1>1, ContextTyped, StatesTyped DEF PathInv, Fits
<1>3. n \in State
  BY <1>2, StatesTyped DEF PathInv
<1>4. inflight[n][c] \in Nat
  BY <1>2, <1>3 DEF PathInv, TypeOK
<1>5. e \in Context
  <2>1. inflight[n][c] + 1 \in Nat
    BY <1>4
  <2> QED BY <1>1, <1>2, <2>1 DEF Context
<1>6. Fits(e)
  BY <1>1 DEF Fits, Acquire, Limit
<1>7. request' = [request EXCEPT ![q] = e]
  BY DEF Acquire, CountAfter, PathInv, TypeOK
<1>8. inflight' \in [State -> [Client -> Nat]]
  BY <1>2, <1>3, <1>4 DEF Acquire, PathInv, TypeOK
<1>9. CacheInv' /\ cache' \in [Path -> 0 .. Len(states)]
  BY DEF Acquire, PathInv, CacheInv, TypeOK
<1> QED BY <1>5, <1>6, <1>7, <1>8, <1>9, Move DEF Acquire

\* A request keeps what it holds.
LEMMA HoldingFits ==
  ASSUME PathInv, NEW q \in Request, Admit(q) \/ Proxy(q)
  PROVE  PathInv'
<1> DEFINE d == request[q]
<1>1. d \in Context /\ Fits(d)
  <2>1. d.pc # "free"
    BY DEF Admit, Proxy
  <2> QED BY <2>1, Occupied DEF PathInv, PlaceInv
<1>2. CASE Admit(q)
  <2> DEFINE e == [d EXCEPT !.pc = "admitted"]
  <2>1. e \in Context
    BY <1>1 DEF Context
  <2>2. Fits(e)
    BY <1>1, <1>2, ContextTyped DEF PathInv, Fits, Admit, Limit
  <2>3. request' = [request EXCEPT ![q] = e]
    BY <1>2 DEF Admit, PathInv, TypeOK
  <2> QED BY <1>2, <2>1, <2>2, <2>3, MoveOn DEF Admit
<1>3. CASE Proxy(q)
  <2> DEFINE e == [d EXCEPT !.pc = "proxied"]
  <2>1. e \in Context
    BY <1>1 DEF Context
  <2>2. Fits(e)
    BY <1>1, <1>3, ContextTyped DEF PathInv, Fits, Proxy
  <2>3. request' = [request EXCEPT ![q] = e]
    BY <1>3 DEF Proxy, PathInv, TypeOK
  <2> QED BY <1>3, <2>1, <2>2, <2>3, MoveOn DEF Proxy
<1> QED BY <1>2, <1>3

\* A request ends without a guard.
LEMMA EndFits ==
  ASSUME PathInv, NEW q \in Request,
         RedirectToHttps(q) \/ NotFound(q) \/ Answered(q)
  PROVE  PathInv'
<1>1. /\ request' = [request EXCEPT ![q] = Free]
      /\ UNCHANGED <<states, current, cache, inflight, reload>>
  BY DEF RedirectToHttps, NotFound, Answered
<1> QED BY <1>1, MoveOn

\* The cache drops a path.
LEMMA EvictFits ==
  ASSUME PathInv, NEW p \in Path, Evict(p)
  PROVE  PathInv'
<1>1. Len(states) \in Nat
  BY StatesTyped DEF PathInv
<1>2. TypeOK'
  BY <1>1 DEF Evict, PathInv, TypeOK, Context
<1>3. CacheInv'
  BY DEF Evict, PathInv, TypeOK, CacheInv
<1>4. PlaceInv'
  BY DEF Evict, PathInv, PlaceInv, Fits
<1> QED BY <1>2, <1>3, <1>4 DEF PathInv

\* A route gets a new state: the records fit as before.
LEMMA ReloadFits ==
  ASSUME PathInv, NEW r \in Route, NEW strip \in BOOLEAN,
         NEW max \in Limits \cup {NoLimit}, ReloadRoute(r, strip, max)
  PROVE  PathInv'
<1> DEFINE Record == [strip : BOOLEAN, max : Limits \cup {NoLimit}]
           new == [strip |-> strip, max |-> max]
           N == Len(states)
<1>1. N \in Nat /\ N < MaxStates /\ new \in Record /\ states \in Seq(Record)
  BY StatesTyped DEF PathInv, ReloadRoute, TypeOK
<1>2. states' = Append(states, new)
  BY DEF ReloadRoute
<1>3. /\ states' \in Seq(Record) /\ Len(states') = N + 1
      /\ \A n \in 1 .. N : states'[n] = states[n]
  <2> HIDE DEF Record, new
  <2> QED BY <1>1, <1>2
<1>4. current' \in [Route -> 1 .. N + 1] /\ \A t \in Route : current[t] <= current'[t]
  BY <1>1, StatesTyped DEF ReloadRoute, PathInv, TypeOK
<1>5. request' = request /\ cache' = cache /\ inflight' = inflight
  BY DEF ReloadRoute
<1>6. cache' \in [Path -> 0 .. N + 1] /\ reload' \in 0 .. MaxEntries
  BY <1>1, <1>5, BoundsNat DEF ReloadRoute, PathInv, TypeOK
<1>7. \A d \in Context : d \in Context'
  BY <1>1, <1>3 DEF Context
<1>8. request' \in [Request -> {Free} \cup Context']
  BY <1>5, <1>7 DEF PathInv, TypeOK
<1>9. TypeOK'
  <2>1. Len(states') <= MaxStates
    BY <1>1, <1>3, BoundsNat
  <2>2. inflight' \in [State -> [Client -> Nat]]
    BY <1>5 DEF PathInv, TypeOK
  <2>3. current' \in [Route -> 1 .. Len(states')] /\ cache' \in [Path -> 0 .. Len(states')]
    BY <1>3, <1>4, <1>6
  <2> QED BY <1>3, <1>6, <1>8, <2>1, <2>2, <2>3 DEF TypeOK
<1>10. CacheInv'
  BY <1>5 DEF PathInv, CacheInv
<1>11. ASSUME NEW q \in Request, request'[q] # Free PROVE Fits(request[q])'
  <2> DEFINE d == request[q]
  <2>1. d \in Context /\ Fits(d) /\ request'[q] = d
    BY <1>5, <1>11 DEF PathInv, PlaceInv, TypeOK
  <2>2. /\ d.state \in 0 .. N /\ d.since \in 0 .. N /\ d.path \in Path
        /\ d.guard \in 0 .. N
    BY <2>1, ContextTyped DEF PathInv
  <2>3. d.guard # 0 => states'[d.state] = states[d.state]
    BY <1>3, <2>1, <2>2 DEF Fits
  <2>4. Target[d.path] \in Route => d.since <= current'[Target[d.path]]
    BY <1>1, <1>4, <2>1, <2>2, StatesTyped DEF Fits, PathInv
  <2> QED BY <2>1, <2>3, <2>4 DEF Fits
<1>12. PlaceInv'
  BY <1>11 DEF PlaceInv
<1> QED BY <1>9, <1>10, <1>12 DEF PathInv

\* The walk of a reload itself changes nothing else.
LEMMA WalkFits ==
  ASSUME PathInv,
         \/ \E entries \in 1 .. MaxEntries : StartReload(entries)
         \/ SkipEntry \/ AbortReload
  PROVE  PathInv'
<1>1. reload' \in 0 .. MaxEntries
  BY BoundsNat DEF PathInv, TypeOK, StartReload, SkipEntry, AbortReload
<1>2. UNCHANGED <<states, current, cache, inflight, request>>
  BY DEF StartReload, SkipEntry, AbortReload
<1>3. TypeOK'
  BY <1>1, <1>2 DEF PathInv, TypeOK, Context
<1>4. CacheInv' /\ PlaceInv'
  BY <1>2 DEF PathInv, CacheInv, PlaceInv, Fits
<1> QED BY <1>3, <1>4 DEF PathInv

-----------------------------------------------------------------------------
\* What a step does to the slots: nothing,
Quiet ==
  /\ inflight' = inflight
  /\ \A r \in Request, n \in State, c \in Client :
       /\ Holds(r, n, c)' <=> Holds(r, n, c)
       /\ Holds(r, n, c) => request'[r].count = request[r].count

Others(q) == \A r \in Request : r # q => request'[r] = request[r]

\* or a request takes one and is told their number,
Taken(q, n, c) ==
  /\ inflight' = [inflight EXCEPT ![n][c] = @ + 1]
  /\ \A m \in State, d \in Client : ~Holds(q, m, d)
  /\ \A m \in State, d \in Client : Holds(q, m, d)' <=> m = n /\ d = c
  /\ request'[q].count = inflight[n][c] + 1
  /\ Others(q)

\* or a request gives its slot back.
Given(q, n, c) ==
  /\ inflight' = [inflight EXCEPT ![n][c] = @ - 1]
  /\ \A m \in State, d \in Client : Holds(q, m, d) <=> m = n /\ d = c
  /\ \A m \in State, d \in Client : ~Holds(q, m, d)'
  /\ Others(q)

LEMMA HoldersFinite ==
  ASSUME NEW n, NEW c
  PROVE  /\ IsFiniteSet(Holders(n, c))
         /\ Cardinality(Holders(n, c)) \in Nat
         /\ \A Q \in SUBSET Holders(n, c) :
              /\ IsFiniteSet(Q) /\ Cardinality(Q) \in Nat
              /\ Cardinality(Q) <= Cardinality(Holders(n, c))
<1>1. IsFiniteSet(Holders(n, c))
  BY Finite, FS_Subset DEF Holders
<1> QED BY <1>1, FS_Subset, FS_CardinalityType

\* The count of a step's slots follows the holders.
LEMMA QuietKeeps ==
  ASSUME SlotsAccounted, RankInv, Quiet
  PROVE  SlotsAccounted' /\ RankInv'
<1>1. ASSUME NEW n \in State, NEW c \in Client PROVE Holders(n, c)' = Holders(n, c)
  BY DEF Quiet, Holders
<1>2. SlotsAccounted'
  BY <1>1 DEF Quiet, SlotsAccounted, Holders
<1>3. ASSUME NEW n \in State, NEW c \in Client, NEW Q \in SUBSET Holders(n, c)', Q # {}
      PROVE  \E q \in Q : Cardinality(Q) <= request'[q].count
  <2>1. PICK q \in Q : Cardinality(Q) <= request[q].count
    BY <1>1, <1>3 DEF RankInv
  <2>2. q \in Request /\ Holds(q, n, c)
    BY <1>1, <1>3 DEF Holders
  <2>3. request'[q].count = request[q].count
    BY <2>2 DEF Quiet
  <2> QED BY <2>1, <2>3
<1> QED BY <1>2, <1>3 DEF RankInv

LEMMA TakenKeeps ==
  ASSUME TypeOK, SlotsAccounted, RankInv,
         NEW q \in Request, NEW n \in State, NEW c \in Client, Taken(q, n, c)
  PROVE  SlotsAccounted' /\ RankInv'
<1>1. Holders(n, c)' = Holders(n, c) \cup {q} /\ q \notin Holders(n, c)
  BY DEF Taken, Others, Holders, Holds
<1>2. ASSUME NEW m \in State, NEW d \in Client, <<m, d>> # <<n, c>>
      PROVE  Holders(m, d)' = Holders(m, d)
  BY <1>2 DEF Taken, Others, Holders, Holds
<1>3. Cardinality(Holders(n, c)') = Cardinality(Holders(n, c)) + 1
  BY <1>1, HoldersFinite, FS_AddElement
<1>4. \A m \in State, d \in Client :
        inflight'[m][d] = IF <<m, d>> = <<n, c>> THEN inflight[n][c] + 1 ELSE inflight[m][d]
  BY DEF Taken, TypeOK
<1>5. \A m \in State, d \in Client : inflight[m][d] = Cardinality(Holders(m, d))
  BY DEF SlotsAccounted, Holders
<1>6. \A m \in State, d \in Client : inflight'[m][d] = Cardinality(Holders(m, d)')
  BY <1>2, <1>3, <1>4, <1>5
<1>7. SlotsAccounted'
  BY <1>6 DEF SlotsAccounted, Holders
<1>8. ASSUME NEW m \in State, NEW d \in Client, NEW Q \in SUBSET Holders(m, d)', Q # {}
      PROVE  \E r \in Q : Cardinality(Q) <= request'[r].count
  <2>1. CASE q \in Q
    <3>1. <<m, d>> = <<n, c>>
      BY <1>2, <1>8, <2>1 DEF Taken, Holders
    <3>2. Q \in SUBSET (Holders(n, c) \cup {q}) /\ IsFiniteSet(Holders(n, c) \cup {q})
      BY <1>1, <3>1, HoldersFinite, FS_AddElement
    <3>3. Cardinality(Q) <= Cardinality(Holders(n, c)) + 1
      BY <3>2, <1>1, <1>3, FS_Subset
    <3>4. request'[q].count = Cardinality(Holders(n, c)) + 1
      BY <1>5 DEF Taken
    <3> QED BY <2>1, <3>3, <3>4
  <2>2. CASE q \notin Q
    <3>1. Q \in SUBSET Holders(m, d)
      BY <1>1, <1>2, <2>2
    <3>2. PICK r \in Q : Cardinality(Q) <= request[r].count
      BY <1>8, <3>1 DEF RankInv
    <3>3. r \in Request /\ r # q
      BY <2>2, <3>1 DEF Holders
    <3>4. request'[r] = request[r]
      BY <3>3 DEF Taken, Others
    <3> QED BY <3>2, <3>4
  <2> QED BY <2>1, <2>2
<1> QED BY <1>7, <1>8 DEF RankInv

LEMMA GivenKeeps ==
  ASSUME TypeOK, SlotsAccounted, RankInv,
         NEW q \in Request, NEW n \in State, NEW c \in Client, Given(q, n, c)
  PROVE  /\ SlotsAccounted' /\ RankInv'
         /\ inflight' \in [State -> [Client -> Nat]]
<1>1. Holders(n, c)' = Holders(n, c) \ {q} /\ q \in Holders(n, c)
  BY DEF Given, Others, Holders, Holds
<1>2. ASSUME NEW m \in State, NEW d \in Client, <<m, d>> # <<n, c>>
      PROVE  Holders(m, d)' = Holders(m, d)
  BY <1>2 DEF Given, Others, Holders, Holds
<1>3. Cardinality(Holders(n, c)') = Cardinality(Holders(n, c)) - 1
  BY <1>1, HoldersFinite, FS_RemoveElement
<1>4. \A m \in State, d \in Client :
        inflight'[m][d] = IF <<m, d>> = <<n, c>> THEN inflight[n][c] - 1 ELSE inflight[m][d]
  BY DEF Given, TypeOK
<1>5. \A m \in State, d \in Client : inflight[m][d] = Cardinality(Holders(m, d))
  BY DEF SlotsAccounted, Holders
<1>6. \A m \in State, d \in Client : inflight'[m][d] = Cardinality(Holders(m, d)')
  BY <1>2, <1>3, <1>4, <1>5
<1>7. SlotsAccounted'
  BY <1>6 DEF SlotsAccounted, Holders
<1>8. ASSUME NEW m \in State, NEW d \in Client, NEW Q \in SUBSET Holders(m, d)', Q # {}
      PROVE  \E r \in Q : Cardinality(Q) <= request'[r].count
  <2>1. Q \in SUBSET Holders(m, d) /\ q \notin Q
    BY <1>1, <1>2 DEF Given, Holders
  <2>2. PICK r \in Q : Cardinality(Q) <= request[r].count
    BY <1>8, <2>1 DEF RankInv
  <2>3. request'[r] = request[r]
    BY <2>1 DEF Given, Others, Holders
  <2> QED BY <2>2, <2>3
<1>9. inflight' \in [State -> [Client -> Nat]]
  <2>1. inflight[n][c] - 1 \in Nat
    <3>1. Cardinality(Holders(n, c)) # 0
      BY <1>1, HoldersFinite, FS_EmptySet
    <3> QED BY <1>5, <3>1, HoldersFinite
  <2> QED BY <2>1 DEF Given, TypeOK
<1> QED BY <1>7, <1>8, <1>9 DEF RankInv

\* The steps that leave the slots alone.
LEMMA RequestQuiet ==
  ASSUME PathInv, NEW q \in Request,
         \/ \E c \in Client, p \in Path : Arrive(q, c, p)
         \/ RedirectToHttps(q) \/ NotFound(q) \/ Answered(q)
         \/ CacheHit(q) \/ RouteIn(q) \/ CacheInsert(q) \/ LoadState(q)
         \/ NotLimited(q) \/ Admit(q) \/ Proxy(q)
  PROVE  Quiet
<1> DEFINE before == {"counted", "admitted", "proxied"}
<1>1. inflight' = inflight /\ \A r \in Request \ {q} : request'[r] = request[r]
  BY DEF Arrive, RedirectToHttps, NotFound, Answered, CacheHit, RouteIn, CacheInsert,
         LoadState, NotLimited, Admit, Proxy, PathInv, TypeOK
<1>2. request[q].pc \in {"new", "routed", "resolved", "filtered"} => request[q].guard = 0
  BY Occupied DEF PathInv, PlaceInv, Fits
<1>3. \A n \in State : n # 0
  BY BoundsNat DEF State
<1>4. \/ request[q].pc \notin before /\ request'[q].pc \notin before
      \/ request[q].pc = "filtered" /\ request'[q].guard = request[q].guard
      \/ /\ request[q].pc \in before /\ request'[q].pc \in before
         /\ request'[q].guard = request[q].guard
         /\ request'[q].client = request[q].client
         /\ request'[q].count = request[q].count
  <2>1. CASE \/ \E c \in Client, p \in Path : Arrive(q, c, p)
             \/ RedirectToHttps(q) \/ NotFound(q) \/ Answered(q)
    BY <2>1 DEF Arrive, RedirectToHttps, NotFound, Answered, PathInv, TypeOK, Free
  <2>2. CASE CacheHit(q) \/ RouteIn(q) \/ CacheInsert(q) \/ LoadState(q)
    <3>1. request[q] \in Context /\ request[q].pc \notin before
      BY <2>2, Occupied DEF CacheHit, RouteIn, CacheInsert, LoadState, PathInv
    <3>2. CASE CacheHit(q)
      BY <3>1, <3>2 DEF CacheHit, PathInv, TypeOK, Context
    <3>3. CASE RouteIn(q)
      BY <3>1, <3>3 DEF RouteIn, PathInv, TypeOK, Context
    <3>4. CASE CacheInsert(q)
      BY <3>1, <3>4 DEF CacheInsert, PathInv, TypeOK, Context
    <3>5. CASE LoadState(q)
      BY <3>1, <3>5 DEF LoadState, PathInv, TypeOK, Context
    <3> QED BY <2>2, <3>2, <3>3, <3>4, <3>5
  <2>3. CASE NotLimited(q) \/ Admit(q) \/ Proxy(q)
    BY <2>3, Occupied DEF NotLimited, Admit, Proxy, PathInv, TypeOK, Context
  <2> QED BY <2>1, <2>2, <2>3
<1>5. ASSUME NEW n \in State, NEW c \in Client
      PROVE  /\ Holds(q, n, c)' <=> Holds(q, n, c)
             /\ Holds(q, n, c) => request'[q].count = request[q].count
  BY <1>2, <1>3, <1>4 DEF Holds
<1>6. ASSUME NEW r \in Request \ {q}, NEW n \in State, NEW c \in Client
      PROVE  /\ Holds(r, n, c)' <=> Holds(r, n, c)
             /\ Holds(r, n, c) => request'[r].count = request[r].count
  BY <1>1 DEF Holds
<1> QED BY <1>1, <1>5, <1>6 DEF Quiet

\* Steps in which no request moves.
LEMMA StillQuiet ==
  ASSUME inflight' = inflight, request' = request
  PROVE  Quiet
  BY DEF Quiet, Holds

LEMMA AcquireTakes ==
  ASSUME PathInv, NEW q \in Request, Acquire(q)
  PROVE  \E n \in State, c \in Client : Taken(q, n, c)
<1> DEFINE n == request[q].state
           c == request[q].client
<1>1. request[q] \in Context /\ Fits(request[q]) /\ request[q].pc = "filtered"
  <2>1. request[q].pc = "filtered"
    BY DEF Acquire
  <2> QED BY <2>1, Occupied DEF PathInv, PlaceInv
<1>2. n \in State /\ c \in Client
  BY <1>1, ContextTyped, StatesTyped DEF PathInv, Fits
<1>3. /\ request'[q].pc = "counted" /\ request'[q].guard = n /\ request'[q].client = c
      /\ request'[q].count = inflight[n][c] + 1
  BY <1>1 DEF Acquire, CountAfter, PathInv, TypeOK, Context
<1>4. Others(q)
  BY DEF Acquire, Others, PathInv, TypeOK
<1>5. inflight' = [inflight EXCEPT ![n][c] = @ + 1]
  BY DEF Acquire
<1>6. \A m \in State, d \in Client : ~Holds(q, m, d)
  BY <1>1 DEF Holds
<1>7. \A m \in State, d \in Client : Holds(q, m, d)' <=> m = n /\ d = c
  BY <1>3 DEF Holds
<1>8. Taken(q, n, c)
  BY <1>3, <1>4, <1>5, <1>6, <1>7 DEF Taken
<1> QED BY <1>2, <1>8

\* A request that goes past its limiter's increment, with or without a guard.
LEMMA ReleaseGives ==
  ASSUME PathInv, NEW q \in Request,
         request[q].pc \in {"counted", "admitted", "proxied"},
         inflight' = Released(q), request' = [request EXCEPT ![q] = Free]
  PROVE  Quiet \/ \E n \in State, c \in Client : Given(q, n, c)
<1> DEFINE n == request[q].state
           c == request[q].client
<1>1. request[q] \in Context /\ Fits(request[q])
  BY Occupied DEF PathInv, PlaceInv
<1>2. n \in State /\ c \in Client
  BY <1>1, ContextTyped, StatesTyped DEF PathInv, Fits
<1>3. Others(q) /\ request'[q].pc = "free"
  BY DEF Others, PathInv, TypeOK, Free
<1>4. \A m \in State, d \in Client : ~Holds(q, m, d)'
  BY <1>3 DEF Holds
<1>5. CASE request[q].guard = 0
  <2>1. inflight' = inflight
    BY <1>2, <1>5 DEF Released, PathInv, TypeOK
  <2>2. \A m \in State, d \in Client : ~Holds(q, m, d)
    BY <1>5, BoundsNat DEF Holds, State
  <2>3. ASSUME NEW r \in Request \ {q}, NEW m \in State, NEW d \in Client
        PROVE  /\ Holds(r, m, d)' <=> Holds(r, m, d)
               /\ request'[r].count = request[r].count
    BY <1>3 DEF Holds, Others
  <2> QED BY <1>4, <2>1, <2>2, <2>3 DEF Quiet
<1>6. CASE request[q].guard # 0
  <2>1. inflight' = [inflight EXCEPT ![n][c] = @ - 1]
    BY <1>6 DEF Released
  <2>2. \A m \in State, d \in Client : Holds(q, m, d) <=> m = n /\ d = c
    BY <1>1, <1>6 DEF Holds, Fits
  <2>3. Given(q, n, c)
    BY <1>3, <1>4, <2>1, <2>2 DEF Given
  <2> QED BY <1>2, <2>3
<1> QED BY <1>5, <1>6

\* The end of a request past the limiter.
LEMMA ReleaseKeeps ==
  ASSUME AdmissionInv, NEW q \in Request,
         request[q].pc \in {"counted", "admitted", "proxied"},
         inflight' = Released(q), request' = [request EXCEPT ![q] = Free],
         UNCHANGED <<states, current, cache, reload>>
  PROVE  AdmissionInv'
<1>1. CacheInv' /\ cache' \in [Path -> 0 .. Len(states)]
  BY DEF AdmissionInv, PathInv, CacheInv, TypeOK
<1>2. CASE Quiet
  <2>1. inflight' \in [State -> [Client -> Nat]]
    BY <1>2 DEF Quiet, AdmissionInv, PathInv, TypeOK
  <2>2. PathInv'
    BY <1>1, <2>1, Move DEF AdmissionInv
  <2> QED BY <1>2, <2>2, QuietKeeps DEF AdmissionInv
<1>3. ASSUME NEW n \in State, NEW c \in Client, Given(q, n, c) PROVE AdmissionInv'
  <2>1. SlotsAccounted' /\ RankInv' /\ inflight' \in [State -> [Client -> Nat]]
    BY <1>3, GivenKeeps DEF AdmissionInv, PathInv
  <2>2. PathInv'
    BY <1>1, <2>1, Move DEF AdmissionInv
  <2> QED BY <2>1, <2>2 DEF AdmissionInv
<1> QED BY <1>2, <1>3, ReleaseGives DEF AdmissionInv

-----------------------------------------------------------------------------
\* The invariant is inductive.
LEMMA InitAdmission == Init => AdmissionInv
<1> SUFFICES ASSUME Init PROVE AdmissionInv
  OBVIOUS
<1>1. PathInv
  BY InitPath
<1>2. ASSUME NEW n \in State, NEW c \in Client PROVE Holders(n, c) = {}
  BY DEF Init, Holders, Holds, Free
<1>3. SlotsAccounted
  BY <1>2, FS_EmptySet DEF Init, SlotsAccounted, Holders
<1>4. RankInv
  BY <1>2 DEF RankInv
<1> QED BY <1>1, <1>3, <1>4 DEF AdmissionInv

LEMMA NextAdmission == AdmissionInv /\ [Next]_vars => AdmissionInv'
<1> SUFFICES ASSUME AdmissionInv, [Next]_vars PROVE AdmissionInv'
  OBVIOUS
<1>1. ASSUME PathInv', Quiet PROVE AdmissionInv'
  BY <1>1, QuietKeeps DEF AdmissionInv
<1>2. ASSUME NEW q \in Request, RequestStep(q) PROVE AdmissionInv'
  <2>1. CASE \E c \in Client, p \in Path : Arrive(q, c, p)
    BY <1>1, <2>1, ArriveFits, RequestQuiet DEF AdmissionInv
  <2>2. CASE \/ RedirectToHttps(q) \/ NotFound(q)
             \/ AccessDenied(q) \/ ActionTaken(q) \/ RateLimited(q)
    <3>1. RedirectToHttps(q) \/ NotFound(q) \/ Answered(q)
      BY <2>2 DEF AccessDenied, ActionTaken, RateLimited
    <3> QED BY <1>1, <3>1, EndFits, RequestQuiet DEF AdmissionInv
  <2>3. CASE CacheHit(q) \/ RouteIn(q) \/ LoadState(q) \/ NotLimited(q)
    BY <1>1, <2>3, RoutedFits, RequestQuiet DEF AdmissionInv
  <2>4. CASE CacheInsert(q)
    BY <1>1, <2>4, CacheInsertFits, RequestQuiet DEF AdmissionInv
  <2>5. CASE Admit(q) \/ Proxy(q)
    BY <1>1, <2>5, HoldingFits, RequestQuiet DEF AdmissionInv
  <2>6. CASE Acquire(q)
    <3>1. PICK n \in State, c \in Client : Taken(q, n, c)
      BY <2>6, AcquireTakes DEF AdmissionInv
    <3>2. SlotsAccounted' /\ RankInv'
      BY <3>1, TakenKeeps DEF AdmissionInv, PathInv
    <3> QED BY <2>6, <3>2, AcquireFits DEF AdmissionInv
  <2>7. CASE Reject(q)
    BY <2>7, ReleaseKeeps DEF Reject
  <2>8. CASE TooLarge(q) \/ BodyExceeds(q) \/ Finish(q)
    BY <2>8, ReleaseKeeps DEF TooLarge, BodyExceeds, Finish, Dropped
  <2> QED BY <1>2, <2>1, <2>2, <2>3, <2>4, <2>5, <2>6, <2>7, <2>8 DEF RequestStep
<1>3. ASSUME NEW p \in Path, Evict(p) PROVE AdmissionInv'
  <2>1. Quiet
    BY <1>3, StillQuiet DEF Evict
  <2> QED BY <1>1, <1>3, <2>1, EvictFits DEF AdmissionInv
<1>4. CASE ReloadStep
  <2>1. Quiet
    BY <1>4, StillQuiet DEF ReloadStep, StartReload, ReloadRoute, SkipEntry, AbortReload
  <2>2. PathInv'
    BY <1>4, ReloadFits, WalkFits DEF AdmissionInv, ReloadStep
  <2> QED BY <1>1, <2>1, <2>2
<1>5. CASE UNCHANGED vars
  <2>1. Quiet
    BY <1>5, StillQuiet DEF vars
  <2>2. PathInv'
    BY <1>5 DEF vars, AdmissionInv, PathInv, TypeOK, Context, PlaceInv, Fits, CacheInv
  <2> QED BY <1>1, <2>1, <2>2
<1> QED BY <1>2, <1>3, <1>4, <1>5 DEF Next

\* The inductive invariant of requests, limiters and reloads.
THEOREM AdmissionInvariance == Spec => []AdmissionInv
<1>1. Init => AdmissionInv
  BY InitAdmission
<1>2. AdmissionInv /\ [Next]_vars => AdmissionInv'
  BY NextAdmission
<1> QED BY <1>1, <1>2, PTL DEF Spec

-----------------------------------------------------------------------------
\* The type invariant; no count of slots falls below zero.
THEOREM AdmissionTyped == Spec => []TypeOK
<1>1. AdmissionInv => TypeOK
  BY DEF AdmissionInv, PathInv
<1> QED BY <1>1, AdmissionInvariance, PTL

\* ConnLimiter: every slot counted belongs to a request that holds its guard,
\* over refusals, errors and reloads that replace the limiter.
THEOREM SlotsAreAccounted == Spec => []SlotsAccounted
<1>1. AdmissionInv => SlotsAccounted
  BY DEF AdmissionInv
<1> QED BY <1>1, AdmissionInvariance, PTL

\* max_connections holds for each client and each state of a route, although
\* the increment, the comparison and the rollback are steps of their own.
THEOREM LimitHolds == Spec => []LimitHeld
<1>1. AdmissionInv => LimitHeld
  <2> SUFFICES ASSUME AdmissionInv, NEW n \in DOMAIN states, NEW c \in Client,
                      states[n].max # NoLimit
               PROVE  Cardinality({q \in Request : Holds(q, n, c) /\ request[q].pc # "counted"})
                        <= states[n].max
    BY DEF LimitHeld
  <2> DEFINE Q == {q \in Request : Holds(q, n, c) /\ request[q].pc # "counted"}
  <2>1. n \in 1 .. Len(states)
    BY DEF AdmissionInv, PathInv, TypeOK
  <2>2. n \in State /\ states[n].max \in Nat
    BY <2>1, StatesTyped DEF AdmissionInv, PathInv
  <2>3. Q \in SUBSET Holders(n, c)
    BY DEF Holders
  <2>4. CASE Q = {}
    BY <2>2, <2>4, FS_EmptySet
  <2>5. CASE Q # {}
    <3>1. PICK q \in Q : Cardinality(Q) <= request[q].count
      BY <2>2, <2>3, <2>5 DEF AdmissionInv, RankInv
    <3>2. request[q] \in Context /\ Fits(request[q])
      BY Occupied DEF Holds, AdmissionInv, PathInv, PlaceInv
    <3>3. request[q].guard = n /\ n # 0
      BY <2>1 DEF Holds
    <3>4. request[q].count <= states[n].max
      BY <3>2, <3>3 DEF Fits
    <3>5. Cardinality(Q) \in Nat /\ request[q].count \in Nat
      BY <2>3, <3>2, HoldersFinite, ContextTyped DEF AdmissionInv, PathInv
    <3> QED BY <2>2, <3>1, <3>4, <3>5
  <2> QED BY <2>4, <2>5
<1> QED BY <1>1, AdmissionInvariance, PTL

\* A reload counts for every request that arrives after it, whatever the path
\* cache holds.
THEOREM StateIsFresh == Spec => []FreshState
<1>1. AdmissionInv => FreshState
  <2> SUFFICES ASSUME AdmissionInv, NEW q \in Request,
                      request[q].pc \in {"filtered", "counted", "admitted", "proxied"}
               PROVE  request[q].state >= request[q].since
    BY DEF FreshState
  <2>1. request[q] \in Context /\ Fits(request[q])
    BY Occupied DEF AdmissionInv, PathInv, PlaceInv
  <2>2. request[q].since \in Nat /\ request[q].state \in Nat
    BY <2>1, ContextTyped, StatesTyped DEF AdmissionInv, PathInv
  <2> QED BY <2>1, <2>2 DEF Fits
<1> QED BY <1>1, AdmissionInvariance, PTL

-----------------------------------------------------------------------------
(* The metrics. *)

\* A remainder goes up and down with its number.
LEMMA ModUp ==
  ASSUME NEW a \in Nat, NEW m \in Nat, m > 1
  PROVE  ((a % m) + 1) % m = (a + 1) % m
<1> DEFINE q == a \div m
           r == a % m
<1>1. r \in 0 .. m - 1
  OBVIOUS
<1>2. q \in Nat
  OBVIOUS
<1>3. a = m * q + r
  OBVIOUS
<1> HIDE DEF q, r
<1>4. CASE r = m - 1
  <2>1. a + 1 = m * (q + 1) + 0
    BY <1>1, <1>2, <1>3, <1>4
  <2>2. \A p \in Nat : (m * p + 0) % m = 0
    OBVIOUS
  <2>3. (r + 1) % m = 0
    BY <1>4
  <2>4. q + 1 \in Nat
    BY <1>2
  <2> QED BY <2>1, <2>2, <2>3, <2>4 DEF r
<1>5. CASE r # m - 1
  <2>1. r + 1 \in 0 .. m - 1
    BY <1>1, <1>5
  <2>2. a + 1 = m * q + (r + 1)
    BY <1>1, <1>2, <1>3
  <2>3. \A p \in Nat, x \in 0 .. m - 1 : (m * p + x) % m = x
    OBVIOUS
  <2>4. \A x \in 0 .. m - 1 : x % m = x
    OBVIOUS
  <2> QED BY <1>2, <2>1, <2>2, <2>3, <2>4 DEF r
<1> QED BY <1>4, <1>5

LEMMA ModDown ==
  ASSUME NEW a \in Nat \ {0}, NEW m \in Nat, m > 1
  PROVE  ((a % m) + m - 1) % m = (a - 1) % m
<1> DEFINE r == (a - 1) % m
<1>1. a - 1 \in Nat
  OBVIOUS
<1>2. r \in 0 .. m - 1
  BY <1>1
<1>3. (r + 1) % m = a % m
  <2>1. ((a - 1) + 1) % m = a % m
    OBVIOUS
  <2> QED BY <1>1, <2>1, ModUp
<1> HIDE DEF r
<1>4. \A x \in 0 .. m - 1 : x % m = x
  OBVIOUS
<1>5. CASE r = m - 1
  <2>1. (r + 1) % m = 0
    BY <1>5
  <2>2. 0 + m - 1 \in 0 .. m - 1
    OBVIOUS
  <2> QED BY <1>3, <1>4, <1>5, <2>1, <2>2 DEF r
<1>6. CASE r # m - 1
  <2>1. (r + 1) % m = r + 1
    BY <1>2, <1>4, <1>6
  <2>2. (r + 1) + m - 1 = m * 1 + r
    BY <1>2
  <2>3. (m * 1 + r) % m = r
    BY <1>2
  <2> QED BY <1>3, <2>1, <2>2, <2>3 DEF r
<1> QED BY <1>5, <1>6

\* An average of two numbers is between them.
LEMMA Between ==
  ASSUME M!Parameters, NEW x \in Nat, NEW y \in Nat, NEW low \in Nat, NEW high \in Nat,
         low <= x, low <= y, x <= high, y <= high
  PROVE  LET z == (Num * x + (Den - Num) * y) \div Den
         IN z \in Nat /\ low <= z /\ z <= high
<1> DEFINE s == Num * x + (Den - Num) * y
<1>1. Num * low <= Num * x /\ Num * x <= Num * high
  BY DEF M!Parameters
<1>2. (Den - Num) * low <= (Den - Num) * y /\ (Den - Num) * y <= (Den - Num) * high
  BY DEF M!Parameters
<1>3. Den * low <= s /\ s <= Den * high /\ s \in Nat
  BY <1>1, <1>2 DEF M!Parameters
<1> HIDE DEF s
<1>4. s \div Den \in Nat /\ low <= s \div Den /\ s \div Den <= high
  BY <1>3 DEF M!Parameters
<1> QED BY <1>4 DEF s

\* Finite sets are the same in the instance.
LEMMA SameFinite ==
  /\ \A S : M!IsFiniteSet(S) <=> IsFiniteSet(S)
  /\ \A S : M!Cardinality(S) = Cardinality(S)
  BY DEF M!IsFiniteSet, IsFiniteSet, M!Cardinality, Cardinality

-----------------------------------------------------------------------------
\* A request has a stream, to the backend in its context, from connected to
\* ended.
StreamInv ==
  \A r \in Caller :
    /\ place[r] \in {"idle", "over"} => stream[r] = None
    /\ place[r] = "peer" => stream[r] = None /\ backend[r] \in Backend
    /\ place[r] \in {"open", "storing", "answered"}
         => stream[r] = backend[r] /\ backend[r] \in Backend

Streams(b) == {r \in Caller : stream[r] = b}

\* A value lies between two latencies of the backend.
Within(b, v) ==
  (\E s \in samples[b] : s <= v) /\ (\E s \in samples[b] : v <= s)

\* What is stored, and what is about to be, is no invention.
AverageInv ==
  /\ \A b \in Backend : average[b] # 0 => Within(b, average[b])
  /\ \A r \in Caller :
       /\ place[r] = "storing" => Within(backend[r], computed[r])
       /\ place[r] = "answered" => average[backend[r]] # 0

MetricsInv == M!TypeOK /\ StreamInv /\ M!StreamsCounted /\ AverageInv

LEMMA InitMetrics ==
  ASSUME M!Parameters, M!Init
  PROVE  MetricsInv
<1>1. M!TypeOK
  BY DEF M!Init, M!TypeOK, M!Parameters
<1>2. StreamInv
  BY DEF M!Init, StreamInv
<1>3. M!StreamsCounted
  <2> SUFFICES ASSUME NEW b \in Backend
               PROVE  count[b] = Cardinality({r \in Caller : stream[r] = b}) % Modulus
    BY SameFinite DEF M!StreamsCounted
  <2>1. {r \in Caller : stream[r] = b} = {}
    BY DEF M!Init, M!Parameters
  <2>2. 0 % Modulus = 0
    BY DEF M!Parameters
  <2> QED BY <2>1, <2>2, FS_EmptySet DEF M!Init
<1>4. AverageInv
  BY DEF M!Init, AverageInv
<1> QED BY <1>1, <1>2, <1>3, <1>4 DEF MetricsInv

-----------------------------------------------------------------------------
\* The counter.

LEMMA StreamsFinite ==
  ASSUME M!Parameters, NEW b
  PROVE  IsFiniteSet(Streams(b)) /\ Cardinality(Streams(b)) \in Nat
  BY SameFinite, FS_Subset, FS_CardinalityType DEF M!Parameters, Streams

\* A step that moves no stream moves no counter.
LEMMA CountUnmoved ==
  ASSUME M!StreamsCounted, UNCHANGED <<count, stream>>
  PROVE  M!StreamsCounted'
  BY DEF M!StreamsCounted

\* connected_to_upstream
LEMMA CountUp ==
  ASSUME M!Parameters, MetricsInv, NEW q \in Caller, M!Connected(q)
  PROVE  M!StreamsCounted'
<1>1. /\ stream[q] = None /\ backend[q] \in Backend
      /\ stream' = [stream EXCEPT ![q] = backend[q]]
      /\ count' = [count EXCEPT ![backend[q]] = (@ + 1) % Modulus]
  BY DEF MetricsInv, StreamInv, M!Connected, M!Goto
<1> SUFFICES ASSUME NEW b \in Backend
             PROVE  count'[b] = Cardinality(Streams(b)') % Modulus
  BY SameFinite DEF M!StreamsCounted, Streams
<1>2. count[b] = Cardinality(Streams(b)) % Modulus
  BY SameFinite DEF MetricsInv, M!StreamsCounted, Streams
<1>3. CASE b = backend[q]
  <2>1. Streams(b)' = Streams(b) \cup {q} /\ q \notin Streams(b)
    BY <1>1, <1>3 DEF Streams, M!Parameters, MetricsInv, M!TypeOK
  <2>2. Cardinality(Streams(b)') = Cardinality(Streams(b)) + 1
    BY <2>1, StreamsFinite, FS_AddElement
  <2>3. count'[b] = (count[b] + 1) % Modulus
    BY <1>1, <1>3 DEF MetricsInv, M!TypeOK
  <2>4. Modulus \in Nat /\ Modulus > 1 /\ Cardinality(Streams(b)) \in Nat
    BY StreamsFinite DEF M!Parameters
  <2> QED BY <1>2, <2>2, <2>3, <2>4, ModUp
<1>4. CASE b # backend[q]
  <2>1. Streams(b)' = Streams(b)
    BY <1>1, <1>4 DEF Streams, M!Parameters, MetricsInv, M!TypeOK
  <2>2. count'[b] = count[b]
    BY <1>1, <1>4 DEF MetricsInv, M!TypeOK
  <2> QED BY <1>2, <2>1, <2>2
<1> QED BY <1>3, <1>4

\* upstream_stream_ended
LEMMA CountDown ==
  ASSUME M!Parameters, MetricsInv, NEW q \in Caller, M!Answered(q) \/ M!Broken(q)
  PROVE  M!StreamsCounted'
<1>1. /\ stream[q] = backend[q] /\ backend[q] \in Backend
      /\ stream' = [stream EXCEPT ![q] = None]
      /\ count' = [count EXCEPT ![backend[q]] = (@ + Modulus - 1) % Modulus]
  BY DEF MetricsInv, StreamInv, M!Answered, M!Broken, M!StreamEnded, M!Goto
<1> SUFFICES ASSUME NEW b \in Backend
             PROVE  count'[b] = Cardinality(Streams(b)') % Modulus
  BY SameFinite DEF M!StreamsCounted, Streams
<1>2. count[b] = Cardinality(Streams(b)) % Modulus
  BY SameFinite DEF MetricsInv, M!StreamsCounted, Streams
<1>3. CASE b = backend[q]
  <2>1. Streams(b)' = Streams(b) \ {q} /\ q \in Streams(b)
    BY <1>1, <1>3 DEF Streams, M!Parameters, MetricsInv, M!TypeOK
  <2>2. Cardinality(Streams(b)') = Cardinality(Streams(b)) - 1
    BY <2>1, StreamsFinite, FS_RemoveElement
  <2>3. Cardinality(Streams(b)) \in Nat \ {0}
    BY <2>1, StreamsFinite, FS_EmptySet
  <2>4. count'[b] = (count[b] + Modulus - 1) % Modulus
    BY <1>1, <1>3 DEF MetricsInv, M!TypeOK
  <2>5. Modulus \in Nat /\ Modulus > 1
    BY DEF M!Parameters
  <2> QED BY <1>2, <2>2, <2>3, <2>4, <2>5, ModDown
<1>4. CASE b # backend[q]
  <2>1. Streams(b)' = Streams(b)
    BY <1>1, <1>4 DEF Streams, M!Parameters, MetricsInv, M!TypeOK
  <2>2. count'[b] = count[b]
    BY <1>1, <1>4 DEF MetricsInv, M!TypeOK
  <2> QED BY <1>2, <2>1, <2>2
<1> QED BY <1>3, <1>4

-----------------------------------------------------------------------------
\* The average.

\* Samples are positive naturals, and so is what lies between them.
LEMMA WithinPositive ==
  ASSUME M!Parameters, M!TypeOK, NEW b \in Backend, NEW v \in Nat, Within(b, v)
  PROVE  v # 0
  BY DEF M!Parameters, M!TypeOK, Within

\* record_latency computes from what it has loaded and from the sample.
LEMMA EwmaWithin ==
  ASSUME M!Parameters, MetricsInv, NEW b \in Backend, NEW latency \in Latencies,
         samples' = [samples EXCEPT ![b] = @ \cup {latency}]
  PROVE  LET v == M!Ewma(average[b], latency)
         IN /\ v \in Nat
            /\ \E s \in samples'[b] : s <= v
            /\ \E s \in samples'[b] : v <= s
<1> DEFINE old == average[b]
<1>1. old \in Nat /\ latency \in Nat /\ samples[b] \subseteq Nat
  BY DEF MetricsInv, M!TypeOK, M!Parameters
<1>2. samples'[b] = samples[b] \cup {latency}
  BY DEF MetricsInv, M!TypeOK
<1>3. CASE old = 0
  <2>1. M!Ewma(old, latency) = latency
    BY <1>3 DEF M!Ewma
  <2>2. \E s \in samples'[b] : s <= latency /\ latency <= s
    BY <1>1, <1>2
  <2> QED BY <1>1, <2>1, <2>2
<1>4. CASE old # 0
  <2>1. PICK s \in samples[b], t \in samples[b] : s <= old /\ old <= t
    BY <1>4 DEF MetricsInv, AverageInv, Within
  <2> DEFINE low == IF s <= latency THEN s ELSE latency
             high == IF t >= latency THEN t ELSE latency
             z == (Num * latency + (Den - Num) * old) \div Den
  <2>2. /\ low \in Nat /\ low <= old /\ low <= latency /\ low \in samples'[b]
        /\ high \in Nat /\ old <= high /\ latency <= high /\ high \in samples'[b]
    BY <1>1, <1>2, <2>1
  <2>3. M!Ewma(old, latency) = z
    BY <1>4 DEF M!Ewma
  <2> HIDE DEF low, high, old
  <2>4. z \in Nat /\ low <= z /\ z <= high
    BY <1>1, <2>2, Between DEF old
  <2> QED BY <2>2, <2>3, <2>4 DEF old
<1> QED BY <1>3, <1>4

LEMMA AverageStep ==
  ASSUME M!Parameters, MetricsInv, [M!Next]_M!vars
  PROVE  AverageInv' /\ average' \in [Backend -> Nat] /\ computed' \in [Caller -> Nat]
<1> USE DEF MetricsInv, M!TypeOK, AverageInv, Within
<1>1. ASSUME NEW q \in Caller, NEW latency \in Latencies, M!LoadAverage(q, latency)
      PROVE  AverageInv' /\ average' \in [Backend -> Nat] /\ computed' \in [Caller -> Nat]
  <2> DEFINE b == backend[q]
  <2>1. b \in Backend /\ samples' = [samples EXCEPT ![b] = @ \cup {latency}]
    BY <1>1 DEF M!LoadAverage, M!Goto, StreamInv
  <2> DEFINE v == M!Ewma(average[b], latency)
  <2>2. /\ v \in Nat
        /\ \E s \in samples'[b] : s <= v
        /\ \E s \in samples'[b] : v <= s
    BY <2>1, EwmaWithin
  <2> HIDE DEF v
  <2>3. \A c \in Backend : samples[c] \subseteq samples'[c]
    BY <2>1
  <2>4. /\ place' = [place EXCEPT ![q] = "storing"] /\ backend' = backend
        /\ computed' = [computed EXCEPT ![q] = v]
        /\ average' = average
    BY <1>1 DEF M!LoadAverage, M!Goto, v
  <2>5. ASSUME NEW c \in Backend, average'[c] # 0 PROVE Within(c, average[c])'
    BY <2>3, <2>4, <2>5
  <2>6. ASSUME NEW r \in Caller, place'[r] = "storing"
        PROVE  Within(backend[r], computed[r])'
    <3>1. CASE r = q
      BY <2>2, <2>4, <3>1
    <3>2. CASE r # q
      BY <2>3, <2>4, <2>6, <3>2 DEF StreamInv
    <3> QED BY <3>1, <3>2
  <2>7. ASSUME NEW r \in Caller, place'[r] = "answered" PROVE average'[backend'[r]] # 0
    BY <2>4, <2>7
  <2> QED BY <2>2, <2>4, <2>5, <2>6, <2>7
<1>2. ASSUME NEW q \in Caller, M!StoreAverage(q)
      PROVE  AverageInv' /\ average' \in [Backend -> Nat] /\ computed' \in [Caller -> Nat]
  <2> DEFINE b == backend[q]
  <2>1. /\ b \in Backend /\ Within(b, computed[q]) /\ computed[q] \in Nat
        /\ place' = [place EXCEPT ![q] = "answered"]
        /\ average' = [average EXCEPT ![b] = computed[q]]
        /\ UNCHANGED <<backend, computed, samples>>
    BY <1>2 DEF M!StoreAverage, M!Goto, StreamInv
  <2>2. computed[q] # 0
    BY <2>1, WithinPositive
  <2> QED BY <2>1, <2>2 DEF StreamInv
<1>3. ASSUME NEW q \in Caller,
             \/ \E b \in Backend : M!Select(q, b)
             \/ M!ConnectFails(q) \/ M!Connected(q) \/ M!Answered(q) \/ M!Broken(q) \/ M!Finish(q)
      PROVE  AverageInv' /\ average' \in [Backend -> Nat] /\ computed' \in [Caller -> Nat]
  <2>1. /\ UNCHANGED <<average, samples>>
        /\ \A r \in Caller : place'[r] \in {"storing", "answered"} =>
             place'[r] = place[r] /\ backend'[r] = backend[r] /\ computed'[r] = computed[r]
        /\ computed' \in [Caller -> Nat]
    BY <1>3 DEF M!Select, M!ConnectFails, M!Connected, M!Answered, M!Broken,
                M!StreamEnded, M!Finish, M!Goto
  <2> QED BY <2>1
<1>4. CASE UNCHANGED M!vars
  BY <1>4 DEF M!vars, M!request
<1> QED BY <1>1, <1>2, <1>3, <1>4 DEF M!Next, M!Step

-----------------------------------------------------------------------------
\* The rest of the invariant: who has a stream, and the types.
LEMMA StreamStep ==
  ASSUME M!Parameters, MetricsInv, [M!Next]_M!vars
  PROVE  StreamInv'
<1> USE DEF MetricsInv, M!TypeOK, StreamInv
<1>1. ASSUME NEW q \in Caller, NEW b \in Backend, M!Select(q, b) PROVE StreamInv'
  BY <1>1 DEF M!Select, M!Goto
<1>2. ASSUME NEW q \in Caller, M!ConnectFails(q) PROVE StreamInv'
  BY <1>2 DEF M!ConnectFails, M!Goto
<1>3. ASSUME NEW q \in Caller, M!Connected(q) PROVE StreamInv'
  BY <1>3 DEF M!Connected, M!Goto
<1>4. ASSUME NEW q \in Caller, NEW latency \in Latencies, M!LoadAverage(q, latency)
      PROVE  StreamInv'
  BY <1>4 DEF M!LoadAverage, M!Goto
<1>5. ASSUME NEW q \in Caller, M!StoreAverage(q) PROVE StreamInv'
  BY <1>5 DEF M!StoreAverage, M!Goto
<1>6. ASSUME NEW q \in Caller, M!Answered(q) \/ M!Broken(q) PROVE StreamInv'
  BY <1>6 DEF M!Answered, M!Broken, M!StreamEnded, M!Goto
<1>7. ASSUME NEW q \in Caller, M!Finish(q) PROVE StreamInv'
  BY <1>7 DEF M!Finish, M!Goto
<1>8. CASE UNCHANGED M!vars
  BY <1>8 DEF M!vars, M!request
<1> QED BY <1>1, <1>2, <1>3, <1>4, <1>5, <1>6, <1>7, <1>8 DEF M!Next, M!Step

LEMMA TypeStep ==
  ASSUME M!Parameters, MetricsInv, [M!Next]_M!vars
  PROVE  M!TypeOK'
<1>1. average' \in [Backend -> Nat] /\ computed' \in [Caller -> Nat]
  BY AverageStep
<1>2. ASSUME NEW n \in Nat PROVE n % Modulus \in 0 .. Modulus - 1
  BY DEF M!Parameters
<1> USE DEF MetricsInv, M!TypeOK, StreamInv
<1>3. ASSUME NEW q \in Caller, NEW b \in Backend, M!Select(q, b) PROVE M!TypeOK'
  BY <1>1, <1>3 DEF M!Select, M!Goto
<1>4. ASSUME NEW q \in Caller, M!ConnectFails(q) PROVE M!TypeOK'
  BY <1>1, <1>4 DEF M!ConnectFails, M!Goto
<1>5. ASSUME NEW q \in Caller, M!Connected(q) PROVE M!TypeOK'
  <2>1. backend[q] \in Backend /\ count[backend[q]] + 1 \in Nat
    BY <1>5 DEF M!Connected, M!Goto, M!Parameters
  <2>2. (count[backend[q]] + 1) % Modulus \in 0 .. Modulus - 1
    BY <1>2, <2>1
  <2> QED BY <1>1, <1>5, <2>1, <2>2 DEF M!Connected, M!Goto
<1>6. ASSUME NEW q \in Caller, NEW latency \in Latencies, M!LoadAverage(q, latency)
      PROVE  M!TypeOK'
  BY <1>1, <1>6 DEF M!LoadAverage, M!Goto
<1>7. ASSUME NEW q \in Caller, M!StoreAverage(q) PROVE M!TypeOK'
  BY <1>1, <1>7 DEF M!StoreAverage, M!Goto
<1>8. ASSUME NEW q \in Caller, M!Answered(q) \/ M!Broken(q) PROVE M!TypeOK'
  <2>1. backend[q] \in Backend /\ count[backend[q]] + Modulus - 1 \in Nat
    BY <1>8 DEF M!Answered, M!Broken, M!StreamEnded, M!Goto, M!Parameters
  <2>2. (count[backend[q]] + Modulus - 1) % Modulus \in 0 .. Modulus - 1
    BY <1>2, <2>1
  <2> QED BY <1>1, <1>8, <2>1, <2>2 DEF M!Answered, M!Broken, M!StreamEnded, M!Goto
<1>9. ASSUME NEW q \in Caller, M!Finish(q) PROVE M!TypeOK'
  BY <1>1, <1>9 DEF M!Finish, M!Goto
<1>10. CASE UNCHANGED M!vars
  BY <1>10 DEF M!vars, M!request
<1> QED BY <1>3, <1>4, <1>5, <1>6, <1>7, <1>8, <1>9, <1>10 DEF M!Next, M!Step

LEMMA CountStep ==
  ASSUME M!Parameters, MetricsInv, [M!Next]_M!vars
  PROVE  M!StreamsCounted'
<1>1. CASE UNCHANGED <<count, stream>>
  BY <1>1, CountUnmoved DEF MetricsInv
<1>2. ASSUME NEW q \in Caller, M!Connected(q) PROVE M!StreamsCounted'
  BY <1>2, CountUp
<1>3. ASSUME NEW q \in Caller, M!Answered(q) \/ M!Broken(q) PROVE M!StreamsCounted'
  BY <1>3, CountDown
<1>4. ASSUME NEW q \in Caller,
             \/ \E b \in Backend : M!Select(q, b)
             \/ \E latency \in Latencies : M!LoadAverage(q, latency)
             \/ M!ConnectFails(q) \/ M!StoreAverage(q) \/ M!Finish(q)
      PROVE  UNCHANGED <<count, stream>>
  BY <1>4 DEF M!Select, M!LoadAverage, M!ConnectFails, M!StoreAverage, M!Finish
<1>5. CASE UNCHANGED M!vars
  BY <1>1, <1>5 DEF M!vars
<1> QED BY <1>1, <1>2, <1>3, <1>4, <1>5 DEF M!Next, M!Step

\* The inductive invariant of the metrics holds in every behaviour.
THEOREM MetricsInvariance ==
  ASSUME M!Parameters
  PROVE  M!Spec => []MetricsInv
<1>1. M!Init => MetricsInv
  BY InitMetrics
<1>2. MetricsInv /\ [M!Next]_M!vars => MetricsInv'
  BY StreamStep, TypeStep, CountStep, AverageStep DEF MetricsInv
<1> QED BY <1>1, <1>2, PTL DEF M!Spec

-----------------------------------------------------------------------------
(***************************************************************************)
(* The health checks, for any number of them side by side, of connections  *)
(* and of pieces of a body, and any answers.                               *)
(***************************************************************************)

ProbePlaces == {"idle", "connect", "request", "header", "validate", "drain", "release"}

ProbeContext ==
  [pc : ProbePlaces, kind : {"tcp", "http"}, check : Nat,
   conn : Connection \cup {NoConnection}, heard : H!Part,
   verdict : {"none", "ok", "failed"}]

\* What is left of an answer to check k: its end is the last part.
Rest(w, k) ==
  /\ Len(w) >= 1
  /\ \A i \in 1 .. Len(w) : w[i].of = k /\ (w[i].kind = "end" <=> i = Len(w))

\* All of the answer.
Whole(w, k) == Rest(w, k) /\ Len(w) >= 2 /\ w[1].kind = "header"

\* What a check has to do with its connection at its place: o is owed there,
\* w on the wire.
Suits(d, o, w) ==
  /\ d.pc \in {"request", "release"} => o = <<>> /\ w = <<>>
  /\ d.pc = "header" =>
       \/ o = <<d.check>> /\ w = <<>>
       \/ o = <<>> /\ Whole(w, d.check)
  /\ d.pc \in {"validate", "drain"} => o = <<>> /\ Rest(w, d.check)
  /\ d.pc \in {"validate", "drain", "release"} => d.heard.of = d.check
  /\ d.pc = "validate" => d.heard.kind = "header"

ProbePlaceInv ==
  \A p \in Prober :
    /\ prober[p].pc \in {"idle", "connect"} <=> prober[p].conn = NoConnection
    /\ prober[p].conn # NoConnection =>
         Suits(prober[p], owed[prober[p].conn], wire[prober[p].conn])

\* A connection has one user, or none and then nothing is under way on it.
ConnectionInv ==
  /\ \A p, q \in Prober :
       prober[p].conn = prober[q].conn /\ prober[p].conn # NoConnection => p = q
  /\ \A c \in Connection : c \notin H!InUse => owed[c] = <<>> /\ wire[c] = <<>>
  /\ pool \cap H!InUse = {}

ProbeInv == H!TypeOK /\ ConnectionInv /\ ProbePlaceInv

-----------------------------------------------------------------------------
LEMMA InitProbe == ASSUME H!Parameters, H!Init PROVE ProbeInv
<1>1. H!NoPart \in H!Part
  BY DEF H!NoPart, H!Part
<1>2. H!Idle \in ProbeContext
  BY <1>1 DEF H!Idle, ProbeContext, ProbePlaces
<1>3. H!TypeOK
  BY <1>2 DEF H!Init, H!TypeOK, H!Parameters, ProbeContext, ProbePlaces
<1>4. \A p \in Prober : prober[p] = H!Idle
  BY DEF H!Init
<1>5. ConnectionInv
  BY <1>4 DEF H!Init, ConnectionInv, H!InUse, H!Idle
<1>6. ProbePlaceInv
  <2>1. H!Idle.pc = "idle" /\ H!Idle.conn = NoConnection
    BY DEF H!Idle
  <2> QED BY <1>4, <2>1 DEF ProbePlaceInv
<1> QED BY <1>3, <1>5, <1>6 DEF ProbeInv

\* A check changes its own context, and of connections its own one at most:
\* one it keeps, drops, or takes.
LEMMA ProbeMove ==
  ASSUME H!Parameters, ProbeInv, NEW p \in Prober, NEW d \in ProbeContext,
         prober' = [prober EXCEPT ![p] = d],
         owed' \in [Connection -> Seq(Nat)], wire' \in [Connection -> Seq(H!Part)],
         \A c \in Connection :
           c # prober[p].conn => owed'[c] = owed[c] /\ wire'[c] = wire[c],
         \A c \in Connection :
           c = prober[p].conn /\ c # d.conn => owed'[c] = <<>> /\ wire'[c] = <<>>,
         d.conn \in {prober[p].conn, NoConnection} \/ d.conn \notin H!InUse,
         d.conn \notin pool',
         pool' \subseteq Connection,
         \A c \in pool' : c \in pool \/ c = prober[p].conn,
         reuse' \in BOOLEAN, checks' \in 0 .. MaxChecks,
         d.pc \in {"idle", "connect"} <=> d.conn = NoConnection,
         d.conn # NoConnection => Suits(d, owed'[d.conn], wire'[d.conn])
  PROVE  ProbeInv'
<1>1. prober'[p] = d /\ \A q \in Prober \ {p} : prober'[q] = prober[q]
  BY DEF ProbeInv, H!TypeOK
<1>2. H!TypeOK'
  BY DEF ProbeInv, H!TypeOK, ProbeContext, ProbePlaces
<1>3. \A q \in Prober : prober[q].conn \in Connection \cup {NoConnection}
  BY DEF ProbeInv, H!TypeOK
<1>4. ASSUME NEW q \in Prober \ {p}, prober[q].conn # NoConnection
      PROVE  Suits(prober[q], owed'[prober[q].conn], wire'[prober[q].conn])
  <2>1. prober[q].conn # prober[p].conn
    BY <1>4 DEF ProbeInv, ConnectionInv
  <2>2. owed'[prober[q].conn] = owed[prober[q].conn]
        /\ wire'[prober[q].conn] = wire[prober[q].conn]
    BY <1>3, <1>4, <2>1
  <2> QED BY <1>4, <2>2 DEF ProbeInv, ProbePlaceInv
<1>5. ProbePlaceInv'
  BY <1>1, <1>4 DEF ProbeInv, ProbePlaceInv
<1>6. ASSUME NEW q \in Prober \ {p}, d.conn = prober[q].conn PROVE d.conn = NoConnection
  BY <1>6 DEF ProbeInv, ConnectionInv, H!InUse
<1>7. \A q, s \in Prober :
        prober'[q].conn = prober'[s].conn /\ prober'[q].conn # NoConnection => q = s
  BY <1>1, <1>6 DEF ProbeInv, ConnectionInv
<1>8. ASSUME NEW c \in Connection, c \notin H!InUse' PROVE owed'[c] = <<>> /\ wire'[c] = <<>>
  <2>1. c # d.conn /\ \A q \in Prober \ {p} : c # prober[q].conn
    BY <1>1, <1>8 DEF H!InUse
  <2>2. CASE c = prober[p].conn
    BY <2>1, <2>2
  <2>3. CASE c # prober[p].conn
    <3>1. c \notin H!InUse
      BY <2>1, <2>3 DEF H!InUse
    <3> QED BY <2>3, <3>1 DEF ProbeInv, ConnectionInv
  <2> QED BY <2>2, <2>3
<1>9. pool' \cap H!InUse' = {}
  <2> SUFFICES ASSUME NEW q \in Prober, prober'[q].conn \in pool' PROVE FALSE
    BY DEF H!InUse
  <2>1. q # p /\ prober'[q] = prober[q]
    BY <1>1
  <2>2. prober[q].conn \in Connection /\ prober[q].conn # NoConnection
    BY <2>1 DEF H!Parameters
  <2>3. prober[q].conn \in pool \/ prober[q].conn = prober[p].conn
    BY <2>1
  <2> QED BY <2>1, <2>2, <2>3 DEF ProbeInv, ConnectionInv, H!InUse
<1> QED BY <1>2, <1>5, <1>7, <1>8, <1>9 DEF ProbeInv, ConnectionInv

\* What a check is, with a connection and without one.
LEMMA ProbePlace ==
  ASSUME ProbeInv, NEW p \in Prober
  PROVE  /\ prober[p] \in ProbeContext
         /\ prober[p].pc \notin {"idle", "connect"} =>
              /\ prober[p].conn \in Connection /\ prober[p].conn # NoConnection
              /\ prober[p].conn \in H!InUse /\ prober[p].conn \notin pool
              /\ Suits(prober[p], owed[prober[p].conn], wire[prober[p].conn])
<1>1. prober[p] \in ProbeContext
  BY DEF ProbeInv, H!TypeOK, ProbeContext, ProbePlaces
<1>2. ASSUME prober[p].pc \notin {"idle", "connect"}
      PROVE  /\ prober[p].conn \in Connection /\ prober[p].conn # NoConnection
             /\ Suits(prober[p], owed[prober[p].conn], wire[prober[p].conn])
  BY <1>1, <1>2 DEF ProbeInv, ProbePlaceInv, ProbeContext
<1>3. prober[p].conn \in H!InUse
  BY DEF H!InUse
<1>4. prober[p].conn \notin pool
  BY <1>3 DEF ProbeInv, ConnectionInv
<1> QED BY <1>1, <1>2, <1>3, <1>4

LEMMA ProbeTypes ==
  ASSUME ProbeInv
  PROVE  /\ owed \in [Connection -> Seq(Nat)] /\ wire \in [Connection -> Seq(H!Part)]
         /\ pool \subseteq Connection /\ reuse \in BOOLEAN /\ checks \in 0 .. MaxChecks
         /\ prober = [q \in Prober |-> prober[q]]
BY DEF ProbeInv, H!TypeOK

\* A check that keeps its connection.
LEMMA ProbeKeeps ==
  ASSUME H!Parameters, ProbeInv, NEW p \in Prober, NEW c \in Connection, c = prober[p].conn,
         NEW d \in ProbeContext, d.conn = c, d.pc \notin {"idle", "connect"}, c \notin pool,
         prober' = [prober EXCEPT ![p] = d],
         owed' \in [Connection -> Seq(Nat)], wire' \in [Connection -> Seq(H!Part)],
         \A x \in Connection : x # c => owed'[x] = owed[x] /\ wire'[x] = wire[x],
         UNCHANGED <<reuse, pool, checks>>,
         Suits(d, owed'[c], wire'[c])
  PROVE  ProbeInv'
<1>1. d.conn # NoConnection /\ d.conn \notin pool'
  BY DEF H!Parameters
<1>2. \A x \in Connection : ~(x = prober[p].conn /\ x # d.conn)
  OBVIOUS
<1>3. pool' \subseteq Connection /\ reuse' \in BOOLEAN /\ checks' \in 0 .. MaxChecks
  BY ProbeTypes
<1> QED BY <1>1, <1>2, <1>3, ProbeMove

\* What a read takes and what it leaves.
LEMMA RestTail ==
  ASSUME NEW w \in Seq(H!Part), NEW k, Rest(w, k)
  PROVE  /\ w # <<>> /\ Head(w) = w[1] /\ Head(w) \in H!Part /\ Tail(w) \in Seq(H!Part)
         /\ Head(w).of = k
         /\ Head(w).kind = "end" => Tail(w) = <<>>
         /\ Head(w).kind # "end" => Rest(Tail(w), k)
<1>1. Len(w) \in Nat /\ Len(w) >= 1 /\ w # <<>>
  BY DEF Rest
<1>2. /\ Head(w) = w[1] /\ Head(w) \in H!Part /\ Tail(w) \in Seq(H!Part)
      /\ Len(Tail(w)) = Len(w) - 1
      /\ \A i \in 1 .. Len(Tail(w)) : Tail(w)[i] = w[i + 1]
  BY <1>1
<1>3. w[1].of = k /\ (w[1].kind = "end" <=> 1 = Len(w))
  <2>1. 1 \in 1 .. Len(w)
    BY <1>1
  <2>2. \A i \in 1 .. Len(w) : w[i].of = k /\ (w[i].kind = "end" <=> i = Len(w))
    BY DEF Rest
  <2> QED BY <2>1, <2>2, Zenon
<1>4. ASSUME Len(w) = 1 PROVE Tail(w) = <<>>
  <2>1. Tail(w) \in Seq(H!Part) /\ Len(Tail(w)) = 0
    BY <1>1, <1>2, <1>4
  <2> QED BY <2>1, EmptySeq
<1>5. ASSUME Len(w) # 1 PROVE Rest(Tail(w), k)
  <2>1. Len(Tail(w)) >= 1
    BY <1>1, <1>2, <1>5
  <2>2. ASSUME NEW i \in 1 .. Len(Tail(w))
        PROVE  Tail(w)[i].of = k /\ (Tail(w)[i].kind = "end" <=> i = Len(Tail(w)))
    <3>1. i + 1 \in 1 .. Len(w) /\ Tail(w)[i] = w[i + 1]
      BY <1>1, <1>2
    <3>2. w[i + 1].of = k /\ (w[i + 1].kind = "end" <=> i + 1 = Len(w))
      BY <3>1 DEF Rest
    <3>3. i + 1 = Len(w) <=> i = Len(Tail(w))
      BY <1>1, <1>2
    <3> QED BY <3>1, <3>2, <3>3
  <2> QED BY <2>1, <2>2 DEF Rest
<1> QED BY <1>1, <1>2, <1>3, <1>4, <1>5

LEMMA StartSafe ==
  ASSUME H!Parameters, ProbeInv, NEW p \in Prober, NEW kind \in {"tcp", "http"},
         H!Start(p, kind)
  PROVE  ProbeInv'
<1> DEFINE d == [H!Idle EXCEPT !.pc = "connect", !.kind = kind, !.check = checks + 1]
<1>1. H!NoPart \in H!Part
  BY DEF H!NoPart, H!Part
<1>2. H!Idle \in ProbeContext /\ H!Idle.conn = NoConnection
  BY <1>1 DEF H!Idle, ProbeContext, ProbePlaces
<1>3. checks + 1 \in Nat /\ checks + 1 \in 0 .. MaxChecks
  BY ProbeTypes DEF H!Start, H!Parameters
<1>4. d \in ProbeContext /\ d.conn = NoConnection /\ d.pc = "connect"
  BY <1>2, <1>3 DEF ProbeContext, ProbePlaces
<1>5. prober[p].conn = NoConnection
  BY DEF H!Start, ProbeInv, ProbePlaceInv
<1>6. prober' = [prober EXCEPT ![p] = d] /\ checks' = checks + 1
      /\ UNCHANGED <<reuse, pool, owed, wire>>
  BY DEF H!Start
<1> HIDE DEF d
<1> QED BY <1>3, <1>4, <1>5, <1>6, ProbeTypes, ProbeMove DEF H!Parameters

\* Whatever the place, a check that ends drops its connection.
LEMMA DropSafe ==
  ASSUME H!Parameters, ProbeInv, NEW p \in Prober, NEW v \in {"ok", "failed"}, H!Drop(p, v)
  PROVE  ProbeInv'
<1> DEFINE c == prober[p].conn
           d == [prober[p] EXCEPT !.pc = "idle", !.conn = NoConnection, !.verdict = v]
<1>1. d \in ProbeContext /\ d.conn = NoConnection /\ d.pc = "idle"
  BY ProbePlace DEF ProbeContext, ProbePlaces
<1>2. /\ prober' = [prober EXCEPT ![p] = d]
      /\ owed' = [x \in Connection |-> IF x = c THEN <<>> ELSE owed[x]]
      /\ wire' = [x \in Connection |-> IF x = c THEN <<>> ELSE wire[x]]
      /\ UNCHANGED <<reuse, pool, checks>>
  BY ProbeTypes DEF H!Drop
<1>3. owed' \in [Connection -> Seq(Nat)] /\ wire' \in [Connection -> Seq(H!Part)]
  BY <1>2, ProbeTypes
<1> HIDE DEF d, c
<1>4. NoConnection \notin pool
  BY ProbeTypes DEF H!Parameters
<1> QED BY <1>1, <1>2, <1>3, <1>4, ProbeTypes, ProbeMove DEF c

LEMMA ConnectedSafe ==
  ASSUME H!Parameters, ProbeInv, NEW p \in Prober, NEW c \in Connection, H!Connected(p, c)
  PROVE  ProbeInv'
<1> DEFINE d == [prober[p] EXCEPT !.pc = "request", !.conn = c]
<1>1. d \in ProbeContext /\ d.conn = c /\ d.pc = "request"
  BY ProbePlace DEF ProbeContext, ProbePlaces
<1>2. /\ prober' = [prober EXCEPT ![p] = d]
      /\ pool' = pool \ {c}
      /\ UNCHANGED <<reuse, owed, wire, checks>>
  BY ProbeTypes DEF H!Connected
<1>3. c \notin H!InUse /\ c # NoConnection
  BY DEF H!Connected, ProbeInv, ConnectionInv, H!Parameters
<1>4. owed[c] = <<>> /\ wire[c] = <<>>
  BY <1>3 DEF ProbeInv, ConnectionInv
<1>5. prober[p].conn = NoConnection
  BY DEF H!Connected, ProbeInv, ProbePlaceInv
<1>6. Suits(d, owed[c], wire[c])
  BY <1>1, <1>4 DEF Suits
<1> HIDE DEF d
<1> QED BY <1>1, <1>2, <1>3, <1>5, <1>6, ProbeTypes, ProbeMove DEF H!Parameters

LEMMA SendRequestSafe ==
  ASSUME H!Parameters, ProbeInv, NEW p \in Prober, H!SendRequest(p)
  PROVE  ProbeInv'
<1> DEFINE c == prober[p].conn
           d == [prober[p] EXCEPT !.pc = "header"]
<1>1. /\ prober[p].pc = "request" /\ prober[p] \in ProbeContext
      /\ c \in Connection /\ c # NoConnection /\ c \notin pool
      /\ owed[c] = <<>> /\ wire[c] = <<>>
  BY ProbePlace DEF H!SendRequest, Suits
<1>2. d \in ProbeContext /\ d.conn = c /\ d.pc = "header" /\ d.check = prober[p].check
      /\ d.check \in Nat
  BY <1>1 DEF ProbeContext, ProbePlaces
<1>3. /\ prober' = [prober EXCEPT ![p] = d]
      /\ owed' = [owed EXCEPT ![c] = Append(@, d.check)]
      /\ UNCHANGED <<reuse, pool, wire, checks>>
  BY <1>2, ProbeTypes DEF H!SendRequest
<1> HIDE DEF d
<1>4. owed'[c] = <<d.check>> /\ owed' \in [Connection -> Seq(Nat)]
  BY <1>1, <1>2, <1>3, ProbeTypes
<1>5. Suits(d, owed'[c], wire'[c])
  BY <1>1, <1>2, <1>3, <1>4 DEF Suits
<1>6. \A x \in Connection : x # c => owed'[x] = owed[x] /\ wire'[x] = wire[x]
  BY <1>3, ProbeTypes
<1>7. wire' \in [Connection -> Seq(H!Part)] /\ d.pc \notin {"idle", "connect"}
  BY <1>2, <1>3, ProbeTypes
<1> HIDE DEF c
<1> QED BY <1>1, <1>2, <1>3, <1>4, <1>5, <1>6, <1>7, ProbeKeeps DEF c

\* A read takes the first part; what stays is still the rest of the answer.
LEMMA ReadSafe ==
  ASSUME H!Parameters, ProbeInv, NEW p \in Prober, NEW there \in ProbePlaces, H!Read(p, there),
         \/ prober[p].pc = "header" /\ there = "validate"
         \/ prober[p].pc = "drain" /\
              there = IF Head(H!Unread(p)).kind = "end" THEN "release" ELSE "drain"
  PROVE  ProbeInv'
<1> DEFINE c == prober[p].conn
           w == wire[c]
           d == [prober[p] EXCEPT !.pc = there, !.heard = Head(w)]
<1>1. /\ prober[p] \in ProbeContext /\ c \in Connection /\ c # NoConnection /\ c \notin pool
      /\ Suits(prober[p], owed[c], w)
  BY ProbePlace
<1>2. w \in Seq(H!Part) /\ w # <<>>
  BY <1>1, ProbeTypes DEF H!Read, H!Unread
<1>3. /\ owed[c] = <<>> /\ Rest(w, prober[p].check)
      /\ prober[p].pc = "header" => w[1].kind = "header"
  BY <1>1, <1>2 DEF Suits, Whole
<1>4. /\ Head(w) \in H!Part /\ Head(w) = w[1] /\ Tail(w) \in Seq(H!Part)
      /\ Head(w).of = prober[p].check
      /\ Head(w).kind = "end" => Tail(w) = <<>>
      /\ Head(w).kind # "end" => Rest(Tail(w), prober[p].check)
  BY <1>2, <1>3, RestTail
<1>5. d \in ProbeContext /\ d.conn = c /\ d.pc = there /\ d.check = prober[p].check
      /\ d.heard = Head(w)
  BY <1>1, <1>4 DEF ProbeContext
<1>6. /\ prober' = [prober EXCEPT ![p] = d]
      /\ wire' = [wire EXCEPT ![c] = Tail(w)]
      /\ UNCHANGED <<reuse, pool, owed, checks>>
  BY ProbeTypes DEF H!Read, H!Unread
<1>7. there = IF prober[p].pc = "header" THEN "validate"
              ELSE IF Head(w).kind = "end" THEN "release" ELSE "drain"
  BY DEF H!Unread
<1> HIDE DEF d
<1>8. wire'[c] = Tail(w) /\ owed'[c] = <<>>
  BY <1>1, <1>3, <1>6, ProbeTypes
<1> HIDE DEF w
<1>9. Suits(d, <<>>, Tail(w))
  <2>1. CASE prober[p].pc = "header"
    <3>1. Head(w).kind = "header" /\ there = "validate"
      BY <1>3, <1>4, <1>7, <2>1
    <3>2. Rest(Tail(w), d.check)
      BY <1>4, <1>5, <3>1
    <3> QED BY <1>4, <1>5, <3>1, <3>2 DEF Suits
  <2>2. CASE prober[p].pc # "header" /\ Head(w).kind = "end"
    BY <1>4, <1>5, <1>7, <2>2 DEF Suits
  <2>3. CASE prober[p].pc # "header" /\ Head(w).kind # "end"
    BY <1>4, <1>5, <1>7, <2>3 DEF Suits
  <2> QED BY <2>1, <2>2, <2>3
<1>10. /\ owed' \in [Connection -> Seq(Nat)] /\ wire' \in [Connection -> Seq(H!Part)]
       /\ \A x \in Connection : x # c => owed'[x] = owed[x] /\ wire'[x] = wire[x]
  BY <1>4, <1>6, ProbeTypes
<1>11. d.pc \notin {"idle", "connect"}
  BY <1>5, <1>7
<1> HIDE DEF c
<1> QED BY <1>1, <1>5, <1>6, <1>8, <1>9, <1>10, <1>11, ProbeKeeps DEF c

LEMMA ValidSafe ==
  ASSUME H!Parameters, ProbeInv, NEW p \in Prober, H!Valid(p)
  PROVE  ProbeInv'
<1> DEFINE c == prober[p].conn
           d == [prober[p] EXCEPT !.pc = "drain"]
<1>1. /\ prober[p].pc = "validate" /\ prober[p] \in ProbeContext
      /\ c \in Connection /\ c # NoConnection /\ c \notin pool
      /\ Suits(prober[p], owed[c], wire[c])
  BY ProbePlace DEF H!Valid
<1>2. d \in ProbeContext /\ d.conn = c /\ d.pc = "drain" /\ d.check = prober[p].check
      /\ d.heard = prober[p].heard
  BY <1>1 DEF ProbeContext, ProbePlaces
<1>3. prober' = [prober EXCEPT ![p] = d] /\ UNCHANGED <<reuse, pool, owed, wire, checks>>
  BY ProbeTypes DEF H!Valid
<1>4. Suits(d, owed[c], wire[c])
  BY <1>1, <1>2 DEF Suits
<1> HIDE DEF d, c
<1> QED BY <1>1, <1>2, <1>3, <1>4, ProbeTypes, ProbeMove DEF c

\* Only a connection whose answer was read to its end goes back to the pool.
LEMMA ReleaseSafe ==
  ASSUME H!Parameters, ProbeInv, NEW p \in Prober, H!Release(p)
  PROVE  ProbeInv'
<1> DEFINE c == prober[p].conn
           d == [prober[p] EXCEPT !.pc = "idle", !.conn = NoConnection, !.verdict = "ok"]
<1>1. /\ prober[p].pc = "release" /\ prober[p] \in ProbeContext
      /\ c \in Connection /\ c # NoConnection
      /\ owed[c] = <<>> /\ wire[c] = <<>>
  BY ProbePlace DEF H!Release, Suits
<1>2. d \in ProbeContext /\ d.conn = NoConnection /\ d.pc = "idle"
  BY <1>1 DEF ProbeContext, ProbePlaces
<1>3. /\ prober' = [prober EXCEPT ![p] = d] /\ pool' = pool \cup {c}
      /\ UNCHANGED <<reuse, owed, wire, checks>>
  BY ProbeTypes DEF H!Release
<1>4. pool' \subseteq Connection /\ NoConnection \notin pool'
  BY <1>1, <1>3, ProbeTypes DEF H!Parameters
<1> HIDE DEF d, c
<1> QED BY <1>1, <1>2, <1>3, <1>4, ProbeTypes, ProbeMove DEF c

\* An answer goes to the check that waits for it, all of it.
LEMMA AnswerSafe ==
  ASSUME H!Parameters, ProbeInv, NEW c \in Connection, NEW s \in Statuses,
         NEW n \in 0 .. MaxBody, H!Answer(c, s, n)
  PROVE  ProbeInv'
<1>1. PICK p \in Prober : prober[p].conn = c
  BY DEF H!Answer, ProbeInv, ConnectionInv, H!InUse
<1>2. /\ prober[p].pc = "header" /\ owed[c] = <<prober[p].check>> /\ wire[c] = <<>>
      /\ prober[p].check \in Nat /\ c # NoConnection
  <2>1. prober[p].pc \notin {"idle", "connect"} /\ prober[p] \in ProbeContext
    BY <1>1, ProbePlace DEF ProbeInv, ProbePlaceInv, H!Parameters
  <2>2. Suits(prober[p], owed[c], wire[c]) /\ owed[c] # <<>>
    BY <1>1, <2>1, ProbePlace DEF H!Answer
  <2> QED BY <2>1, <2>2 DEF Suits, ProbeContext, ProbePlaces, H!Parameters
<1> DEFINE k == prober[p].check
           piece(kind) == [of |-> k, kind |-> kind, status |-> s]
           body == [i \in 1 .. n |-> piece("body")]
           w == <<piece("header")>> \o body \o <<piece("end")>>
<1>3. \A kind \in {"header", "body", "end"} : piece(kind) \in H!Part
  BY <1>2 DEF H!Part, H!Parameters
<1>4. /\ <<piece("header")>> \in Seq(H!Part) /\ <<piece("end")>> \in Seq(H!Part)
      /\ body \in Seq(H!Part) /\ Len(body) = n /\ n \in Nat
  BY <1>3 DEF H!Parameters
<1>5. owed' = [owed EXCEPT ![c] = <<>>] /\ wire' = [wire EXCEPT ![c] = w]
  <2>1. Head(owed[c]) = k /\ Tail(owed[c]) = <<>>
    BY <1>2
  <2>2. wire[c] \o <<piece("header")>> = <<piece("header")>>
    BY <1>2, <1>4
  <2> QED BY <1>2, <2>1, <2>2, ProbeTypes DEF H!Answer
<1>6. /\ w \in Seq(H!Part) /\ Len(w) = n + 2
      /\ w[1] = piece("header") /\ w[n + 2] = piece("end")
      /\ \A i \in 2 .. n + 1 : w[i] = piece("body")
  BY <1>4
<1>7. Whole(w, k)
  <2>1. ASSUME NEW i \in 1 .. n + 2 PROVE w[i].of = k /\ (w[i].kind = "end" <=> i = n + 2)
    <3>1. i = 1 \/ i \in 2 .. n + 1 \/ i = n + 2
      BY <1>4
    <3> QED BY <1>4, <1>6, <3>1
  <2>2. Rest(w, k)
    BY <1>4, <1>6, <2>1 DEF Rest
  <2> QED BY <1>4, <1>6, <2>2 DEF Whole
<1> HIDE DEF w
<1>8. /\ owed'[c] = <<>> /\ wire'[c] = w
      /\ \A x \in Connection : x # c => owed'[x] = owed[x] /\ wire'[x] = wire[x]
      /\ owed' \in [Connection -> Seq(Nat)] /\ wire' \in [Connection -> Seq(H!Part)]
  BY <1>5, <1>6, ProbeTypes
<1>9. UNCHANGED <<reuse, pool, checks, prober>>
  BY DEF H!Answer
<1>10. Suits(prober[p], <<>>, w)
  BY <1>2, <1>7 DEF Suits
<1>11. ProbePlaceInv'
  <2> SUFFICES ASSUME NEW q \in Prober, prober[q].conn # NoConnection
               PROVE  Suits(prober[q], owed'[prober[q].conn], wire'[prober[q].conn])
    BY <1>9 DEF ProbeInv, ProbePlaceInv
  <2>1. CASE prober[q].conn = c
    <3>1. q = p
      BY <1>1, <1>2, <2>1 DEF ProbeInv, ConnectionInv
    <3> QED BY <1>1, <1>8, <1>10, <3>1
  <2>2. CASE prober[q].conn # c
    <3>1. prober[q].conn \in Connection
      BY DEF ProbeInv, H!TypeOK
    <3> QED BY <1>8, <2>2, <3>1 DEF ProbeInv, ProbePlaceInv
  <2> QED BY <2>1, <2>2
<1>12. ConnectionInv'
  <2>1. c \in H!InUse
    BY <1>1 DEF H!InUse
  <2>2. H!InUse' = H!InUse
    BY <1>9 DEF H!InUse
  <2>3. \A x \in Connection : x \notin H!InUse => owed'[x] = <<>> /\ wire'[x] = <<>>
    BY <1>8, <2>1 DEF ProbeInv, ConnectionInv
  <2> QED BY <1>9, <2>2, <2>3 DEF ProbeInv, ConnectionInv
<1>13. H!TypeOK'
  BY <1>8, <1>9 DEF ProbeInv, H!TypeOK
<1> QED BY <1>11, <1>12, <1>13 DEF ProbeInv

LEMMA IdleTimeoutSafe ==
  ASSUME ProbeInv, NEW c \in Connection, H!IdleTimeout(c)
  PROVE  ProbeInv'
<1>1. /\ c \in pool /\ c \notin H!InUse
      /\ pool' = pool \ {c} /\ UNCHANGED <<reuse, checks, prober>>
      /\ owed' = [owed EXCEPT ![c] = <<>>] /\ wire' = [wire EXCEPT ![c] = <<>>]
  BY DEF H!IdleTimeout, ProbeInv, ConnectionInv
<1>2. owed[c] = <<>> /\ wire[c] = <<>>
  BY <1>1 DEF ProbeInv, ConnectionInv
<1>3. owed' = owed /\ wire' = wire
  BY <1>1, <1>2, ProbeTypes
<1> QED BY <1>1, <1>3 DEF ProbeInv, H!TypeOK, ConnectionInv, ProbePlaceInv, H!InUse

LEMMA NextProbe ==
  ASSUME H!Parameters, ProbeInv, [H!Next]_H!vars
  PROVE  ProbeInv'
<1>1. ASSUME NEW p \in Prober, NEW kind \in {"tcp", "http"}, H!Start(p, kind) PROVE ProbeInv'
  BY <1>1, StartSafe
<1>2. ASSUME NEW p \in Prober,
             H!TcpConnected(p) \/ H!ConnectFails(p) \/ H!RequestFails(p) \/ H!ReadFails(p)
               \/ H!Refuse(p) \/ H!Done(p)
      PROVE  ProbeInv'
  <2>1. H!Drop(p, "ok") \/ H!Drop(p, "failed")
    BY <1>2 DEF H!TcpConnected, H!ConnectFails, H!RequestFails, H!ReadFails, H!Refuse, H!Done
  <2> QED BY <2>1, DropSafe
<1>3. ASSUME NEW p \in Prober, NEW c \in Connection, H!Connected(p, c) PROVE ProbeInv'
  BY <1>3, ConnectedSafe
<1>4. ASSUME NEW p \in Prober, H!SendRequest(p) PROVE ProbeInv'
  BY <1>4, SendRequestSafe
<1>5. ASSUME NEW p \in Prober, H!ReadHeader(p) PROVE ProbeInv'
  BY <1>5, ReadSafe DEF H!ReadHeader, ProbePlaces
<1>6. ASSUME NEW p \in Prober, H!Valid(p) PROVE ProbeInv'
  BY <1>6, ValidSafe
<1>7. ASSUME NEW p \in Prober, H!Drain(p) PROVE ProbeInv'
  <2> DEFINE there == IF Head(H!Unread(p)).kind = "end" THEN "release" ELSE "drain"
  <2>1. there \in ProbePlaces
    BY DEF ProbePlaces
  <2>2. prober[p].pc = "drain" /\ H!Read(p, there)
    BY <1>7 DEF H!Drain
  <2> QED BY <2>1, <2>2, ReadSafe
<1>8. ASSUME NEW p \in Prober, H!Release(p) PROVE ProbeInv'
  BY <1>8, ReleaseSafe
<1>9. CASE UNCHANGED H!vars
  BY <1>9 DEF H!vars, ProbeInv, H!TypeOK, ConnectionInv, ProbePlaceInv, H!InUse
<1>10. ASSUME NEW p \in Prober, H!Check(p) PROVE ProbeInv'
  BY <1>1, <1>2, <1>3, <1>4, <1>5, <1>6, <1>7, <1>8, <1>10 DEF H!Check
<1> QED BY <1>9, <1>10, AnswerSafe, IdleTimeoutSafe DEF H!Next

(***************************************************************************)
(* The connections of the checks, in every state: one user or none, and    *)
(* nothing left on one that nobody uses.                                   *)
(***************************************************************************)
THEOREM ProbeInvariance == ASSUME H!Parameters PROVE H!Spec => []ProbeInv
<1>1. H!Init => ProbeInv
  BY InitProbe
<1>2. ProbeInv /\ [H!Next]_H!vars => ProbeInv'
  BY NextProbe
<1> QED BY <1>1, <1>2, PTL DEF H!Spec

\* The type invariant of the checks.
THEOREM ProbeTyped == ASSUME H!Parameters PROVE H!Spec => []H!TypeOK
<1>1. ProbeInv => H!TypeOK
  BY DEF ProbeInv
<1> QED BY <1>1, ProbeInvariance, PTL

(***************************************************************************)
(* No check takes the answer to another one's request for its own, however *)
(* many share the pool and whatever they left behind.                      *)
(***************************************************************************)
THEOREM AnswersAreOwn == ASSUME H!Parameters PROVE H!Spec => []H!OwnAnswer
<1>1. ProbeInv => H!OwnAnswer
  <2>1. ASSUME ProbeInv PROVE H!OwnAnswer
    BY <2>1, ProbePlace DEF H!OwnAnswer, Suits
  <2> QED BY <2>1
<1> QED BY <1>1, ProbeInvariance, PTL

-----------------------------------------------------------------------------
(***************************************************************************)
(* The parts together.  The proofs about Routing and Exchange are in       *)
(* modules of their own; what these modules say is instantiated here.      *)
(***************************************************************************)
RP == INSTANCE RoutingProofs
XP == INSTANCE ExchangeProofs WITH Request <- Caller

\* The parts and the modules of their proofs mean the same by the same words.
LEMMA SameRouting ==
  /\ R!Parameters <=> RP!Parameters
  /\ R!Init <=> RP!Init
  /\ [R!Next]_R!vars <=> [RP!Next]_RP!vars
  BY DEF
     R!Entries, RP!Entries, R!Parameters, RP!Parameters, R!tables, RP!tables, R!serving,
     RP!serving, R!reloading, RP!reloading, R!vars, RP!vars, R!Nowhere, RP!Nowhere,
     R!Empty, RP!Empty, R!Put, RP!Put, R!Init, RP!Init, R!Edit, RP!Edit, R!Buildable,
     RP!Buildable, R!RoutesBuilt, RP!RoutesBuilt, R!Failed, RP!Failed, R!ReadRoutes,
     RP!ReadRoutes, R!ReadFails, RP!ReadFails, R!Server, RP!Server, R!RegistryKey,
     RP!RegistryKey, R!RouteKey, RP!RouteKey, R!Built, RP!Built, R!RouterOf,
     RP!RouterOf, R!Conflict, RP!Conflict, R!AddRoute, RP!AddRoute, R!InvalidRoute,
     RP!InvalidRoute, R!Serve, RP!Serve, R!RouteIn, RP!RouteIn, R!RegexIn, RP!RegexIn,
     R!LookUp, RP!LookUp, R!ServerOf, RP!ServerOf, R!ResolveMiss, RP!ResolveMiss,
     R!Evict, RP!Evict, R!EndpointRoute, RP!EndpointRoute, R!SetStrategy,
     RP!SetStrategy, R!Signal, RP!Signal, R!TakeSignal, RP!TakeSignal, R!ReadFile,
     RP!ReadFile, R!Known, RP!Known, R!ReloadRoute, RP!ReloadRoute, R!SkipEntry,
     RP!SkipEntry, R!AbortReload, RP!AbortReload, R!EndReload, RP!EndReload, R!Next,
     RP!Next, R!ToSet, RP!ToSet, R!Min, RP!Min

LEMMA SameExchange ==
  /\ X!Parameters <=> XP!Parameters
  /\ X!Init <=> XP!Init
  /\ [X!Next]_X!vars <=> [XP!Next]_XP!vars
  BY DEF
     X!Names, XP!Names, X!Parameters, XP!Parameters, X!vars, XP!vars, X!Or, XP!Or,
     X!ToRules, XP!ToRules, X!ToUpstreamTls, XP!ToUpstreamTls, X!ToRetry, XP!ToRetry,
     X!ToConfig, XP!ToConfig, X!PlainPeer, XP!PlainPeer, X!Idle, XP!Idle, X!Init,
     XP!Init, X!RequestId, XP!RequestId, X!Arrive, XP!Arrive, X!Cacheable, XP!Cacheable,
     X!CacheHit, XP!CacheHit, X!CacheMiss, XP!CacheMiss, X!CacheExpire, XP!CacheExpire,
     X!WithSettings, XP!WithSettings, X!Peer, XP!Peer, X!Fail, XP!Fail, X!UpstreamPeer,
     XP!UpstreamPeer, X!NoBackend, XP!NoBackend, X!Retries, XP!Retries, X!Retry,
     XP!Retry, X!GiveUp, XP!GiveUp, X!Forwarded, XP!Forwarded, X!Ruled, XP!Ruled,
     X!ApplyRequest, XP!ApplyRequest, X!WithId, XP!WithId, X!HeaderToSend,
     XP!HeaderToSend, X!Send, XP!Send, X!SendAgain, XP!SendAgain, X!MayStore,
     XP!MayStore, X!OriginHeader, XP!OriginHeader, X!StoreHeader, XP!StoreHeader,
     X!Response, XP!Response, X!ResponseId, XP!ResponseId, X!Respond, XP!Respond,
     X!Finish, XP!Finish, X!Reload, XP!Reload, X!Step, XP!Step, X!Next, XP!Next

\* Every part of a behaviour of the whole is a behaviour of the part: the
\* handlers that ProxyParts composes share no state, and what one of them does
\* is a stutter of the others.
THEOREM PartsMove == AllSpec => Spec /\ R!Spec /\ H!Spec /\ M!Spec /\ X!Spec
<1>1. AllInit => Init /\ R!Init /\ H!Init /\ M!Init /\ X!Init
  BY DEF AllInit
<1> USE DEF AllNext, all, admission, routing, probe, metrics, exchanges
<1>2. [AllNext]_all => [Next]_vars
  OBVIOUS
<1>3. [AllNext]_all => [R!Next]_R!vars
  BY DEF R!vars, R!tables, R!serving, R!reloading
<1>4. [AllNext]_all => [H!Next]_H!vars
  BY DEF H!vars
<1>5. [AllNext]_all => [M!Next]_M!vars
  BY DEF M!vars, M!request
<1>6. [AllNext]_all => [X!Next]_X!vars
  BY DEF X!vars
<1> QED
  BY <1>1, <1>2, <1>3, <1>4, <1>5, <1>6, PTL
     DEF AllSpec, Spec, R!Spec, H!Spec, M!Spec, X!Spec

\* The specifications of the instances are the same.
LEMMA SpecsAgree ==
  /\ RP!Parameters /\ XP!Parameters
  /\ R!Spec => RP!Spec
  /\ X!Spec => XP!Spec
<1>1. RP!Parameters /\ XP!Parameters
  BY PartParameters, SameRouting, SameExchange
<1>2. R!Spec => RP!Spec
  <2>1. /\ R!Init => RP!Init
        /\ [R!Next]_R!vars => [RP!Next]_RP!vars
    BY SameRouting
  <2> QED BY <2>1, PTL DEF R!Spec, RP!Spec
<1>3. X!Spec => XP!Spec
  <2>1. /\ X!Init => XP!Init
        /\ [X!Next]_X!vars => [XP!Next]_XP!vars
    BY SameExchange
  <2> QED BY <2>1, PTL DEF X!Spec, XP!Spec
<1> QED BY <1>1, <1>2, <1>3

-----------------------------------------------------------------------------
\* Proxy::resolve finds the route that the file read at startup names for a
\* host and a path, with the case of both hosts ignored and whatever the
\* caches hold.
THEOREM RoutesAsConfigured == AllSpec => []ResolvesAsConfigured
<1>1. RP!Spec => []RP!ResolvesAsConfigured
  BY SpecsAgree, RP!RequestsResolveAsConfigured
<1>2. RP!ResolvesAsConfigured => ResolvesAsConfigured
  BY DEF ResolvesAsConfigured, R!Routes, RP!Routes, R!Nowhere, RP!Nowhere, R!RouteIn,
     RP!RouteIn, R!RegexIn, RP!RegexIn, R!LookUp, RP!LookUp, R!ServerOf, RP!ServerOf,
     R!Resolved, RP!Resolved, R!SameServer, RP!SameServer, R!Serves, RP!Serves,
     R!NamedHost, RP!NamedHost, R!ResolvesAsConfigured, RP!ResolvesAsConfigured,
     R!ToSet, RP!ToSet, R!Min, RP!Min
<1> QED BY <1>1, <1>2, PartsMove, SpecsAgree, PTL

\* The strategy endpoint and the traffic mean the same route: the strategy
\* that Proxy::route was asked for is that of the route which serves the
\* path.
THEOREM StrategiesReachTraffic == AllSpec => []StrategyReachesTraffic
<1>1. RP!Spec => []RP!StrategyReachesTraffic
  BY SpecsAgree, RP!StrategyReaches
<1>2. RP!StrategyReachesTraffic => StrategyReachesTraffic
  BY DEF StrategyReachesTraffic, R!Nowhere, RP!Nowhere, R!RouteIn, RP!RouteIn,
     R!RegexIn, RP!RegexIn, R!LookUp, RP!LookUp, R!ServerOf, RP!ServerOf, R!Resolved,
     RP!Resolved, R!StrategyReachesTraffic, RP!StrategyReachesTraffic, R!Min, RP!Min
<1> QED BY <1>1, <1>2, PartsMove, SpecsAgree, PTL

\* reload replaces the settings of the routes whose entries it walked over,
\* and of no others, also when it ends early.
THEOREM ReloadsAreApplied == AllSpec => []AppliedAsWalked
<1>1. RP!Spec => []RP!AppliedAsWalked
  BY SpecsAgree, RP!ReloadAppliesWalked
<1>2. RP!AppliedAsWalked => AppliedAsWalked
  BY DEF AppliedAsWalked, R!Routes, RP!Routes, R!SameServer, RP!SameServer, R!SameRoute,
     RP!SameRoute, R!Twin, RP!Twin, R!AppliedAsWalked, RP!AppliedAsWalked, R!Max, RP!Max
<1> QED BY <1>1, <1>2, PartsMove, SpecsAgree, PTL

\* No SIGHUP is lost: an idle watcher has read the file at least as late as
\* the last one came.
THEOREM SignalsAreServed == AllSpec => []SignalServed
<1>1. RP!Spec => []RP!SignalServed
  BY SpecsAgree, RP!SignalIsServed
<1>2. RP!SignalServed => SignalServed
  BY DEF SignalServed, R!SignalServed, RP!SignalServed
<1> QED BY <1>1, <1>2, PartsMove, SpecsAgree, PTL

\* The header a health check validates is that of the answer to its own
\* request, whatever is left on a connection that is reused.
THEOREM ProbesHearTheirOwn == AllSpec => []OwnAnswer
<1>1. H!Spec => []H!OwnAnswer
  BY PartParameters, AnswersAreOwn
<1> QED BY <1>1, PartsMove, PTL DEF OwnAnswer

\* ActiveConnections is the number of open streams, modulo 2^64, on every path
\* of failed, broken and repeated attempts: it does not drift.
THEOREM StreamsAreCounted == AllSpec => []StreamsCounted
<1>1. MetricsInv => StreamsCounted
  BY DEF MetricsInv, StreamsCounted
<1>2. M!Spec => []MetricsInv
  BY PartParameters, MetricsInvariance
<1> QED BY <1>1, <1>2, PartsMove, PTL

\* LatencyEWMA, although its load and its store are two steps, is always
\* between two latencies of its backend, or has none yet.
THEOREM AveragesAreWithin == AllSpec => []AverageWithinSamples
<1>1. MetricsInv => AverageWithinSamples
  BY DEF MetricsInv, AverageInv, Within, AverageWithinSamples, M!AverageWithinSamples
<1>2. M!Spec => []MetricsInv
  BY PartParameters, MetricsInvariance
<1> QED BY <1>1, <1>2, PartsMove, PTL

\* apply_request adds the client to X-Forwarded-For once, however many
\* attempts a request has: alone, or after the one line that a trusted client
\* sent.  What it does with several lines AppendsToExisting is about.
THEOREM HeadersAreForwardedOnce == AllSpec => []ForwardedOnce
<1>1. XP!Spec => []XP!ForwardedOnce
  BY SpecsAgree, XP!ForwardedIsOnce
<1>2. XP!ForwardedOnce => ForwardedOnce
  BY DEF ForwardedOnce, X!ForwardedOnce, XP!ForwardedOnce, X!Forwards, XP!Forwards
<1> QED BY <1>1, <1>2, PartsMove, SpecsAgree, PTL

\* The upstream and the client see the id of the request itself, also when
\* the response was stored with another one.
THEOREM RequestsHaveOneId == AllSpec => []OneRequestId
<1>1. XP!Spec => []XP!OneRequestId
  BY SpecsAgree, XP!IdIsOne
<1>2. XP!OneRequestId => OneRequestId
  BY DEF OneRequestId, X!OneRequestId, XP!OneRequestId
<1> QED BY <1>1, <1>2, PartsMove, SpecsAgree, PTL

\* Strict-Transport-Security goes to clients on TLS only, whoever the cached
\* response was fetched for.
THEOREM HstsStaysOnTls == AllSpec => []HstsOverTlsOnly
<1>1. XP!Spec => []XP!HstsOverTlsOnly
  BY SpecsAgree, XP!HstsIsSecure
<1>2. XP!HstsOverTlsOnly => HstsOverTlsOnly
  BY DEF HstsOverTlsOnly, X!HstsOverTlsOnly, XP!HstsOverTlsOnly
<1> QED BY <1>1, <1>2, PartsMove, SpecsAgree, PTL

\* The peer of an attempt has the protocol and the timeout that the
\* request's own settings ask for (upstream_peer).
THEOREM PeersFollowTheirRequest == AllSpec => []PeerAsConfigured
<1>1. XP!Spec => []XP!PeerAsConfigured
  BY SpecsAgree, XP!PeersAreConfigured
<1>2. XP!PeerAsConfigured => PeerAsConfigured
  BY DEF PeerAsConfigured, X!PeerAsConfigured, XP!PeerAsConfigured
<1> QED BY <1>1, <1>2, PartsMove, SpecsAgree, PTL

\* The type invariants of the parts: what a request, a table, a check and a
\* metric may be.
THEOREM PartsTyped == AllSpec => []AllTypeOK
<1>1. RP!Spec => []RP!TypeOK
  BY SpecsAgree, RP!RoutingTyped
<1>2. H!Spec => []H!TypeOK
  BY PartParameters, ProbeTyped
<1>3. M!Spec => []MetricsInv
  BY PartParameters, MetricsInvariance
<1>4. RP!TypeOK => R!TypeOK
  BY DEF R!TypeOK, RP!TypeOK
<1>5. TypeOK /\ R!TypeOK /\ H!TypeOK /\ MetricsInv => AllTypeOK
  BY DEF AllTypeOK, MetricsInv
<1> QED
  BY <1>1, <1>2, <1>3, <1>4, <1>5, AdmissionTyped, PartsMove, SpecsAgree, PTL
=============================================================================
