----------------------------- MODULE RoutingProofs -----------------------------
(***************************************************************************)
(* Proofs about Routing, for any files, hosts, paths and patterns and any  *)
(* number of edits and signals: a request is served by the route that the  *)
(* file names for it, the endpoint's strategies reach it, a reload applies *)
(* what it walked over, and no signal is lost.                             *)
(***************************************************************************)
EXTENDS Routing, WellFoundedInduction, TLAPS

\* The least and the greatest of some numbers.
LEMMA MinOf ==
  ASSUME NEW S, S \subseteq Nat, S # {}
  PROVE  Min(S) \in S /\ \A y \in S : Min(S) <= y
<1>1. PICK x \in S : \A y \in S : ~(<<y, x>> \in OpToRel(<, Nat))
  BY WFMin, NatLessThanWellFounded
<1>2. \A y \in S : x <= y
  <2> SUFFICES ASSUME NEW y \in S, y < x PROVE FALSE
    OBVIOUS
  <2>1. <<y, x>> \in Nat \X Nat /\ <<y, x>>[1] < <<y, x>>[2]
    OBVIOUS
  <2>2. <<y, x>> \in OpToRel(<, Nat)
    BY <2>1, Zenon DEF OpToRel
  <2> QED BY <1>1, <2>2
<1> QED BY <1>2, Zenon DEF Min

LEMMA MaxOf ==
  ASSUME NEW n \in Nat, NEW S, S \subseteq 1 .. n, S # {}
  PROVE  Max(S) \in S /\ \A y \in S : Max(S) >= y
<1> DEFINE T == {n - y : y \in S}
<1>1. T \subseteq Nat /\ T # {}
  <2>1. PICK z \in S : TRUE
    OBVIOUS
  <2>2. n - z \in T
    OBVIOUS
  <2>3. ASSUME NEW y \in S PROVE n - y \in Nat
    BY y \in 1 .. n
  <2> QED BY <2>2, <2>3
<1>2. Min(T) \in T /\ \A y \in T : Min(T) <= y
  BY <1>1, MinOf
<1>3. PICK x \in S : n - x = Min(T)
  BY <1>2
<1>4. ASSUME NEW y \in S PROVE x >= y
  <2>1. n - x <= n - y
    BY <1>2, <1>3
  <2>2. x \in 1 .. n /\ y \in 1 .. n
    OBVIOUS
  <2> QED BY <2>1, <2>2
<1> QED BY <1>4, Zenon DEF Max

-----------------------------------------------------------------------------
(***************************************************************************)
(* The tables say of every route that was added where it is, and nothing   *)
(* else.                                                                   *)
(***************************************************************************)
RegistryInv ==
  /\ \A k \in DOMAIN registry :
       registry[k] \in 1 .. Built /\ RegistryKey(routes[registry[k]]) = k
  /\ \A i \in 1 .. Built : RegistryKey(routes[i]) \in DOMAIN registry

RouterInv ==
  /\ Default \in DOMAIN routers
  /\ \A s \in DOMAIN routers \ {Default} : DOMAIN routers[s] # {}
  /\ \A s \in DOMAIN routers : \A p \in DOMAIN routers[s] :
       LET i == routers[s][p]
       IN i \in 1 .. Built /\ ~routes[i].regex /\ Server(routes[i]) = s
          /\ Transform[routes[i].path] = p
  /\ \A i \in 1 .. Built :
       ~routes[i].regex =>
         /\ Server(routes[i]) \in DOMAIN routers
         /\ Transform[routes[i].path] \in DOMAIN routers[Server(routes[i])]

Expression == {e.path : e \in Entries} \X Nat

ExpressionInv ==
  /\ regexes \in Seq(Expression)
  /\ \A k \in 1 .. Len(regexes) :
       /\ regexes[k] = <<routes[regexes[k][2]].path, regexes[k][2]>>
       /\ regexes[k][2] \in 1 .. Built /\ routes[regexes[k][2]].regex
       /\ \A j \in 1 .. k - 1 : regexes[j][2] < regexes[k][2]
  /\ \A i \in 1 .. Built :
       routes[i].regex => \E k \in 1 .. Len(regexes) : regexes[k][2] = i

\* Routes are built from entries that were accepted; a reload walks entries.
AcceptedInv ==
  /\ routes \in Seq(Entries) /\ walk \in Seq(Entries) /\ walked \in Seq(Entries)
  /\ \A i \in Routes : routes[i].settings # Invalid

\* Only a process that serves is asked anything.
StageInv ==
  /\ edits = 0 => file = Unreadable
  /\ phase = "boot" => routes = <<>>
  /\ phase = "serve" => Built = Len(routes)
  /\ phase \in {"build", "serve"} => edits > 0
  /\ phase # "serve" =>
       /\ \A s \in DOMAIN caches : DOMAIN caches[s] = {}
       /\ watcher = "idle" /\ ~pending /\ asked = {} /\ read = 0
  /\ watcher = "walking" => read > 0

EntryInv == TypeOK /\ AcceptedInv /\ StageInv

\* A cached path has the route that the tables have for it,
CacheInv ==
  \A s \in DOMAIN caches : \A p \in DOMAIN caches[s] : caches[s][p] = LookUp(s, p)

\* and the route of the endpoint's last call the strategy it asked for.
AskedInv ==
  \A a \in asked :
    /\ a.path \in RequestPaths
    /\ EndpointRoute(a.path) # Nowhere
    /\ strategy[EndpointRoute(a.path)] = a.strategy

TableInv == RegistryInv /\ RouterInv /\ ExpressionInv

RoutingInv ==
  EntryInv /\ TableInv /\ CacheInv /\ AskedInv /\ SignalServed /\ AppliedAsWalked

-----------------------------------------------------------------------------
LEMMA EntryFields ==
  ASSUME Parameters, NEW e \in Entries
  PROVE  /\ e.host \in DOMAIN Lower \cup {NoHost} /\ e.regex \in BOOLEAN
         /\ ~e.regex => e.path \in DOMAIN Transform
         /\ e.settings # Invalid => e.settings \in Settings
         /\ e.strategy \in Strategies
  BY DEF Parameters

\* The key under which the registry has a route is that of the entries that
\* name it, and of no others.
LEMMA KeyNames ==
  ASSUME Parameters, NEW e \in Entries, NEW i \in Routes, routes[i] \in Entries
  PROVE  RouteKey(e) = RegistryKey(routes[i]) <=> SameRoute(e, i)
<1> DEFINE f == routes[i]
           h == IF f.host = NoHost THEN NoHost ELSE Lower[f.host]
<1>1. \A x \in DOMAIN Lower : Lower[x] # NoHost /\ Lower[x] # Default
  BY DEF Parameters
<1>2. Server(e) = Server(f) <=> SameServer(e, h)
  BY <1>1, EntryFields DEF Server, SameServer
<1>3. RouteKey(e) = RegistryKey(f) <=>
        /\ Server(e) = Server(f) /\ e.regex = f.regex
        /\ (IF e.regex THEN e.path ELSE Transform[e.path])
             = (IF f.regex THEN f.path ELSE Transform[f.path])
  BY DEF RouteKey, RegistryKey
<1>4. \A p, q \in DOMAIN Transform : Transform[p] = Transform[q] => p = q
  BY DEF Parameters
<1>5. ~e.regex /\ ~f.regex => (Transform[e.path] = Transform[f.path] <=> e.path = f.path)
  BY <1>4, EntryFields
<1>6. e.regex \in BOOLEAN /\ f.regex \in BOOLEAN
  BY EntryFields
<1> QED BY <1>2, <1>3, <1>5, <1>6 DEF SameRoute

\* The keys of build and of a reload are the same.
LEMMA KeysAgree == \A e : RouteKey(e) = RegistryKey(e)
  BY DEF RouteKey, RegistryKey

\* A lookup in the tables: found is a route that was added.
LEMMA RouteInFound ==
  ASSUME Parameters, RouterInv, NEW s \in DOMAIN routers, NEW p \in RequestPaths
  PROVE  LET hits == {k \in DOMAIN Matching[p] : Matching[p][k] \in DOMAIN routers[s]}
         IN /\ hits = {} => RouteIn(s, p) = Nowhere
            /\ hits # {} =>
                 /\ Min(hits) \in hits
                 /\ RouteIn(s, p) = routers[s][Matching[p][Min(hits)]]
                 /\ RouteIn(s, p) \in 1 .. Built /\ RouteIn(s, p) # Nowhere
<1> DEFINE hits == {k \in DOMAIN Matching[p] : Matching[p][k] \in DOMAIN routers[s]}
<1>1. CASE hits = {}
  BY <1>1 DEF RouteIn
<1>2. CASE hits # {}
  <2>1. hits \subseteq Nat
    BY DEF Parameters
  <2>2. Min(hits) \in hits
    BY <1>2, <2>1, MinOf
  <2>3. RouteIn(s, p) = routers[s][Matching[p][Min(hits)]]
    BY <1>2 DEF RouteIn
  <2>4. Matching[p][Min(hits)] \in DOMAIN routers[s]
    BY <2>2
  <2>5. RouteIn(s, p) \in 1 .. Built
    BY <2>3, <2>4 DEF RouterInv
  <2>6. RouteIn(s, p) # Nowhere
    BY <2>5 DEF Nowhere
  <2> QED BY <1>2, <2>2, <2>3, <2>5, <2>6
<1> QED BY <1>1, <1>2

LEMMA EndpointRouteFound ==
  ASSUME Parameters, RouterInv, NEW p \in RequestPaths, EndpointRoute(p) # Nowhere
  PROVE  EndpointRoute(p) \in 1 .. Built
  BY RouteInFound DEF EndpointRoute, RouterInv

-----------------------------------------------------------------------------
\* A step that leaves the tables alone, and what the lookups depend on.
LEMMA TablesStay ==
  ASSUME TableInv, UNCHANGED tables, Built' = Built
  PROVE  TableInv'
  BY DEF TableInv, RegistryInv, RouterInv, ExpressionInv, tables, Built

LEMMA LookUpStays ==
  ASSUME UNCHANGED tables
  PROVE  /\ \A s, p : LookUp(s, p)' = LookUp(s, p)
         /\ \A p : EndpointRoute(p)' = EndpointRoute(p)
  BY DEF tables, LookUp, RouteIn, RegexIn, EndpointRoute

\* One route more.
LEMMA AddRouteTables ==
  ASSUME Parameters, EntryInv, TableInv, AddRoute
  PROVE  TableInv'
<1> DEFINE i == Built + 1
           e == routes[i]
           s == Server(e)
           p == Transform[e.path]
<1>1. /\ Built \in Nat /\ Built < Len(routes) /\ Built' = Built + 1
      /\ routes' = routes /\ i \in Routes /\ e \in Entries
  <2>1. settings \in Seq(Settings) /\ routes \in Seq(Entries)
    BY DEF EntryInv, TypeOK, AcceptedInv
  <2>2. Built < Len(routes) /\ settings' = Append(settings, e.settings) /\ routes' = routes
    BY DEF AddRoute
  <2>3. e.settings \in Settings
    BY <2>1, <2>2, EntryFields DEF EntryInv, AcceptedInv, Built, Routes
  <2> QED BY <2>1, <2>2, <2>3 DEF Built, Routes
<1>2. RegistryInv'
  <2>1. registry' = Put(registry, RegistryKey(e), i)
    BY DEF AddRoute
  <2>2. \A x : RegistryKey(x)' = RegistryKey(x)
    BY DEF RegistryKey, Server
  <2> HIDE DEF e
  <2>3. ASSUME NEW k \in DOMAIN registry'
        PROVE  registry'[k] \in 1 .. Built' /\ RegistryKey(routes[registry'[k]]) = k
    <3>1. CASE k = RegistryKey(e)
      BY <1>1, <2>1, <3>1 DEF Put, e
    <3>2. CASE k # RegistryKey(e)
      <4>1. k \in DOMAIN registry /\ registry'[k] = registry[k]
        BY <2>1, <3>2 DEF Put
      <4> QED BY <1>1, <4>1 DEF TableInv, RegistryInv
    <3> QED BY <3>1, <3>2
  <2>4. ASSUME NEW j \in 1 .. Built' PROVE RegistryKey(routes[j]) \in DOMAIN registry'
    <3>1. CASE j = i
      BY <2>1, <3>1 DEF Put, e
    <3>2. CASE j \in 1 .. Built
      BY <2>1, <3>2 DEF Put, TableInv, RegistryInv
    <3> QED BY <1>1, <3>1, <3>2
  <2> QED BY <1>1, <2>3, <2>4 DEF RegistryInv, RegistryKey, Server
<1>3. RouterInv'
  <2>1. CASE e.regex
    <3>1. routers' = routers
      BY <2>1 DEF AddRoute
    <3> QED BY <1>1, <2>1, <3>1 DEF TableInv, RouterInv, Server
  <2>2. CASE ~e.regex
    <3>1. routers' = Put(routers, s, Put(RouterOf(e), p, i))
      BY <2>2 DEF AddRoute
    <3> DEFINE new == Put(RouterOf(e), p, i)
    <3>2. /\ DOMAIN new = DOMAIN RouterOf(e) \cup {p}
          /\ new[p] = i /\ \A q \in DOMAIN RouterOf(e) \ {p} : new[q] = RouterOf(e)[q]
      BY DEF Put
    <3>3. /\ DOMAIN routers' = DOMAIN routers \cup {s} /\ routers'[s] = new
          /\ \A t \in DOMAIN routers \ {s} : routers'[t] = routers[t]
      BY <3>1 DEF Put
    <3>4. \A q \in DOMAIN RouterOf(e) : s \in DOMAIN routers /\ q \in DOMAIN routers[s]
                                        /\ RouterOf(e)[q] = routers[s][q]
      BY DEF RouterOf, Empty
    <3>5. s \in DOMAIN routers => RouterOf(e) = routers[s]
      BY DEF RouterOf
    <3>6. e = routes[i] /\ s = Server(e) /\ p = Transform[e.path]
      OBVIOUS
    <3> HIDE DEF new, e, s, p
    <3>7. ASSUME NEW t \in DOMAIN routers', NEW q \in DOMAIN routers'[t]
          PROVE  LET j == routers'[t][q]
                 IN j \in 1 .. Built' /\ ~routes[j].regex /\ Server(routes[j]) = t
                    /\ Transform[routes[j].path] = q
      <4>1. CASE t = s /\ q = p
        BY <1>1, <2>2, <3>2, <3>3, <3>6, <4>1
      <4>2. CASE t = s /\ q # p
        <5>1. q \in DOMAIN RouterOf(e) \ {p}
          BY <3>2, <3>3, <4>2
        <5>2. s \in DOMAIN routers /\ q \in DOMAIN routers[s] /\ routers'[t][q] = routers[s][q]
          BY <3>2, <3>3, <3>4, <4>2, <5>1
        <5> QED BY <1>1, <4>2, <5>2 DEF TableInv, RouterInv
      <4>3. CASE t # s
        <5>1. t \in DOMAIN routers /\ routers'[t] = routers[t]
          BY <3>3, <4>3
        <5> QED BY <1>1, <5>1 DEF TableInv, RouterInv
      <4> QED BY <4>1, <4>2, <4>3
    <3>8. ASSUME NEW j \in 1 .. Built', ~routes[j].regex
          PROVE  /\ Server(routes[j]) \in DOMAIN routers'
                 /\ Transform[routes[j].path] \in DOMAIN routers'[Server(routes[j])]
      <4>1. CASE j = i
        BY <3>2, <3>3, <3>6, <4>1
      <4>2. CASE j \in 1 .. Built
        <5>1. /\ Server(routes[j]) \in DOMAIN routers
              /\ Transform[routes[j].path] \in DOMAIN routers[Server(routes[j])]
          BY <3>8, <4>2 DEF TableInv, RouterInv
        <5> QED BY <3>2, <3>3, <3>5, <5>1
      <4> QED BY <1>1, <4>1, <4>2
    <3>9. Default \in DOMAIN routers' /\ \A t \in DOMAIN routers' \ {Default} :
            DOMAIN routers'[t] # {}
      BY <3>2, <3>3 DEF TableInv, RouterInv
    <3> QED BY <1>1, <3>7, <3>8, <3>9 DEF RouterInv, Server
  <2> QED BY <2>1, <2>2
<1>4. ExpressionInv'
  <2>1. CASE ~e.regex
    <3>1. regexes' = regexes
      BY <2>1 DEF AddRoute
    <3> QED BY <1>1, <2>1, <3>1 DEF TableInv, ExpressionInv
  <2>2. CASE e.regex
    <3> DEFINE new == <<e.path, i>>
               n == Len(regexes)
    <3>1. regexes' = Append(regexes, new)
      BY <2>2 DEF AddRoute
    <3>2. new \in Expression /\ new[1] = e.path /\ new[2] = i
      BY <1>1 DEF Expression
    <3>3. regexes \in Seq(Expression)
      BY DEF TableInv, ExpressionInv
    <3>4. e = routes[i]
      OBVIOUS
    <3> HIDE DEF new
    <3>5. /\ regexes' \in Seq(Expression) /\ n \in Nat /\ Len(regexes') = n + 1
          /\ regexes'[n + 1] = new /\ \A k \in 1 .. n : regexes'[k] = regexes[k]
      BY <3>1, <3>2, <3>3
    <3>6. ASSUME NEW k \in 1 .. n + 1
          PROVE  /\ regexes'[k] = <<routes[regexes'[k][2]].path, regexes'[k][2]>>
                 /\ regexes'[k][2] \in 1 .. Built' /\ routes[regexes'[k][2]].regex
                 /\ \A j \in 1 .. k - 1 : regexes'[j][2] < regexes'[k][2]
      <4>1. CASE k \in 1 .. n
        <5>1. regexes'[k] = regexes[k] /\ \A j \in 1 .. k - 1 : regexes'[j] = regexes[j]
          BY <3>5, <4>1
        <5> QED BY <1>1, <4>1, <5>1 DEF TableInv, ExpressionInv
      <4>2. CASE k = n + 1
        <5>1. \A j \in 1 .. n : regexes'[j][2] \in 1 .. Built
          BY <3>5 DEF TableInv, ExpressionInv
        <5>2. regexes'[k] = <<e.path, i>> /\ regexes'[k][2] = i
          BY <3>5, <4>2 DEF new
        <5> HIDE DEF e
        <5> QED BY <1>1, <2>2, <3>4, <3>5, <4>2, <5>1, <5>2
      <4> QED BY <3>5, <4>1, <4>2
    <3>7. ASSUME NEW j \in 1 .. Built', routes[j].regex
          PROVE  \E k \in 1 .. n + 1 : regexes'[k][2] = j
      <4>1. CASE j = i
        BY <3>2, <3>5, <4>1
      <4>2. CASE j \in 1 .. Built
        <5>1. PICK k \in 1 .. n : regexes[k][2] = j
          BY <3>7, <4>2 DEF TableInv, ExpressionInv
        <5> QED BY <3>5, <5>1
      <4> QED BY <1>1, <4>1, <4>2
    <3> QED BY <1>1, <3>5, <3>6, <3>7 DEF ExpressionInv
  <2> QED BY <2>1, <2>2
<1> QED BY <1>2, <1>3, <1>4 DEF TableInv

-----------------------------------------------------------------------------
\* Nothing is routed at first.
LEMMA InitRouting == ASSUME Parameters, Init PROVE RoutingInv
<1> USE DEF Init
<1>1. /\ DOMAIN routers = {Default} /\ DOMAIN caches = {Default}
      /\ DOMAIN routers[Default] = {} /\ DOMAIN caches[Default] = {} /\ DOMAIN registry = {}
  BY DEF Put, Empty
<1>2. Built = 0 /\ Routes = {}
  BY DEF Built, Routes
<1>3. EntryInv
  BY <1>1, <1>2 DEF EntryInv, AcceptedInv, StageInv, TypeOK, Parameters
<1>4. TableInv
  BY <1>1, <1>2 DEF TableInv, RegistryInv, RouterInv, ExpressionInv
<1> QED
  BY <1>1, <1>3, <1>4 DEF RoutingInv, CacheInv, AskedInv, SignalServed, AppliedAsWalked

LEMMA AddRouteAccepted ==
  ASSUME Parameters, EntryInv, AddRoute
  PROVE  EntryInv' /\ Built' = Built + 1
<1> DEFINE e == routes[Built + 1]
<1>1. /\ phase = "build" /\ Built < Len(routes)
      /\ settings' = Append(settings, e.settings) /\ strategy' = Append(strategy, e.strategy)
      /\ UNCHANGED <<phase, file, edits, routes, asked, reloading>>
  BY DEF AddRoute
<1>2. settings \in Seq(Settings) /\ strategy \in Seq(Strategies) /\ routes \in Seq(Entries)
      /\ Len(strategy) = Len(settings) /\ Built = Len(settings)
  BY DEF EntryInv, TypeOK, AcceptedInv, Built
<1>3. e \in Entries /\ e.settings # Invalid
  BY <1>1, <1>2 DEF EntryInv, AcceptedInv, Routes
<1>4. e.settings \in Settings /\ e.strategy \in Strategies
  BY <1>3, EntryFields
<1>5. \A s \in DOMAIN caches : DOMAIN caches[s] = {}
  BY <1>1 DEF EntryInv, StageInv
<1>6. DOMAIN caches' = DOMAIN routers' /\ \A s \in DOMAIN caches' : DOMAIN caches'[s] = {}
  <2>1. DOMAIN caches = DOMAIN routers
    BY DEF EntryInv, TypeOK
  <2>2. CASE e.regex
    BY <1>5, <2>1, <2>2 DEF AddRoute
  <2>3. CASE ~e.regex
    <3>1. caches' = Put(caches, Server(e), Empty)
          /\ routers' = Put(routers, Server(e), Put(RouterOf(e), Transform[e.path], Built + 1))
      BY <2>3 DEF AddRoute
    <3> HIDE DEF e
    <3> QED BY <1>5, <2>1, <3>1 DEF Put, Empty
  <2> QED BY <2>2, <2>3
<1> HIDE DEF e
<1>7. /\ settings' \in Seq(Settings) /\ strategy' \in Seq(Strategies)
      /\ Len(settings') = Built + 1 /\ Len(strategy') = Len(settings')
  BY <1>1, <1>2, <1>4
<1>8. TypeOK'
  BY <1>1, <1>2, <1>6, <1>7 DEF EntryInv, TypeOK, reloading
<1>9. AcceptedInv' /\ StageInv'
  BY <1>1, <1>6 DEF EntryInv, AcceptedInv, StageInv, Routes, reloading
<1> QED BY <1>7, <1>8, <1>9 DEF EntryInv, Built

LEMMA ReloadRouteAccepted ==
  ASSUME Parameters, EntryInv, TableInv, ReloadRoute
  PROVE  EntryInv' /\ Built' = Built
<1> DEFINE e == Head(walk)
           k == registry[RouteKey(e)]
<1>1. /\ settings' = [settings EXCEPT ![k] = e.settings]
      /\ walk # <<>> /\ walk' = Tail(walk) /\ walked' = Append(walked, e)
      /\ e.settings # Invalid /\ RouteKey(e) \in DOMAIN registry
      /\ UNCHANGED <<phase, file, edits, tables, caches, strategy, asked, signals,
                     pending, watcher, base, wanted, read>>
  BY DEF ReloadRoute, Known
<1>2. settings \in Seq(Settings) /\ walk \in Seq(Entries) /\ walked \in Seq(Entries)
  BY DEF EntryInv, TypeOK, AcceptedInv
<1>3. e \in Entries /\ Tail(walk) \in Seq(Entries) /\ Append(walked, e) \in Seq(Entries)
  BY <1>1, <1>2
<1>4. e.settings \in Settings
  BY <1>1, <1>3, EntryFields
<1>5. k \in 1 .. Len(settings)
  BY <1>1 DEF TableInv, RegistryInv, Built
<1> HIDE DEF e, k
<1>6. settings' \in Seq(Settings) /\ Len(settings') = Len(settings)
  BY <1>1, <1>2, <1>4, <1>5
<1>7. TypeOK'
  BY <1>1, <1>6 DEF EntryInv, TypeOK, tables
<1>8. AcceptedInv'
  BY <1>1, <1>3 DEF EntryInv, AcceptedInv, Routes, tables
<1>9. StageInv'
  BY <1>1, <1>6 DEF EntryInv, StageInv, Built, tables
<1> QED BY <1>6, <1>7, <1>8, <1>9 DEF EntryInv, Built

LEMMA AcceptedStep ==
  ASSUME Parameters, EntryInv, TableInv, [Next]_vars
  PROVE  AcceptedInv'
<1>1. AcceptedInv
  BY DEF EntryInv
<1>2. CASE ReadRoutes
  <2>1. file \in Files /\ routes' = file /\ UNCHANGED <<walk, walked>>
    BY <1>2 DEF ReadRoutes, RoutesBuilt, EntryInv, TypeOK, reloading
  <2>2. \A i \in DOMAIN file : file[i].settings # Invalid
    BY <1>2 DEF ReadRoutes, RoutesBuilt, Buildable
  <2> QED BY <1>1, <2>1, <2>2 DEF Parameters, AcceptedInv, Routes
<1>3. CASE AddRoute
  BY <1>3, AddRouteAccepted DEF EntryInv
<1>4. CASE ReadFile
  <2>1. /\ routes' = routes /\ walked' = <<>>
        /\ (walk' = <<>> \/ (walk' = file /\ file # Unreadable))
    BY <1>4 DEF ReadFile, tables
  <2>2. file \in Files \cup {Unreadable} /\ \A f \in Files : f \in Seq(Entries)
    BY DEF EntryInv, TypeOK, Parameters
  <2>3. <<>> \in Seq(Entries)
    OBVIOUS
  <2>4. walk' \in Seq(Entries)
    BY <2>1, <2>2, <2>3
  <2> QED BY <1>1, <2>1, <2>3, <2>4 DEF AcceptedInv, Routes
<1>5. CASE ReloadRoute
  BY <1>5, ReloadRouteAccepted DEF EntryInv
<1>6. CASE SkipEntry
  <2>1. /\ walk # <<>> /\ walk' = Tail(walk) /\ walked' = Append(walked, Head(walk))
        /\ routes' = routes
    BY <1>6 DEF SkipEntry, tables
  <2> QED BY <1>1, <2>1 DEF AcceptedInv, Routes
<1>7. CASE AbortReload
  BY <1>1, <1>7 DEF AbortReload, AcceptedInv, Routes, tables
<1>8. CASE UNCHANGED <<routes, walk, walked>>
  BY <1>1, <1>8 DEF AcceptedInv, Routes
<1> QED
  BY <1>2, <1>3, <1>4, <1>5, <1>6, <1>7, <1>8
     DEF Next, vars, Edit, ReadFails, InvalidRoute, Failed, Serve, ResolveMiss, Evict,
         SetStrategy, Signal, TakeSignal, EndReload, tables, reloading

\* What was written, accepted and asked for, through every step.
LEMMA EntryStep ==
  ASSUME Parameters, EntryInv, TableInv, [Next]_vars
  PROVE  EntryInv'
<1> USE DEF tables, serving, reloading, Routes, Built
<1>1. /\ MaxEdits \in Nat /\ Unreadable \notin Files /\ <<>> \in Seq(Entries)
      /\ \A f \in Files : f \in Seq(Entries)
  BY DEF Parameters
<1>2. TypeOK /\ AcceptedInv /\ StageInv /\ edits \in Nat
  BY <1>1 DEF EntryInv, TypeOK
<1>3. AcceptedInv'
  BY AcceptedStep
<1>4. ASSUME NEW f \in Files \cup {Unreadable}, Edit(f) PROVE EntryInv'
  <2>1. edits' = edits + 1 /\ file' = f /\ edits < MaxEdits
        /\ UNCHANGED <<phase, tables, serving, reloading>>
    BY <1>4 DEF Edit
  <2>2. TypeOK'
    BY <1>1, <1>2, <2>1 DEF TypeOK
  <2>3. StageInv'
    BY <1>2, <2>1 DEF StageInv
  <2> QED BY <1>3, <2>2, <2>3 DEF EntryInv
<1>5. CASE ReadFails \/ InvalidRoute
  <2>1. /\ phase' = "failed" /\ phase # "serve"
        /\ UNCHANGED <<file, edits, tables, serving, reloading>>
    BY <1>5 DEF ReadFails, InvalidRoute, Failed
  <2>2. TypeOK'
    BY <1>2, <2>1 DEF TypeOK
  <2>3. StageInv'
    BY <1>2, <2>1 DEF StageInv
  <2> QED BY <1>3, <2>2, <2>3 DEF EntryInv
<1>6. CASE Serve
  <2>1. TypeOK' /\ StageInv'
    BY <1>2, <1>6 DEF Serve, TypeOK, StageInv
  <2> QED BY <1>3, <2>1 DEF EntryInv
<1>7. ASSUME NEW h \in RequestHosts, NEW p \in RequestPaths, ResolveMiss(h, p)
      PROVE  EntryInv'
  <2>1. /\ phase = "serve" /\ DOMAIN caches' = DOMAIN caches
        /\ \A s \in DOMAIN caches : DOMAIN caches'[s] \subseteq DOMAIN caches[s] \cup {p}
        /\ UNCHANGED <<phase, file, edits, tables, settings, strategy, asked, reloading>>
    BY <1>7 DEF ResolveMiss, Put
  <2>2. \A s \in DOMAIN caches' : DOMAIN caches'[s] \subseteq RequestPaths
    BY <1>2, <2>1 DEF TypeOK
  <2>3. TypeOK'
    BY <1>2, <2>1, <2>2 DEF TypeOK
  <2>4. StageInv'
    BY <1>2, <2>1 DEF StageInv
  <2> QED BY <1>3, <2>3, <2>4 DEF EntryInv
<1>8. ASSUME NEW s \in DOMAIN caches, NEW p \in RequestPaths, Evict(s, p) PROVE EntryInv'
  <2>1. /\ DOMAIN caches' = DOMAIN caches
        /\ \A t \in DOMAIN caches : DOMAIN caches'[t] \subseteq DOMAIN caches[t]
        /\ UNCHANGED <<phase, file, edits, tables, settings, strategy, asked, reloading>>
    BY <1>8 DEF Evict
  <2>2. TypeOK' /\ StageInv'
    BY <1>2, <2>1 DEF TypeOK, StageInv
  <2> QED BY <1>3, <2>2 DEF EntryInv
<1>9. ASSUME NEW p \in RequestPaths, NEW s \in Strategies, SetStrategy(p, s)
      PROVE  EntryInv'
  <2>1. /\ phase = "serve" /\ strategy' = [strategy EXCEPT ![EndpointRoute(p)] = s]
        /\ UNCHANGED <<phase, file, edits, tables, caches, settings, reloading>>
    BY <1>9 DEF SetStrategy
  <2>2. strategy' \in Seq(Strategies) /\ Len(strategy') = Len(strategy)
    <3>1. EndpointRoute(p) \in 1 .. Len(strategy)
      BY <1>2, <1>9, EndpointRouteFound DEF SetStrategy, TypeOK, TableInv
    <3> QED BY <1>2, <2>1, <3>1 DEF TypeOK
  <2>3. TypeOK' /\ StageInv'
    BY <1>2, <2>1, <2>2 DEF TypeOK, StageInv
  <2> QED BY <1>3, <2>3 DEF EntryInv
<1>10. CASE Signal \/ TakeSignal
  <2>1. /\ phase = "serve" \/ pending
        /\ UNCHANGED <<phase, file, edits, tables, serving, read>>
        /\ wanted' \in {wanted, edits} /\ watcher' \in {watcher, "reading"}
    BY <1>10 DEF Signal, TakeSignal
  <2>2. TypeOK' /\ StageInv'
    BY <1>2, <2>1 DEF TypeOK, StageInv
  <2> QED BY <1>3, <2>2 DEF EntryInv
<1>11. CASE UNCHANGED vars
  <2>1. TypeOK' /\ StageInv'
    BY <1>2, <1>11 DEF vars, TypeOK, StageInv
  <2> QED BY <1>3, <2>1 DEF EntryInv
<1>12. ASSUME ReadRoutes \/ AddRoute \/ ReadFile \/ ReloadRoute \/ SkipEntry
                \/ AbortReload \/ EndReload
       PROVE  EntryInv'
  <2>1. CASE ReadRoutes
    <3>1. /\ file \in Files /\ routes' = file /\ settings = <<>> /\ settings' = <<>>
          /\ UNCHANGED <<strategy, caches, routers, edits, file, asked, reloading>>
          /\ phase = "boot" /\ phase' = "build" /\ edits > 0
      BY <1>1, <1>2, <2>1 DEF ReadRoutes, RoutesBuilt, TypeOK, StageInv
    <3>2. TypeOK'
      <4>1. Len(strategy) = 0 /\ strategy \in Seq(Strategies)
        BY <1>2, <3>1 DEF TypeOK
      <4>2. Len(routes') \in Nat /\ settings' \in Seq(Settings)
        BY <1>1, <3>1
      <4> QED BY <1>2, <3>1, <4>1, <4>2 DEF TypeOK
    <3>3. StageInv'
      BY <1>2, <3>1 DEF StageInv
    <3> QED BY <1>3, <3>2, <3>3 DEF EntryInv
  <2>2. CASE AddRoute
    BY <2>2, AddRouteAccepted
  <2>3. CASE ReadFile
    <3>1. phase = "serve" /\ edits > 0
      BY <1>2, <2>3 DEF ReadFile, StageInv
    <3>2. TypeOK' /\ StageInv'
      BY <1>2, <2>3, <3>1 DEF ReadFile, TypeOK, StageInv
    <3> QED BY <1>3, <3>2 DEF EntryInv
  <2>4. CASE ReloadRoute
    BY <2>4, ReloadRouteAccepted
  <2>5. CASE SkipEntry \/ AbortReload \/ EndReload
    <3>1. /\ UNCHANGED <<phase, file, edits, tables, serving, pending, wanted, read>>
          /\ watcher' \in {watcher, "idle"}
      BY <2>5 DEF SkipEntry, AbortReload, EndReload
    <3>2. TypeOK' /\ StageInv'
      BY <1>2, <3>1 DEF TypeOK, StageInv
    <3> QED BY <1>3, <3>2 DEF EntryInv
  <2> QED BY <1>12, <2>1, <2>2, <2>3, <2>4, <2>5
<1> QED
  BY <1>4, <1>5, <1>6, <1>7, <1>8, <1>9, <1>10, <1>11, <1>12 DEF Next

LEMMA TableStep ==
  ASSUME Parameters, EntryInv, TableInv, [Next]_vars
  PROVE  TableInv'
<1>1. CASE AddRoute
  BY <1>1, AddRouteTables
<1>2. CASE ReadRoutes
  <2>1. Built = 0 /\ Built' = 0
    <3>1. routes = <<>> /\ settings \in Seq(Settings) /\ Len(settings) <= Len(routes)
          /\ settings' = <<>>
      BY <1>2 DEF EntryInv, TypeOK, StageInv, ReadRoutes
    <3> QED BY <3>1 DEF Built
  <2>2. UNCHANGED <<registry, routers, regexes>>
    BY <1>2 DEF ReadRoutes
  <2>3. DOMAIN registry = {} /\ \A s \in DOMAIN routers : DOMAIN routers[s] = {}
    <3>1. 1 .. Built = {}
      BY <2>1
    <3> QED BY <3>1 DEF TableInv, RegistryInv, RouterInv
  <2>4. Len(regexes) = 0 /\ regexes \in Seq(Expression)
    BY <2>1 DEF TableInv, ExpressionInv
  <2> QED BY <2>1, <2>2, <2>3, <2>4 DEF TableInv, RegistryInv, RouterInv, ExpressionInv
<1>3. CASE UNCHANGED <<tables, settings>>
  BY <1>3, TablesStay DEF Built
<1>4. CASE ReloadRoute
  BY <1>4, ReloadRouteAccepted, TablesStay DEF ReloadRoute
<1> QED
  BY <1>1, <1>2, <1>3, <1>4
     DEF Next, vars, Edit, ReadFails, InvalidRoute, Failed, Serve, ResolveMiss, Evict,
         SetStrategy, Signal, TakeSignal, ReadFile, SkipEntry, AbortReload, EndReload, serving

-----------------------------------------------------------------------------
\* The caches have what the tables say, and the endpoint's last call is what
\* its route has.
LEMMA ServingStep ==
  ASSUME Parameters, EntryInv, TableInv, CacheInv, AskedInv, [Next]_vars
  PROVE  CacheInv' /\ AskedInv'
<1>1. CASE UNCHANGED <<tables, caches, strategy, asked>>
  BY <1>1, LookUpStays DEF CacheInv, AskedInv
<1>2. CASE ReadRoutes \/ AddRoute
  <2>1. phase # "serve" /\ phase' # "serve"
    BY <1>2 DEF ReadRoutes, AddRoute
  <2>2. EntryInv'
    BY EntryStep
  <2>3. asked' = {} /\ \A s \in DOMAIN caches' : DOMAIN caches'[s] = {}
    BY <2>1, <2>2 DEF EntryInv, StageInv
  <2> QED BY <2>3 DEF CacheInv, AskedInv
<1>3. ASSUME NEW h \in RequestHosts, NEW p \in RequestPaths, ResolveMiss(h, p)
      PROVE  CacheInv' /\ AskedInv'
  <2> DEFINE s == ServerOf(h)
  <2>1. /\ caches' = [caches EXCEPT ![s] = Put(caches[s], p, LookUp(s, p))]
        /\ UNCHANGED <<tables, strategy, asked>>
    BY <1>3 DEF ResolveMiss
  <2> HIDE DEF s
  <2>2. \A t \in DOMAIN caches' : \A q \in DOMAIN caches'[t] :
          caches'[t][q] = LookUp(t, q)
    BY <2>1 DEF CacheInv, Put
  <2> QED BY <2>1, <2>2, LookUpStays DEF CacheInv, AskedInv
<1>4. ASSUME NEW s \in DOMAIN caches, NEW p \in RequestPaths, Evict(s, p)
      PROVE  CacheInv' /\ AskedInv'
  <2>1. /\ caches' = [caches EXCEPT ![s] = [q \in DOMAIN caches[s] \ {p} |-> caches[s][q]]]
        /\ UNCHANGED <<tables, strategy, asked>>
    BY <1>4 DEF Evict
  <2>2. \A t \in DOMAIN caches' : \A q \in DOMAIN caches'[t] :
          caches'[t][q] = LookUp(t, q)
    BY <2>1 DEF CacheInv
  <2> QED BY <2>1, <2>2, LookUpStays DEF CacheInv, AskedInv
<1>5. ASSUME NEW p \in RequestPaths, NEW s \in Strategies, SetStrategy(p, s)
      PROVE  CacheInv' /\ AskedInv'
  <2> DEFINE r == EndpointRoute(p)
             a == [path |-> p, strategy |-> s]
  <2>1. /\ r # Nowhere /\ strategy' = [strategy EXCEPT ![r] = s]
        /\ asked' = {a} /\ UNCHANGED <<tables, caches>>
    BY <1>5 DEF SetStrategy
  <2>2. r \in 1 .. Built
    BY <2>1, EndpointRouteFound DEF TableInv
  <2>3. r \in DOMAIN strategy
    BY <2>2 DEF EntryInv, TypeOK, Built
  <2>4. EndpointRoute(p)' = r /\ a.path = p /\ a.strategy = s
    BY <2>1, LookUpStays
  <2>5. strategy'[r] = s
    BY <2>1, <2>3
  <2> HIDE DEF r, a
  <2>6. AskedInv'
    BY <2>1, <2>4, <2>5 DEF AskedInv
  <2> QED BY <2>1, <2>6, LookUpStays DEF CacheInv
<1> QED
  BY <1>1, <1>2, <1>3, <1>4, <1>5
     DEF Next, vars, Edit, ReadFails, InvalidRoute, Failed, Serve, Signal, TakeSignal,
         ReadFile, ReloadRoute, SkipEntry, AbortReload, EndReload, serving

\* A reading of the file comes after the last signal, or is to come.
LEMMA SignalStep ==
  ASSUME EntryInv, SignalServed, [Next]_vars
  PROVE  SignalServed'
<1>1. wanted \in Nat /\ read \in Nat /\ edits \in Nat /\ wanted <= edits
  BY DEF EntryInv, TypeOK
<1> QED
  BY <1>1 DEF SignalServed, Next, vars, Edit, ReadRoutes, ReadFails, AddRoute, InvalidRoute,
     Failed, Serve, ResolveMiss, Evict, SetStrategy, Signal, TakeSignal, ReadFile,
     ReloadRoute, SkipEntry, AbortReload, EndReload, tables, serving, reloading

-----------------------------------------------------------------------------
\* The entries walked that name a route, and with one entry more.
Naming(w, i) == {k \in DOMAIN w : SameRoute(w[k], i)}
Own(i) == Naming(walked, i)

Applied(i) ==
  settings[i] = IF Own(i) = {} THEN base[i] ELSE walked[Max(Own(i))].settings

\* Names do not change with the walk.
LEMMA NamesStay ==
  ASSUME routes' = routes
  PROVE  /\ Routes' = Routes
         /\ \A i : Twin(i)' = Twin(i)
         /\ \A i : Own(i)' = Naming(walked', i)
<1>1. Routes' = Routes
  BY DEF Routes
<1>2. \A i : Twin(i)' = Twin(i)
  BY DEF Twin, Routes, SameRoute, SameServer
<1>3. \A i : Own(i)' = Naming(walked', i)
  BY DEF Own, Naming, SameRoute, SameServer
<1> QED BY <1>1, <1>2, <1>3

LEMMA OwnGrows ==
  ASSUME NEW w \in Seq(Entries), NEW e \in Entries, NEW i
  PROVE  /\ SameRoute(e, i) =>
              /\ Naming(Append(w, e), i) # {}
              /\ Append(w, e)[Max(Naming(Append(w, e), i))] = e
         /\ ~SameRoute(e, i) =>
              /\ Naming(Append(w, e), i) = Naming(w, i)
              /\ Naming(w, i) # {} =>
                   Append(w, e)[Max(Naming(w, i))] = w[Max(Naming(w, i))]
<1> DEFINE own == Naming(w, i)
           x == Append(w, e)
           new == Naming(x, i)
           n == Len(w)
<1>1. /\ n \in Nat /\ DOMAIN w = 1 .. n /\ DOMAIN x = 1 .. n + 1
      /\ x[n + 1] = e /\ \A k \in 1 .. n : x[k] = w[k]
  OBVIOUS
<1> HIDE DEF x, n
<1> USE DEF Naming
<1>2. new \subseteq 1 .. n + 1 /\ own \subseteq 1 .. n
  BY <1>1
<1>3. ASSUME SameRoute(e, i)
      PROVE  new # {} /\ Max(new) = n + 1 /\ x[Max(new)] = e
  <2>1. n + 1 \in new
    BY <1>1, <1>3
  <2>2. Max(new) \in new /\ Max(new) >= n + 1
    <3>1. n + 1 \in Nat /\ new \subseteq 1 .. n + 1 /\ new # {}
      BY <1>1, <1>2, <2>1
    <3> HIDE DEF new
    <3> QED BY <2>1, <3>1, MaxOf
  <2>3. Max(new) = n + 1
    BY <1>1, <1>2, <2>2
  <2> QED BY <1>1, <2>1, <2>3
<1>4. ASSUME ~SameRoute(e, i)
      PROVE  new = own /\ (own # {} => x[Max(own)] = w[Max(own)])
  <2>1. new = own
    BY <1>1, <1>4
  <2>2. own # {} => Max(own) \in 1 .. n
    BY <1>1, <1>2, MaxOf
  <2> QED BY <1>1, <2>1, <2>2
<1> QED BY <1>3, <1>4 DEF x, n

\* The route the registry has for an entry is the one that it names.
LEMMA KnownRoute ==
  ASSUME Parameters, EntryInv, TableInv, phase = "serve",
         NEW e \in Entries, NEW i \in Routes, ~Twin(i)
  PROVE  /\ ~Known(e) => ~SameRoute(e, i)
         /\ Known(e) => (registry[RouteKey(e)] = i <=> SameRoute(e, i))
<1>1. Routes = 1 .. Built /\ \A j \in Routes : routes[j] \in Entries
  BY DEF EntryInv, StageInv, AcceptedInv, Routes
<1>2. RouteKey(e) = RegistryKey(routes[i]) <=> SameRoute(e, i)
  BY <1>1, KeyNames
<1>3. RegistryKey(routes[i]) \in DOMAIN registry
  BY <1>1 DEF TableInv, RegistryInv
<1>4. ASSUME Known(e) PROVE registry[RouteKey(e)] = i <=> SameRoute(e, i)
  <2> DEFINE j == registry[RouteKey(e)]
  <2>1. j \in Routes /\ RegistryKey(routes[j]) = RouteKey(e)
    BY <1>1, <1>4 DEF Known, TableInv, RegistryInv
  <2>2. j = i => SameRoute(e, i)
    BY <1>2, <2>1
  <2>3. ASSUME SameRoute(e, i), j # i PROVE FALSE
    <3>1. RegistryKey(routes[j]) = RegistryKey(routes[i])
      BY <1>2, <2>1, <2>3
    <3>2. SameRoute(routes[j], i)
      BY <1>1, <2>1, <3>1, KeyNames, KeysAgree
    <3> QED BY <2>1, <2>3, <3>2 DEF Twin
  <2> QED BY <2>2, <2>3
<1> QED BY <1>2, <1>3, <1>4 DEF Known

LEMMA AppliedStep ==
  ASSUME Parameters, EntryInv, TableInv, AppliedAsWalked, [Next]_vars
  PROVE  AppliedAsWalked'
<1> DEFINE e == Head(walk)
           k == registry[RouteKey(e)]
<1>1. CASE ReloadRoute \/ SkipEntry
  <2>1. /\ watcher = "walking" /\ walk # <<>> /\ walked' = Append(walked, e)
        /\ UNCHANGED <<phase, tables, base, read>>
    BY <1>1 DEF ReloadRoute, SkipEntry
  <2>2. phase = "serve" /\ e \in Entries /\ walked \in Seq(Entries)
    BY <2>1 DEF EntryInv, StageInv, AcceptedInv
  <2> SUFFICES ASSUME read > 0, NEW i \in Routes, ~Twin(i) PROVE Applied(i)'
    BY <2>1, NamesStay DEF AppliedAsWalked, Applied, Own, Naming, tables
  <2>3. Applied(i) /\ Own(i)' = Naming(walked', i)
    BY <2>1, <2>2, NamesStay DEF AppliedAsWalked, Applied, Own, Naming, tables
  <2>4. i \in 1 .. Built /\ settings \in Seq(Settings)
    BY <2>2 DEF EntryInv, StageInv, TypeOK, Routes
  <2>5. /\ ~Known(e) => ~SameRoute(e, i)
        /\ Known(e) => (k = i <=> SameRoute(e, i))
    BY <2>2, KnownRoute
  <2>6. /\ SameRoute(e, i) => Own(i)' # {} /\ walked'[Max(Own(i)')] = e
        /\ ~SameRoute(e, i) =>
             /\ Own(i)' = Own(i)
             /\ Own(i) # {} => walked'[Max(Own(i))] = walked[Max(Own(i))]
    <3>1. Own(i)' = Naming(Append(walked, e), i) /\ Own(i) = Naming(walked, i)
      BY <2>1, <2>3 DEF Own
    <3>2. walked' = Append(walked, e) /\ e \in Entries /\ walked \in Seq(Entries)
      BY <2>1, <2>2
    <3> HIDE DEF e
    <3>3. /\ SameRoute(e, i) =>
               /\ Naming(Append(walked, e), i) # {}
               /\ Append(walked, e)[Max(Naming(Append(walked, e), i))] = e
          /\ ~SameRoute(e, i) =>
               /\ Naming(Append(walked, e), i) = Naming(walked, i)
               /\ Naming(walked, i) # {} =>
                    Append(walked, e)[Max(Naming(walked, i))] = walked[Max(Naming(walked, i))]
      BY <3>2, OwnGrows, Zenon
    <3> QED BY <3>1, <3>2, <3>3, Zenon
  <2>7. CASE SameRoute(e, i)
    <3>1. Known(e) /\ k = i
      BY <2>5, <2>7
    <3>2. settings' = [settings EXCEPT ![k] = e.settings]
      BY <1>1, <3>1 DEF ReloadRoute, SkipEntry
    <3>3. settings'[i] = e.settings
      BY <2>4, <3>1, <3>2 DEF Built
    <3>4. Own(i)' # {} /\ walked'[Max(Own(i)')] = e
      BY <2>6, <2>7
    <3> HIDE DEF e, k
    <3> QED BY <3>3, <3>4 DEF Applied
  <2>8. CASE ~SameRoute(e, i)
    <3>1. settings'[i] = settings[i]
      <4>1. CASE ReloadRoute
        <5>1. settings' = [settings EXCEPT ![k] = e.settings] /\ k # i
          BY <2>5, <2>8, <4>1 DEF ReloadRoute
        <5> QED BY <2>4, <5>1 DEF Built
      <4>2. CASE SkipEntry
        BY <4>2 DEF SkipEntry, serving
      <4> QED BY <1>1, <4>1, <4>2
    <3>2. Own(i)' = Own(i) /\ (Own(i) # {} => walked'[Max(Own(i))] = walked[Max(Own(i))])
      BY <2>6, <2>8
    <3>3. base' = base
      BY <2>1
    <3> HIDE DEF e, k
    <3> QED BY <2>3, <3>1, <3>2, <3>3 DEF Applied
  <2> QED BY <2>7, <2>8
<1>2. CASE ReadFile
  <2>1. walked' = <<>> /\ base' = settings /\ settings' = settings /\ routes' = routes
    BY <1>2 DEF ReadFile, serving, tables
  <2>2. \A i : Applied(i)'
    <3>1. DOMAIN walked' = {}
      BY <2>1
    <3> QED BY <2>1, <3>1 DEF Applied, Own, Naming
  <2> QED BY <2>2 DEF AppliedAsWalked, Applied, Own, Naming
<1>3. CASE UNCHANGED <<routes, settings, walked, base, read>> /\ (phase' = "serve" => phase = "serve")
  <2>1. \A i : Own(i)' = Own(i)
    BY <1>3 DEF Own, Naming, SameRoute, SameServer
  <2>2. \A i : Applied(i)' <=> Applied(i)
    BY <1>3, <2>1 DEF Applied
  <2> QED BY <1>3, <2>2, NamesStay DEF AppliedAsWalked, Applied, Own, Naming
<1>4. CASE phase' # "serve"
  BY <1>4 DEF AppliedAsWalked
<1>5. CASE Serve
  BY <1>5 DEF Serve, EntryInv, StageInv, AppliedAsWalked, reloading
<1> QED
  BY <1>1, <1>2, <1>3, <1>4, <1>5
     DEF Next, vars, Edit, ReadRoutes, ReadFails, AddRoute, InvalidRoute, Failed,
         ResolveMiss, Evict, SetStrategy, Signal, TakeSignal, AbortReload, EndReload,
         tables, serving, reloading

\* Every step preserves the invariant.
LEMMA NextRouting == Parameters /\ RoutingInv /\ [Next]_vars => RoutingInv'
<1> SUFFICES ASSUME Parameters, RoutingInv, [Next]_vars PROVE RoutingInv'
  OBVIOUS
<1>1. EntryInv /\ TableInv /\ CacheInv /\ AskedInv /\ SignalServed /\ AppliedAsWalked
  BY DEF RoutingInv
<1>2. EntryInv' /\ TableInv'
  BY <1>1, EntryStep, TableStep
<1>3. CacheInv' /\ AskedInv'
  BY <1>1, ServingStep
<1>4. SignalServed'
  BY <1>1, SignalStep
<1>5. AppliedAsWalked'
  BY <1>1, AppliedStep
<1> QED BY <1>2, <1>3, <1>4, <1>5 DEF RoutingInv

\* The inductive invariant of the routing holds in every behaviour.
THEOREM RoutingInvariance ==
  ASSUME Parameters
  PROVE  Spec => []RoutingInv
<1>1. Init => RoutingInv
  BY InitRouting
<1>2. RoutingInv /\ [Next]_vars => RoutingInv'
  BY NextRouting
<1> QED BY <1>1, <1>2, PTL DEF Spec

-----------------------------------------------------------------------------
\* The type invariant: the settings and the strategies of the routes built so
\* far, and a cache for every router.
THEOREM RoutingTyped ==
  ASSUME Parameters
  PROVE  Spec => []TypeOK
<1>1. RoutingInv => TypeOK
  BY DEF RoutingInv, EntryInv
<1> QED BY <1>1, RoutingInvariance, PTL

\* No SIGHUP is lost (signals.forever merges them): an idle watcher has read
\* the file at least as late as the last one came.
THEOREM SignalIsServed ==
  ASSUME Parameters
  PROVE  Spec => []SignalServed
<1>1. RoutingInv => SignalServed
  BY DEF RoutingInv
<1> QED BY <1>1, RoutingInvariance, PTL

\* reload_routes sets the settings of the routes whose entries it walked over,
\* the last entry of each, and of no others.
THEOREM ReloadAppliesWalked ==
  ASSUME Parameters
  PROVE  Spec => []AppliedAsWalked
<1>1. RoutingInv => AppliedAsWalked
  BY DEF RoutingInv
<1> QED BY <1>1, RoutingInvariance, PTL

\* What a request is served by is what the tables say, cached or not.
LEMMA ResolvedIsLookUp ==
  ASSUME RoutingInv, NEW h, NEW p
  PROVE  Resolved(h, p) = LookUp(ServerOf(h), p)
<1>1. ServerOf(h) \in DOMAIN routers
  BY DEF ServerOf, RoutingInv, TableInv, RouterInv
<1>2. ServerOf(h) \in DOMAIN caches
  BY <1>1 DEF RoutingInv, EntryInv, TypeOK
<1> QED BY <1>2 DEF Resolved, RoutingInv, CacheInv

\* The strategy the endpoint accepted for a path (Proxy::route) is that of the
\* route that serves the path (Proxy::resolve).
THEOREM StrategyReaches ==
  ASSUME Parameters
  PROVE  Spec => []StrategyReachesTraffic
<1>1. RoutingInv => StrategyReachesTraffic
  <2> SUFFICES ASSUME RoutingInv, NEW a \in asked
               PROVE  Resolved(NoHost, a.path) # Nowhere
                      /\ strategy[Resolved(NoHost, a.path)] = a.strategy
    BY DEF StrategyReachesTraffic
  <2>1. EndpointRoute(a.path) # Nowhere /\ strategy[EndpointRoute(a.path)] = a.strategy
    BY DEF RoutingInv, AskedInv
  <2>2. ServerOf(NoHost) = Default
    BY DEF ServerOf
  <2>3. Resolved(NoHost, a.path) = EndpointRoute(a.path)
    BY <2>1, <2>2, ResolvedIsLookUp DEF LookUp, EndpointRoute
  <2> QED BY <2>1, <2>3
<1> QED BY <1>1, RoutingInvariance, PTL

-----------------------------------------------------------------------------
\* The server of a request and the host that the file names it by.
LEMMA NamedServer ==
  ASSUME Parameters, RoutingInv, phase = "serve", NEW host \in RequestHosts
  PROVE  LET h == NamedHost(host) IN
         /\ ServerOf(host) = IF h = NoHost THEN Default ELSE h
         /\ h # NoHost => h # Default
         /\ \A i \in Routes : Server(routes[i]) = ServerOf(host) <=> SameServer(routes[i], h)
<1> DEFINE h == NamedHost(host)
           key == HostKey[host]
<1>1. Routes = 1 .. Built /\ \A i \in Routes : routes[i] \in Entries
  BY DEF RoutingInv, EntryInv, StageInv, AcceptedInv, Routes
<1>2. \A i \in Routes : /\ routes[i].host \in DOMAIN Lower \cup {NoHost}
                        /\ routes[i].regex \in BOOLEAN
  BY <1>1, EntryFields
<1>3. \A x \in DOMAIN Lower : Lower[x] # NoHost /\ Lower[x] # Default
  BY DEF Parameters
<1>4. host # NoHost => key # NoHost /\ key # Default
  BY DEF Parameters
<1>5. \A i \in Routes : \A t : t # NoHost /\ t # Default =>
        (Server(routes[i]) = t <=> SameServer(routes[i], t))
  BY <1>2, <1>3 DEF Server, SameServer
<1>6. \A i \in Routes : Server(routes[i]) = Default <=> SameServer(routes[i], NoHost)
  BY <1>2, <1>3 DEF Server, SameServer
<1>7. ASSUME host # NoHost
      PROVE  key \in DOMAIN routers \ {Default}
             <=> \E i \in Routes : ~routes[i].regex /\ SameServer(routes[i], key)
  <2>1. ASSUME key \in DOMAIN routers
        PROVE  \E i \in Routes : ~routes[i].regex /\ SameServer(routes[i], key)
    <3>1. PICK q \in DOMAIN routers[key] : TRUE
      BY <1>4, <1>7, <2>1 DEF RoutingInv, TableInv, RouterInv
    <3> DEFINE i == routers[key][q]
    <3>2. i \in Routes /\ ~routes[i].regex /\ Server(routes[i]) = key
      BY <1>1, <2>1, <3>1 DEF RoutingInv, TableInv, RouterInv
    <3> QED BY <1>4, <1>5, <1>7, <3>2
  <2>2. ASSUME NEW i \in Routes, ~routes[i].regex, SameServer(routes[i], key)
        PROVE  key \in DOMAIN routers
    <3>1. Server(routes[i]) = key
      BY <1>4, <1>5, <1>7, <2>2
    <3> QED BY <1>1, <2>2, <3>1 DEF RoutingInv, TableInv, RouterInv
  <2> QED BY <1>4, <1>7, <2>1, <2>2
<1>8. CASE host # NoHost /\ key \in DOMAIN routers \ {Default}
  <2>1. h = key /\ ServerOf(host) = key
    BY <1>7, <1>8 DEF NamedHost, ServerOf
  <2> QED BY <1>4, <1>5, <1>8, <2>1
<1>9. CASE ~(host # NoHost /\ key \in DOMAIN routers \ {Default})
  <2>1. h = NoHost /\ ServerOf(host) = Default
    BY <1>7, <1>9 DEF NamedHost, ServerOf
  <2> QED BY <1>6, <2>1
<1> QED BY <1>8, <1>9


\* The router of a server has the patterns of the server's plain entries.
LEMMA PatternsOf ==
  ASSUME Parameters, RoutingInv, phase = "serve", NEW s \in DOMAIN routers, NEW q
  PROVE  q \in DOMAIN routers[s] <=>
           \E i \in Routes : ~routes[i].regex /\ Server(routes[i]) = s
                             /\ Transform[routes[i].path] = q
<1>1. Routes = 1 .. Built
  BY DEF RoutingInv, EntryInv, StageInv, Routes
<1> QED BY <1>1 DEF RoutingInv, TableInv, RouterInv

\* The first expression that matches is that of the first route with one.
LEMMA FirstExpression ==
  ASSUME Parameters, RoutingInv, phase = "serve", NEW p \in RequestPaths
  PROVE  LET exps == {i \in Routes : routes[i].regex
                                     /\ routes[i].path \in RegexMatches[p]}
         IN /\ exps = {} => RegexIn(Default, p) = Nowhere
            /\ exps # {} => /\ RegexIn(Default, p) \in exps
                            /\ \A j \in exps : RegexIn(Default, p) <= j
<1> DEFINE exps == {i \in Routes : routes[i].regex /\ routes[i].path \in RegexMatches[p]}
           hits == {k \in DOMAIN regexes : regexes[k][1] \in RegexMatches[p]}
           k == Min(hits)
<1>1. Routes = 1 .. Built
  BY DEF RoutingInv, EntryInv, StageInv, Routes
<1>2. /\ DOMAIN regexes = 1 .. Len(regexes) /\ Len(regexes) \in Nat
      /\ \A m \in DOMAIN regexes :
           /\ regexes[m][1] = routes[regexes[m][2]].path
           /\ regexes[m][2] \in Routes /\ routes[regexes[m][2]].regex
           /\ \A j \in 1 .. m - 1 : regexes[j][2] < regexes[m][2]
      /\ \A i \in Routes : routes[i].regex => \E m \in DOMAIN regexes : regexes[m][2] = i
  BY <1>1 DEF RoutingInv, TableInv, ExpressionInv
<1>3. \A m \in hits : regexes[m][2] \in exps
  BY <1>2
<1>4. \A i \in exps : \E m \in hits : regexes[m][2] = i
  BY <1>2
<1>5. CASE exps = {}
  <2>1. hits = {}
    BY <1>3, <1>5
  <2> QED BY <1>5, <2>1 DEF RegexIn
<1>6. CASE exps # {}
  <2>1. hits # {} /\ hits \subseteq Nat
    BY <1>2, <1>4, <1>6
  <2>2. k \in hits /\ \A m \in hits : k <= m
    <3> HIDE DEF hits
    <3> QED BY <2>1, MinOf
  <2>3. RegexIn(Default, p) = regexes[k][2]
    BY <2>1 DEF RegexIn
  <2>4. ASSUME NEW j \in exps PROVE regexes[k][2] <= j
    <3>1. PICK m \in hits : regexes[m][2] = j
      BY <1>4
    <3>2. k <= m /\ k \in DOMAIN regexes /\ m \in DOMAIN regexes
      BY <2>2
    <3> HIDE DEF k
    <3>3. regexes[k][2] \in Nat /\ j \in Nat
      BY <1>1, <1>2, <3>1, <3>2
    <3>4. k < m => regexes[k][2] < regexes[m][2]
      BY <1>2, <3>2
    <3> QED BY <1>2, <3>1, <3>2, <3>3, <3>4
  <2>5. regexes[k][2] \in exps
    BY <1>3, <2>2
  <2> QED BY <1>6, <2>3, <2>4, <2>5
<1> QED BY <1>5, <1>6

\* Proxy::resolve, with its tables and its caches, finds the route that the
\* file names for the host and the path, and none if the file names none.
THEOREM RequestsResolveAsConfigured ==
  ASSUME Parameters
  PROVE  Spec => []ResolvesAsConfigured
<1>1. RoutingInv => ResolvesAsConfigured
  <2> SUFFICES ASSUME RoutingInv, phase = "serve", NEW host \in RequestHosts,
                      NEW p \in RequestPaths
               PROVE  Resolved(host, p) \in IF Serves(NamedHost(host), p) = {} THEN {Nowhere}
                                            ELSE Serves(NamedHost(host), p)
    BY DEF ResolvesAsConfigured
  <2> DEFINE s == ServerOf(host)
             h == NamedHost(host)
             plain == {i \in Routes : ~routes[i].regex /\ SameServer(routes[i], h)}
             best == {k \in DOMAIN Matching[p] :
                        \E i \in plain : Transform[routes[i].path] = Matching[p][k]}
             exps == {i \in Routes : routes[i].regex
                                     /\ routes[i].path \in RegexMatches[p]}
             hits == {k \in DOMAIN Matching[p] : Matching[p][k] \in DOMAIN routers[s]}
  <2>1. /\ s = IF h = NoHost THEN Default ELSE h
        /\ h # NoHost => h # Default
        /\ \A i \in Routes : Server(routes[i]) = s <=> SameServer(routes[i], h)
    BY NamedServer
  <2>2. s \in DOMAIN routers /\ RouterInv
    BY DEF ServerOf, RoutingInv, TableInv, RouterInv
  <2>3. Resolved(host, p) = LookUp(s, p)
    BY ResolvedIsLookUp
  <2>4. Serves(h, p) =
          IF best # {} THEN {i \in plain : Transform[routes[i].path] = Matching[p][Min(best)]}
          ELSE IF h # NoHost THEN {} ELSE {i \in exps : \A j \in exps : i <= j}
    BY DEF Serves
  <2> HIDE DEF s, h
  <2>5. hits = best
    <3>1. \A q : q \in DOMAIN routers[s] <=>
                   \E i \in plain : Transform[routes[i].path] = q
      BY <2>1, <2>2, PatternsOf
    <3> HIDE DEF plain
    <3> QED BY <3>1
  <2>6. CASE best # {}
    <3> DEFINE q == Matching[p][Min(best)]
               i == routers[s][q]
    <3>1. Min(hits) \in hits /\ RouteIn(s, p) = routers[s][Matching[p][Min(hits)]]
          /\ RouteIn(s, p) \in 1 .. Built /\ RouteIn(s, p) # Nowhere
      BY <2>2, <2>5, <2>6, RouteInFound
    <3>2. q \in DOMAIN routers[s] /\ RouteIn(s, p) = i /\ i \in 1 .. Built
      BY <2>5, <3>1
    <3>3. ~routes[i].regex /\ Server(routes[i]) = s /\ Transform[routes[i].path] = q
      BY <2>2, <3>2 DEF RouterInv
    <3>4. i \in Routes
      BY <3>2 DEF RoutingInv, EntryInv, StageInv, Routes
    <3>5. i \in {j \in plain : Transform[routes[j].path] = q}
      BY <2>1, <3>3, <3>4
    <3>6. Resolved(host, p) = i
      BY <2>3, <3>1, <3>2 DEF LookUp
    <3> HIDE DEF i, plain, best
    <3> QED BY <2>4, <2>6, <3>5, <3>6 DEF h
  <2>7. CASE best = {}
    <3>1. RouteIn(s, p) = Nowhere
      BY <2>2, <2>5, <2>7, RouteInFound
    <3>2. Resolved(host, p) = RegexIn(s, p)
      BY <2>3, <3>1 DEF LookUp
    <3>3. CASE h # NoHost
      <4>1. Resolved(host, p) = Nowhere
        BY <2>1, <3>2, <3>3 DEF RegexIn
      <4> QED BY <2>4, <2>7, <3>3, <4>1 DEF h
    <3>4. CASE h = NoHost
      <4>1. s = Default
        BY <2>1, <3>4
      <4>2. /\ exps = {} => Resolved(host, p) = Nowhere
            /\ exps # {} => Resolved(host, p) \in {i \in exps : \A j \in exps : i <= j}
        BY <3>2, <4>1, FirstExpression
      <4>3. Serves(h, p) = {i \in exps : \A j \in exps : i <= j}
        BY <2>4, <2>7, <3>4
      <4>4. exps = {} => Serves(h, p) = {}
        BY <4>3
      <4> HIDE DEF exps
      <4> QED BY <4>2, <4>3, <4>4 DEF h
    <3> QED BY <3>3, <3>4
  <2> QED BY <2>6, <2>7
<1> QED BY <1>1, RoutingInvariance, PTL
=============================================================================
