-------------------------- MODULE LoadBalancerProofs --------------------------
(***************************************************************************)
(* Proofs about LoadBalancer, for every value of its constants.            *)
(***************************************************************************)
EXTENDS LoadBalancer, TLAPS

USE BgIsNoSetter, NoneIsNoTask

-----------------------------------------------------------------------------
\* Lemmas on the helpers.

\* The empty map is a partial map to any set.
LEMMA EmptyType == ASSUME NEW V PROVE IsPartial(Empty, V)
  BY DEF IsPartial, Empty

\* Adding an entry of the right type keeps a map partial.
LEMMA WithType ==
  ASSUME NEW V, NEW f, IsPartial(f, V), NEW b \in Backend, NEW v \in V
  PROVE  IsPartial(With(f, b, v), V) /\ DOMAIN With(f, b, v) = DOMAIN f \cup {b}
  BY DEF IsPartial, With

\* Removing an entry keeps a map partial.
LEMMA WithoutType ==
  ASSUME NEW V, NEW f, IsPartial(f, V), NEW b
  PROVE  IsPartial(Without(f, b), V)
  BY DEF IsPartial, Without

\* A store into one cell keeps a table partial, and its domain.
LEMMA ExceptType ==
  ASSUME NEW V, NEW f, IsPartial(f, V), NEW b, NEW v \in V
  PROVE  IsPartial([f EXCEPT ![b] = v], V)
         /\ DOMAIN [f EXCEPT ![b] = v] = DOMAIN f
  BY DEF IsPartial

\* A looked up value has the type of the map.
LEMMA LookupType ==
  ASSUME NEW V, NEW f, IsPartial(f, V), NEW b \in DOMAIN f
  PROVE  f[b] \in V /\ b \in Backend
  BY DEF IsPartial

\* The values the cell methods store are cells.
LEMMA CellTypes ==
  /\ DefaultHealth \in Health
  /\ \A h \in Health, v \in BOOLEAN : Enabled(h, v) \in Health
  /\ \A h \in Health, ok \in BOOLEAN, n \in Nat : Observed(h, ok, n) \in Health
<1>1. DefaultHealth \in Health
  BY DEF DefaultHealth, Health
<1>2. \A h \in Health, v \in BOOLEAN : Enabled(h, v) \in Health
  BY DEF Enabled, Health
<1>3. ASSUME NEW h \in Health, NEW ok \in BOOLEAN, NEW n \in Nat
      PROVE  Observed(h, ok, n) \in Health
  <2>1. CASE Flips(h, ok, n)
    <3>1. Observed(h, ok, n) = [h EXCEPT !.healthy = ok, !.consecutive_counter = 0]
      BY <2>1 DEF Observed, Flips
    <3>2. [h EXCEPT !.healthy = ok] \in Health
      BY DEF Health
    <3>3. [[h EXCEPT !.healthy = ok] EXCEPT !.consecutive_counter = 0] \in Health
      BY <3>2 DEF Health
    <3> QED BY <3>1, <3>3
  <2>2. CASE h.healthy # ok /\ ~Flips(h, ok, n)
    <3>1. Observed(h, ok, n) = [h EXCEPT !.consecutive_counter = @ + 1]
      BY <2>2 DEF Observed, Flips
    <3> QED BY <3>1 DEF Health
  <2>3. CASE h.healthy = ok
    <3>1. Observed(h, ok, n) = [h EXCEPT !.consecutive_counter = 0]
      BY <2>3 DEF Observed, Flips
    <3> QED BY <3>1 DEF Health
  <2> QED BY <2>1, <2>2, <2>3
<1> QED BY <1>1, <1>2, <1>3

\* An observation extends a history entry to a history entry.
LEMMA NextObsType ==
  ASSUME NEW o \in [ok : BOOLEAN, run : Nat, verdict : BOOLEAN],
         NEW ok \in BOOLEAN
  PROVE  NextObs(o, ok) \in [ok : BOOLEAN, run : Nat, verdict : BOOLEAN]
  BY ThresholdsPositive DEF NextObs

\* The initial state is typed.
LEMMA TypeInit == Init => TypeOK
<1> SUFFICES ASSUME Init PROVE TypeOK
  OBVIOUS
<1>1. SharedTypeOK
  BY EmptyType DEF Init, SharedTypeOK, Build
<1>2. TaskTypeOK
  BY DEF Init, TaskTypeOK
<1>3. BgTypeOK
  BY EmptyType DEF Init, BgTypeOK
<1>4. RequestTypeOK
  BY EmptyType DEF Init, RequestTypeOK, NoScan
<1>5. HistTypeOK
  BY DEF Init, HistTypeOK, NewObs
<1> QED BY <1>1, <1>2, <1>3, <1>4, <1>5 DEF TypeOK

\* The load of an `enable` keeps what it changes typed.
LEMMA EnableLoadType ==
  ASSUME TypeOK, NEW t \in Enabler, NEW b \in Backend, NEW v \in BOOLEAN,
         EnableLoad(t, b, v), UNCHANGED <<scan, handed, told, obs, retired>>
  PROVE  RequestTypeOK' /\ HistTypeOK'
<1>1. b \in DOMAIN health =>
        [backend |-> b, value |-> v, loaded |-> health[b], stale |-> FALSE]
          \in [backend : Backend, value : BOOLEAN, loaded : Health,
               stale : BOOLEAN]
  BY LookupType DEF TypeOK, SharedTypeOK
<1>2. RequestTypeOK'
  BY <1>1 DEF EnableLoad, TypeOK, RequestTypeOK
<1>3. HistTypeOK'
  BY DEF EnableLoad, TypeOK, HistTypeOK
<1> QED BY <1>2, <1>3

\* Every step keeps the type invariant.
LEMMA TypeStep == TypeOK /\ [Next]_vars => TypeOK'
<1> SUFFICES ASSUME TypeOK, [Next]_vars PROVE TypeOK'
  OBVIOUS
<1> USE DEF TypeOK
<1>1. ASSUME UpdateLock PROVE TypeOK'
  BY <1>1 DEF UpdateLock, SharedTypeOK, TaskTypeOK, BgTypeOK, RequestTypeOK, HistTypeOK,
         Goto, Task, Enabler, lbVars, bgVars, reqVars, histVars
<1>2. ASSUME DiscoverFails PROVE TypeOK'
  BY <1>2 DEF DiscoverFails, SharedTypeOK, TaskTypeOK, BgTypeOK, RequestTypeOK, HistTypeOK,
         Goto, Task, Enabler, lbVars, bgVars, reqVars, histVars
<1>3. ASSUME DiscoverChanged PROVE TypeOK'
  BY <1>3, EmptyType, EnablementMaps, DiscoveredSets DEF DiscoverChanged, SharedTypeOK, TaskTypeOK, BgTypeOK, RequestTypeOK, HistTypeOK,
         Goto, Task, Enabler, lbVars, bgVars, reqVars, histVars
<1>4. ASSUME DiscoverSame PROVE TypeOK'
  BY <1>4, EnablementMaps DEF DiscoverSame, SharedTypeOK, TaskTypeOK, BgTypeOK, RequestTypeOK, HistTypeOK,
         Goto, Task, Enabler, lbVars, bgVars, reqVars, histVars, IsPartial
<1>5. ASSUME NEW b \in Backend, CloneBackend(b) PROVE TypeOK'
  <2>1. SharedTypeOK' /\ TaskTypeOK' /\ RequestTypeOK' /\ HistTypeOK'
    BY <1>5 DEF CloneBackend, SharedTypeOK, TaskTypeOK, RequestTypeOK,
                HistTypeOK, lbVars, reqVars, histVars
  <2> DEFINE metrics == IF b \in DOMAIN backends THEN backends[b] ELSE nextMetrics
             cell == IF b \in DOMAIN health THEN health[b] ELSE DefaultHealth
             new == IF b \in DOMAIN enablement
                    THEN Enabled(cell, enablement[b]) ELSE cell
  <2>2. metrics \in Nat
    BY LookupType DEF SharedTypeOK, BgTypeOK
  <2>3. cell \in Health
    BY LookupType, CellTypes DEF SharedTypeOK
  <2>4. new \in Health
    BY <2>3, LookupType, CellTypes DEF BgTypeOK
  <2>5. newBackends' = With(newBackends, b, metrics)
        /\ newHealth' = With(newHealth, b, new)
    BY <1>5 DEF CloneBackend
  <2> HIDE DEF metrics, new
  <2>6. IsPartial(newBackends', Nat) /\ IsPartial(newHealth', Health)
    BY <2>2, <2>4, <2>5, WithType DEF BgTypeOK
  <2>7. BgTypeOK'
    BY <1>5, <2>6 DEF CloneBackend, BgTypeOK
  <2> QED BY <2>1, <2>7
<1>6. ASSUME NEW b \in Backend, OverrideEnablement(b) PROVE TypeOK'
  <2>0. enablement[b] \in BOOLEAN /\ Bg \in Enabler
    BY <1>6 DEF OverrideEnablement, BgTypeOK, IsPartial, Enabler
  <2>1. SharedTypeOK' /\ TaskTypeOK' /\ BgTypeOK'
    BY <1>6 DEF OverrideEnablement, SharedTypeOK, TaskTypeOK, BgTypeOK, lbVars, bgVars
  <2>2. RequestTypeOK' /\ HistTypeOK'
    BY <1>6, <2>0, EnableLoadType DEF OverrideEnablement, reqVars
  <2> QED BY <2>1, <2>2
<1>7. ASSUME StoreSelector PROVE TypeOK'
  BY <1>7 DEF StoreSelector, Build, SharedTypeOK, TaskTypeOK, BgTypeOK, RequestTypeOK, HistTypeOK,
         Goto, Task, Enabler, lbVars, bgVars, reqVars, histVars
<1>8. ASSUME StoreBackends PROVE TypeOK'
  <2>1. {backends[b] : b \in DOMAIN backends \ DOMAIN newBackends} \subseteq Nat
    BY DEF SharedTypeOK, IsPartial
  <2>2. HistTypeOK'
    BY <1>8, <2>1 DEF StoreBackends, HistTypeOK
  <2>3. SharedTypeOK' /\ TaskTypeOK' /\ BgTypeOK' /\ RequestTypeOK'
    BY <1>8 DEF StoreBackends, SharedTypeOK, TaskTypeOK, BgTypeOK,
                RequestTypeOK, Goto, bgVars, reqVars
  <2> QED BY <2>2, <2>3
<1>9. ASSUME StoreHealth PROVE TypeOK'
  <2>1. SharedTypeOK' /\ TaskTypeOK' /\ BgTypeOK'
    BY <1>9, EmptyType DEF StoreHealth, SharedTypeOK, TaskTypeOK, BgTypeOK,
                           Goto, Task
  <2>2. RequestTypeOK'
    BY <1>9 DEF StoreHealth, RequestTypeOK, reqVars
  <2>3. HistTypeOK'
    BY <1>9 DEF StoreHealth, HistTypeOK, NewObs
  <2> QED BY <2>1, <2>2, <2>3
<1>10. ASSUME EnablementDone PROVE TypeOK'
  <2>1. SharedTypeOK' /\ TaskTypeOK' /\ pc'[Bg] = "idle"
    BY <1>10 DEF EnablementDone, SharedTypeOK, TaskTypeOK, Goto, Task
  <2>2. BgTypeOK'
    BY <1>10, <2>1, EmptyType DEF EnablementDone, BgTypeOK
  <2>3. RequestTypeOK' /\ HistTypeOK'
    BY <1>10 DEF EnablementDone, RequestTypeOK, HistTypeOK, reqVars, histVars
  <2> QED BY <2>1, <2>2, <2>3
<1>11. ASSUME RunHealthCheck PROVE TypeOK'
  BY <1>11 DEF RunHealthCheck, SharedTypeOK, TaskTypeOK, BgTypeOK, RequestTypeOK, HistTypeOK,
         Goto, Task, Enabler, lbVars, bgVars, reqVars, histVars, IsPartial
<1>12. ASSUME NEW b \in Backend, NEW ok \in BOOLEAN, CheckLoad(b, ok) PROVE TypeOK'
  <2>1. SharedTypeOK' /\ TaskTypeOK' /\ RequestTypeOK'
    BY <1>12 DEF CheckLoad, SharedTypeOK, TaskTypeOK, RequestTypeOK, lbVars, reqVars
  <2>2. HistTypeOK'
    <3>1. NextObs(obs[b], ok) \in [ok : BOOLEAN, run : Nat, verdict : BOOLEAN]
      BY NextObsType DEF HistTypeOK
    <3>2. obs' = obs \/ obs' = [obs EXCEPT ![b] = NextObs(obs[b], ok)]
      BY <1>12 DEF CheckLoad
    <3> QED BY <1>12, <3>1, <3>2 DEF CheckLoad, HistTypeOK
  <2>3. IsPartial(jobs', [ok : BOOLEAN, loaded : Health])
    <3>1. CASE jobs' = jobs
      BY <3>1 DEF BgTypeOK
    <3>2. CASE b \in DOMAIN health
               /\ jobs' = With(jobs, b, [ok |-> ok, loaded |-> health[b]])
      <4>1. [ok |-> ok, loaded |-> health[b]] \in [ok : BOOLEAN, loaded : Health]
        BY <3>2, LookupType DEF SharedTypeOK
      <4> QED BY <3>2, <4>1, WithType DEF BgTypeOK
    <3> QED BY <1>12, <3>1, <3>2 DEF CheckLoad
  <2>4. BgTypeOK'
    BY <1>12, <2>3 DEF CheckLoad, BgTypeOK
  <2> QED BY <2>1, <2>2, <2>4
<1>13. ASSUME NEW b \in Backend, CheckStore(b) PROVE TypeOK'
  <2>1. jobs[b].ok \in BOOLEAN /\ jobs[b].loaded \in Health
    BY <1>13 DEF CheckStore, BgTypeOK, IsPartial
  <2>2. Observed(jobs[b].loaded, jobs[b].ok, Threshold(jobs[b].ok)) \in Health
    BY <2>1, CellTypes, ThresholdsPositive DEF Threshold
  <2>3. SharedTypeOK'
    BY <1>13, <2>2, ExceptType DEF CheckStore, SharedTypeOK
  <2>4. TaskTypeOK' /\ RequestTypeOK'
    BY <1>13 DEF CheckStore, TaskTypeOK, RequestTypeOK, reqVars
  <2>5. BgTypeOK'
    BY <1>13, WithoutType DEF CheckStore, BgTypeOK
  <2>6. HistTypeOK'
    BY <1>13, <2>1 DEF CheckStore, HistTypeOK
  <2> QED BY <2>3, <2>4, <2>5, <2>6
<1>14. ASSUME ChecksDone PROVE TypeOK'
  BY <1>14 DEF ChecksDone, SharedTypeOK, TaskTypeOK, BgTypeOK, RequestTypeOK, HistTypeOK,
         Goto, Task, Enabler, lbVars, bgVars, reqVars, histVars
<1>15. ASSUME RebuildLock PROVE TypeOK'
  BY <1>15 DEF RebuildLock, SharedTypeOK, TaskTypeOK, BgTypeOK, RequestTypeOK, HistTypeOK,
         Goto, Task, Enabler, lbVars, bgVars, reqVars, histVars
<1>16. ASSUME RebuildStore PROVE TypeOK'
  BY <1>16 DEF RebuildStore, Build, SharedTypeOK, TaskTypeOK, BgTypeOK, RequestTypeOK, HistTypeOK,
         Goto, Task, Enabler, lbVars, bgVars, reqVars, histVars
<1>17. ASSUME NEW t \in Task, NEW s \in Strategy, UpdateStrategy(t, s) PROVE TypeOK'
  BY <1>17 DEF UpdateStrategy, SharedTypeOK, TaskTypeOK, BgTypeOK, RequestTypeOK, HistTypeOK,
         Goto, Task, Enabler, lbVars, bgVars, reqVars, histVars
<1>18. ASSUME NEW t \in Task, WriteLock(t) PROVE TypeOK'
  BY <1>18 DEF WriteLock, SharedTypeOK, TaskTypeOK, BgTypeOK, RequestTypeOK, HistTypeOK,
         Goto, Task, Enabler, lbVars, bgVars, reqVars, histVars
<1>19. ASSUME NEW t \in Task, StrategyUnchanged(t) PROVE TypeOK'
  BY <1>19 DEF StrategyUnchanged, SharedTypeOK, TaskTypeOK, BgTypeOK, RequestTypeOK, HistTypeOK,
         Goto, Task, Enabler, lbVars, bgVars, reqVars, histVars
<1>20. ASSUME NEW t \in Task, SetStrategy(t) PROVE TypeOK'
  BY <1>20 DEF SetStrategy, SharedTypeOK, TaskTypeOK, BgTypeOK, RequestTypeOK, HistTypeOK,
         Goto, Task, Enabler, lbVars, bgVars, reqVars, histVars
<1>21. ASSUME NEW t \in Task, StoreStrategySelector(t) PROVE TypeOK'
  BY <1>21 DEF StoreStrategySelector, Build, SharedTypeOK, TaskTypeOK, BgTypeOK, RequestTypeOK, HistTypeOK,
         Goto, Task, Enabler, lbVars, bgVars, reqVars, histVars
<1>22. ASSUME NEW t \in Enabler, EnableStore(t) PROVE TypeOK'
  <2>1. CASE enabling[t].stale
    BY <1>22, <2>1 DEF EnableStore, SharedTypeOK, TaskTypeOK, BgTypeOK, RequestTypeOK,
                       HistTypeOK, bgVars, reqVars
  <2>2. CASE ~enabling[t].stale
    <3>1. enabling[t].backend \in Backend /\ enabling[t].value \in BOOLEAN
          /\ enabling[t].loaded \in Health
      BY <1>22 DEF EnableStore, RequestTypeOK
    <3>2. SharedTypeOK'
      <4>1. Enabled(enabling[t].loaded, enabling[t].value) \in Health
        BY <3>1, CellTypes
      <4>2. IsPartial(health', Health)
        <5>1. health' = [health EXCEPT ![enabling[t].backend] =
                           Enabled(enabling[t].loaded, enabling[t].value)]
          BY <1>22, <2>2 DEF EnableStore
        <5> QED BY <4>1, <5>1, ExceptType DEF SharedTypeOK
      <4> QED BY <1>22, <4>2 DEF EnableStore, SharedTypeOK
    <3>3. TaskTypeOK' /\ BgTypeOK' /\ RequestTypeOK'
      BY <1>22 DEF EnableStore, TaskTypeOK, BgTypeOK, RequestTypeOK, bgVars, reqVars
    <3>4. HistTypeOK'
      BY <1>22, <2>2, <3>1 DEF EnableStore, HistTypeOK
    <3> QED BY <3>2, <3>3, <3>4
  <2> QED BY <2>1, <2>2
<1>23. ASSUME NEW r \in Toggler, NEW b \in Backend, NEW v \in BOOLEAN, SetEnable(r, b, v) PROVE TypeOK'
  <2>0. r \in Enabler
    BY DEF Enabler
  <2>1. SharedTypeOK' /\ TaskTypeOK' /\ BgTypeOK'
    BY <1>23 DEF SetEnable, SharedTypeOK, TaskTypeOK, BgTypeOK, lbVars, bgVars
  <2>2. RequestTypeOK' /\ HistTypeOK'
    BY <1>23, <2>0, EnableLoadType DEF SetEnable, reqVars
  <2> QED BY <2>1, <2>2
<1>24. ASSUME NEW r \in Request, Select(r) PROVE TypeOK'
  BY <1>24 DEF Select, SharedTypeOK, TaskTypeOK, BgTypeOK, RequestTypeOK, HistTypeOK,
         Goto, Task, Enabler, lbVars, bgVars, reqVars, histVars
<1>25. ASSUME NEW r \in Request, SelectNone(r) PROVE TypeOK'
  BY <1>25, EmptyType DEF SelectNone, NoScan, SharedTypeOK, TaskTypeOK, BgTypeOK, RequestTypeOK, HistTypeOK,
         Goto, Task, Enabler, lbVars, bgVars, reqVars, histVars
<1>26. ASSUME NEW r \in Request, NEW b \in Backend, SelectNext(r, b) PROVE TypeOK'
  <2>1. SharedTypeOK' /\ TaskTypeOK' /\ BgTypeOK' /\ HistTypeOK'
    BY <1>26 DEF SelectNext, SharedTypeOK, TaskTypeOK, BgTypeOK, HistTypeOK,
                 lbVars, bgVars, histVars
  <2>2. scan[r].left[b] \in Nat
    BY <1>26 DEF SelectNext, RequestTypeOK, IsPartial
  <2>3. handed' \in SUBSET (Backend \X Nat)
    BY <1>26, <2>2 DEF SelectNext, RequestTypeOK
  <2>4. IsPartial(Without(scan[r].left, b), Nat)
    BY WithoutType DEF RequestTypeOK
  <2>5. CASE scan' = [scan EXCEPT ![r] = NoScan]
    <3>1. scan'[r] = NoScan /\ \A x \in Request \ {r} : scan'[x] = scan[x]
      BY <2>5 DEF RequestTypeOK
    <3>2. DOMAIN scan' = Request /\ enabling' = enabling
      BY <1>26, <2>5 DEF SelectNext, RequestTypeOK
    <3>3. /\ NoScan = [looking |-> NoScan.looking, left |-> NoScan.left]
          /\ NoScan.looking \in BOOLEAN /\ NoScan.left = Empty
      BY DEF NoScan
    <3>4. IsPartial(NoScan.left, Nat)
      BY <3>3, EmptyType
    <3>5. RequestTypeOK'
      BY <2>3, <3>1, <3>2, <3>3, <3>4 DEF RequestTypeOK
    <3> QED BY <2>1, <3>5
  <2>6. CASE scan' = [scan EXCEPT ![r].left = Without(@, b)]
    <3>1. scan'[r] = [looking |-> scan[r].looking,
                      left |-> Without(scan[r].left, b)]
          /\ \A x \in Request \ {r} : scan'[x] = scan[x]
      BY <2>6 DEF RequestTypeOK
    <3>2. DOMAIN scan' = Request /\ enabling' = enabling
      BY <1>26, <2>6 DEF SelectNext, RequestTypeOK
    <3>3. RequestTypeOK'
      BY <2>3, <2>4, <3>1, <3>2 DEF RequestTypeOK
    <3> QED BY <2>1, <3>3
  <2> QED BY <1>26, <2>5, <2>6 DEF SelectNext
<1>27. CASE UNCHANGED vars
  BY <1>27 DEF vars, SharedTypeOK, TaskTypeOK, BgTypeOK, RequestTypeOK, HistTypeOK,
         Goto, Task, Enabler, lbVars, bgVars, reqVars, histVars
<1> QED
  BY <1>1, <1>2, <1>3, <1>4, <1>5, <1>6, <1>7, <1>8, <1>9, <1>10, <1>11, <1>12, <1>13, <1>14, <1>15, <1>16, <1>17, <1>18, <1>19, <1>20, <1>21, <1>22, <1>23, <1>24, <1>25, <1>26, <1>27
     DEF Next, Update, Checks, SetterStep, RequestStep

\* Every reachable state is typed.
THEOREM TypeCorrect == Spec => []TypeOK
  BY TypeInit, TypeStep, PTL DEF Spec

-----------------------------------------------------------------------------
(***************************************************************************)
(* The inductive invariant.  The lock is held exactly in the steps that    *)
(* hold it; the selector differs from what strategy and backends give only *)
(* between the stores of the one holder; the tables under construction     *)
(* agree with each other and keep the metrics of known backends; and what  *)
(* a select in progress may still return has live metrics too.             *)
(***************************************************************************)
Holding == {"discover", "clone", "storeBackends", "storeHealth", "enablement",
            "rebuild", "compare", "store"}

LockInv == \A t \in Task : lock = t <=> pc[t] \in Holding

SelectorInv ==
  /\ selector.backends = IF pc[Bg] = "storeBackends" THEN newBackends ELSE backends
  /\ selector.strategy = strategy \/ \E t \in Task : pc[t] = "store"

HealthInv ==
  /\ DOMAIN newHealth = DOMAIN newBackends
  /\ pc[Bg] = "storeHealth" => backends = newBackends
  /\ HealthKnown

MetricsInv ==
  /\ \A b \in DOMAIN newBackends \cap DOMAIN backends :
       newBackends[b] = backends[b]
  /\ RequestsUseLiveMetrics
  /\ \A r \in Request : \A b \in DOMAIN scan[r].left :
       LiveMetrics(b, scan[r].left[b])

WantedInv == \A t \in Task : pc[t] = "store" => strategy = wanted[t]

IInv ==
  TypeOK /\ LockInv /\ SelectorInv /\ HealthInv /\ MetricsInv /\ WantedInv

\* The initial state satisfies the invariant.
LEMMA IndInit == Init => IInv
<1> SUFFICES ASSUME Init PROVE IInv
  OBVIOUS
<1>1. TypeOK
  BY TypeInit
<1>2. LockInv
  BY DEF Init, LockInv, Holding, Task
<1>3. SelectorInv
  BY DEF Init, SelectorInv, Build, Task, Empty
<1>4. HealthInv
  BY DEF Init, HealthInv, HealthKnown, Task
<1>5. MetricsInv
  BY DEF Init, MetricsInv, RequestsUseLiveMetrics, NoScan, Empty
<1>6. WantedInv
  BY DEF Init, WantedInv
<1> QED BY <1>1, <1>2, <1>3, <1>4, <1>5, <1>6 DEF IInv

\* Every step keeps the lock discipline.
LEMMA LockStep ==
  ASSUME TypeOK, LockInv, [Next]_vars
  PROVE  LockInv'
<1> USE DEF TypeOK, TaskTypeOK, SharedTypeOK, LockInv, Holding, Goto, Task, lbVars, bgVars, reqVars, histVars
<1>1. ASSUME UpdateLock PROVE LockInv'
  BY <1>1 DEF UpdateLock
<1>2. ASSUME DiscoverFails PROVE LockInv'
  BY <1>2 DEF DiscoverFails
<1>3. ASSUME DiscoverChanged PROVE LockInv'
  BY <1>3 DEF DiscoverChanged
<1>4. ASSUME DiscoverSame PROVE LockInv'
  BY <1>4 DEF DiscoverSame
<1>5. ASSUME NEW b \in Backend, CloneBackend(b) PROVE LockInv'
  BY <1>5 DEF CloneBackend
<1>6. ASSUME NEW b \in Backend, OverrideEnablement(b) PROVE LockInv'
  BY <1>6 DEF OverrideEnablement
<1>7. ASSUME StoreSelector PROVE LockInv'
  BY <1>7 DEF StoreSelector, Build
<1>8. ASSUME StoreBackends PROVE LockInv'
  BY <1>8 DEF StoreBackends
<1>9. ASSUME StoreHealth PROVE LockInv'
  BY <1>9 DEF StoreHealth
<1>10. ASSUME EnablementDone PROVE LockInv'
  BY <1>10 DEF EnablementDone
<1>11. ASSUME RunHealthCheck PROVE LockInv'
  BY <1>11 DEF RunHealthCheck
<1>12. ASSUME NEW b \in Backend, NEW ok \in BOOLEAN, CheckLoad(b, ok) PROVE LockInv'
  BY <1>12 DEF CheckLoad
<1>13. ASSUME NEW b \in Backend, CheckStore(b) PROVE LockInv'
  BY <1>13 DEF CheckStore
<1>14. ASSUME ChecksDone PROVE LockInv'
  BY <1>14 DEF ChecksDone
<1>15. ASSUME RebuildLock PROVE LockInv'
  BY <1>15 DEF RebuildLock
<1>16. ASSUME RebuildStore PROVE LockInv'
  BY <1>16 DEF RebuildStore, Build
<1>17. ASSUME NEW t \in Task, NEW s \in Strategy, UpdateStrategy(t, s) PROVE LockInv'
  BY <1>17 DEF UpdateStrategy
<1>18. ASSUME NEW t \in Task, WriteLock(t) PROVE LockInv'
  BY <1>18 DEF WriteLock
<1>19. ASSUME NEW t \in Task, StrategyUnchanged(t) PROVE LockInv'
  BY <1>19 DEF StrategyUnchanged
<1>20. ASSUME NEW t \in Task, SetStrategy(t) PROVE LockInv'
  BY <1>20 DEF SetStrategy
<1>21. ASSUME NEW t \in Task, StoreStrategySelector(t) PROVE LockInv'
  BY <1>21 DEF StoreStrategySelector, Build
<1>22. ASSUME NEW t \in Enabler, EnableStore(t) PROVE LockInv'
  BY <1>22 DEF EnableStore
<1>23. ASSUME NEW r \in Toggler, NEW b \in Backend, NEW v \in BOOLEAN, SetEnable(r, b, v) PROVE LockInv'
  BY <1>23 DEF SetEnable
<1>24. ASSUME NEW r \in Request, Select(r) PROVE LockInv'
  BY <1>24 DEF Select
<1>25. ASSUME NEW r \in Request, SelectNone(r) PROVE LockInv'
  BY <1>25 DEF SelectNone, NoScan
<1>26. ASSUME NEW r \in Request, NEW b \in Backend, SelectNext(r, b) PROVE LockInv'
  BY <1>26 DEF SelectNext, NoScan
<1>27. CASE UNCHANGED vars
  BY <1>27 DEF vars
<1> QED
  BY <1>1, <1>2, <1>3, <1>4, <1>5, <1>6, <1>7, <1>8, <1>9, <1>10, <1>11, <1>12, <1>13, <1>14, <1>15, <1>16, <1>17, <1>18, <1>19, <1>20, <1>21, <1>22, <1>23, <1>24, <1>25, <1>26, <1>27
     DEF Next, Update, Checks, SetterStep, RequestStep

\* Every step keeps the selector current but between the holder's stores.
LEMMA SelectorStep ==
  ASSUME TypeOK, LockInv, SelectorInv, [Next]_vars
  PROVE  SelectorInv'
<1> USE DEF TypeOK, TaskTypeOK, LockInv, Holding, SelectorInv, Goto, Task, lbVars, bgVars, reqVars, histVars
<1>1. ASSUME UpdateLock PROVE SelectorInv'
  BY <1>1 DEF UpdateLock
<1>2. ASSUME DiscoverFails PROVE SelectorInv'
  BY <1>2 DEF DiscoverFails
<1>3. ASSUME DiscoverChanged PROVE SelectorInv'
  BY <1>3 DEF DiscoverChanged
<1>4. ASSUME DiscoverSame PROVE SelectorInv'
  BY <1>4 DEF DiscoverSame
<1>5. ASSUME NEW b \in Backend, CloneBackend(b) PROVE SelectorInv'
  BY <1>5 DEF CloneBackend
<1>6. ASSUME NEW b \in Backend, OverrideEnablement(b) PROVE SelectorInv'
  BY <1>6 DEF OverrideEnablement
<1>7. ASSUME StoreSelector PROVE SelectorInv'
  BY <1>7 DEF StoreSelector, Build
<1>8. ASSUME StoreBackends PROVE SelectorInv'
  BY <1>8 DEF StoreBackends
<1>9. ASSUME StoreHealth PROVE SelectorInv'
  BY <1>9 DEF StoreHealth
<1>10. ASSUME EnablementDone PROVE SelectorInv'
  BY <1>10 DEF EnablementDone
<1>11. ASSUME RunHealthCheck PROVE SelectorInv'
  BY <1>11 DEF RunHealthCheck
<1>12. ASSUME NEW b \in Backend, NEW ok \in BOOLEAN, CheckLoad(b, ok) PROVE SelectorInv'
  BY <1>12 DEF CheckLoad
<1>13. ASSUME NEW b \in Backend, CheckStore(b) PROVE SelectorInv'
  BY <1>13 DEF CheckStore
<1>14. ASSUME ChecksDone PROVE SelectorInv'
  BY <1>14 DEF ChecksDone
<1>15. ASSUME RebuildLock PROVE SelectorInv'
  BY <1>15 DEF RebuildLock
<1>16. ASSUME RebuildStore PROVE SelectorInv'
  BY <1>16 DEF RebuildStore, Build
<1>17. ASSUME NEW t \in Task, NEW s \in Strategy, UpdateStrategy(t, s) PROVE SelectorInv'
  BY <1>17 DEF UpdateStrategy
<1>18. ASSUME NEW t \in Task, WriteLock(t) PROVE SelectorInv'
  BY <1>18 DEF WriteLock
<1>19. ASSUME NEW t \in Task, StrategyUnchanged(t) PROVE SelectorInv'
  BY <1>19 DEF StrategyUnchanged
<1>20. ASSUME NEW t \in Task, SetStrategy(t) PROVE SelectorInv'
  BY <1>20 DEF SetStrategy
<1>21. ASSUME NEW t \in Task, StoreStrategySelector(t) PROVE SelectorInv'
  BY <1>21 DEF StoreStrategySelector, Build
<1>22. ASSUME NEW t \in Enabler, EnableStore(t) PROVE SelectorInv'
  BY <1>22 DEF EnableStore
<1>23. ASSUME NEW r \in Toggler, NEW b \in Backend, NEW v \in BOOLEAN, SetEnable(r, b, v) PROVE SelectorInv'
  BY <1>23 DEF SetEnable
<1>24. ASSUME NEW r \in Request, Select(r) PROVE SelectorInv'
  BY <1>24 DEF Select
<1>25. ASSUME NEW r \in Request, SelectNone(r) PROVE SelectorInv'
  BY <1>25 DEF SelectNone, NoScan
<1>26. ASSUME NEW r \in Request, NEW b \in Backend, SelectNext(r, b) PROVE SelectorInv'
  BY <1>26 DEF SelectNext, NoScan
<1>27. CASE UNCHANGED vars
  BY <1>27 DEF vars
<1> QED
  BY <1>1, <1>2, <1>3, <1>4, <1>5, <1>6, <1>7, <1>8, <1>9, <1>10, <1>11, <1>12, <1>13, <1>14, <1>15, <1>16, <1>17, <1>18, <1>19, <1>20, <1>21, <1>22, <1>23, <1>24, <1>25, <1>26, <1>27
     DEF Next, Update, Checks, SetterStep, RequestStep

\* Every step keeps the two tables in agreement.
LEMMA HealthStep ==
  ASSUME TypeOK, LockInv, HealthInv, [Next]_vars
  PROVE  HealthInv'
<1> USE DEF TypeOK, TaskTypeOK, HealthInv, HealthKnown, Goto, Task, lbVars, bgVars, reqVars, histVars
<1>1. ASSUME UpdateLock PROVE HealthInv'
  BY <1>1 DEF UpdateLock
<1>2. ASSUME DiscoverFails PROVE HealthInv'
  BY <1>2 DEF DiscoverFails
<1>3. ASSUME DiscoverChanged PROVE HealthInv'
  BY <1>3 DEF DiscoverChanged
<1>4. ASSUME DiscoverSame PROVE HealthInv'
  BY <1>4 DEF DiscoverSame
<1>5. ASSUME NEW b \in Backend, CloneBackend(b) PROVE HealthInv'
  BY <1>5 DEF CloneBackend, With
<1>6. ASSUME NEW b \in Backend, OverrideEnablement(b) PROVE HealthInv'
  BY <1>6 DEF OverrideEnablement
<1>7. ASSUME StoreSelector PROVE HealthInv'
  BY <1>7 DEF StoreSelector, Build
<1>8. ASSUME StoreBackends PROVE HealthInv'
  BY <1>8 DEF StoreBackends
<1>9. ASSUME StoreHealth PROVE HealthInv'
  BY <1>9 DEF StoreHealth
<1>10. ASSUME EnablementDone PROVE HealthInv'
  BY <1>10 DEF EnablementDone
<1>11. ASSUME RunHealthCheck PROVE HealthInv'
  BY <1>11 DEF RunHealthCheck
<1>12. ASSUME NEW b \in Backend, NEW ok \in BOOLEAN, CheckLoad(b, ok) PROVE HealthInv'
  BY <1>12 DEF CheckLoad
<1>13. ASSUME NEW b \in Backend, CheckStore(b) PROVE HealthInv'
  BY <1>13 DEF CheckStore
<1>14. ASSUME ChecksDone PROVE HealthInv'
  BY <1>14 DEF ChecksDone
<1>15. ASSUME RebuildLock PROVE HealthInv'
  BY <1>15 DEF RebuildLock
<1>16. ASSUME RebuildStore PROVE HealthInv'
  BY <1>16 DEF RebuildStore, Build
<1>17. ASSUME NEW t \in Task, NEW s \in Strategy, UpdateStrategy(t, s) PROVE HealthInv'
  BY <1>17 DEF UpdateStrategy
<1>18. ASSUME NEW t \in Task, WriteLock(t) PROVE HealthInv'
  BY <1>18 DEF WriteLock
<1>19. ASSUME NEW t \in Task, StrategyUnchanged(t) PROVE HealthInv'
  BY <1>19 DEF StrategyUnchanged
<1>20. ASSUME NEW t \in Task, SetStrategy(t) PROVE HealthInv'
  BY <1>20 DEF SetStrategy
<1>21. ASSUME NEW t \in Task, StoreStrategySelector(t) PROVE HealthInv'
  BY <1>21 DEF StoreStrategySelector, Build
<1>22. ASSUME NEW t \in Enabler, EnableStore(t) PROVE HealthInv'
  BY <1>22 DEF EnableStore
<1>23. ASSUME NEW r \in Toggler, NEW b \in Backend, NEW v \in BOOLEAN, SetEnable(r, b, v) PROVE HealthInv'
  BY <1>23 DEF SetEnable
<1>24. ASSUME NEW r \in Request, Select(r) PROVE HealthInv'
  BY <1>24 DEF Select
<1>25. ASSUME NEW r \in Request, SelectNone(r) PROVE HealthInv'
  BY <1>25 DEF SelectNone, NoScan
<1>26. ASSUME NEW r \in Request, NEW b \in Backend, SelectNext(r, b) PROVE HealthInv'
  BY <1>26 DEF SelectNext, NoScan
<1>27. CASE UNCHANGED vars
  BY <1>27 DEF vars
<1> QED
  BY <1>1, <1>2, <1>3, <1>4, <1>5, <1>6, <1>7, <1>8, <1>9, <1>10, <1>11, <1>12, <1>13, <1>14, <1>15, <1>16, <1>17, <1>18, <1>19, <1>20, <1>21, <1>22, <1>23, <1>24, <1>25, <1>26, <1>27
     DEF Next, Update, Checks, SetterStep, RequestStep

\* Every step keeps the metrics that requests hold live.
LEMMA MetricsStep ==
  ASSUME TypeOK, SelectorInv, HealthInv, MetricsInv, [Next]_vars
  PROVE  MetricsInv'
<1> USE DEF TypeOK, TaskTypeOK, MetricsInv, RequestsUseLiveMetrics, LiveMetrics, Published, Goto, Task, lbVars, bgVars, reqVars, histVars
<1>1. ASSUME UpdateLock PROVE MetricsInv'
  BY <1>1 DEF UpdateLock
<1>2. ASSUME DiscoverFails PROVE MetricsInv'
  BY <1>2 DEF DiscoverFails
<1>3. ASSUME DiscoverChanged PROVE MetricsInv'
  BY <1>3 DEF DiscoverChanged, Empty
<1>4. ASSUME DiscoverSame PROVE MetricsInv'
  BY <1>4 DEF DiscoverSame
<1>5. ASSUME NEW b \in Backend, CloneBackend(b) PROVE MetricsInv'
  BY <1>5 DEF CloneBackend, With
<1>6. ASSUME NEW b \in Backend, OverrideEnablement(b) PROVE MetricsInv'
  BY <1>6 DEF OverrideEnablement
<1>7. ASSUME StoreSelector PROVE MetricsInv'
  BY <1>7 DEF StoreSelector, Build
<1>8. ASSUME StoreBackends PROVE MetricsInv'
  BY <1>8 DEF StoreBackends
<1>9. ASSUME StoreHealth PROVE MetricsInv'
  BY <1>9 DEF StoreHealth, Empty
<1>10. ASSUME EnablementDone PROVE MetricsInv'
  BY <1>10 DEF EnablementDone
<1>11. ASSUME RunHealthCheck PROVE MetricsInv'
  BY <1>11 DEF RunHealthCheck
<1>12. ASSUME NEW b \in Backend, NEW ok \in BOOLEAN, CheckLoad(b, ok) PROVE MetricsInv'
  BY <1>12 DEF CheckLoad
<1>13. ASSUME NEW b \in Backend, CheckStore(b) PROVE MetricsInv'
  BY <1>13 DEF CheckStore
<1>14. ASSUME ChecksDone PROVE MetricsInv'
  BY <1>14 DEF ChecksDone
<1>15. ASSUME RebuildLock PROVE MetricsInv'
  BY <1>15 DEF RebuildLock
<1>16. ASSUME RebuildStore PROVE MetricsInv'
  BY <1>16 DEF RebuildStore, Build
<1>17. ASSUME NEW t \in Task, NEW s \in Strategy, UpdateStrategy(t, s) PROVE MetricsInv'
  BY <1>17 DEF UpdateStrategy
<1>18. ASSUME NEW t \in Task, WriteLock(t) PROVE MetricsInv'
  BY <1>18 DEF WriteLock
<1>19. ASSUME NEW t \in Task, StrategyUnchanged(t) PROVE MetricsInv'
  BY <1>19 DEF StrategyUnchanged
<1>20. ASSUME NEW t \in Task, SetStrategy(t) PROVE MetricsInv'
  BY <1>20 DEF SetStrategy
<1>21. ASSUME NEW t \in Task, StoreStrategySelector(t) PROVE MetricsInv'
  BY <1>21 DEF StoreStrategySelector, Build
<1>22. ASSUME NEW t \in Enabler, EnableStore(t) PROVE MetricsInv'
  BY <1>22 DEF EnableStore
<1>23. ASSUME NEW r \in Toggler, NEW b \in Backend, NEW v \in BOOLEAN, SetEnable(r, b, v) PROVE MetricsInv'
  BY <1>23 DEF SetEnable
<1>24. ASSUME NEW r \in Request, Select(r) PROVE MetricsInv'
  <2>1. \A x \in DOMAIN selector.backends : LiveMetrics(x, selector.backends[x])
    BY DEF SelectorInv
  <2>2. scan'[r].left = selector.backends
        /\ \A q \in Request \ {r} : scan'[q] = scan[q]
    BY <1>24 DEF Select, RequestTypeOK
  <2>3. \A x, m : LiveMetrics(x, m)' <=> LiveMetrics(x, m)
    BY <1>24 DEF Select
  <2> HIDE DEF LiveMetrics
  <2>4. \A q \in Request : \A x \in DOMAIN scan'[q].left :
          LiveMetrics(x, scan'[q].left[x])
    BY <2>1, <2>2
  <2> QED BY <1>24, <2>3, <2>4 DEF Select
<1>25. ASSUME NEW r \in Request, SelectNone(r) PROVE MetricsInv'
  <2>1. DOMAIN scan'[r].left = {} /\ \A q \in Request \ {r} : scan'[q] = scan[q]
    BY <1>25 DEF SelectNone, NoScan, Empty, RequestTypeOK
  <2>2. \A x, m : LiveMetrics(x, m)' <=> LiveMetrics(x, m)
    BY <1>25 DEF SelectNone
  <2> HIDE DEF LiveMetrics
  <2> QED BY <1>25, <2>1, <2>2 DEF SelectNone
<1>26. ASSUME NEW r \in Request, NEW b \in Backend, SelectNext(r, b) PROVE MetricsInv'
  <2>1. \A q \in Request : \A x \in DOMAIN scan'[q].left :
          x \in DOMAIN scan[q].left /\ scan'[q].left[x] = scan[q].left[x]
    <3>1. \A q \in Request \ {r} : scan'[q] = scan[q]
      BY <1>26 DEF SelectNext, RequestTypeOK
    <3>2. scan'[r].left = Empty \/ scan'[r].left = Without(scan[r].left, b)
      BY <1>26 DEF SelectNext, NoScan, RequestTypeOK
    <3> QED BY <3>1, <3>2 DEF Empty, Without
  <2>2. \A x, m : LiveMetrics(x, m)' <=> LiveMetrics(x, m)
    BY <1>26 DEF SelectNext
  <2>3. LiveMetrics(b, scan[r].left[b])
    BY <1>26 DEF SelectNext
  <2>4. \A p \in handed' : p \in handed \/ p = <<b, scan[r].left[b]>>
    BY <1>26 DEF SelectNext
  <2> HIDE DEF LiveMetrics
  <2>5. RequestsUseLiveMetrics'
    BY <2>2, <2>3, <2>4
  <2> QED BY <1>26, <2>1, <2>2, <2>5 DEF SelectNext
<1>27. CASE UNCHANGED vars
  BY <1>27 DEF vars
<1> QED
  BY <1>1, <1>2, <1>3, <1>4, <1>5, <1>6, <1>7, <1>8, <1>9, <1>10, <1>11, <1>12, <1>13, <1>14, <1>15, <1>16, <1>17, <1>18, <1>19, <1>20, <1>21, <1>22, <1>23, <1>24, <1>25, <1>26, <1>27
     DEF Next, Update, Checks, SetterStep, RequestStep

\* A caller between its two stores has set the strategy it wants, and the
\* lock keeps others from setting another one.
LEMMA WantedStep ==
  ASSUME TypeOK, LockInv, WantedInv, [Next]_vars
  PROVE  WantedInv'
<1> USE DEF TypeOK, TaskTypeOK, WantedInv
<1>1. ASSUME NEW t \in Task, NEW s \in Strategy, UpdateStrategy(t, s)
      PROVE  WantedInv'
  BY <1>1 DEF UpdateStrategy, Goto, lbVars
<1>2. ASSUME NEW t \in Task, SetStrategy(t) PROVE WantedInv'
  <2>1. \A u \in Task : u # t => pc[u] # "store"
    BY <1>2 DEF SetStrategy, Goto, LockInv, Holding
  <2> QED BY <1>2, <2>1 DEF SetStrategy, Goto
<1>3. ASSUME UNCHANGED <<strategy, wanted>>,
             pc' = pc \/ \E t \in Task : \E here, there :
                           Goto(t, here, there) /\ there # "store"
      PROVE  WantedInv'
  BY <1>3 DEF Goto
<1>4. ASSUME UpdateLock \/ DiscoverFails \/ DiscoverChanged \/ DiscoverSame
             \/ StoreSelector \/ StoreBackends \/ StoreHealth \/ EnablementDone
             \/ RunHealthCheck \/ ChecksDone \/ RebuildLock \/ RebuildStore
      PROVE  WantedInv'
  <2>1. ASSUME UpdateLock PROVE WantedInv'
    BY <2>1 DEF UpdateLock, Goto, lbVars
  <2>2. ASSUME DiscoverFails PROVE WantedInv'
    BY <2>2 DEF DiscoverFails, Goto, lbVars
  <2>3. ASSUME DiscoverChanged PROVE WantedInv'
    BY <2>3 DEF DiscoverChanged, Goto, lbVars
  <2>4. ASSUME DiscoverSame PROVE WantedInv'
    BY <2>4 DEF DiscoverSame, Goto, lbVars
  <2>5. ASSUME StoreSelector PROVE WantedInv'
    BY <2>5 DEF StoreSelector, Goto, lbVars
  <2>6. ASSUME StoreBackends PROVE WantedInv'
    BY <2>6 DEF StoreBackends, Goto, lbVars
  <2>7. ASSUME StoreHealth PROVE WantedInv'
    BY <2>7 DEF StoreHealth, Goto, lbVars
  <2>8. ASSUME EnablementDone PROVE WantedInv'
    BY <2>8 DEF EnablementDone, Goto, lbVars
  <2>9. ASSUME RunHealthCheck PROVE WantedInv'
    BY <2>9 DEF RunHealthCheck, Goto, lbVars
  <2>10. ASSUME ChecksDone PROVE WantedInv'
    BY <2>10 DEF ChecksDone, Goto, lbVars
  <2>11. ASSUME RebuildLock PROVE WantedInv'
    BY <2>11 DEF RebuildLock, Goto, lbVars
  <2>12. ASSUME RebuildStore PROVE WantedInv'
    BY <2>12 DEF RebuildStore, Goto, lbVars
  <2> QED BY <1>4, <2>1, <2>2, <2>3, <2>4, <2>5, <2>6, <2>7, <2>8, <2>9, <2>10, <2>11, <2>12
<1>5. ASSUME NEW t \in Task,
             WriteLock(t) \/ StrategyUnchanged(t) \/ StoreStrategySelector(t)
      PROVE  WantedInv'
  BY <1>3, <1>5 DEF WriteLock, StrategyUnchanged, StoreStrategySelector
<1>6. ASSUME NEW b \in Backend,
             \/ CloneBackend(b) \/ OverrideEnablement(b) \/ CheckStore(b)
             \/ \E ok \in BOOLEAN : CheckLoad(b, ok)
      PROVE  WantedInv'
  BY <1>3, <1>6 DEF CloneBackend, OverrideEnablement, CheckStore, CheckLoad, lbVars
<1>7. ASSUME \/ \E t \in Enabler : EnableStore(t)
             \/ \E r \in Toggler, b \in Backend, v \in BOOLEAN : SetEnable(r, b, v)
             \/ \E r \in Request : RequestStep(r)
             \/ UNCHANGED vars
      PROVE  WantedInv'
  BY <1>3, <1>7 DEF EnableStore, SetEnable, RequestStep, Select, SelectNone,
     SelectNext, vars, lbVars
<1> QED
  BY <1>1, <1>2, <1>4, <1>5, <1>6, <1>7 DEF Next, Update, Checks, SetterStep

\* Every step keeps the invariant.
LEMMA IndStep == IInv /\ [Next]_vars => IInv'
  BY TypeStep, LockStep, SelectorStep, HealthStep, MetricsStep, WantedStep
     DEF IInv

\* The invariant holds in every reachable state.
THEOREM Invariance == Spec => []IInv
  BY IndInit, IndStep, PTL DEF Spec

-----------------------------------------------------------------------------
\* Whenever the strategy lock is free, the published selector is the one that
\* the current strategy builds from the published backends (update and
\* update_strategy).
THEOREM SelectorIsCurrent == Spec => []SelectorCurrent
<1>1. IInv => SelectorCurrent
  <2> SUFFICES ASSUME IInv, lock = None PROVE selector = Build(strategy, backends)
    BY DEF SelectorCurrent
  <2>1. \A t \in Task : pc[t] \notin Holding
    BY DEF IInv, LockInv, Task
  <2>2. selector.strategy = strategy /\ selector.backends = backends
    BY <2>1 DEF IInv, SelectorInv, Holding, Task
  <2> QED BY <2>2 DEF IInv, TypeOK, SharedTypeOK
<1> QED BY <1>1, Invariance, PTL

\* The health table knows exactly the published backends, but for the window
\* between the last two stores of do_update.
THEOREM HealthIsKnown == Spec => []HealthKnown
<1>1. IInv => HealthKnown
  BY DEF IInv, HealthInv
<1> QED BY <1>1, Invariance, PTL

\* No request counts on metrics that a kept backend has stopped using
\* (do_update keeps the metrics of known backends).
THEOREM MetricsAreLive == Spec => []RequestsUseLiveMetrics
<1>1. IInv => RequestsUseLiveMetrics
  BY DEF IInv, MetricsInv
<1> QED BY <1>1, Invariance, PTL

\* A backend is in the selector before it appears in `backends` (do_update
\* runs its callback first).
THEOREM SelectorComesFirst == Spec => SelectorFirst
<1>1. IInv /\ [Next]_vars =>
        [DOMAIN backends' \ DOMAIN backends \subseteq DOMAIN selector.backends]_vars
  <2> SUFFICES ASSUME IInv, [Next]_vars
               PROVE  DOMAIN backends' \ DOMAIN backends
                        \subseteq DOMAIN selector.backends
    OBVIOUS
  <2>1. CASE StoreBackends
    BY <2>1 DEF StoreBackends, Goto, IInv, SelectorInv
  <2>2. CASE backends' = backends
    BY <2>2
  <2>3. StoreBackends \/ backends' = backends
    BY DEF Next, Update, Checks, SetterStep, RequestStep, vars, lbVars,
           UpdateLock, DiscoverFails, DiscoverChanged, DiscoverSame,
           CloneBackend, OverrideEnablement, StoreSelector, StoreHealth,
           EnablementDone, RunHealthCheck, CheckLoad, CheckStore, ChecksDone,
           RebuildLock, RebuildStore, UpdateStrategy, WriteLock,
           StrategyUnchanged, SetStrategy, StoreStrategySelector,
           EnableStore, SetEnable, Select, SelectNone, SelectNext
  <2> QED BY <2>1, <2>2, <2>3
<1> QED BY <1>1, Invariance, PTL DEF Spec, SelectorFirst

-----------------------------------------------------------------------------
(***************************************************************************)
(* The refinement.  The abstract state is a function of five variables, so *)
(* most steps stutter; the rest are one abstract action each.              *)
(***************************************************************************)
AbstractVars == <<selector, backends, pc, wanted>>

\* A step that leaves the mapped variables alone is an abstract stutter.
LEMMA SeenUnchanged ==
  ASSUME UNCHANGED AbstractVars
  PROVE  UNCHANGED Abstract!vars
  BY DEF AbstractVars, Abstract!vars, Calling

\* The background task's moves between its own places are no call of it.
LEMMA OwnMove ==
  ASSUME TypeOK, NEW t \in Task, NEW here, NEW there, Goto(t, here, there),
         here \notin {"wait", "compare", "store"},
         there \notin {"wait", "compare", "store"},
         UNCHANGED <<selector, backends, wanted>>
  PROVE  UNCHANGED Abstract!vars
<1>1. Calling' = Calling
  BY DEF Goto, Calling, TypeOK, TaskTypeOK
<1> QED BY <1>1 DEF Abstract!vars

\* A move within a call is a stutter too.
LEMMA InnerMove ==
  ASSUME TypeOK, NEW t \in Task, NEW here, NEW there, Goto(t, here, there),
         here \in {"wait", "compare", "store"},
         there \in {"wait", "compare", "store"},
         UNCHANGED <<selector, backends, wanted>>
  PROVE  UNCHANGED Abstract!vars
<1>1. Calling' = Calling
  BY DEF Goto, Calling, TypeOK, TaskTypeOK
<1> QED BY <1>1 DEF Abstract!vars

\* Every step is a step of the abstract load balancer, or none.
LEMMA PromiseStep ==
  ASSUME IInv, [Next]_vars
  PROVE  [Abstract!Next]_(Abstract!vars)
<1> USE DEF IInv
<1>1. ASSUME UpdateLock PROVE UNCHANGED Abstract!vars
  BY <1>1, OwnMove DEF UpdateLock, Task
<1>2. ASSUME DiscoverFails PROVE UNCHANGED Abstract!vars
  BY <1>2, OwnMove DEF DiscoverFails, Task
<1>3. ASSUME DiscoverChanged PROVE UNCHANGED Abstract!vars
  BY <1>3, OwnMove DEF DiscoverChanged, lbVars, Task
<1>4. ASSUME DiscoverSame PROVE UNCHANGED Abstract!vars
  BY <1>4, OwnMove DEF DiscoverSame, lbVars, Task
<1>5. ASSUME NEW b \in Backend, CloneBackend(b) PROVE UNCHANGED Abstract!vars
  BY <1>5, SeenUnchanged DEF CloneBackend, lbVars, AbstractVars
<1>6. ASSUME NEW b \in Backend, OverrideEnablement(b) PROVE UNCHANGED Abstract!vars
  BY <1>6, SeenUnchanged DEF OverrideEnablement, lbVars, AbstractVars
<1>7. ASSUME StoreSelector PROVE Abstract!Replace
  <2>1. lock = Bg /\ \A t \in Task : pc[t] # "store"
    BY <1>7 DEF StoreSelector, Goto, LockInv, Holding, Task
  <2>2. selector.backends = backends /\ selector.strategy = strategy
    BY <1>7, <2>1 DEF StoreSelector, Goto, SelectorInv
  <2>3. selector'.backends = newBackends /\ selector'.strategy = strategy
    BY <1>7 DEF StoreSelector, Build
  <2>4. Calling' = Calling
    BY <1>7 DEF StoreSelector, Goto, Calling, TypeOK, TaskTypeOK
  <2>5. \A b \in DOMAIN newBackends \cap DOMAIN backends :
           newBackends[b] = backends[b]
    BY DEF MetricsInv
  <2> QED BY <1>7, <2>2, <2>3, <2>4, <2>5 DEF StoreSelector, Abstract!Replace
<1>8. ASSUME StoreBackends PROVE Abstract!List
  <2>1. selector.backends = newBackends
    BY <1>8 DEF StoreBackends, Goto, SelectorInv
  <2>2. Calling' = Calling
    BY <1>8 DEF StoreBackends, Goto, Calling, TypeOK, TaskTypeOK
  <2> QED BY <1>8, <2>1, <2>2 DEF StoreBackends, Abstract!List
<1>9. ASSUME StoreHealth PROVE UNCHANGED Abstract!vars
  BY <1>9, OwnMove DEF StoreHealth, Task
<1>10. ASSUME EnablementDone PROVE UNCHANGED Abstract!vars
  BY <1>10, OwnMove DEF EnablementDone, Task
<1>11. ASSUME RunHealthCheck PROVE UNCHANGED Abstract!vars
  BY <1>11, OwnMove DEF RunHealthCheck, lbVars, Task
<1>12. ASSUME NEW b \in Backend, NEW ok \in BOOLEAN, CheckLoad(b, ok)
       PROVE  UNCHANGED Abstract!vars
  BY <1>12, SeenUnchanged DEF CheckLoad, lbVars, AbstractVars
<1>13. ASSUME NEW b \in Backend, CheckStore(b) PROVE UNCHANGED Abstract!vars
  BY <1>13, SeenUnchanged DEF CheckStore, AbstractVars
<1>14. ASSUME ChecksDone PROVE UNCHANGED Abstract!vars
  BY <1>14, OwnMove DEF ChecksDone, lbVars, Task
<1>15. ASSUME RebuildLock PROVE UNCHANGED Abstract!vars
  BY <1>15, OwnMove DEF RebuildLock, Task
<1>16. ASSUME RebuildStore PROVE UNCHANGED Abstract!vars
  <2>1. lock = Bg /\ \A t \in Task : pc[t] # "store"
    BY <1>16 DEF RebuildStore, Goto, LockInv, Holding, Task
  <2>2. selector.backends = backends /\ selector.strategy = strategy
    BY <1>16, <2>1 DEF RebuildStore, Goto, SelectorInv
  <2>3. selector'.backends = backends /\ selector'.strategy = strategy
    BY <1>16 DEF RebuildStore, Build
  <2>4. Calling' = Calling
    BY <1>16 DEF RebuildStore, Goto, Calling, TypeOK, TaskTypeOK
  <2> QED BY <1>16, <2>2, <2>3, <2>4 DEF RebuildStore, Abstract!vars
<1>17. ASSUME NEW t \in Task, NEW s \in Strategy, UpdateStrategy(t, s)
       PROVE  Abstract!Call(t, s)
  <2>1. t \notin Calling
    BY <1>17 DEF UpdateStrategy, Goto, Calling
  <2>2. Calling' = Calling \cup {t}
    BY <1>17 DEF UpdateStrategy, Goto, Calling, TypeOK, TaskTypeOK
  <2> QED BY <1>17, <2>1, <2>2 DEF UpdateStrategy, lbVars, Abstract!Call
<1>18. ASSUME NEW t \in Task, WriteLock(t) PROVE UNCHANGED Abstract!vars
  BY <1>18, InnerMove DEF WriteLock
<1>19. ASSUME NEW t \in Task, StrategyUnchanged(t) PROVE Abstract!Answer(t)
  <2>1. lock = t /\ pc[Bg] # "storeBackends" /\ \A u \in Task : pc[u] # "store"
    BY <1>19 DEF StrategyUnchanged, Goto, LockInv, Holding, Task
  <2>2. selector.backends = backends /\ selector.strategy = wanted[t]
    BY <1>19, <2>1 DEF StrategyUnchanged, SelectorInv
  <2>3. t \in Calling /\ Calling' = Calling \ {t}
    BY <1>19 DEF StrategyUnchanged, Goto, Calling, TypeOK, TaskTypeOK
  <2> QED BY <1>19, <2>2, <2>3 DEF StrategyUnchanged, Abstract!Answer
<1>20. ASSUME NEW t \in Task, SetStrategy(t) PROVE UNCHANGED Abstract!vars
  BY <1>20, InnerMove DEF SetStrategy
<1>21. ASSUME NEW t \in Task, StoreStrategySelector(t) PROVE Abstract!Answer(t)
  <2>1. lock = t /\ pc[Bg] # "storeBackends"
    BY <1>21 DEF StoreStrategySelector, Goto, LockInv, Holding, Task
  <2>2. selector.backends = backends
    BY <2>1 DEF SelectorInv
  <2>3. strategy = wanted[t]
    BY <1>21 DEF StoreStrategySelector, Goto, WantedInv
  <2>4. selector'.backends = backends /\ selector'.strategy = strategy
    BY <1>21 DEF StoreStrategySelector, Build
  <2>5. t \in Calling /\ Calling' = Calling \ {t}
    BY <1>21 DEF StoreStrategySelector, Goto, Calling, TypeOK, TaskTypeOK
  <2> QED BY <1>21, <2>2, <2>3, <2>4, <2>5
          DEF StoreStrategySelector, Abstract!Answer
<1>22. ASSUME NEW t \in Enabler, EnableStore(t) PROVE UNCHANGED Abstract!vars
  BY <1>22, SeenUnchanged DEF EnableStore, AbstractVars
<1>23. ASSUME NEW r \in Toggler, NEW b \in Backend, NEW v \in BOOLEAN,
              SetEnable(r, b, v)
       PROVE  UNCHANGED Abstract!vars
  BY <1>23, SeenUnchanged DEF SetEnable, lbVars, AbstractVars
<1>24. ASSUME NEW r \in Request, Select(r) PROVE UNCHANGED Abstract!vars
  BY <1>24, SeenUnchanged DEF Select, lbVars, AbstractVars
<1>25. ASSUME NEW r \in Request, SelectNone(r) PROVE UNCHANGED Abstract!vars
  BY <1>25, SeenUnchanged DEF SelectNone, lbVars, AbstractVars
<1>26. ASSUME NEW r \in Request, NEW b \in Backend, SelectNext(r, b)
       PROVE  UNCHANGED Abstract!vars
  BY <1>26, SeenUnchanged DEF SelectNext, lbVars, AbstractVars
<1>27. CASE UNCHANGED vars
  BY <1>27, SeenUnchanged DEF vars, lbVars, AbstractVars
<1> QED
  BY <1>1, <1>2, <1>3, <1>4, <1>5, <1>6, <1>7, <1>8, <1>9, <1>10, <1>11, <1>12, <1>13, <1>14, <1>15, <1>16, <1>17, <1>18, <1>19, <1>20, <1>21, <1>22, <1>23, <1>24, <1>25, <1>26, <1>27
     DEF Next, Update, Checks, SetterStep, RequestStep, Abstract!Next

(***************************************************************************)
(* The load balancer implements StrategySwitch: a call of update_strategy  *)
(* takes effect and is answered in one step, however it races the updates  *)
(* of the backends (LoadBalancer::update and update_strategy).             *)
(***************************************************************************)
THEOREM PromiseKept == Spec => Promise
<1>1. Init => Abstract!Init
  BY DEF Init, Build, Empty, Calling, Abstract!Init
<1>2. IInv /\ [Next]_vars => [Abstract!Next]_(Abstract!vars)
  BY PromiseStep
<1> QED BY <1>1, <1>2, Invariance, PTL DEF Spec, Promise, Abstract!Spec

-----------------------------------------------------------------------------
(***************************************************************************)
(* The cells and the results of the checks.  What a cell has to be, given  *)
(* the history o of its backend and what was reported:                     *)
(***************************************************************************)
Agrees(h, o, reported) ==
  /\ h.healthy = o.verdict
  /\ h.consecutive_counter = IF o.ok = h.healthy THEN 0 ELSE o.run
  /\ reported = h.healthy

\* A result whose cell is loaded and not stored: what will be stored.
Outcome(j) == Observed(j.loaded, j.ok, Threshold(j.ok))

\* Two cells that differ in their enablement at most.
SameHealth(g, h) ==
  g.healthy = h.healthy /\ g.consecutive_counter = h.consecutive_counter

\* What the clone of a cell was made from.
Original(b) == IF b \in DOMAIN health THEN health[b] ELSE DefaultHealth

\* A run that contradicts the verdict is too short for its threshold.
RunInv ==
  \A b \in Backend : obs[b].ok # obs[b].verdict => obs[b].run < Threshold(obs[b].ok)

\* Cells agree with the history, those about to be stored as well.
AgreeInv ==
  /\ \A b \in DOMAIN health \ DOMAIN jobs : Agrees(health[b], obs[b], told[b])
  /\ \A b \in DOMAIN jobs :
       /\ told[b] = jobs[b].loaded.healthy
       /\ Agrees(Outcome(jobs[b]), obs[b], Outcome(jobs[b]).healthy)

\* What the background task is doing with the cells, by its place: results
\* are stored during the checks only, one per backend; an `enable` has loaded
\* the cell as it still is; the clones are those of the cells as they are.
CellInv ==
  /\ pc[Bg] # "checks" => DOMAIN jobs = {}
  /\ pc[Bg] = "checks" => todo \cap DOMAIN jobs = {}
  /\ pc[Bg] # "enablement" => enabling[Bg] = None
  /\ enabling[Bg] # None =>
       /\ ~enabling[Bg].stale
       /\ enabling[Bg].backend \in DOMAIN health
       /\ SameHealth(enabling[Bg].loaded, health[enabling[Bg].backend])
  /\ pc[Bg] \in {"clone", "storeBackends", "storeHealth"} =>
       \A b \in DOMAIN newHealth : SameHealth(newHealth[b], Original(b))

HistoryInv == RunInv /\ AgreeInv /\ CellInv

LEMMA HistoryInit == Init => HistoryInv
<1> SUFFICES ASSUME Init PROVE HistoryInv
  OBVIOUS
<1>1. RunInv
  BY DEF Init, RunInv, NewObs
<1>2. AgreeInv /\ CellInv
  BY DEF Init, AgreeInv, CellInv, Empty, Task, Enabler
<1> QED BY <1>1, <1>2 DEF HistoryInv

\* `enable` changes nothing of what a check has found.
LEMMA EnabledSame ==
  ASSUME NEW h \in Health, NEW v \in BOOLEAN
  PROVE  SameHealth(Enabled(h, v), h)
  BY DEF SameHealth, Enabled, Health

\* The three outcomes of observe_health.
LEMMA ObservedCases ==
  ASSUME NEW h \in Health, NEW ok \in BOOLEAN, NEW n \in Nat
  PROVE  LET g == Observed(h, ok, n)
         IN /\ Flips(h, ok, n) => g.healthy = ok /\ g.consecutive_counter = 0
            /\ h.healthy # ok /\ ~Flips(h, ok, n) =>
                 g.healthy = h.healthy /\ g.consecutive_counter = h.consecutive_counter + 1
            /\ h.healthy = ok => g.healthy = ok /\ g.consecutive_counter = 0
<1>1. CASE Flips(h, ok, n)
  <2>1. Observed(h, ok, n) = [h EXCEPT !.healthy = ok, !.consecutive_counter = 0]
    BY <1>1 DEF Observed, Flips
  <2> QED BY <1>1, <2>1 DEF Health, Flips
<1>2. CASE h.healthy # ok /\ ~Flips(h, ok, n)
  <2>1. Observed(h, ok, n) = [h EXCEPT !.consecutive_counter = @ + 1]
    BY <1>2 DEF Observed
  <2> QED BY <1>2, <2>1 DEF Health
<1>3. CASE h.healthy = ok
  <2>1. Observed(h, ok, n) = [h EXCEPT !.consecutive_counter = 0]
    BY <1>3 DEF Observed, Flips
  <2> QED BY <1>3, <2>1 DEF Health, Flips
<1> QED BY <1>1, <1>2, <1>3

Observation == [ok : BOOLEAN, run : Nat, verdict : BOOLEAN]

\* The heart of it: observe_health follows the history by one result, whether
\* it stores or has nothing to store.
LEMMA ObserveFollows ==
  ASSUME NEW h \in Health, NEW o \in Observation, NEW ok \in BOOLEAN, NEW t,
         Agrees(h, o, t), o.ok # o.verdict => o.run < Threshold(o.ok)
  PROVE  LET n == NextObs(o, ok)
             g == Observed(h, ok, Threshold(ok))
         IN /\ n.ok # n.verdict => n.run < Threshold(n.ok)
            /\ ObserveStores(h, ok) => Agrees(g, n, g.healthy)
            /\ ~ObserveStores(h, ok) => Agrees(h, n, t)
            /\ g.healthy = IF Flips(h, ok, Threshold(ok)) THEN ok ELSE h.healthy
<1> DEFINE T == Threshold(ok)
           cap == SuccessThreshold + FailureThreshold
           run == IF o.ok # ok THEN 1 ELSE IF o.run < cap THEN o.run + 1 ELSE cap
           n == NextObs(o, ok)
           g == Observed(h, ok, T)
<1>1. /\ T \in Nat /\ T > 0 /\ T <= cap /\ Threshold(o.ok) \in Nat
      /\ Threshold(o.ok) <= cap /\ cap \in Nat
  BY ThresholdsPositive DEF Threshold, Observation
<1>2. n = [ok |-> ok, run |-> run, verdict |-> IF run >= T THEN ok ELSE o.verdict]
  BY DEF NextObs
<1>3. run \in Nat
  BY <1>1 DEF Observation
<1>4. h.healthy \in BOOLEAN /\ h.consecutive_counter \in Nat /\ o.ok \in BOOLEAN
      /\ o.verdict \in BOOLEAN /\ o.run \in Nat
  BY DEF Health, Observation
<1>5. n.ok # n.verdict => n.run < Threshold(n.ok)
  BY <1>1, <1>2, <1>3
<1>6. CASE h.healthy = ok
  <2>1. n.verdict = ok
    BY <1>2, <1>6 DEF Agrees
  <2>2. g.healthy = ok /\ g.consecutive_counter = 0
    BY <1>1, <1>6, ObservedCases
  <2>3. ~ObserveStores(h, ok) => h.consecutive_counter = 0
    BY <1>4 DEF ObserveStores
  <2> QED BY <1>2, <1>5, <1>6, <2>1, <2>2, <2>3 DEF Agrees, Flips
<1>7. CASE h.healthy # ok
  <2>1. h.consecutive_counter + 1 = run
    <3>1. CASE o.ok = h.healthy
      BY <1>4, <1>7, <3>1 DEF Agrees
    <3>2. CASE o.ok # h.healthy
      <4>1. o.ok = ok /\ o.run < cap
        BY <1>1, <1>4, <1>7, <3>2 DEF Agrees
      <4> QED BY <3>2, <4>1 DEF Agrees
    <3> QED BY <3>1, <3>2
  <2>2. Flips(h, ok, T) <=> run >= T
    BY <1>7, <2>1 DEF Flips
  <2>3. CASE Flips(h, ok, T)
    <3>1. g.healthy = ok /\ g.consecutive_counter = 0
      BY <1>1, <2>3, ObservedCases
    <3>2. n.verdict = ok
      BY <1>2, <2>2, <2>3
    <3> QED BY <1>2, <1>5, <1>7, <2>3, <3>1, <3>2 DEF Agrees, ObserveStores
  <2>4. CASE ~Flips(h, ok, T)
    <3>1. g.healthy = h.healthy /\ g.consecutive_counter = run
      BY <1>1, <1>7, <2>1, <2>4, ObservedCases
    <3>2. n.verdict = h.healthy
      BY <1>2, <2>2, <2>4 DEF Agrees
    <3> QED BY <1>2, <1>5, <1>7, <2>4, <3>1, <3>2 DEF Agrees, ObserveStores
  <2> QED BY <2>3, <2>4
<1> QED BY <1>4, <1>6, <1>7

\* A step that leaves cells, results and history alone, and does not bring the
\* background task to a place where it has them under way.
LEMMA HistoryFrame ==
  ASSUME HistoryInv, UNCHANGED <<health, newHealth, jobs, enabling, told, obs>>,
         \/ pc'[Bg] = pc[Bg] /\ todo' \subseteq todo
         \/ pc'[Bg] \notin {"checks", "clone"} /\ pc[Bg] # "checks" /\ pc[Bg] # "enablement"
            /\ (pc'[Bg] \in {"storeBackends", "storeHealth"} =>
                  pc[Bg] \in {"clone", "storeBackends", "storeHealth"})
  PROVE  HistoryInv'
  BY DEF HistoryInv, RunInv, AgreeInv, CellInv, Original

LEMMA HistoryStep == ASSUME Toggler = {}, IInv, HistoryInv, [Next]_vars PROVE HistoryInv'
<1> USE DEF Goto, lbVars, bgVars, histVars
<1>0. TypeOK /\ Enabler = {Bg} /\ Bg \in Task /\ DOMAIN pc = Task
  <2>1. TypeOK /\ TaskTypeOK
    BY DEF IInv, TypeOK
  <2>2. Enabler = {Bg}
    BY DEF Enabler
  <2> QED BY <2>1, <2>2 DEF Task, TaskTypeOK
<1>1. ASSUME UpdateLock PROVE HistoryInv'
  BY <1>0, <1>1, HistoryFrame DEF UpdateLock
<1>2. ASSUME DiscoverFails PROVE HistoryInv'
  BY <1>0, <1>2, HistoryFrame DEF DiscoverFails
<1>3. ASSUME DiscoverChanged PROVE HistoryInv'
  <2>1. DOMAIN newHealth' = {}
    BY <1>3 DEF DiscoverChanged, Empty
  <2> QED BY <1>0, <1>3, <2>1 DEF DiscoverChanged, HistoryInv, RunInv, AgreeInv, CellInv
<1>4. ASSUME DiscoverSame PROVE HistoryInv'
  BY <1>0, <1>4, HistoryFrame DEF DiscoverSame
<1>5. ASSUME NEW b \in Backend, CloneBackend(b) PROVE HistoryInv'
  <2>1. RunInv' /\ AgreeInv'
    BY <1>5 DEF CloneBackend, HistoryInv, RunInv, AgreeInv
  <2> DEFINE new == IF b \in DOMAIN enablement
                    THEN Enabled(Original(b), enablement[b]) ELSE Original(b)
  <2>2. newHealth' = With(newHealth, b, new)
    BY <1>5 DEF CloneBackend, Original
  <2>3. SameHealth(new, Original(b))
    <3>1. Original(b) \in Health
      BY <1>0, LookupType, CellTypes DEF Original, TypeOK, SharedTypeOK
    <3>2. b \in DOMAIN enablement => enablement[b] \in BOOLEAN
      BY <1>0, LookupType DEF TypeOK, BgTypeOK
    <3> QED BY <3>1, <3>2, EnabledSame DEF SameHealth
  <2> HIDE DEF new
  <2>4. \A x \in DOMAIN newHealth' : SameHealth(newHealth'[x], Original(x))
    BY <1>5, <2>2, <2>3 DEF With, CloneBackend, HistoryInv, CellInv
  <2>5. \A x : Original(x)' = Original(x)
    BY <1>5 DEF CloneBackend, Original
  <2>6. CellInv'
    BY <1>5, <2>4, <2>5 DEF CloneBackend, HistoryInv, CellInv
  <2> QED BY <2>1, <2>6 DEF HistoryInv
<1>6. ASSUME NEW b \in Backend, OverrideEnablement(b) PROVE HistoryInv'
  <2>1. RunInv' /\ AgreeInv'
    BY <1>6 DEF OverrideEnablement, EnableLoad, HistoryInv, RunInv, AgreeInv
  <2>2. CellInv'
    BY <1>0, <1>6 DEF OverrideEnablement, EnableLoad, HistoryInv, CellInv, SameHealth, TypeOK,
                      RequestTypeOK
  <2> QED BY <2>1, <2>2 DEF HistoryInv
<1>7. ASSUME StoreSelector PROVE HistoryInv'
  BY <1>0, <1>7, HistoryFrame DEF StoreSelector
<1>8. ASSUME StoreBackends PROVE HistoryInv'
  BY <1>0, <1>8, HistoryFrame DEF StoreBackends
<1>9. ASSUME StoreHealth PROVE HistoryInv'
  <2>1. enabling' = enabling /\ enabling[Bg] = None
    BY <1>0, <1>9 DEF StoreHealth, HistoryInv, CellInv, TypeOK, RequestTypeOK
  <2>2. DOMAIN jobs' = {} /\ pc'[Bg] = "idle"
    BY <1>0, <1>9 DEF StoreHealth, HistoryInv, CellInv
  <2>3. RunInv'
    BY <1>9 DEF StoreHealth, HistoryInv, RunInv, NewObs
  <2>4. \A b \in DOMAIN health' : Agrees(health'[b], obs'[b], told'[b])
    <3> TAKE b \in DOMAIN health'
    <3>1. b \in DOMAIN newHealth /\ health'[b] = newHealth[b] /\ b \in Backend
      BY <1>0, <1>9 DEF StoreHealth, TypeOK, BgTypeOK, IsPartial
    <3>2. SameHealth(health'[b], Original(b))
      BY <1>9, <3>1 DEF StoreHealth, HistoryInv, CellInv
    <3>3. CASE b \in DOMAIN health
      <4>1. obs'[b] = obs[b] /\ told'[b] = told[b]
        BY <1>9, <3>1, <3>3 DEF StoreHealth
      <4>2. Agrees(health[b], obs[b], told[b])
        BY <1>9, <3>3 DEF StoreHealth, HistoryInv, AgreeInv, CellInv
      <4> QED BY <3>2, <3>3, <4>1, <4>2 DEF Original, SameHealth, Agrees
    <3>4. CASE b \notin DOMAIN health
      <4>1. obs'[b] = NewObs /\ told'[b] = TRUE
        BY <1>9, <3>1, <3>4 DEF StoreHealth
      <4>2. NewObs.ok = TRUE /\ NewObs.verdict = TRUE
        BY DEF NewObs
      <4>3. Original(b) = DefaultHealth
        BY <3>4 DEF Original
      <4>4. health'[b].healthy = TRUE /\ health'[b].consecutive_counter = 0
        BY <3>2, <4>3 DEF SameHealth, DefaultHealth
      <4> QED BY <4>1, <4>2, <4>4 DEF Agrees
    <3> QED BY <3>3, <3>4
  <2>5. AgreeInv'
    BY <2>2, <2>4 DEF AgreeInv
  <2> QED BY <2>1, <2>2, <2>3, <2>5 DEF HistoryInv, CellInv
<1>10. ASSUME EnablementDone PROVE HistoryInv'
  <2>1. RunInv' /\ AgreeInv'
    BY <1>10 DEF EnablementDone, HistoryInv, RunInv, AgreeInv
  <2> QED BY <1>0, <1>10, <2>1 DEF EnablementDone, HistoryInv, CellInv
<1>11. ASSUME RunHealthCheck PROVE HistoryInv'
  <2>1. RunInv' /\ AgreeInv'
    BY <1>11 DEF RunHealthCheck, HistoryInv, RunInv, AgreeInv
  <2> QED BY <1>0, <1>11, <2>1 DEF RunHealthCheck, HistoryInv, CellInv
<1>12. ASSUME NEW b \in Backend, NEW ok \in BOOLEAN, CheckLoad(b, ok) PROVE HistoryInv'
  <2>1. CellInv'
    BY <1>12 DEF CheckLoad, HistoryInv, CellInv, With, Original
  <2>2. CASE b \notin DOMAIN health
    BY <1>12, <2>1, <2>2 DEF CheckLoad, HistoryInv, RunInv, AgreeInv
  <2>3. CASE b \in DOMAIN health
    <3> DEFINE j == [ok |-> ok, loaded |-> health[b]]
               n == NextObs(obs[b], ok)
    <3>1. b \notin DOMAIN jobs /\ health[b] \in Health /\ obs[b] \in Observation
      BY <1>0, <1>12, <2>3, LookupType
         DEF CheckLoad, HistoryInv, CellInv, TypeOK, SharedTypeOK, HistTypeOK, Observation
    <3>2. Agrees(health[b], obs[b], told[b])
      BY <2>3, <3>1 DEF HistoryInv, AgreeInv
    <3>3. /\ n.ok # n.verdict => n.run < Threshold(n.ok)
          /\ ObserveStores(health[b], ok) => Agrees(Outcome(j), n, Outcome(j).healthy)
          /\ ~ObserveStores(health[b], ok) => Agrees(health[b], n, told[b])
      BY <3>1, <3>2, ObserveFollows DEF HistoryInv, RunInv, Outcome
    <3>4. obs'[b] = n /\ \A x \in Backend \ {b} : obs'[x] = obs[x]
      BY <1>0, <1>12, <2>3 DEF CheckLoad, TypeOK, HistTypeOK
    <3>5. RunInv'
      BY <3>3, <3>4 DEF HistoryInv, RunInv
    <3>6. health' = health /\ told' = told
      BY <1>12 DEF CheckLoad
    <3>7. DOMAIN health \subseteq Backend /\ DOMAIN jobs \subseteq Backend
      BY <1>0 DEF TypeOK, SharedTypeOK, BgTypeOK, IsPartial
    <3>8. told[b] = health[b].healthy
      BY <3>2 DEF Agrees
    <3> HIDE DEF n
    <3>9. AgreeInv'
      <4>1. CASE ObserveStores(health[b], ok)
        <5>1. jobs' = With(jobs, b, j)
          BY <1>12, <2>3, <4>1 DEF CheckLoad
        <5>2. DOMAIN jobs' = DOMAIN jobs \cup {b} /\ jobs'[b] = j
              /\ \A x \in DOMAIN jobs : jobs'[x] = jobs[x]
          BY <3>1, <5>1 DEF With
        <5>3. Agrees(Outcome(j), obs'[b], Outcome(j).healthy)
          BY <3>3, <3>4, <4>1
        <5>4. j.loaded = health[b]
          OBVIOUS
        <5> HIDE DEF j
        <5> QED BY <3>1, <3>4, <3>6, <3>7, <3>8, <5>2, <5>3, <5>4 DEF HistoryInv, AgreeInv, Outcome
      <4>2. CASE ~ObserveStores(health[b], ok)
        <5>1. jobs' = jobs
          BY <1>12, <2>3, <4>2 DEF CheckLoad
        <5>2. Agrees(health[b], obs'[b], told[b])
          BY <3>3, <3>4, <4>2
        <5> QED BY <3>1, <3>4, <3>6, <3>7, <5>1, <5>2 DEF HistoryInv, AgreeInv
      <4> QED BY <4>1, <4>2
    <3> QED BY <2>1, <3>5, <3>9 DEF HistoryInv
  <2> QED BY <2>2, <2>3
<1>13. ASSUME NEW b \in Backend, CheckStore(b) PROVE HistoryInv'
  <2> DEFINE j == jobs[b]
  <2>1. pc[Bg] = "checks" /\ enabling[Bg] = None /\ b \in DOMAIN jobs
    BY <1>13 DEF CheckStore, HistoryInv, CellInv
  <2>2. RunInv' /\ CellInv'
    BY <1>13, <2>1 DEF CheckStore, HistoryInv, RunInv, CellInv, Without
  <2>3. /\ health' = [health EXCEPT ![b] = Outcome(j)] /\ obs' = obs
        /\ jobs' = Without(jobs, b)
        /\ told' = IF Flips(j.loaded, j.ok, Threshold(j.ok))
                   THEN [told EXCEPT ![b] = j.ok] ELSE told
    BY <1>13 DEF CheckStore, Outcome
  <2>4. j.loaded \in Health /\ j.ok \in BOOLEAN /\ Threshold(j.ok) \in Nat
    BY <1>0, <2>1, ThresholdsPositive DEF TypeOK, BgTypeOK, IsPartial, Threshold
  <2>5. told[b] = j.loaded.healthy /\ Agrees(Outcome(j), obs[b], Outcome(j).healthy)
    BY <2>1 DEF HistoryInv, AgreeInv
  <2>6. told'[b] = Outcome(j).healthy /\ \A x \in Backend \ {b} : told'[x] = told[x]
    BY <1>0, <2>3, <2>4, <2>5, ObservedCases DEF Outcome, TypeOK, HistTypeOK, Flips
  <2>7. DOMAIN health \subseteq Backend /\ DOMAIN jobs \subseteq Backend
    BY <1>0 DEF TypeOK, SharedTypeOK, BgTypeOK, IsPartial
  <2>8. DOMAIN jobs' = DOMAIN jobs \ {b} /\ \A x \in DOMAIN jobs' : jobs'[x] = jobs[x]
    BY <2>3 DEF Without
  <2>9. DOMAIN health' = DOMAIN health
        /\ \A x \in DOMAIN health : health'[x] = IF x = b THEN Outcome(j) ELSE health[x]
    BY <2>3
  <2> HIDE DEF j
  <2>10. AgreeInv'
    <3>1. \A x \in DOMAIN health' \ DOMAIN jobs' : Agrees(health'[x], obs'[x], told'[x])
      BY <2>3, <2>5, <2>6, <2>7, <2>8, <2>9 DEF HistoryInv, AgreeInv, Agrees
    <3>2. \A x \in DOMAIN jobs' :
            /\ told'[x] = jobs'[x].loaded.healthy
            /\ Agrees(Outcome(jobs'[x]), obs'[x], Outcome(jobs'[x]).healthy)
      BY <2>3, <2>6, <2>7, <2>8 DEF HistoryInv, AgreeInv
    <3> QED BY <3>1, <3>2 DEF AgreeInv, Outcome
  <2> QED BY <2>2, <2>10 DEF HistoryInv
<1>14. ASSUME ChecksDone PROVE HistoryInv'
  <2>1. RunInv' /\ AgreeInv'
    BY <1>14 DEF ChecksDone, HistoryInv, RunInv, AgreeInv
  <2> QED BY <1>0, <1>14, <2>1 DEF ChecksDone, HistoryInv, CellInv
<1>15. ASSUME RebuildLock PROVE HistoryInv'
  BY <1>0, <1>15, HistoryFrame DEF RebuildLock
<1>16. ASSUME RebuildStore PROVE HistoryInv'
  BY <1>0, <1>16, HistoryFrame DEF RebuildStore
<1>17. ASSUME NEW t \in Task, SetterStep(t) \/ \E s \in Strategy : UpdateStrategy(t, s)
       PROVE  HistoryInv'
  BY <1>0, <1>17, HistoryFrame DEF SetterStep, UpdateStrategy, WriteLock, StrategyUnchanged,
     SetStrategy, StoreStrategySelector
<1>18. ASSUME EnableStore(Bg) PROVE HistoryInv'
  <2> DEFINE e == enabling[Bg]
             b == e.backend
  <2>1. /\ pc[Bg] = "enablement" /\ DOMAIN jobs = {} /\ ~e.stale
        /\ b \in DOMAIN health /\ SameHealth(e.loaded, health[b])
    BY <1>18 DEF EnableStore, HistoryInv, CellInv
  <2>2. e.loaded \in Health /\ e.value \in BOOLEAN
    BY <1>0, <1>18 DEF EnableStore, TypeOK, RequestTypeOK
  <2>3. health' = [health EXCEPT ![b] = Enabled(e.loaded, e.value)]
    BY <1>18, <2>1 DEF EnableStore
  <2>4. SameHealth(Enabled(e.loaded, e.value), health[b])
    BY <2>1, <2>2, EnabledSame DEF SameHealth
  <2>5. enabling'[Bg] = None
    BY <1>0, <1>18 DEF EnableStore, TypeOK, RequestTypeOK
  <2>6. DOMAIN health' = DOMAIN health
        /\ \A x \in DOMAIN health : SameHealth(health'[x], health[x])
    BY <2>3, <2>4 DEF SameHealth
  <2>7. UNCHANGED <<pc, todo, jobs, newHealth, told, obs>>
    BY <1>18 DEF EnableStore
  <2>8. AgreeInv'
    BY <2>1, <2>6, <2>7 DEF HistoryInv, AgreeInv, Agrees, SameHealth
  <2>9. RunInv' /\ CellInv'
    BY <2>1, <2>5, <2>7 DEF HistoryInv, RunInv, CellInv
  <2> QED BY <2>8, <2>9 DEF HistoryInv
<1>19. ASSUME \E r \in Request : RequestStep(r) PROVE HistoryInv'
  BY <1>19, HistoryFrame DEF RequestStep, Select, SelectNone, SelectNext
<1>20. CASE UNCHANGED vars
  BY <1>20, HistoryFrame DEF vars
<1> QED
  BY <1>0, <1>1, <1>2, <1>3, <1>4, <1>5, <1>6, <1>7, <1>8, <1>9, <1>10, <1>11, <1>12, <1>13,
     <1>14, <1>15, <1>16, <1>17, <1>18, <1>19, <1>20 DEF Next, Update, Checks

THEOREM HistoryInvariance == ASSUME Toggler = {} PROVE Spec => []HistoryInv
  BY HistoryInit, HistoryStep, Invariance, PTL DEF Spec

\* The health of a cell is what the runs of check results say, over any
\* sequence of updates of the backend set and of its enablement, and any
\* thresholds (observe_health, do_update), as long as no request switches
\* backends: a store of `enable` that lost the race with a check brings the
\* health before the check back.
THEOREM HealthFollowsChecks == ASSUME Toggler = {} PROVE Spec => []HealthAsObserved
<1>1. HistoryInv => HealthAsObserved
  BY DEF HistoryInv, AgreeInv, Agrees, HealthAsObserved
<1> QED BY <1>1, HistoryInvariance, PTL

\* Under the same condition every flip is reported: what health_status_change
\* said last is what the cell holds.
THEOREM FlipsAreReported == ASSUME Toggler = {} PROVE Spec => []StatusReported
<1>1. HistoryInv => StatusReported
  BY DEF HistoryInv, AgreeInv, Agrees, StatusReported
<1> QED BY <1>1, HistoryInvariance, PTL
=============================================================================
