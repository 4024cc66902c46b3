----------------------------- MODULE LoadBalancer -----------------------------
(***************************************************************************)
(* `LoadBalancer` and `Backends` of load_balancing/mod.rs: the state that  *)
(* the background task, the strategy endpoint and the request threads      *)
(* share, and every interleaving of their reads and writes of it.          *)
(*                                                                         *)
(* Tasks                                                                   *)
(*   Bg        the background service; it runs one operation at a time     *)
(*             (update, run_health_check, update_strategy,                 *)
(*             rebuild_selector) and is the only caller of `update`;       *)
(*   Setter    the tasks serving the strategy endpoint (update_strategy);  *)
(*   Request   the request threads in select_with;                         *)
(*   Toggler   the request threads in set_enable, when passive health      *)
(*             ejects or restores a backend that a select returned.        *)
(*                                                                         *)
(* Atomicity.  A step is one load or store of an ArcSwap or one change of  *)
(* the strategy lock.  do_update is a step per cloned backend and then its *)
(* three stores.  `enable` and `observe_health` are a load and a store.    *)
(*                                                                         *)
(* Abstractions.  A backend is its identity (address and weight).  Its     *)
(* metrics are one number, the identity of the shared counters, because    *)
(* what matters is whether two holders share them.  A selector is the      *)
(* strategy and the backends it was built from; the order in which it      *)
(* yields them is left open.  The lock has one reader (Bg), so shared and  *)
(* exclusive mode are both "held by".  Timers are in AdaptiveService.      *)
(***************************************************************************)
EXTENDS Naturals, FiniteSets, BackendHealth

CONSTANTS
  Backend,            \* identities (addr, weight)
  Strategy,           \* values of the strategy type S
  Bg,                 \* the background task
  Setter,             \* tasks that call update_strategy
  Request,            \* request threads that select
  Toggler,            \* request threads that eject or restore
  None,               \* nobody holds the lock, no operation in progress
  HealthCheck,        \* a health check is set on the Backends
  Parallel,           \* parallel_health_check
  SuccessThreshold,   \* consecutive_success
  FailureThreshold,   \* consecutive_failure
  Discovered,         \* the backend sets discovery may return
  Enablements,        \* the enablement maps discovery may return
  MaxMetrics          \* bound on the metrics objects ever created

ASSUME BgIsNoSetter == Bg \notin Setter
ASSUME NoneIsNoTask == None \notin Setter \cup {Bg}
ASSUME ThresholdsPositive ==
  /\ SuccessThreshold \in Nat \ {0}
  /\ FailureThreshold \in Nat \ {0}
ASSUME SwitchesBoolean == HealthCheck \in BOOLEAN /\ Parallel \in BOOLEAN
ASSUME MaxMetricsNat == MaxMetrics \in Nat
ASSUME DiscoveredSets == Discovered \subseteq SUBSET Backend

\* f maps some of the backends to V.
IsPartial(f, V) == DOMAIN f \subseteq Backend /\ f \in [DOMAIN f -> V]

ASSUME EnablementMaps == \A e \in Enablements : IsPartial(e, BOOLEAN)

Task == {Bg} \cup Setter
Enabler == {Bg} \cup Toggler

VARIABLES
  strategy,      \* the value behind the RwLock
  lock,          \* its holder
  selector,      \* the published selector: what it was built from
  backends,      \* the published backends, with their metrics
  health,        \* the published health table
  pc,            \* where each task is
  wanted,        \* the argument of each task's update_strategy
  todo,          \* Bg: backends its loop has still to visit
  enablement,    \* Bg: the enablement map discovery returned
  newBackends,   \* Bg: the set do_update is building
  newHealth,     \* Bg: the health table do_update is building
  jobs,          \* Bg: check results whose cell is loaded and not stored
  enabling,      \* per enabler: an `enable` between its load and its store
  scan,          \* per request: what its select has still to look at
  handed,        \* <<backend, metrics>> given to requests so far
  nextMetrics,   \* the next metrics object
  \* History, read by the properties only.
  told,          \* per backend: what health_status_change last reported
  obs,           \* per backend: the run of equal check results
  retired        \* the metrics of backends that left the set

lbVars == <<strategy, lock, selector, backends, health>>
bgVars == <<todo, enablement, newBackends, newHealth, jobs>>
reqVars == <<scan, handed>>
histVars == <<told, obs, retired>>
vars == <<lbVars, pc, wanted, bgVars, enabling, reqVars, nextMetrics, histVars>>

-----------------------------------------------------------------------------
\* Helpers

Empty == [b \in {} |-> 0]

\* f with b mapped to v.
With(f, b, v) == [x \in DOMAIN f \cup {b} |-> IF x = b THEN v ELSE f[x]]
Without(f, b) == [x \in DOMAIN f \ {b} |-> f[x]]

\* build_backend_selector
Build(s, bs) == [strategy |-> s, backends |-> bs]

\* HealthCheck::health_threshold
Threshold(ok) == IF ok THEN SuccessThreshold ELSE FailureThreshold

\* Backends::ready: an unknown backend is ready only without a health check.
Ready(b) ==
  IF b \in DOMAIN health THEN IsReady(health[b]) ELSE ~HealthCheck

NoScan == [looking |-> FALSE, left |-> Empty]

\* The history of the checks of a backend: the last result, how often in a row
\* it came (counted to a cap), and the verdict that such runs imply.
NewObs == [ok |-> TRUE, run |-> 0, verdict |-> TRUE]

NextObs(o, ok) ==
  LET cap == SuccessThreshold + FailureThreshold
      run == IF o.ok # ok THEN 1
             ELSE IF o.run < cap THEN o.run + 1 ELSE cap
  IN  [ok |-> ok, run |-> run,
       verdict |-> IF run >= Threshold(ok) THEN ok ELSE o.verdict]

-----------------------------------------------------------------------------
\* LoadBalancer::from_backends_with_strategy: everything is empty until the
\* first update.
Init ==
  /\ strategy \in Strategy
  /\ lock = None
  /\ backends = Empty
  /\ health = Empty
  /\ selector = Build(strategy, backends)
  /\ pc = [t \in Task |-> "idle"]
  /\ wanted = [t \in Task |-> strategy]
  /\ todo = {}
  /\ enablement = Empty
  /\ newBackends = Empty
  /\ newHealth = Empty
  /\ jobs = Empty
  /\ enabling = [t \in Enabler |-> None]
  /\ scan = [r \in Request |-> NoScan]
  /\ handed = {}
  /\ nextMetrics = 0
  /\ told = [b \in Backend |-> TRUE]
  /\ obs = [b \in Backend |-> NewObs]
  /\ retired = {}

Goto(t, here, there) ==
  /\ pc[t] = here
  /\ pc' = [pc EXCEPT ![t] = there]

-----------------------------------------------------------------------------
\* LoadBalancer::update, on the background task

\* self.strategy.read().await; the guard lives until update returns.
UpdateLock ==
  /\ Goto(Bg, "idle", "discover")
  /\ lock = None
  /\ lock' = Bg
  /\ UNCHANGED <<strategy, selector, backends, health, wanted, bgVars,
                 enabling, reqVars, nextMetrics, histVars>>

\* Mutant: the guard is leaked when discovery fails.
DiscoverFailsLocked ==
  /\ Goto(Bg, "discover", "idle")
  /\ UNCHANGED <<lbVars, wanted, bgVars, enabling, reqVars, nextMetrics,
                 histVars>>

\* discover().await? fails: update returns the error and drops the guard.
DiscoverFails ==
  /\ Goto(Bg, "discover", "idle")
  /\ lock' = None
  /\ UNCHANGED <<strategy, selector, backends, health, wanted, bgVars,
                 enabling, reqVars, nextMetrics, histVars>>

\* discover() returns another set: do_update starts to build the new tables.
DiscoverChanged ==
  /\ Goto(Bg, "discover", "clone")
  /\ \E found \in Discovered, e \in Enablements :
       /\ found # DOMAIN backends
       /\ nextMetrics + Cardinality(found \ DOMAIN backends) <= MaxMetrics
       /\ todo' = found
       /\ enablement' = e
  /\ newBackends' = Empty
  /\ newHealth' = Empty
  /\ UNCHANGED <<lbVars, wanted, jobs, enabling, reqVars, nextMetrics, histVars>>

\* discover() returns the same set: only the enablement is applied.
DiscoverSame ==
  /\ Goto(Bg, "discover", "enablement")
  /\ DOMAIN backends \in Discovered
  /\ \E e \in Enablements :
       /\ todo' = DOMAIN e
       /\ enablement' = e
  /\ UNCHANGED <<lbVars, wanted, newBackends, newHealth, jobs, enabling,
                 reqVars, nextMetrics, histVars>>

\* A turn of the loop that gives b the metrics m and the cell h, or no cell.
CloneAs(b, m, h) ==
  /\ pc[Bg] = "clone"
  /\ b \in todo
  /\ todo' = todo \ {b}
  /\ newBackends' = With(newBackends, b, m)
  /\ nextMetrics' = IF m = nextMetrics THEN nextMetrics + 1 ELSE nextMetrics
  /\ newHealth' = IF h = None THEN newHealth ELSE With(newHealth, b, h)
  /\ UNCHANGED <<lbVars, pc, wanted, enablement, jobs, enabling, reqVars,
                 histVars>>

KnownMetrics(b) == IF b \in DOMAIN backends THEN backends[b] ELSE nextMetrics

\* Mutant: only a backend that had a cell gets one.
CloneBackendOldCells(b) ==
  CloneAs(b, KnownMetrics(b), IF b \in DOMAIN health THEN health[b] ELSE None)

\* Mutant: the discovered backend replaces the known one, metrics included.
CloneBackendNewMetrics(b) ==
  CloneAs(b, nextMetrics, IF b \in DOMAIN health THEN health[b] ELSE DefaultHealth)

\* Mutant: every backend starts with a new cell.
CloneBackendNewCells(b) == CloneAs(b, KnownMetrics(b), DefaultHealth)

\* One turn of do_update's loop: keep the metrics of a known backend, copy
\* its health cell as it is now, and override its enablement in the copy.
CloneBackend(b) ==
  /\ pc[Bg] = "clone"
  /\ b \in todo
  /\ todo' = todo \ {b}
  /\ LET known == b \in DOMAIN backends
         cell == IF b \in DOMAIN health THEN health[b] ELSE DefaultHealth
     IN  /\ newBackends' = With(newBackends, b,
                             IF known THEN backends[b] ELSE nextMetrics)
         /\ nextMetrics' = IF known THEN nextMetrics ELSE nextMetrics + 1
         /\ newHealth' = With(newHealth, b,
                           IF b \in DOMAIN enablement
                           THEN Enabled(cell, enablement[b]) ELSE cell)
  /\ UNCHANGED <<lbVars, pc, wanted, enablement, jobs, enabling, reqVars,
                 histVars>>

\* Mutant: the selector is built from the backends that are still published.
StoreSelectorOld ==
  /\ Goto(Bg, "clone", "storeBackends")
  /\ todo = {}
  /\ selector' = Build(strategy, backends)
  /\ UNCHANGED <<strategy, lock, backends, health, wanted, bgVars, enabling,
                 reqVars, nextMetrics, histVars>>

\* callback(backends): the selector is built and stored first.
StoreSelector ==
  /\ Goto(Bg, "clone", "storeBackends")
  /\ todo = {}
  /\ selector' = Build(strategy, newBackends)
  /\ UNCHANGED <<strategy, lock, backends, health, wanted, bgVars, enabling,
                 reqVars, nextMetrics, histVars>>

StoreBackends ==
  /\ Goto(Bg, "storeBackends", "storeHealth")
  /\ backends' = newBackends
  /\ retired' = retired \cup
       {backends[b] : b \in DOMAIN backends \ DOMAIN newBackends}
  /\ UNCHANGED <<strategy, lock, selector, health, wanted, bgVars, enabling,
                 reqVars, nextMetrics, told, obs>>

\* The new health table replaces the old one; update returns and drops the
\* guard.  An `enable` in progress holds a cell of the old table, which
\* nobody reads any more.
StoreHealth ==
  /\ Goto(Bg, "storeHealth", "idle")
  /\ health' = newHealth
  /\ lock' = None
  /\ enabling' = [t \in Enabler |->
                   IF enabling[t] = None THEN None
                   ELSE [enabling[t] EXCEPT !.stale = TRUE]]
  /\ LET fresh == Backend \ DOMAIN health
     IN  /\ told' = [b \in Backend |-> IF b \in fresh THEN TRUE ELSE told[b]]
         /\ obs' = [b \in Backend |-> IF b \in fresh THEN NewObs ELSE obs[b]]
  /\ newBackends' = Empty
  /\ newHealth' = Empty
  /\ enablement' = Empty
  /\ UNCHANGED <<strategy, selector, backends, wanted, todo, jobs, reqVars,
                 nextMetrics, retired>>

\* do_update's loop over the enablement map when the set is unchanged: an
\* `enable` on each live cell.
EnablementDone ==
  /\ Goto(Bg, "enablement", "idle")
  /\ todo = {}
  /\ enabling[Bg] = None
  /\ lock' = None
  /\ enablement' = Empty
  /\ UNCHANGED <<strategy, selector, backends, health, wanted, todo,
                 newBackends, newHealth, jobs, enabling, reqVars, nextMetrics,
                 histVars>>

-----------------------------------------------------------------------------
\* Health::enable, as a load and a store

\* Load the table and the cell.  Nothing more happens when the backend is not
\* in the table or is already as wanted.
EnableLoad(t, b, v) ==
  /\ enabling[t] = None
  /\ enabling' =
       IF b \in DOMAIN health /\ EnableStores(health[b], v)
       THEN [enabling EXCEPT ![t] =
               [backend |-> b, value |-> v, loaded |-> health[b],
                stale |-> FALSE]]
       ELSE enabling

\* Store a copy of the loaded value with the other enablement.
EnableStore(t) ==
  /\ enabling[t] # None
  /\ LET e == enabling[t]
     IN  health' = IF e.stale THEN health
                   ELSE [health EXCEPT ![e.backend] =
                           Enabled(e.loaded, e.value)]
  /\ enabling' = [enabling EXCEPT ![t] = None]
  /\ UNCHANGED <<strategy, lock, selector, backends, pc, wanted, bgVars,
                 reqVars, nextMetrics, told, obs, retired>>

\* The next entry of the enablement map.
OverrideEnablement(b) ==
  /\ pc[Bg] = "enablement"
  /\ b \in todo
  /\ todo' = todo \ {b}
  /\ EnableLoad(Bg, b, enablement[b])
  /\ UNCHANGED <<lbVars, pc, wanted, enablement, newBackends, newHealth,
                 jobs, reqVars, nextMetrics, told, obs, retired>>

\* Backends::set_enable, from a request thread, on a backend that a select
\* returned (to this request or to an earlier one that ejected it).
SetEnable(r, b, v) ==
  /\ \E p \in handed : p[1] = b
  /\ EnableLoad(r, b, v)
  /\ UNCHANGED <<lbVars, pc, wanted, bgVars, reqVars, nextMetrics, told, obs,
                 retired>>

-----------------------------------------------------------------------------
\* Backends::run_health_check, on the background task

RunHealthCheck ==
  /\ HealthCheck
  /\ Goto(Bg, "idle", "checks")
  /\ todo' = DOMAIN backends
  /\ UNCHANGED <<lbVars, wanted, enablement, newBackends, newHealth, jobs,
                 enabling, reqVars, nextMetrics, histVars>>

\* check(backend).await gave ok, and observe_health loads the cell.  Without
\* parallel_health_check the next check starts when this one is done.
CheckLoad(b, ok) ==
  /\ pc[Bg] = "checks"
  /\ b \in todo
  /\ Parallel \/ DOMAIN jobs = {}
  /\ todo' = todo \ {b}
  /\ IF b \in DOMAIN health
     THEN /\ jobs' = IF ObserveStores(health[b], ok)
                     THEN With(jobs, b, [ok |-> ok, loaded |-> health[b]])
                     ELSE jobs
          /\ obs' = [obs EXCEPT ![b] = NextObs(@, ok)]
     ELSE UNCHANGED <<jobs, obs>>
  /\ UNCHANGED <<lbVars, pc, wanted, enablement, newBackends, newHealth,
                 enabling, reqVars, nextMetrics, told, retired>>

\* observe_health stores, and a flip is reported to health_status_change.
CheckStore(b) ==
  /\ b \in DOMAIN jobs
  /\ LET ok == jobs[b].ok
         h == jobs[b].loaded
     IN  /\ health' = [health EXCEPT ![b] = Observed(h, ok, Threshold(ok))]
         /\ told' = IF Flips(h, ok, Threshold(ok))
                    THEN [told EXCEPT ![b] = ok] ELSE told
  /\ jobs' = Without(jobs, b)
  /\ UNCHANGED <<strategy, lock, selector, backends, pc, wanted, todo,
                 enablement, newBackends, newHealth, enabling, reqVars,
                 nextMetrics, obs, retired>>

\* All jobs are joined.
ChecksDone ==
  /\ Goto(Bg, "checks", "idle")
  /\ todo = {}
  /\ DOMAIN jobs = {}
  /\ UNCHANGED <<lbVars, wanted, bgVars, enabling, reqVars, nextMetrics,
                 histVars>>

-----------------------------------------------------------------------------
\* LoadBalancer::update_strategy, from the endpoint or the background task

UpdateStrategy(t, s) ==
  /\ Goto(t, "idle", "wait")
  /\ wanted' = [wanted EXCEPT ![t] = s]
  /\ UNCHANGED <<lbVars, bgVars, enabling, reqVars, nextMetrics, histVars>>

\* Mutant: the strategy is changed without waiting for the guard of `update`.
WriteLockAtOnce(t) ==
  /\ Goto(t, "wait", "compare")
  /\ lock' = t
  /\ UNCHANGED <<strategy, selector, backends, health, wanted, bgVars,
                 enabling, reqVars, nextMetrics, histVars>>

\* Mutant: try_write, and the call returns when the lock is taken.
WriteLockTried(t) ==
  \/ /\ Goto(t, "wait", "compare")
     /\ lock = None
     /\ lock' = t
     /\ UNCHANGED <<strategy, selector, backends, health, wanted, bgVars,
                    enabling, reqVars, nextMetrics, histVars>>
  \/ /\ Goto(t, "wait", "idle")
     /\ lock # None
     /\ UNCHANGED <<lbVars, wanted, bgVars, enabling, reqVars, nextMetrics,
                    histVars>>

\* self.strategy.write().await
WriteLock(t) ==
  /\ Goto(t, "wait", "compare")
  /\ lock = None
  /\ lock' = t
  /\ UNCHANGED <<strategy, selector, backends, health, wanted, bgVars,
                 enabling, reqVars, nextMetrics, histVars>>

\* An equal strategy: return false without touching the selector.
StrategyUnchanged(t) ==
  /\ Goto(t, "compare", "idle")
  /\ wanted[t] = strategy
  /\ lock' = None
  /\ UNCHANGED <<strategy, selector, backends, health, wanted, bgVars,
                 enabling, reqVars, nextMetrics, histVars>>

SetStrategy(t) ==
  /\ Goto(t, "compare", "store")
  /\ wanted[t] # strategy
  /\ strategy' = wanted[t]
  /\ UNCHANGED <<lock, selector, backends, health, wanted, bgVars, enabling,
                 reqVars, nextMetrics, histVars>>

\* Build from the new strategy and the published backends, store, return true.
StoreStrategySelector(t) ==
  /\ Goto(t, "store", "idle")
  /\ selector' = Build(strategy, backends)
  /\ lock' = None
  /\ UNCHANGED <<strategy, backends, health, wanted, bgVars, enabling,
                 reqVars, nextMetrics, histVars>>

-----------------------------------------------------------------------------
\* LoadBalancer::rebuild_selector, on the background task

RebuildLock ==
  /\ Goto(Bg, "idle", "rebuild")
  /\ lock = None
  /\ lock' = Bg
  /\ UNCHANGED <<strategy, selector, backends, health, wanted, bgVars,
                 enabling, reqVars, nextMetrics, histVars>>

RebuildStore ==
  /\ Goto(Bg, "rebuild", "idle")
  /\ selector' = Build(strategy, backends)
  /\ lock' = None
  /\ UNCHANGED <<strategy, backends, health, wanted, bgVars, enabling,
                 reqVars, nextMetrics, histVars>>

-----------------------------------------------------------------------------
\* LoadBalancer::select_with, on a request thread

\* Load the selector.
Select(r) ==
  /\ ~scan[r].looking
  /\ scan' = [scan EXCEPT ![r] = [looking |-> TRUE,
                                  left |-> selector.backends]]
  /\ UNCHANGED <<lbVars, pc, wanted, bgVars, enabling, handed, nextMetrics,
                 histVars>>

\* The iterator yields b; the request takes it when it is ready.
SelectNext(r, b) ==
  /\ b \in DOMAIN scan[r].left
  /\ IF Ready(b)
     THEN /\ handed' = handed \cup {<<b, scan[r].left[b]>>}
          /\ scan' = [scan EXCEPT ![r] = NoScan]
     ELSE /\ scan' = [scan EXCEPT ![r].left = Without(@, b)]
          /\ UNCHANGED handed
  /\ UNCHANGED <<lbVars, pc, wanted, bgVars, enabling, nextMetrics, histVars>>

\* No backend: the iterator is exhausted, or max_iterations are used up on
\* backends that were not ready or that it had yielded before.
SelectNone(r) ==
  /\ scan[r].looking
  /\ scan' = [scan EXCEPT ![r] = NoScan]
  /\ UNCHANGED <<lbVars, pc, wanted, bgVars, enabling, handed, nextMetrics,
                 histVars>>

-----------------------------------------------------------------------------
Update ==
  \/ UpdateLock \/ DiscoverFails \/ DiscoverChanged \/ DiscoverSame
  \/ \E b \in Backend : CloneBackend(b) \/ OverrideEnablement(b)
  \/ StoreSelector \/ StoreBackends \/ StoreHealth \/ EnablementDone

Checks ==
  \/ RunHealthCheck
  \/ \E b \in Backend : CheckStore(b) \/ \E ok \in BOOLEAN : CheckLoad(b, ok)
  \/ ChecksDone

SetterStep(t) ==
  \/ WriteLock(t) \/ StrategyUnchanged(t)
  \/ SetStrategy(t) \/ StoreStrategySelector(t)

RequestStep(r) ==
  \/ Select(r) \/ SelectNone(r)
  \/ \E b \in Backend : SelectNext(r, b)

Next ==
  \/ Update
  \/ Checks
  \/ RebuildLock \/ RebuildStore
  \/ \E t \in Task : SetterStep(t) \/ \E s \in Strategy : UpdateStrategy(t, s)
  \/ \E t \in Enabler : EnableStore(t)
  \/ \E r \in Request : RequestStep(r)
  \/ \E r \in Toggler, b \in Backend, v \in BOOLEAN : SetEnable(r, b, v)

Spec == Init /\ [][Next]_vars

(***************************************************************************)
(* Fairness.  A task that can run is eventually run by tokio, discovery    *)
(* and checks eventually answer, and tokio's RwLock is fair (it queues its *)
(* waiters), which makes the acquisition strongly fair.  Nothing forces a  *)
(* request, an endpoint call or a new round of the background task.        *)
(***************************************************************************)
BgBusy == pc[Bg] # "idle" /\ (Update \/ Checks \/ RebuildStore)

FairSpec ==
  /\ Spec
  /\ WF_vars(BgBusy)
  /\ WF_vars(EnableStore(Bg))
  /\ \A t \in Task : SF_vars(WriteLock(t)) /\ WF_vars(SetterStep(t))

-----------------------------------------------------------------------------
\* Properties

SharedTypeOK ==
  /\ strategy \in Strategy
  /\ lock \in Task \cup {None}
  /\ selector = Build(selector.strategy, selector.backends)
  /\ selector.strategy \in Strategy
  /\ IsPartial(selector.backends, Nat)
  /\ IsPartial(backends, Nat)
  /\ IsPartial(health, Health)

TaskTypeOK ==
  /\ pc \in [Task -> {"idle", "discover", "clone", "storeBackends",
                      "storeHealth", "enablement", "checks", "rebuild",
                      "wait", "compare", "store"}]
  /\ wanted \in [Task -> Strategy]

BgTypeOK ==
  /\ todo \in SUBSET Backend
  /\ pc[Bg] = "enablement" => todo \subseteq DOMAIN enablement
  /\ IsPartial(enablement, BOOLEAN)
  /\ IsPartial(newBackends, Nat)
  /\ IsPartial(newHealth, Health)
  /\ IsPartial(jobs, [ok : BOOLEAN, loaded : Health])
  /\ nextMetrics \in Nat

RequestTypeOK ==
  /\ enabling \in [Enabler -> {None} \cup
                     [backend : Backend, value : BOOLEAN, loaded : Health,
                      stale : BOOLEAN]]
  /\ DOMAIN scan = Request
  /\ \A r \in Request :
       /\ scan[r] = [looking |-> scan[r].looking, left |-> scan[r].left]
       /\ scan[r].looking \in BOOLEAN
       /\ IsPartial(scan[r].left, Nat)
  /\ handed \in SUBSET (Backend \X Nat)

HistTypeOK ==
  /\ told \in [Backend -> BOOLEAN]
  /\ obs \in [Backend -> [ok : BOOLEAN, run : Nat, verdict : BOOLEAN]]
  /\ retired \in SUBSET Nat

\* The type invariant.
TypeOK ==
  SharedTypeOK /\ TaskTypeOK /\ BgTypeOK /\ RequestTypeOK /\ HistTypeOK

(***************************************************************************)
(* Whenever nobody holds the strategy lock, the published selector is the  *)
(* one the current strategy builds from the published backends, metrics    *)
(* included: an endpoint call that lands in the middle of an update, or an *)
(* update in the middle of an endpoint call, leaves neither an old         *)
(* strategy nor an old backend set in the selector (mod.rs, the comment on *)
(* `strategy`).                                                            *)
(***************************************************************************)
SelectorCurrent == lock = None => selector = Build(strategy, backends)

(***************************************************************************)
(* The health table knows exactly the published backends, except between   *)
(* the last two stores of do_update.  do_update and set_enable rely on it  *)
(* when they say that their lookup is always Some(_).                      *)
(***************************************************************************)
HealthKnown == pc[Bg] # "storeHealth" => DOMAIN health = DOMAIN backends

(***************************************************************************)
(* A backend that appears in `backends` is already in the selector, so     *)
(* that a caller who sees it there does not meet a selector that cannot    *)
(* return it (the comment before do_update's callback).                    *)
(***************************************************************************)
SelectorFirst ==
  [][DOMAIN backends' \ DOMAIN backends \subseteq DOMAIN selector.backends]_vars

(***************************************************************************)
(* The metrics a request got with its backend are the ones the strategies  *)
(* and the decision engine read, until the backend leaves the set: no      *)
(* sequence of updates, also with selects that started before them, leaves *)
(* a request counting on an object that a kept backend no longer uses.     *)
(***************************************************************************)
Published(f, b, m) == b \in DOMAIN f /\ f[b] = m

LiveMetrics(b, m) ==
  \/ m \in retired
  \/ Published(backends, b, m)
  \/ pc[Bg] = "storeBackends" /\ Published(newBackends, b, m)

RequestsUseLiveMetrics == \A p \in handed : LiveMetrics(p[1], p[2])

(***************************************************************************)
(* The cell agrees with the run of check results: `healthy` is what the    *)
(* last sufficiently long run says, the counter is the length of an        *)
(* opposite run that is still too short, and updates of the backend set in *)
(* between lose nothing of it.                                             *)
(***************************************************************************)
HealthAsObserved ==
  \A b \in DOMAIN health \ DOMAIN jobs :
    LET h == health[b]
        o == obs[b]
    IN  /\ h.healthy = o.verdict
        /\ h.consecutive_counter = IF o.ok = h.healthy THEN 0 ELSE o.run

(***************************************************************************)
(* health_status_change is called when the health of a backend changes:    *)
(* what it last said is what the cell holds.                               *)
(***************************************************************************)
StatusReported ==
  \A b \in DOMAIN health \ DOMAIN jobs : told[b] = health[b].healthy

(***************************************************************************)
(* A caller of update_strategy is always answered: the read guard that     *)
(* `update` holds across discovery is released on every path.              *)
(***************************************************************************)
StrategyCallAnswered ==
  \A t \in Task : pc[t] = "wait" ~> pc[t] = "idle"
-----------------------------------------------------------------------------
(***************************************************************************)
(* The abstract load balancer this one implements.  Its strategy and pool  *)
(* are the two parts of the published selector; a call is pending from its *)
(* start to its return, wherever it waits; everything else is hidden.      *)
(***************************************************************************)
Calling == {t \in Task : pc[t] \in {"wait", "compare", "store"}}

Abstract == INSTANCE StrategySwitch WITH
  Caller <- Task,
  strategy <- selector.strategy,
  pool <- selector.backends,
  listed <- backends,
  pending <- Calling

(***************************************************************************)
(* Updates and strategy calls act on the published selector one at a time  *)
(* and each on its own half of it: a call that races a whole update, held  *)
(* up by the lock at any point, is answered as if it were a single step,   *)
(* and what the selector held of the update survives it.                   *)
(***************************************************************************)
Promise == Abstract!Spec
=============================================================================
