------------------------------ MODULE MCProgress ------------------------------
(***************************************************************************)
(* The four components with liveness properties in one run, on small       *)
(* values: AdaptiveService, Selection, Failover and LoadBalancer.  They    *)
(* share no state here, so nothing is gained by interleaving them: the     *)
(* initial state chooses the one that moves, and the others stay as they   *)
(* are.  Fairness is that of the specification of the component.           *)
(***************************************************************************)
EXTENDS AdaptiveService, Selection

CONSTANTS None

VARIABLES
  part,
  cells, state, windows, ejections, place, ctx, restoring, enabling, check, recent,
  active, lock, selector, backends, health, task, wanted, todo, enablement,
  newBackends, newHealth, jobs, switching, scan, handed, nextMetrics, told, obs,
  retired

\* Selection: two backends of weights 2 and 1, a thread of first attempts and
\* one of retries.
MCWeight == <<2, 1>>
MCExcluded == {{}, {1}}

OwnExclusion ==
  /\ search'["s1"].exclude = {}
  /\ search'["s2"].phase # "idle" => search'["s2"].exclude = {1}

\* Failover: two requests on one backend, with an active check.
F == INSTANCE Failover WITH
  Backend <- {"b1"},
  Request <- {"r1", "r2"},
  MaxFails <- 1,
  FailTimeout <- 1,
  MaxRetries <- 1,
  RetryOnConnectError <- TRUE,
  ActiveCheck <- TRUE,
  MaxReloads <- 0,
  pc <- place

\* LoadBalancer: one backend that comes and goes, and one caller.
B == INSTANCE LoadBalancer WITH
  Backend <- {"b1"},
  Strategy <- {"s1", "s2"},
  Bg <- "bg",
  Setter <- {"e1"},
  Request <- {},
  Toggler <- {},
  HealthCheck <- FALSE,
  Parallel <- FALSE,
  SuccessThreshold <- 1,
  FailureThreshold <- 1,
  Discovered <- {{}, {"b1"}},
  Enablements <- {[b \in {} |-> TRUE], [b \in {"b1"} |-> FALSE]},
  MaxMetrics <- 2,
  strategy <- active,
  pc <- task,
  enabling <- switching

-----------------------------------------------------------------------------
failover == <<cells, state, windows, ejections, place, ctx, restoring, enabling, check,
              recent>>
balancer == <<active, lock, selector, backends, health, task, wanted, todo, enablement,
              newBackends, newHealth, jobs, switching, scan, handed, nextMetrics, told,
              obs, retired>>
all == <<part, serviceVars, vars, failover, balancer>>

MCInit ==
  /\ part \in {"service", "selection", "failover", "balancer"}
  /\ ServiceInit /\ Init /\ F!Init /\ B!Init
  /\ part # "service" => strategy = "RoundRobin"
  /\ part # "selection" => kind = "RoundRobin" /\ ready = {}
  /\ part # "balancer" => active = "s1"

Service(A) == part = "service" /\ A /\ UNCHANGED <<part, vars, failover, balancer>>
Selecting(A) == part = "selection" /\ A /\ UNCHANGED <<part, serviceVars, failover, balancer>>
Failing(A) == part = "failover" /\ A /\ UNCHANGED <<part, serviceVars, vars, balancer>>
Balancing(A) == part = "balancer" /\ A /\ UNCHANGED <<part, serviceVars, vars, failover>>

MCNext ==
  \/ Service(ServiceNext) \/ Selecting(Next /\ OwnExclusion)
  \/ Failing(F!Next) \/ Balancing(B!Next)

\* As only one part ever moves, fairness of a disjunction with one action of
\* each part is fairness of each of them.
MCFairSpec ==
  /\ MCInit /\ [][MCNext]_all
  /\ WF_all(\/ Service(Loop) \/ Selecting(Turn("s1")) \/ Failing(F!Step("r1"))
            \/ Balancing(B!BgBusy))
  /\ WF_all(\/ Service(Tick) \/ Selecting(Turn("s2")) \/ Failing(F!Step("r2"))
            \/ Balancing(B!EnableStore("bg")))
  /\ WF_all(Failing(F!Arrive("r1")) \/ Balancing(B!SetterStep("bg")))
  /\ WF_all(Failing(F!Arrive("r2")) \/ Balancing(B!SetterStep("e1")))
  /\ SF_all(Failing(F!Tick) \/ Balancing(B!WriteLock("bg")))
  /\ SF_all(Balancing(B!WriteLock("e1")))

-----------------------------------------------------------------------------
\* No timer of the background loop starves another: checks and evaluations go
\* on until it stops (background_service.rs).
AllTimersServed == part = "service" => TimersServed

\* A shutdown ends the background loop, whatever it is waiting for.
ShutdownEndsLoop == part = "service" => ShutdownStops

\* Every search of select_with ends, also over the endless weighted iterators.
EverySearchEnds == part = "selection" => SearchEnds

\* A request that asks for an upstream is answered, beside an active check and
\* another request: fail_to_connect does not retry for ever.
RequestEnds == part = "failover" => F!RequestEnds

\* With traffic and nothing that interferes an ejected backend comes back
\* (upstream_peer restores it).
EventuallyRestored == part = "failover" => F!EventuallyRestored

\* A call of update_strategy is answered, although update holds the read guard
\* across a discovery that may fail.
StrategyCallAnswered == part = "balancer" => B!StrategyCallAnswered
=============================================================================
