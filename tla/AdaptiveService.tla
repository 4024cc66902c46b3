---------------------------- MODULE AdaptiveService ----------------------------
(***************************************************************************)
(* The background service of an adaptive load balancer                     *)
(* (adaptive_loadbalancer/background_service.rs): one loop that updates    *)
(* the backends, runs the health checks, evaluates the strategy and        *)
(* rebuilds the selector, each when its timer is due, against the endpoint *)
(* that sets the strategy at any time (set_strategy_endpoint.rs).          *)
(*                                                                         *)
(* Time is counted in ticks.  The loop reads the clock only when it wakes, *)
(* so `due` holds each timer relative to that reading (0: due), and `lag`  *)
(* the ticks since then.  Updates and checks may take ticks; the rest is   *)
(* instantaneous.                                                          *)
(*                                                                         *)
(* Abstractions.  update_strategy is one step: LoadBalancer shows that the *)
(* lock makes it so.  The engine is any of the choices evaluate_strategy   *)
(* can make (see DecisionEngine).                                          *)
(***************************************************************************)
EXTENDS Naturals

CONSTANTS
  Strategy,        \* the strategies in use
  Rebuilding,      \* those whose rebuild_frequency is Some(_)
  EngineChoice,    \* what evaluate_strategy can return
  Never,           \* the period NEVER, longer than any other
  UpdatePeriod,    \* update_frequency, or Never
  CheckPeriod,     \* health_check_frequency, or Never
  EvalPeriod,      \* evaluate_strategy_frequency
  RebuildPeriod,   \* rebuild_frequency of the Rebuilding strategies
  MaxAwait         \* bound on the ticks the awaits of one round take

ASSUME StrategySets ==
  Rebuilding \subseteq Strategy /\ EngineChoice \subseteq Strategy
ASSUME PeriodsPositive ==
  /\ Never \in Nat
  /\ {UpdatePeriod, CheckPeriod} \subseteq 1 .. Never
  /\ {EvalPeriod, RebuildPeriod} \subseteq 1 .. Never - 1
ASSUME MaxAwaitNat == MaxAwait \in Nat

Timer == {"update", "check", "eval", "rebuild"}

VARIABLES
  strategy,    \* the strategy of the load balancer
  pc,          \* where the loop is
  due,         \* per timer: the ticks from the last clock reading to it
  lag,         \* ticks since the last clock reading
  shutdown,    \* the shutdown watch
  age,         \* history: ticks since the selector was built, to a cap
  own          \* history: the loop, not the endpoint, set the strategy

serviceVars == <<strategy, pc, due, lag, shutdown, age, own>>

\* The age at which the history stops counting.
AgeCap == RebuildPeriod + 2 * MaxAwait + 1

-----------------------------------------------------------------------------
\* rebuild_frequency().unwrap_or(NEVER)
RebuildIn(s) == IF s \in Rebuilding THEN RebuildPeriod ELSE Never

\* `start`, up to the loop: everything but the rebuild is due at once.
ServiceInit ==
  /\ strategy \in Strategy
  /\ pc = "top"
  /\ due = [t \in Timer |-> IF t = "rebuild" THEN RebuildIn(strategy) ELSE 0]
  /\ lag = 0
  /\ shutdown = FALSE
  /\ age = 0
  /\ own = TRUE

Goto(here, there) == pc = here /\ pc' = there

\* Mutant: a timer that is not due starts anew whenever the loop comes by.
Period(timer) ==
  CASE timer = "update" -> UpdatePeriod
    [] timer = "check" -> CheckPeriod
    [] timer = "eval" -> EvalPeriod
    [] timer = "rebuild" -> RebuildIn(strategy)

NotDueRestarting(here, timer, there) ==
  /\ Goto(here, there)
  /\ due[timer] > 0
  /\ due' = [due EXCEPT ![timer] = Period(timer)]
  /\ UNCHANGED <<strategy, lag, shutdown, age, own>>

\* A timer that is not due is skipped.
NotDue(here, timer, there) ==
  /\ Goto(here, there)
  /\ due[timer] > 0
  /\ UNCHANGED <<strategy, due, lag, shutdown, age, own>>

Reschedule(timer, period) == due' = [due EXCEPT ![timer] = period]

\* The top of the loop: stop, or start a round.
Stop ==
  /\ Goto("top", "stopped")
  /\ shutdown
  /\ UNCHANGED <<strategy, due, lag, shutdown, age, own>>

\* Mutant: the shutdown watch is not looked at.
StartRoundAnyway ==
  /\ Goto("top", "update")
  /\ UNCHANGED <<strategy, due, lag, shutdown, age, own>>

StartRound ==
  /\ Goto("top", "update")
  /\ ~shutdown
  /\ UNCHANGED <<strategy, due, lag, shutdown, age, own>>

\* lb.update(), which builds the selector anew when the set changed; an error
\* is logged.  The timer is set either way.
Update ==
  /\ Goto("update", "check")
  /\ due["update"] = 0
  /\ Reschedule("update", UpdatePeriod)
  /\ age' \in {age, 0}
  /\ UNCHANGED <<strategy, lag, shutdown, own>>

RunHealthCheck ==
  /\ Goto("check", "eval")
  /\ due["check"] = 0
  /\ Reschedule("check", CheckPeriod)
  /\ UNCHANGED <<strategy, lag, shutdown, age, own>>

\* Mutant: the evaluation timer is not set again.
EvaluateStaysDue ==
  /\ pc = "eval"
  /\ due["eval"] = 0
  /\ \E s \in EngineChoice :
       /\ strategy' = s
       /\ pc' = IF s # strategy THEN "reschedule" ELSE "rebuild"
       /\ age' = IF s # strategy THEN 0 ELSE age
       /\ own' = (own \/ s # strategy)
  /\ UNCHANGED <<due, lag, shutdown>>

\* current_strategy, evaluate_strategy, and update_strategy with the result:
\* true when that changed the strategy.  An endpoint call that comes between
\* the reading and the update is overwritten like one that comes before both.
Evaluate ==
  /\ pc = "eval"
  /\ due["eval"] = 0
  /\ \E s \in EngineChoice :
       /\ strategy' = s
       /\ pc' = IF s # strategy THEN "reschedule" ELSE "rebuild"
       /\ age' = IF s # strategy THEN 0 ELSE age
       /\ own' = (own \/ s # strategy)
  /\ Reschedule("eval", EvalPeriod)
  /\ UNCHANGED <<lag, shutdown>>

\* After a change: the rebuild timer of the strategy that is now set.
RescheduleRebuild ==
  /\ Goto("reschedule", "rebuild")
  /\ Reschedule("rebuild", RebuildIn(strategy))
  /\ UNCHANGED <<strategy, lag, shutdown, age, own>>

\* rebuild_selector, and then its timer.
Rebuild ==
  /\ Goto("rebuild", "rebuilt")
  /\ due["rebuild"] = 0
  /\ age' = 0
  /\ UNCHANGED <<strategy, due, lag, shutdown, own>>

\* Mutant: the selector is rebuilt once only.
RebuiltOnce ==
  /\ Goto("rebuilt", "sleep")
  /\ Reschedule("rebuild", Never)
  /\ UNCHANGED <<strategy, lag, shutdown, age, own>>

Rebuilt ==
  /\ Goto("rebuilt", "sleep")
  /\ Reschedule("rebuild", RebuildIn(strategy))
  /\ UNCHANGED <<strategy, lag, shutdown, age, own>>

\* sleep_until the earliest timer, and the next reading of the clock.
Wake ==
  /\ Goto("sleep", "top")
  /\ \E t \in Timer : due[t] <= lag
  /\ due' = [t \in Timer |->
              IF due[t] = Never THEN Never
              ELSE IF due[t] <= lag THEN 0 ELSE due[t] - lag]
  /\ lag' = 0
  /\ UNCHANGED <<strategy, shutdown, age, own>>

\* A tick, while the loop sleeps or while an update or a check takes time.
Tick ==
  /\ \/ pc = "sleep" /\ \A t \in Timer : due[t] > lag
     \/ pc \in {"update", "check"} /\ due[pc] = 0 /\ lag < MaxAwait
  /\ lag' = lag + 1
  /\ age' = IF age < AgeCap THEN age + 1 ELSE age
  /\ UNCHANGED <<strategy, pc, due, shutdown, own>>

\* The endpoint calls update_strategy, which builds the selector on a change.
SetStrategy(s) ==
  /\ s # strategy
  /\ strategy' = s
  /\ age' = 0
  /\ own' = FALSE
  /\ UNCHANGED <<pc, due, lag, shutdown>>

Shutdown ==
  /\ ~shutdown
  /\ shutdown' = TRUE
  /\ UNCHANGED <<strategy, pc, due, lag, age, own>>

\* Stopped for good.
Stopped == pc = "stopped" /\ UNCHANGED serviceVars

Loop ==
  \/ Stop \/ StartRound
  \/ NotDue("update", "update", "check") \/ Update
  \/ NotDue("check", "check", "eval") \/ RunHealthCheck
  \/ NotDue("eval", "eval", "rebuild") \/ Evaluate \/ RescheduleRebuild
  \/ NotDue("rebuild", "rebuild", "sleep") \/ Rebuild \/ Rebuilt
  \/ Wake

ServiceNext ==
  \/ Loop
  \/ Tick
  \/ \E s \in Strategy : SetStrategy(s)
  \/ Shutdown
  \/ Stopped

ServiceSpec == ServiceInit /\ [][ServiceNext]_serviceVars

(***************************************************************************)
(* Fairness: the loop is a task that tokio runs, an update and a check     *)
(* come to an end, and time goes on.  The operator and the shutdown may    *)
(* come or not.                                                            *)
(***************************************************************************)
ServiceFairSpec == ServiceSpec /\ WF_serviceVars(Loop) /\ WF_serviceVars(Tick)

-----------------------------------------------------------------------------
\* The type invariant.
ServiceTypeOK ==
  /\ strategy \in Strategy
  /\ pc \in {"top", "update", "check", "eval", "reschedule",
             "rebuild", "rebuilt", "sleep", "stopped"}
  /\ due \in [Timer -> 0 .. Never]
  /\ lag \in 0 .. Never + MaxAwait
  /\ shutdown \in BOOLEAN
  /\ age \in 0 .. AgeCap
  /\ own \in BOOLEAN

(***************************************************************************)
(* The loop never spins: when it goes to sleep every timer is set to a     *)
(* later time than the clock reading it has worked with.                   *)
(***************************************************************************)
NoSpinning == pc = "sleep" => \A t \in Timer : due[t] > 0

(***************************************************************************)
(* No timer starves another, although one round serves all of them and     *)
(* rebuilds wake the loop much more often: checks and evaluations go on    *)
(* until the service stops.                                                *)
(***************************************************************************)
TimersServed ==
  /\ []<>(pc = "stopped" \/ (pc = "check" /\ due["check"] = 0))
  /\ []<>(pc = "stopped" \/ (pc = "eval" /\ due["eval"] = 0))

(***************************************************************************)
(* A shutdown ends the loop, whatever it is waiting for.                   *)
(***************************************************************************)
ShutdownStops == shutdown ~> pc = "stopped"

(***************************************************************************)
(* While a strategy with a rebuild frequency is set that the loop itself   *)
(* started with or changed to, its selector is never older than that       *)
(* period and what the awaits of two rounds can take.                      *)
(***************************************************************************)
SelectorFresh ==
  own /\ strategy \in Rebuilding /\ pc # "stopped" =>
    age <= RebuildPeriod + 2 * MaxAwait

(***************************************************************************)
(* A strategy with a rebuild frequency that stays set has its selector     *)
(* rebuilt again and again (the doc of Strategy::rebuild_frequency).       *)
(***************************************************************************)
RebuildsPeriodically ==
  \A s \in Rebuilding :
    <>[](strategy = s /\ pc # "stopped") => []<>(pc = "rebuilt")
=============================================================================
