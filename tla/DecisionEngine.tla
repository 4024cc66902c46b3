---------------------------- MODULE DecisionEngine ----------------------------
(***************************************************************************)
(* `AdaptiveDecisionEngine` of adaptive_loadbalancer/decision_engine.rs:   *)
(* the choice of a strategy from the connection counts and the latency     *)
(* averages of the backends, with the metrics changing in any order        *)
(* between two evaluations and the operator setting any strategy.          *)
(*                                                                         *)
(* Abstractions.  The f32 ratios are compared as integer fractions, in     *)
(* hundredths, so rounding is left out.  Latencies are integers.  The      *)
(* largest and the smallest value of a metric are replaced by "some        *)
(* backend against some other", which is the same comparison: max / min    *)
(* exceeds a threshold exactly when some quotient of two values does.      *)
(***************************************************************************)
EXTENDS Integers, FiniteSets

CONSTANTS
  Upstream,
  MinConnections,     \* min_nr_of_connections
  ConnectionsRatio,   \* connections_divergence_ratio, in hundredths
  LatencyRatio,       \* latency_divergence_ratio, in hundredths
  ExitFactor,         \* hysteresis_exit_factor, in hundredths
  Smoothing,          \* latency_smoothing_factor, in hundredths
  Sample,             \* the latencies a request can take
  MaxConnections      \* bound on the connections of a backend

ASSUME RatiosNat ==
  /\ MinConnections \in Nat /\ MaxConnections \in Nat
  /\ ConnectionsRatio \in Nat /\ LatencyRatio \in Nat
ASSUME ExitIsLower == ExitFactor \in 0 .. 100
ASSUME SmoothingFraction == Smoothing \in 0 .. 100
ASSUME SamplesPositive == Sample \subseteq Nat \ {0}

\* The variants of `Adaptive`.
Strategy == {"RoundRobin", "Random", "FNVHash", "Consistent",
             "FewestConnections", "FastestServer"}

VARIABLES
  strategy,       \* the strategy of the load balancer
  connections,    \* active connections per backend
  latency,        \* latency average per backend, 0 when not measured
  settled         \* history: nothing changed since the last evaluation

engineVars == <<strategy, connections, latency, settled>>

-----------------------------------------------------------------------------
\* Mutant: enter and exit are swapped.
ThresholdSwapped(ratio, active) == ratio * (IF active THEN 100 ELSE ExitFactor)

\* Mutant: no hysteresis.
ThresholdSame(ratio, active) == ratio * 100

\* The threshold of a signal, times 10000: its exit threshold when the
\* strategy it leads to is active, its enter threshold otherwise.
Threshold(ratio, active) == ratio * (IF active THEN ExitFactor ELSE 100)

\* connection_divergence: a backend without connections counts as one.
AtLeastOne(n) == IF n = 0 THEN 1 ELSE n

ConnectionsDiverge(conns, threshold) ==
  \E a, b \in Upstream : conns[a] * 10000 > threshold * AtLeastOne(conns[b])

\* latency_divergence: only measured backends count, and two are needed.
Measured(lat) == {b \in Upstream : lat[b] > 0}

LatencyDiverges(lat, threshold) ==
  /\ \E a, b \in Measured(lat) : a # b
  /\ \E a, b \in Measured(lat) : lat[a] * 10000 > threshold * lat[b]

Overloaded(current, conns) ==
  /\ \E b \in Upstream : conns[b] >= MinConnections
  /\ ConnectionsDiverge(conns,
       Threshold(ConnectionsRatio, current = "FewestConnections"))

\* There are backends to choose between.
Several == \E a, b \in Upstream : a # b

\* Mutant: the latency is looked at first.
EvaluateLatencyFirst(current, conns, lat) ==
  IF ~Several THEN "RoundRobin"
  ELSE IF LatencyDiverges(lat, Threshold(LatencyRatio, current = "FastestServer"))
  THEN "FastestServer"
  ELSE IF Overloaded(current, conns) THEN "FewestConnections"
  ELSE "RoundRobin"

\* evaluate_strategy
EvaluateStrategy(current, conns, lat) ==
  IF ~Several THEN "RoundRobin"
  ELSE IF Overloaded(current, conns) THEN "FewestConnections"
  ELSE IF LatencyDiverges(lat, Threshold(LatencyRatio, current = "FastestServer"))
  THEN "FastestServer"
  ELSE "RoundRobin"

-----------------------------------------------------------------------------
EngineInit ==
  /\ strategy \in Strategy
  /\ connections = [b \in Upstream |-> 0]
  /\ latency = [b \in Upstream |-> 0]
  /\ settled = FALSE

\* increment_active_connections
Connect(b) ==
  /\ connections[b] < MaxConnections
  /\ connections' = [connections EXCEPT ![b] = @ + 1]
  /\ settled' = FALSE
  /\ UNCHANGED <<strategy, latency>>

\* decrement_active_connections
Disconnect(b) ==
  /\ connections[b] > 0
  /\ connections' = [connections EXCEPT ![b] = @ - 1]
  /\ settled' = FALSE
  /\ UNCHANGED <<strategy, latency>>

\* record_latency: the first sample is taken as it is, later ones are
\* smoothed into the average.
RecordLatency(b, sample) ==
  /\ latency' = [latency EXCEPT ![b] =
       IF @ = 0 THEN sample
       ELSE (Smoothing * sample + (100 - Smoothing) * @) \div 100]
  /\ settled' = FALSE
  /\ UNCHANGED <<strategy, connections>>

\* The background service evaluates, and sets what the engine chose.
Evaluate ==
  /\ strategy' = EvaluateStrategy(strategy, connections, latency)
  /\ settled' = TRUE
  /\ UNCHANGED <<connections, latency>>

\* The strategy endpoint sets any strategy.
OperatorSets(s) ==
  /\ strategy' = s
  /\ settled' = FALSE
  /\ UNCHANGED <<connections, latency>>

EngineNext ==
  \/ \E b \in Upstream :
       Connect(b) \/ Disconnect(b) \/ \E l \in Sample : RecordLatency(b, l)
  \/ Evaluate
  \/ \E s \in Strategy : OperatorSets(s)

EngineSpec == EngineInit /\ [][EngineNext]_engineVars

-----------------------------------------------------------------------------
\* The type invariant.
EngineTypeOK ==
  /\ strategy \in Strategy
  /\ connections \in [Upstream -> Nat]
  /\ latency \in [Upstream -> Nat]
  /\ settled \in BOOLEAN

(***************************************************************************)
(* The engine does not oscillate: as long as no metric changes, a second   *)
(* evaluation chooses what the first one chose, whatever was active before *)
(* (the doc of evaluate_strategy on hysteresis).                           *)
(***************************************************************************)
NoFlapping == [][settled /\ settled' => strategy' = strategy]_engineVars

(***************************************************************************)
(* A strategy that a signal led to is left only for the reasons the code   *)
(* has: FastestServer when the latencies are within the exit threshold or  *)
(* the pool is overloaded, FewestConnections when the connections are      *)
(* within the exit threshold, no backend is busy any more or there is only *)
(* one.                                                                    *)
(***************************************************************************)
LeftBy(s) == strategy = s /\ settled' /\ strategy' # s

LeftWithinExit ==
  [][/\ LeftBy("FastestServer") =>
          \/ strategy' = "FewestConnections"
          \/ ~LatencyDiverges(latency, LatencyRatio * ExitFactor)
     /\ LeftBy("FewestConnections") =>
          \/ ~ConnectionsDiverge(connections, ConnectionsRatio * ExitFactor)
          \/ \A b \in Upstream : connections[b] < MinConnections
          \/ ~Several]_engineVars

(***************************************************************************)
(* The priority of the signals: with a busy backend and connections above  *)
(* the enter threshold an evaluation ends in FewestConnections, whatever   *)
(* the latencies are and whatever was active.                              *)
(***************************************************************************)
OverloadFirst ==
  [][settled' /\ Overloaded("RoundRobin", connections) /\ Several
     => strategy' = "FewestConnections"]_engineVars

(***************************************************************************)
(* "Otherwise fall back to RoundRobin" (the third rule in the doc of       *)
(* evaluate_strategy): a pool whose backends all have the same connections *)
(* and the same latency diverges in nothing, so an evaluation ends in      *)
(* RoundRobin.                                                             *)
(***************************************************************************)
Balanced ==
  \A a, b \in Upstream : connections[a] = connections[b] /\ latency[a] = latency[b]

BalancedFallsBack ==
  [][settled' /\ Balanced => strategy' = "RoundRobin"]_engineVars
=============================================================================
