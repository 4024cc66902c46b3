-------------------------- MODULE DecisionEngineProofs --------------------------
(***************************************************************************)
(* Proofs about DecisionEngine, for any set of backends, any thresholds    *)
(* and any exit factor of at most one.                                     *)
(***************************************************************************)
EXTENDS DecisionEngine, TLAPS

-----------------------------------------------------------------------------
\* Lemmas on the comparisons.

\* What diverges beyond a threshold diverges beyond any lower one.
LEMMA ConnectionsMonotone ==
  ASSUME NEW conns \in [Upstream -> Nat], NEW high \in Nat, NEW low \in Nat,
         low <= high, ConnectionsDiverge(conns, high)
  PROVE  ConnectionsDiverge(conns, low)
<1>1. PICK a \in Upstream, b \in Upstream :
        conns[a] * 10000 > high * AtLeastOne(conns[b])
  BY DEF ConnectionsDiverge
<1>2. AtLeastOne(conns[b]) \in Nat
  BY DEF AtLeastOne
<1>3. low * AtLeastOne(conns[b]) <= high * AtLeastOne(conns[b])
  BY <1>2
<1>4. conns[a] * 10000 > low * AtLeastOne(conns[b])
  BY <1>1, <1>2, <1>3
<1> QED BY <1>4 DEF ConnectionsDiverge

\* The same for latencies.
LEMMA LatencyMonotone ==
  ASSUME NEW lat \in [Upstream -> Nat], NEW high \in Nat, NEW low \in Nat,
         low <= high, LatencyDiverges(lat, high)
  PROVE  LatencyDiverges(lat, low)
<1>1. PICK a \in Measured(lat), b \in Measured(lat) : lat[a] * 10000 > high * lat[b]
  BY DEF LatencyDiverges
<1>2. lat[a] \in Nat /\ lat[b] \in Nat
  BY DEF Measured
<1>3. low * lat[b] <= high * lat[b]
  BY <1>2
<1>4. lat[a] * 10000 > low * lat[b]
  BY <1>1, <1>2, <1>3
<1> QED BY <1>4 DEF LatencyDiverges

\* The exit threshold of a signal is at most its enter threshold.
LEMMA ExitBelowEnter ==
  ASSUME NEW ratio \in Nat, NEW active \in BOOLEAN
  PROVE  /\ Threshold(ratio, active) \in Nat
         /\ Threshold(ratio, FALSE) \in Nat
         /\ Threshold(ratio, TRUE) <= Threshold(ratio, active)
         /\ Threshold(ratio, active) <= Threshold(ratio, FALSE)
  BY ExitIsLower DEF Threshold

\* An evaluation that starts from the result of an evaluation of the same
\* metrics gives that result again.
LEMMA EvaluateIdempotent ==
  ASSUME NEW current, NEW conns \in [Upstream -> Nat], NEW lat \in [Upstream -> Nat]
  PROVE  LET chosen == EvaluateStrategy(current, conns, lat)
         IN  EvaluateStrategy(chosen, conns, lat) = chosen
<1> DEFINE chosen == EvaluateStrategy(current, conns, lat)
           ct(s) == Threshold(ConnectionsRatio, s = "FewestConnections")
           lt(s) == Threshold(LatencyRatio, s = "FastestServer")
<1>1. /\ ct("FewestConnections") <= ct(current)
      /\ ct(current) <= ct("RoundRobin") /\ ct("FastestServer") = ct("RoundRobin")
      /\ \A s : ct(s) \in Nat
  BY ExitBelowEnter, RatiosNat
<1>2. /\ lt("FastestServer") <= lt(current) /\ lt(current) <= lt("RoundRobin")
      /\ \A s : lt(s) \in Nat
  BY ExitBelowEnter, RatiosNat
<1> HIDE DEF ct, lt
<1>3. /\ ConnectionsDiverge(conns, ct(current)) =>
           ConnectionsDiverge(conns, ct("FewestConnections"))
      /\ ConnectionsDiverge(conns, ct("RoundRobin")) =>
           ConnectionsDiverge(conns, ct(current))
  BY <1>1, ConnectionsMonotone
<1>4. /\ LatencyDiverges(lat, lt(current)) =>
           LatencyDiverges(lat, lt("FastestServer"))
      /\ LatencyDiverges(lat, lt("RoundRobin")) =>
           LatencyDiverges(lat, lt(current))
  BY <1>2, LatencyMonotone
<1>5. CASE chosen = "FewestConnections"
  BY <1>3, <1>5 DEF EvaluateStrategy, Overloaded, ct
<1>6. CASE chosen = "FastestServer"
  <2>1. ~Overloaded(current, conns) /\ LatencyDiverges(lat, lt(current))
        /\ Several
    BY <1>6 DEF EvaluateStrategy, lt
  <2>2. ~Overloaded("FastestServer", conns)
    BY <1>1, <1>3, <2>1 DEF Overloaded, ct
  <2>3. LatencyDiverges(lat, lt("FastestServer"))
    BY <1>4, <2>1
  <2> QED BY <1>6, <2>1, <2>2, <2>3 DEF EvaluateStrategy, lt
<1>7. CASE chosen = "RoundRobin"
  <2>1. CASE ~Several
    BY <1>7, <2>1 DEF EvaluateStrategy
  <2>2. CASE Several
    <3>1. ~Overloaded(current, conns) /\ ~LatencyDiverges(lat, lt(current))
      BY <1>7, <2>2 DEF EvaluateStrategy, lt
    <3>2. ~Overloaded("RoundRobin", conns)
      BY <1>3, <3>1 DEF Overloaded, ct
    <3>3. ~LatencyDiverges(lat, lt("RoundRobin"))
      BY <1>4, <3>1
    <3> QED BY <1>7, <3>2, <3>3 DEF EvaluateStrategy, lt
  <2> QED BY <2>1, <2>2
<1>8. chosen \in {"FewestConnections", "FastestServer", "RoundRobin"}
  BY DEF EvaluateStrategy
<1> QED BY <1>5, <1>6, <1>7, <1>8

-----------------------------------------------------------------------------
(***************************************************************************)
(* The inductive invariant: after an evaluation, and until something       *)
(* changes, the strategy is a fixed point of the evaluation.               *)
(***************************************************************************)
FixedPoint ==
  settled => EvaluateStrategy(strategy, connections, latency) = strategy

EngineInv == EngineTypeOK /\ FixedPoint

\* The initial state satisfies the invariant.
LEMMA EngineStarts == EngineInit => EngineInv
<1> SUFFICES ASSUME EngineInit PROVE EngineInv
  OBVIOUS
<1>1. EngineTypeOK
  BY DEF EngineInit, EngineTypeOK
<1>2. FixedPoint
  BY DEF EngineInit, FixedPoint
<1> QED BY <1>1, <1>2 DEF EngineInv

\* Every step keeps the invariant.
LEMMA EngineStep == EngineInv /\ [EngineNext]_engineVars => EngineInv'
<1> SUFFICES ASSUME EngineInv, [EngineNext]_engineVars PROVE EngineInv'
  OBVIOUS
<1> USE DEF EngineInv, EngineTypeOK
<1>1. ASSUME NEW b \in Upstream, Connect(b) PROVE EngineInv'
  <2>1. EngineTypeOK'
    <3>1. connections[b] + 1 \in Nat
      BY <1>1 DEF Connect
    <3>2. connections' = [connections EXCEPT ![b] = connections[b] + 1]
      BY <1>1 DEF Connect
    <3>3. connections' \in [Upstream -> Nat]
      BY <3>1, <3>2
    <3> QED BY <1>1, <3>3 DEF Connect
  <2>2. ~settled'
    BY <1>1 DEF Connect
  <2> QED BY <2>1, <2>2 DEF FixedPoint
<1>2. ASSUME NEW b \in Upstream, Disconnect(b) PROVE EngineInv'
  <2>1. EngineTypeOK'
    <3>1. connections[b] - 1 \in Nat
      BY <1>2 DEF Disconnect
    <3>2. connections' = [connections EXCEPT ![b] = connections[b] - 1]
      BY <1>2 DEF Disconnect
    <3>3. connections' \in [Upstream -> Nat]
      BY <3>1, <3>2
    <3> QED BY <1>2, <3>3 DEF Disconnect
  <2>2. ~settled'
    BY <1>2 DEF Disconnect
  <2> QED BY <2>1, <2>2 DEF FixedPoint
<1>3. ASSUME NEW b \in Upstream, NEW l \in Sample, RecordLatency(b, l) PROVE EngineInv'
  <2> DEFINE average == (Smoothing * l + (100 - Smoothing) * latency[b]) \div 100
  <2>1. l \in Nat /\ latency[b] \in Nat /\ Smoothing \in Nat /\ 100 - Smoothing \in Nat
    BY SamplesPositive, SmoothingFraction
  <2>2. Smoothing * l \in Nat /\ (100 - Smoothing) * latency[b] \in Nat
    BY <2>1
  <2>3. average \in Nat
    BY <2>2
  <2> HIDE DEF average
  <2>4. latency' \in [Upstream -> Nat]
    BY <1>3, <2>1, <2>3 DEF RecordLatency, average
  <2> QED BY <1>3, <2>4 DEF RecordLatency, FixedPoint
<1>4. CASE Evaluate
  <2>1. EngineTypeOK'
    BY <1>4 DEF Evaluate, EvaluateStrategy, Strategy
  <2>2. FixedPoint'
    BY <1>4, EvaluateIdempotent DEF Evaluate, FixedPoint
  <2> QED BY <2>1, <2>2
<1>5. ASSUME NEW s \in Strategy, OperatorSets(s) PROVE EngineInv'
  BY <1>5 DEF OperatorSets, FixedPoint
<1>6. CASE UNCHANGED engineVars
  BY <1>6 DEF engineVars, FixedPoint
<1> QED
  BY <1>1, <1>2, <1>3, <1>4, <1>5, <1>6 DEF EngineNext

\* The invariant holds in every reachable state.
THEOREM EngineInvariance == EngineSpec => []EngineInv
  BY EngineStarts, EngineStep, PTL DEF EngineSpec

\* Every reachable state is typed.
THEOREM EngineTyped == EngineSpec => []EngineTypeOK
  BY EngineInvariance, PTL DEF EngineInv

\* Of the steps, only an evaluation leaves the metrics settled and may change
\* the strategy.
LEMMA OnlyEvaluateSettles ==
  ASSUME EngineNext, settled' PROVE Evaluate
  BY DEF EngineNext, Connect, Disconnect, RecordLatency, OperatorSets

\* Without a change of the metrics a second evaluation changes nothing
\* (evaluate_strategy's hysteresis).
THEOREM EngineDoesNotFlap == EngineSpec => NoFlapping
<1>1. EngineInv /\ [EngineNext]_engineVars => [settled /\ settled' => strategy' = strategy]_engineVars
  <2> SUFFICES ASSUME EngineInv, EngineNext, settled, settled' PROVE strategy' = strategy
    BY DEF engineVars
  <2> QED BY OnlyEvaluateSettles DEF Evaluate, EngineInv, FixedPoint
<1> QED BY <1>1, EngineInvariance, PTL DEF EngineSpec, NoFlapping

\* A signal's strategy is left only for a reason the code has
\* (evaluate_strategy's exit thresholds, its floor and its priority).
THEOREM EngineLeavesWithinExit == EngineSpec => LeftWithinExit
<1> DEFINE A == /\ LeftBy("FastestServer") =>
                    \/ strategy' = "FewestConnections"
                    \/ ~LatencyDiverges(latency, LatencyRatio * ExitFactor)
                /\ LeftBy("FewestConnections") =>
                    \/ ~ConnectionsDiverge(connections, ConnectionsRatio * ExitFactor)
                    \/ \A b \in Upstream : connections[b] < MinConnections
                    \/ ~Several
<1>1. EngineInv /\ [EngineNext]_engineVars => [A]_engineVars
  <2> SUFFICES ASSUME EngineInv, EngineNext, settled' PROVE A
    BY DEF LeftBy, engineVars
  <2>1. strategy' = EvaluateStrategy(strategy, connections, latency)
    BY OnlyEvaluateSettles DEF Evaluate
  <2>2. CASE ~Several
    <3>1. ~LatencyDiverges(latency, LatencyRatio * ExitFactor)
      BY <2>2 DEF LatencyDiverges, Measured, Several
    <3> QED BY <2>2, <3>1
  <2>3. CASE Several
    <3>1. ASSUME LeftBy("FastestServer"), strategy' # "FewestConnections"
          PROVE  ~LatencyDiverges(latency, LatencyRatio * ExitFactor)
      BY <2>1, <2>3, <3>1 DEF LeftBy, EvaluateStrategy, Threshold
    <3>2. ASSUME LeftBy("FewestConnections")
          PROVE  \/ ~ConnectionsDiverge(connections, ConnectionsRatio * ExitFactor)
                 \/ ~\E b \in Upstream : connections[b] >= MinConnections
      BY <2>1, <2>3, <3>2 DEF LeftBy, EvaluateStrategy, Overloaded, Threshold
    <3>3. (~\E b \in Upstream : connections[b] >= MinConnections)
            => \A b \in Upstream : connections[b] < MinConnections
      BY RatiosNat DEF EngineInv, EngineTypeOK
    <3> QED BY <3>1, <3>2, <3>3
  <2> QED BY <2>2, <2>3
<1> QED BY <1>1, EngineInvariance, PTL DEF EngineSpec, LeftWithinExit

\* With a busy backend and skewed connections the overload guard wins
\* (evaluate_strategy's priority order).
THEOREM EnginePutsOverloadFirst == EngineSpec => OverloadFirst
<1> DEFINE A == settled' /\ Overloaded("RoundRobin", connections) /\ Several
                => strategy' = "FewestConnections"
<1>1. EngineInv /\ [EngineNext]_engineVars => [A]_engineVars
  <2> SUFFICES ASSUME EngineInv, EngineNext, settled', Overloaded("RoundRobin", connections), Several
               PROVE  strategy' = "FewestConnections"
    BY DEF engineVars
  <2>1. strategy' = EvaluateStrategy(strategy, connections, latency)
    BY OnlyEvaluateSettles DEF Evaluate
  <2>2. Overloaded(strategy, connections)
    <3> DEFINE t(s) == Threshold(ConnectionsRatio, s = "FewestConnections")
    <3>1. t(strategy) <= t("RoundRobin") /\ t(strategy) \in Nat
          /\ t("RoundRobin") \in Nat
      BY ExitBelowEnter, RatiosNat
    <3> HIDE DEF t
    <3>2. ConnectionsDiverge(connections, t("RoundRobin"))
      BY DEF Overloaded, t
    <3>3. ConnectionsDiverge(connections, t(strategy))
      BY <3>1, <3>2, ConnectionsMonotone DEF EngineInv, EngineTypeOK
    <3> QED BY <3>3 DEF Overloaded, t
  <2> QED BY <2>1, <2>2 DEF EvaluateStrategy
<1> QED BY <1>1, EngineInvariance, PTL DEF EngineSpec, OverloadFirst
=============================================================================
