CONSTANTS
  Strategy = {"RoundRobin", "Random", "FewestConnections", "FastestServer"}
  Rebuilding = {"FewestConnections", "FastestServer"}
  EngineChoice = {"RoundRobin", "FewestConnections", "FastestServer"}
  Never = 99
  UpdatePeriod = 5
  CheckPeriod = 3
  EvalPeriod = 4
  RebuildPeriod = 2
  MaxAwait = 1
  Weight <- MCWeight
  Search = {"s1", "s2"}
  MaxIterations = 3
  Excluded <- MCExcluded
  None = None
SPECIFICATION MCFairSpec
INVARIANTS NoSpinning SelectorFresh ReadyBackendFound FirstChoicesProportional
PROPERTIES
  AllTimersServed ShutdownEndsLoop EverySearchEnds
  RequestEnds EventuallyRestored StrategyCallAnswered
