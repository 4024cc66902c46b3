CONSTANTS
  Strategy = {"RoundRobin", "Random", "FewestConnections", "FastestServer"}
  Rebuilding = {"FewestConnections", "FastestServer"}
  EngineChoice = {"RoundRobin", "FewestConnections", "FastestServer"}
  Never = 99
  UpdatePeriod = 99
  CheckPeriod = 3
  EvalPeriod = 5
  RebuildPeriod = 2
  MaxAwait = 2
SPECIFICATION ServiceFairSpec
PROPERTY RebuildsPeriodically
