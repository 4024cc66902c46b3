CONSTANTS
  Upstream = {u1, u2}
  MinConnections = 2
  ConnectionsRatio = 120
  LatencyRatio = 200
  ExitFactor = 75
  Smoothing = 50
  Sample = {10, 16, 40}
  MaxConnections = 5
SPECIFICATION EngineSpec
PROPERTY BalancedFallsBack
SYMMETRY SymmetricBackends
