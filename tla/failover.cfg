CONSTANTS
  Backend = {b1, b2, b3}
  Request = {r1, r2}
  None = None
  MaxFails = 2
  FailTimeout = 1
  MaxRetries = 1
  RetryOnConnectError = TRUE
  ActiveCheck = TRUE
  MaxReloads = 1
  Upstream = {u1, u2}
  MinConnections = 2
  ConnectionsRatio = 140
  LatencyRatio = 200
  ExitFactor = 75
  Smoothing = 50
  Sample = {10, 16, 40}
  MaxConnections = 4
SPECIFICATION MCSpec
INVARIANTS TypeOK AttemptsBounded
PROPERTIES EjectionEarned ForgottenOnlyBy NoFlapping LeftWithinExit OverloadFirst
SYMMETRY Symmetric
