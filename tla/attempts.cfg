CONSTANTS
  Backend = {b1, b2}
  Request = {r1}
  None = None
  MaxFails = 1
  FailTimeout = 1
  MaxRetries = 0
  RetryOnConnectError = TRUE
  ActiveCheck = FALSE
  MaxReloads = 0
SPECIFICATION Spec
INVARIANT RetriesBounded
