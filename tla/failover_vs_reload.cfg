CONSTANTS
  Backend = {b1}
  Request = {r1}
  None = None
  MaxFails = 1
  FailTimeout = 1
  MaxRetries = 0
  RetryOnConnectError = TRUE
  ActiveCheck = FALSE
  MaxReloads = 1
SPECIFICATION Spec
INVARIANT DisabledHasEjection
