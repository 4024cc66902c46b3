CONSTANTS
  Backend = {b1, b2}
  Strategy = {s1, s2}
  Bg = Bg
  Setter = {e1}
  Request = {r1}
  Toggler = {r1}
  None = None
  HealthCheck = FALSE
  Parallel = FALSE
  SuccessThreshold = 2
  FailureThreshold = 1
  Discovered <- AnySet
  Enablements <- NoEnablement
  MaxMetrics = 3
SPECIFICATION MCSpec
INVARIANTS SelectorCurrent HealthKnown RequestsUseLiveMetrics HealthAsObserved StatusReported
PROPERTIES SelectorFirst Promise
SYMMETRY SymmetricBackends
