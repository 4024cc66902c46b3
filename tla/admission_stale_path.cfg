CONSTANTS
  ra = ra
  pa = pa
  px = px
  Route = {ra}
  Path = {pa, px}
  Target <- MCTarget
  Client = {c1}
  Request = {q1, q2, q3}
  Limits = {1, 2}
  NoLimit = NoLimit
  NoRoute = NoRoute
  MaxStates = 2
  MaxEntries = 2
SPECIFICATION Spec
SYMMETRY Symmetric
INVARIANT StrippedAsConfigured
