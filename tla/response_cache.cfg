CONSTANTS
  ra = ra
  pa = pa
  px = px
  Route = {ra}
  Path = {pa, px}
  Target <- MCTarget
  Client = {c1}
  Request = {q1, q2, q3}
  Limits = {1, 2}
  NoLimit = NoLimit
  NoRoute = NoRoute
  MaxStates = 2
  MaxEntries = 1
  Files <- MCFiles
  Unreadable = Unreadable
  Settings = {1, 2, 3, 4}
  Invalid = Invalid
  NoHost = "-"
  Lower <- MCLower
  RequestHosts = {"-", "EX:80", "eu"}
  HostKey <- MCHostKey
  Transform <- MCTransform
  ValidPaths = {"/a/*", "/a/x", "/b"}
  ValidRegexes = {"^/b", "x$"}
  RequestPaths = {"/a/x", "/b"}
  Matching <- MCMatching
  RegexMatches <- MCRegexMatches
  Strategies = {"RoundRobin", "Random"}
  Default = "default"
  MaxEdits = 2
  MaxSignals = 2
  Prober = {h1, h2}
  Connection = {n1, n2}
  NoConnection = NoConnection
  Statuses = {200, 500}
  MaxBody = 1
  MaxChecks = 3
  Backend = {b1, b2}
  Modulus = 4
  Latencies = {2, 8}
  Num = 1
  Den = 2
  Arrivals <- MCArrivals
  Inputs <- MCInputs
  Unset = Unset
  RequestIds = TRUE
  Origins <- MCOrigins
  Caller = {r1, r2}
  None = None
  MaxAttempts = 2
SPECIFICATION MCSpec
SYMMETRY Symmetric
CHECK_DEADLOCK FALSE
INVARIANT OriginHonored
