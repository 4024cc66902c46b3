------------------------------ MODULE ProxyParts ------------------------------
(***************************************************************************)
(* Five parts of the proxy side by side: Admission, Routing, HealthProbe,  *)
(* UpstreamMetrics and Exchange.  They share no state, so nothing is       *)
(* gained by interleaving them: the initial state chooses the part that    *)
(* moves, and the others stay as they are.                                 *)
(***************************************************************************)
EXTENDS Admission

CONSTANTS
  Files, Unreadable, Settings, Invalid, NoHost, Lower, RequestHosts, HostKey,
  Transform, ValidPaths, ValidRegexes, RequestPaths, Matching, RegexMatches,
  Strategies, Default, MaxEdits, MaxSignals,                      \* Routing
  Prober, Connection, NoConnection, Statuses, MaxBody, MaxChecks, \* HealthProbe
  Backend, Modulus, Latencies, Num, Den,                          \* UpstreamMetrics
  Arrivals, Inputs, Unset, RequestIds, Origins,                   \* Exchange
  Caller, None, MaxAttempts                                       \* both of these

VARIABLES
  part,
  phase, file, edits, routes, routers, regexes, registry, caches, settings,
  strategy, asked, signals, pending, watcher, walk, walked, base, wanted, read,
  reuse, pool, owed, wire, checks, prober,
  count, average, place, backend, attempts, computed, stream, samples,
  config, template, stored, exchange

R == INSTANCE Routing
H == INSTANCE HealthProbe
M == INSTANCE UpstreamMetrics WITH Request <- Caller
X == INSTANCE Exchange WITH Request <- Caller

ASSUME PartParameters ==
  R!Parameters /\ H!Parameters /\ M!Parameters /\ X!Parameters

-----------------------------------------------------------------------------
Parts == {"admission", "routing", "probe", "metrics", "exchange"}

admission == vars
routing == <<phase, file, edits, routes, routers, regexes, registry, caches, settings,
             strategy, asked, signals, pending, watcher, walk, walked, base, wanted, read>>
probe == <<reuse, pool, owed, wire, checks, prober>>
metrics == <<count, average, place, backend, attempts, computed, stream, samples>>
exchanges == <<config, template, stored, exchange>>
all == <<part, admission, routing, probe, metrics, exchanges>>

AllInit == part \in Parts /\ Init /\ R!Init /\ H!Init /\ M!Init /\ X!Init

AllNext ==
  /\ UNCHANGED part
  /\ \/ part = "admission" /\ Next /\ UNCHANGED <<routing, probe, metrics, exchanges>>
     \/ part = "routing" /\ R!Next /\ UNCHANGED <<admission, probe, metrics, exchanges>>
     \/ part = "probe" /\ H!Next /\ UNCHANGED <<admission, routing, metrics, exchanges>>
     \/ part = "metrics" /\ M!Next /\ UNCHANGED <<admission, routing, probe, exchanges>>
     \/ part = "exchange" /\ X!Next /\ UNCHANGED <<admission, routing, probe, metrics>>

AllSpec == AllInit /\ [][AllNext]_all

-----------------------------------------------------------------------------
\* The type invariants of the parts.
AllTypeOK == TypeOK /\ R!TypeOK /\ H!TypeOK /\ M!TypeOK

\* The properties of the parts, each stated in its module.
ResolvesAsConfigured == R!ResolvesAsConfigured
StrategyReachesTraffic == R!StrategyReachesTraffic
AppliedAsWalked == R!AppliedAsWalked
KeepsCurrentConfig == R!KeepsCurrentConfig
SignalServed == R!SignalServed
OwnAnswer == H!OwnAnswer
StreamsCounted == M!StreamsCounted
AverageWithinSamples == M!AverageWithinSamples
ForwardedOnce == X!ForwardedOnce
AppendsToExisting == X!AppendsToExisting
OneRequestId == X!OneRequestId
HstsOverTlsOnly == X!HstsOverTlsOnly
PeerAsConfigured == X!PeerAsConfigured
OriginHonored == X!OriginHonored
=============================================================================
