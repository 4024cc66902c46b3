---------------------------- MODULE UpstreamMetrics ----------------------------
(***************************************************************************)
(* The metrics of the backends, AdaptiveStrategyMetrics: the counter of    *)
(* active connections and the moving average of the latency, as concurrent *)
(* requests move them from the callbacks of proxy.rs.  The strategies sort *)
(* by these numbers and the decision engine compares them.                 *)
(*                                                                         *)
(* The counter is an AtomicUsize that wraps, at Modulus here; the average  *)
(* is loaded, computed and stored without a compare-and-swap.  All copies  *)
(* of a backend share its metrics (LoadBalancer shows which are in use).   *)
(*                                                                         *)
(* External: pingora connects, calls connected_to_upstream when it has a   *)
(* stream, upstream_response_filter when a response begins, and, in the    *)
(* branch this crate uses, upstream_stream_ended once for each stream.     *)
(* Latencies are whole milliseconds, averages are rounded down; 0 stands   *)
(* for no sample, as in the code.                                          *)
(***************************************************************************)
EXTENDS Naturals, FiniteSets

CONSTANTS
  Backend,
  Request,        \* concurrent requests
  None,
  Modulus,        \* 2^64: the counter wraps
  Latencies,      \* what a sample may be
  Num, Den,       \* latency_smoothing_factor as a fraction
  MaxAttempts     \* backends a request may try

VARIABLES
  count,      \* per backend: ActiveConnections
  average,    \* per backend: LatencyEWMA
  place,      \* per request: idle, peer, open, storing, answered, over
  backend,    \* per request: ctx.backend
  attempts,   \* per request: ctx.tried.len()
  computed,   \* per request: the average to store
  stream,     \* the backend a request has a stream to, or None
  samples     \* history, per backend: the latencies recorded

\* What the constants have to be: 2^64 is more than one, a factor is a
\* fraction, and a latency of zero would mean that there is none.
Parameters ==
  /\ IsFiniteSet(Request) /\ None \notin Backend
  /\ Modulus \in Nat /\ Modulus > 1
  /\ Latencies \subseteq Nat \ {0}
  /\ Num \in Nat /\ Den \in Nat \ {0} /\ Num <= Den

request == <<place, backend, attempts, computed>>
vars == <<count, average, request, stream, samples>>

Init ==
  /\ count = [b \in Backend |-> 0]
  /\ average = [b \in Backend |-> 0]
  /\ place = [r \in Request |-> "idle"]
  /\ backend = [r \in Request |-> None]
  /\ attempts = [r \in Request |-> 0]
  /\ computed = [r \in Request |-> 0]
  /\ stream = [r \in Request |-> None]
  /\ samples = [b \in Backend |-> {}]

Goto(r, from, to) ==
  /\ place[r] \in from
  /\ place' = [place EXCEPT ![r] = to]

\* Mutant: the backend is counted when it is chosen, not when it is connected.
SelectCounting(r, b) ==
  /\ Goto(r, {"idle"}, "peer")
  /\ attempts[r] < MaxAttempts
  /\ backend' = [backend EXCEPT ![r] = b]
  /\ attempts' = [attempts EXCEPT ![r] = @ + 1]
  /\ count' = [count EXCEPT ![b] = (@ + 1) % Modulus]
  /\ UNCHANGED <<average, computed, stream, samples>>

\* upstream_peer: another attempt, ctx.backend is what was selected.
Select(r, b) ==
  /\ Goto(r, {"idle"}, "peer")
  /\ attempts[r] < MaxAttempts
  /\ backend' = [backend EXCEPT ![r] = b]
  /\ attempts' = [attempts EXCEPT ![r] = @ + 1]
  /\ UNCHANGED <<count, average, computed, stream, samples>>

\* fail_to_connect: no stream was counted and none is given back.
ConnectFails(r) ==
  /\ Goto(r, {"peer"}, "idle")
  /\ UNCHANGED <<count, average, backend, attempts, computed, stream, samples>>

\* connected_to_upstream, with a new or a reused connection.
Connected(r) ==
  /\ Goto(r, {"peer"}, "open")
  /\ stream' = [stream EXCEPT ![r] = backend[r]]
  /\ count' = [count EXCEPT ![backend[r]] = (@ + 1) % Modulus]
  /\ UNCHANGED <<average, backend, attempts, computed, samples>>

\* Mutant: the first sample is averaged with nothing.
EwmaFromZero(old, latency) == (Num * latency + (Den - Num) * old) \div Den

\* The new average: the first sample as it is.
Ewma(old, latency) ==
  IF old = 0 THEN latency ELSE (Num * latency + (Den - Num) * old) \div Den

\* upstream_response_filter: record_latency loads and computes ...
LoadAverage(r, latency) ==
  /\ Goto(r, {"open"}, "storing")
  /\ computed' = [computed EXCEPT ![r] = Ewma(average[backend[r]], latency)]
  /\ samples' = [samples EXCEPT ![backend[r]] = @ \cup {latency}]
  /\ UNCHANGED <<count, average, backend, attempts, stream>>

\* ... and stores, whatever came in between.
StoreAverage(r) ==
  /\ Goto(r, {"storing"}, "answered")
  /\ average' = [average EXCEPT ![backend[r]] = computed[r]]
  /\ UNCHANGED <<count, backend, attempts, computed, stream, samples>>

\* upstream_stream_ended: the stream is given back, to ctx.backend.
StreamEnded(r, from, to) ==
  /\ Goto(r, {from}, to)
  /\ stream' = [stream EXCEPT ![r] = None]
  /\ count' = [count EXCEPT ![backend[r]] = (@ + Modulus - 1) % Modulus]
  /\ UNCHANGED <<average, backend, attempts, computed, samples>>

\* After an answer the request is over.
Answered(r) == StreamEnded(r, "answered", "over")

\* A stream that breaks before one: pingora fails, or asks for another peer.
Broken(r) == StreamEnded(r, "open", "idle")

\* The end of a request, and the next one in its place.
Finish(r) ==
  /\ Goto(r, {"idle", "over"}, "idle")
  /\ attempts[r] > 0
  /\ attempts' = [attempts EXCEPT ![r] = 0]
  /\ backend' = [backend EXCEPT ![r] = None]
  /\ computed' = [computed EXCEPT ![r] = 0]
  /\ UNCHANGED <<count, average, stream, samples>>

Step(r) ==
  \/ \E b \in Backend : Select(r, b)
  \/ ConnectFails(r) \/ Connected(r)
  \/ \E latency \in Latencies : LoadAverage(r, latency)
  \/ StoreAverage(r) \/ Answered(r) \/ Broken(r) \/ Finish(r)

Next == \E r \in Request : Step(r)

Spec == Init /\ [][Next]_vars

-----------------------------------------------------------------------------
\* The type invariant.
TypeOK ==
  /\ count \in [Backend -> 0 .. Modulus - 1]
  /\ average \in [Backend -> Nat]
  /\ place \in [Request -> {"idle", "peer", "open", "storing", "answered", "over"}]
  /\ backend \in [Request -> Backend \cup {None}]
  /\ attempts \in [Request -> Nat]
  /\ computed \in [Request -> Nat]
  /\ stream \in [Request -> Backend \cup {None}]
  /\ samples \in [Backend -> SUBSET Latencies]

(***************************************************************************)
(* The counter the strategies sort by is the number of open streams,       *)
(* however many attempts failed, broke or were repeated at another backend *)
(* on the way: it neither drifts nor wraps below zero.                     *)
(***************************************************************************)
StreamsCounted ==
  \A b \in Backend :
    count[b] = Cardinality({r \in Request : stream[r] = b}) % Modulus

(***************************************************************************)
(* Samples may be lost between load and store, but an average is never     *)
(* made up: it lies between the smallest and the largest latency of its    *)
(* backend, and it is 0, no data, only before the first one is stored.     *)
(***************************************************************************)
AverageWithinSamples ==
  \A b \in Backend :
    \/ average[b] = 0 /\ \A r \in Request : place[r] = "answered" => backend[r] # b
    \/ /\ \E s \in samples[b] : s <= average[b]
       /\ \E s \in samples[b] : average[b] <= s
=============================================================================
