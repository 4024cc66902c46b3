------------------------------- MODULE Failover -------------------------------
(***************************************************************************)
(* Passive health and failover of one route: the request callbacks of      *)
(* proxy.rs that pick an upstream, see it fail and try the next one, and   *)
(* the `PassiveHealth` of route.rs that ejects a backend from the load     *)
(* balancer and restores it when its time has passed.  Requests run        *)
(* concurrently; the active health check and a reload of the configuration *)
(* may run beside them.                                                    *)
(*                                                                         *)
(* Each request keeps the RouteState that it loaded when it arrived, so    *)
(* after a reload the failure windows and the ejections of several states  *)
(* are in use; a state is a number.  `enable` and `observe_health` are a   *)
(* load and a store of the backend's cell (see BackendHealth); a call that *)
(* holds a mutex is one step.                                              *)
(*                                                                         *)
(* Time is counted in ticks and relative: the age of a failure window and  *)
(* what is left of an ejection.  The code between record_failure or        *)
(* take_expired and the set_backend_enabled calls that follow has no await *)
(* and takes no time: no tick comes between them.                          *)
(*                                                                         *)
(* Abstractions.  The set of backends is fixed (discovery::Static) and     *)
(* published.  A selection is one step and may return any backend that is  *)
(* ready and not excluded; LoadBalancer has its interleavings.             *)
(***************************************************************************)
EXTENDS Naturals, Sequences, SequencesExt, FiniteSets, BackendHealth

CONSTANTS
  Backend,
  Request,               \* requests in flight at the same time
  None,
  MaxFails,              \* passive_health.max_fails
  FailTimeout,           \* passive_health.fail_timeout, in ticks
  MaxRetries,            \* retry.max_retries
  RetryOnConnectError,   \* retry.retry_on_connect_error
  ActiveCheck,           \* an active health check is configured
  MaxReloads             \* bound on the configuration reloads

ASSUME FailoverParameters ==
  /\ MaxFails \in Nat \ {0} /\ FailTimeout \in Nat \ {0}
  /\ MaxRetries \in Nat /\ MaxReloads \in Nat
  /\ RetryOnConnectError \in BOOLEAN /\ ActiveCheck \in BOOLEAN

VARIABLES
  cells,       \* the health cell of each backend
  state,       \* the RouteState that RouteRuntime holds
  windows,     \* per state: the failure windows
  ejections,   \* per state: the ejections; two of one backend with the same
               \* end expire together and count once
  pc,          \* per request: where it is
  ctx,         \* per request: its RequestContext
  restoring,   \* per request: expired backends still to enable
  enabling,    \* per request: an `enable` between load and store
  check,       \* the active check between load and store
  recent       \* history: per state and backend, the ages of the last
               \* MaxFails failures since its last success, newest first;
               \* TooOld where there is none within fail_timeout

vars == <<cells, state, windows, ejections, pc, ctx, restoring, enabling,
          check, recent>>

State == 0 .. MaxReloads

-----------------------------------------------------------------------------
NoMap == [b \in {} |-> 0]
With(f, b, v) == [x \in DOMAIN f \cup {b} |-> IF x = b THEN v ELSE f[x]]
Without(f, b) == [x \in DOMAIN f \ {b} |-> f[x]]

\* The history of a success, and after one failure more.
TooOld == FailTimeout + 1
NoFailures == [i \in 1 .. MaxFails |-> TooOld]
Failed(log) == [i \in 1 .. MaxFails |-> IF i = 1 THEN 0 ELSE log[i - 1]]

NoContext == [state |-> 0, tried |-> <<>>, backend |-> None, again |-> 0]

Init ==
  /\ cells = [b \in Backend |-> DefaultHealth]
  /\ state = 0
  /\ windows = [s \in State |-> NoMap]
  /\ ejections = [s \in State |-> {}]
  /\ pc = [r \in Request |-> "idle"]
  /\ ctx = [r \in Request |-> NoContext]
  /\ restoring = [r \in Request |-> {}]
  /\ enabling = [r \in Request |-> None]
  /\ check = None
  /\ recent = [s \in State |-> [b \in Backend |-> NoFailures]]

Goto(r, here, there) ==
  /\ pc[r] = here
  /\ pc' = [pc EXCEPT ![r] = there]

\* The request is over, and its context is dropped.
End(r) ==
  /\ pc' = [pc EXCEPT ![r] = "idle"]
  /\ ctx' = [ctx EXCEPT ![r] = NoContext]

-----------------------------------------------------------------------------
\* request_filter: the context takes the route's current state.
Arrive(r) ==
  /\ Goto(r, "idle", "peer")
  /\ ctx' = [ctx EXCEPT ![r] = [NoContext EXCEPT !.state = state]]
  /\ UNCHANGED <<cells, state, windows, ejections, restoring, enabling, check,
                 recent>>

\* upstream_peer: PassiveHealth::take_expired of the request's state.
Expired(s) == {e \in ejections[s] : e.left = 0}

\* Mutant: a backend that the request itself has tried is dropped, not returned.
TakeExpiredUntried(r) ==
  /\ Goto(r, "peer", "restore")
  /\ LET s == ctx[r].state
     IN  /\ restoring' = [restoring EXCEPT ![r] =
                            {e.backend : e \in Expired(s)} \ ToSet(ctx[r].tried)]
         /\ ejections' = [ejections EXCEPT ![s] = @ \ Expired(s)]
  /\ UNCHANGED <<cells, state, windows, ctx, enabling, check, recent>>

TakeExpired(r) ==
  /\ Goto(r, "peer", "restore")
  /\ LET s == ctx[r].state
     IN  /\ restoring' = [restoring EXCEPT ![r] = {e.backend : e \in Expired(s)}]
         /\ ejections' = [ejections EXCEPT ![s] = @ \ Expired(s)]
  /\ UNCHANGED <<cells, state, windows, ctx, enabling, check, recent>>

\* Health::enable: load, and no more when the cell is already as wanted.
EnableLoad(r, b, v) ==
  /\ enabling[r] = None
  /\ enabling' = IF EnableStores(cells[b], v)
                 THEN [enabling EXCEPT ![r] =
                         [backend |-> b, value |-> v, loaded |-> cells[b]]]
                 ELSE enabling

EnableStore(r) ==
  /\ enabling[r] # None
  /\ LET e == enabling[r]
     IN  cells' = [cells EXCEPT ![e.backend] = Enabled(e.loaded, e.value)]
  /\ enabling' = [enabling EXCEPT ![r] = None]
  /\ UNCHANGED <<state, windows, ejections, pc, ctx, restoring, check, recent>>

\* set_backend_enabled(&backend, true) for the next expired backend.
Restore(r, b) ==
  /\ pc[r] = "restore"
  /\ b \in restoring[r]
  /\ restoring' = [restoring EXCEPT ![r] = @ \ {b}]
  /\ EnableLoad(r, b, TRUE)
  /\ UNCHANGED <<cells, state, windows, ejections, pc, ctx, check, recent>>

Restored(r) ==
  /\ Goto(r, "restore", "select")
  /\ restoring[r] = {} /\ enabling[r] = None
  /\ UNCHANGED <<cells, state, windows, ejections, ctx, restoring, enabling,
                 check, recent>>

\* Mutant: the backends that were tried are not excluded.
SelectableAgain(r) == {b \in Backend : IsReady(cells[b])}

\* select_excluding(&ctx.tried)
Selectable(r) == {b \in Backend : IsReady(cells[b])} \ ToSet(ctx[r].tried)

Select(r, b) ==
  /\ Goto(r, "select", "connect")
  /\ b \in Selectable(r)
  /\ ctx' = [ctx EXCEPT ![r].tried = Append(@, b), ![r].backend = b]
  /\ UNCHANGED <<cells, state, windows, ejections, restoring, enabling, check,
                 recent>>

\* "No healthy backends available", an error that is not retried: there is no
\* such backend, or max_iterations were used up before it came.
NoBackend(r) ==
  /\ pc[r] = "select"
  /\ End(r)
  /\ UNCHANGED <<cells, state, windows, ejections, restoring, enabling, check,
                 recent>>

\* Mutant: a response does not clear the failure window.
RespondKeepingWindow(r) ==
  /\ pc[r] = "connect"
  /\ End(r)
  /\ recent' = [recent EXCEPT ![ctx[r].state][ctx[r].backend] = NoFailures]
  /\ UNCHANGED <<cells, state, windows, ejections, restoring, enabling,
                 check>>

\* upstream_response_filter: PassiveHealth::record_success.
Respond(r) ==
  /\ pc[r] = "connect"
  /\ End(r)
  /\ LET s == ctx[r].state
         b == ctx[r].backend
     IN  /\ windows' = [windows EXCEPT ![s] = Without(@, b)]
         /\ recent' = [recent EXCEPT ![s][b] = NoFailures]
  /\ UNCHANGED <<cells, state, ejections, restoring, enabling, check>>

\* The connection was made, no response came and the error is not retried:
\* nothing is recorded.
NoResponse(r) ==
  /\ pc[r] = "connect"
  /\ End(r)
  /\ UNCHANGED <<cells, state, windows, ejections, restoring, enabling, check,
                 recent>>

\* Sending on a connection of the pool finds it dead.  Pingora retries that by
\* its own error_while_proxy, which the proxy does not override: upstream_peer
\* picks another backend.  fail_to_connect is not called, so that nothing is
\* recorded and max_retries is not looked at.
DeadConnection(r) ==
  /\ Goto(r, "connect", "peer")
  /\ ctx' = [ctx EXCEPT ![r].again = @ + 1]
  /\ UNCHANGED <<cells, state, windows, ejections, restoring, enabling, check,
                 recent>>

\* fail_to_connect: PassiveHealth::record_failure.  The window opens with the
\* first failure and starts anew when it is older than fail_timeout.
WindowAfter(ws, b) ==
  IF b \in DOMAIN ws /\ ws[b].age <= FailTimeout
  THEN [ws[b] EXCEPT !.count = @ + 1]
  ELSE [count |-> 1, age |-> 0]

\* Mutant: max_fails has to be exceeded.
RecordFailureLate(r) ==
  LET s == ctx[r].state
      b == ctx[r].backend
      w == WindowAfter(windows[s], b)
  IN  /\ pc[r] = "connect"
      /\ recent' = [recent EXCEPT ![s][b] = Failed(@)]
      /\ IF w.count > MaxFails
         THEN /\ windows' = [windows EXCEPT ![s] = Without(@, b)]
              /\ ejections' = [ejections EXCEPT ![s] =
                                 @ \cup {[backend |-> b, left |-> FailTimeout]}]
              /\ pc' = [pc EXCEPT ![r] = "eject"]
         ELSE /\ windows' = [windows EXCEPT ![s] = With(@, b, w)]
              /\ pc' = [pc EXCEPT ![r] = "failed"]
              /\ UNCHANGED ejections
      /\ UNCHANGED <<cells, state, ctx, restoring, enabling, check>>

\* At max_fails the window is dropped and an ejection is noted, and the caller
\* disables the backend.
RecordFailure(r) ==
  LET s == ctx[r].state
      b == ctx[r].backend
      w == WindowAfter(windows[s], b)
  IN  /\ pc[r] = "connect"
      /\ recent' = [recent EXCEPT ![s][b] = Failed(@)]
      /\ IF w.count >= MaxFails
         THEN /\ windows' = [windows EXCEPT ![s] = Without(@, b)]
              /\ ejections' = [ejections EXCEPT ![s] =
                                 @ \cup {[backend |-> b, left |-> FailTimeout]}]
              /\ pc' = [pc EXCEPT ![r] = "eject"]
         ELSE /\ windows' = [windows EXCEPT ![s] = With(@, b, w)]
              /\ pc' = [pc EXCEPT ![r] = "failed"]
              /\ UNCHANGED ejections
      /\ UNCHANGED <<cells, state, ctx, restoring, enabling, check>>

\* set_backend_enabled(backend, false) after record_failure said so.
Eject(r) ==
  /\ Goto(r, "eject", "failed")
  /\ EnableLoad(r, ctx[r].backend, FALSE)
  /\ UNCHANGED <<cells, state, windows, ejections, ctx, restoring, check, recent>>

\* Mutant: a retry starts with a context that has forgotten what it tried.
RetryForgetting(r) ==
  /\ pc[r] = "failed"
  /\ enabling[r] = None
  /\ IF RetryOnConnectError /\ Len(ctx[r].tried) <= MaxRetries
     THEN /\ pc' = [pc EXCEPT ![r] = "peer"]
          /\ ctx' = [ctx EXCEPT ![r].tried = <<>>]
     ELSE End(r)
  /\ UNCHANGED <<cells, state, windows, ejections, restoring, enabling, check,
                 recent>>

\* The end of fail_to_connect: retry, or fail the request.
Retry(r) ==
  /\ pc[r] = "failed"
  /\ enabling[r] = None
  /\ IF RetryOnConnectError /\ Len(ctx[r].tried) <= MaxRetries
     THEN pc' = [pc EXCEPT ![r] = "peer"] /\ UNCHANGED ctx
     ELSE End(r)
  /\ UNCHANGED <<cells, state, windows, ejections, restoring, enabling, check,
                 recent>>

-----------------------------------------------------------------------------
\* The active health check: observe_health as a load and a store, with the
\* default thresholds of one.
CheckLoad(b, ok) ==
  /\ ActiveCheck
  /\ check = None
  /\ ObserveStores(cells[b], ok)
  /\ check' = [backend |-> b, ok |-> ok, loaded |-> cells[b]]
  /\ UNCHANGED <<cells, state, windows, ejections, pc, ctx, restoring, enabling,
                 recent>>

CheckStore ==
  /\ check # None
  /\ cells' = [cells EXCEPT ![check.backend] =
                 Observed(check.loaded, check.ok, 1)]
  /\ check' = None
  /\ UNCHANGED <<state, windows, ejections, pc, ctx, restoring, enabling, recent>>

\* RouteRuntime::reload: a new RouteState, with nothing recorded.
Reload ==
  /\ state < MaxReloads
  /\ state' = state + 1
  /\ UNCHANGED <<cells, windows, ejections, pc, ctx, restoring, enabling, check,
                 recent>>

\* A tick, while no request is about to disable or to enable a backend.
Switching(r) ==
  pc[r] = "eject" \/ restoring[r] # {} \/ enabling[r] # None

Older(age) == IF age <= FailTimeout THEN age + 1 ELSE age

Tick ==
  /\ \A r \in Request : ~Switching(r)
  /\ windows' = [s \in State |-> [b \in DOMAIN windows[s] |->
                  [windows[s][b] EXCEPT !.age = Older(@)]]]
  /\ ejections' = [s \in State |->
                    {[e EXCEPT !.left = IF @ = 0 THEN 0 ELSE @ - 1] :
                       e \in ejections[s]}]
  /\ recent' = [s \in State |-> [b \in Backend |->
                 [i \in 1 .. MaxFails |-> Older(recent[s][b][i])]]]
  /\ UNCHANGED <<cells, state, pc, ctx, restoring, enabling, check>>

-----------------------------------------------------------------------------
Step(r) ==
  \/ TakeExpired(r) \/ Restored(r) \/ NoBackend(r)
  \/ \E b \in Backend : Restore(r, b) \/ Select(r, b)
  \/ EnableStore(r)
  \/ Respond(r) \/ NoResponse(r) \/ DeadConnection(r)
  \/ RecordFailure(r) \/ Eject(r) \/ Retry(r)

Next ==
  \/ \E r \in Request : Arrive(r) \/ Step(r)
  \/ \E b \in Backend, ok \in BOOLEAN : CheckLoad(b, ok)
  \/ CheckStore
  \/ Reload
  \/ Tick

Spec == Init /\ [][Next]_vars

(***************************************************************************)
(* Fairness: a request that arrived goes on, and time does.  Restoring is  *)
(* done by requests, so that it happens at all takes traffic: new requests *)
(* keep arriving.                                                          *)
(***************************************************************************)
FairSpec ==
  /\ Spec
  /\ \A r \in Request : WF_vars(Step(r)) /\ WF_vars(Arrive(r))
  /\ SF_vars(Tick)

-----------------------------------------------------------------------------
Window == [count : 1 .. MaxFails - 1, age : 0 .. FailTimeout + 1]
Ejection == [backend : Backend, left : 0 .. FailTimeout]
Enabling == [backend : Backend, value : BOOLEAN, loaded : Health]

ASSUME NoneIsNoCall == None \notin Enabling

\* `again` counts the attempts that replaced a dead connection.
Context == [state : State, tried : Seq(Backend), backend : Backend \cup {None},
            again : Nat]

\* The type invariant.
TypeOK ==
  /\ cells \in [Backend -> Health]
  /\ state \in State
  /\ windows \in [State -> UNION {[D -> Window] : D \in SUBSET Backend}]
  /\ ejections \in [State -> SUBSET Ejection]
  /\ pc \in [Request -> {"idle", "peer", "restore", "select", "connect",
                         "eject", "failed"}]
  /\ ctx \in [Request -> Context]
  /\ restoring \in [Request -> SUBSET Backend]
  /\ enabling \in [Request -> Enabling \cup {None}]
  /\ check \in [backend : Backend, ok : BOOLEAN, loaded : Health] \cup {None}
  /\ \A r \in Request : pc[r] \in {"connect", "eject"} => ctx[r].backend \in Backend

(***************************************************************************)
(* No backend is ejected for good: one that is disabled has an ejection    *)
(* in the route's state that will expire, or a request is about to enable  *)
(* it (the doc of PassiveHealthConfig).                                    *)
(***************************************************************************)
BeingRestored(b) ==
  \E r \in Request :
    \/ b \in restoring[r]
    \/ enabling[r] # None /\ enabling[r].backend = b /\ enabling[r].value

DisabledHasEjection ==
  \A b \in Backend :
    ~cells[b].enabled =>
      \/ \E e \in ejections[state] : e.backend = b
      \/ BeingRestored(b)

(***************************************************************************)
(* A disabled backend is forgotten when no state that is still in use, by  *)
(* the route or by a request that arrived before a reload, has an ejection *)
(* of it and nobody is about to enable it.                                 *)
(***************************************************************************)
Live(r) == pc[r] # "idle"
InUse == {state} \cup {ctx[r].state : r \in {q \in Request : Live(q)}}

Forgotten(b) ==
  /\ ~cells[b].enabled
  /\ \A s \in InUse : \A e \in ejections[s] : e.backend # b
  /\ ~BeingRestored(b)

(***************************************************************************)
(* What can make the proxy forget a backend, with requests, checks and     *)
(* reloads at every interleaving: a reload that takes the place of its     *)
(* state, the end of a request that was the last to hold an older state,   *)
(* or an active check that loaded the cell while it was disabled and       *)
(* stores it after somebody has enabled it.  No order of ejections,        *)
(* expirations and restorations does it by itself.                         *)
(***************************************************************************)
StateDropped ==
  \/ state' # state
  \/ \E r \in Request : Live(r) /\ ~Live(r)' /\ ctx[r].state # state

Overwritten(b) ==
  /\ check # None /\ check' = None
  /\ check.backend = b
  /\ cells[b].enabled /\ ~check.loaded.enabled

ForgottenOnlyBy ==
  [][\A b \in Backend :
       ~Forgotten(b) /\ Forgotten(b)' => StateDropped \/ Overwritten(b)]_vars

(***************************************************************************)
(* A request connects to each backend at most once, whatever is ejected    *)
(* and restored while it retries, and makes at most max_retries attempts   *)
(* after the first beside those that replace a dead connection.            *)
(***************************************************************************)
AttemptsBounded ==
  \A r \in Request :
    /\ Len(ctx[r].tried) <= MaxRetries + 1 + ctx[r].again
    /\ Cardinality(ToSet(ctx[r].tried)) = Len(ctx[r].tried)

(***************************************************************************)
(* The doc of RetryConfig::max_retries: "Maximum additional upstream       *)
(* attempts after the first, each on a different backend."                 *)
(***************************************************************************)
RetriesBounded == \A r \in Request : Len(ctx[r].tried) <= MaxRetries + 1

(***************************************************************************)
(* An ejection is earned: max_fails failures without a success in between, *)
(* all within fail_timeout.                                                *)
(***************************************************************************)
EjectionEarned ==
  [][\A r \in Request :
       pc[r] = "connect" /\ pc'[r] = "eject" =>
         \A i \in 1 .. MaxFails :
           recent'[ctx[r].state][ctx[r].backend][i] <= FailTimeout]_vars

\* Every request comes to an end, with an answer or an error.
RequestEnds == \A r \in Request : pc[r] # "idle" ~> pc[r] = "idle"

\* With traffic, and without a reload or an active check that interferes, an
\* ejected backend is restored in the end.
EventuallyRestored ==
  [](state = 0 /\ check = None) =>
    \A b \in Backend : ~cells[b].enabled ~> cells[b].enabled
=============================================================================
