---------------------------- MODULE FailoverProofs ----------------------------
(***************************************************************************)
(* Proofs about Failover, for any backends, any number of concurrent       *)
(* requests, limits and times, and next to reloads and an active check:    *)
(* types, the bound on the attempts of a request, that an ejection is      *)
(* earned, and what alone can make the proxy forget a disabled backend.    *)
(***************************************************************************)
EXTENDS Failover, FiniteSetTheorems, TLAPS

-----------------------------------------------------------------------------
\* Attempts after dead connections aside, a request that may go on to another
\* attempt has one left; no backend is twice among those it tried.
Distinct(tried) ==
  /\ IsFiniteSet(ToSet(tried))
  /\ Cardinality(ToSet(tried)) = Len(tried)

AttemptInv ==
  \A r \in Request :
    /\ Distinct(ctx[r].tried)
    /\ Len(ctx[r].tried) <= MaxRetries + 1 + ctx[r].again
    /\ pc[r] \in {"peer", "restore", "select"} =>
         Len(ctx[r].tried) <= MaxRetries + ctx[r].again

\* An ejection that was noted and has not aged.
Fresh(s, b) == [backend |-> b, left |-> FailTimeout] \in ejections[s]

\* Whoever is about to disable a backend has noted its ejection just now, in
\* its own state; only requests that are under way switch backends.
EjectInv ==
  \A r \in Request :
    /\ restoring[r] # {} => pc[r] = "restore"
    /\ pc[r] = "eject" => Fresh(ctx[r].state, ctx[r].backend)
    /\ enabling[r] # None => pc[r] \in {"restore", "failed"}
    /\ enabling[r] # None /\ ~enabling[r].value =>
         Fresh(ctx[r].state, enabling[r].backend)

-----------------------------------------------------------------------------
LEMMA InitTyped == ASSUME Init PROVE TypeOK
<1>1. DefaultHealth \in Health
  BY DEF DefaultHealth, Health
<1>2. NoMap \in [{} -> Window]
  BY DEF NoMap
<1>3. NoMap \in UNION {[D -> Window] : D \in SUBSET Backend}
  BY <1>2
<1>4. 0 \in State
  BY FailoverParameters DEF State
<1>5. NoContext \in Context
  BY <1>4 DEF NoContext, Context
<1> QED BY <1>1, <1>3, <1>4, <1>5 DEF Init, TypeOK

Maps == UNION {[D -> Window] : D \in SUBSET Backend}

\* A map with one entry more, or one less.
LEMMA MapTyped ==
  ASSUME NEW f \in Maps, NEW b \in Backend
  PROVE  /\ \A w \in Window : With(f, b, w) \in Maps
         /\ Without(f, b) \in Maps
<1>1. PICK D \in SUBSET Backend : f \in [D -> Window]
  BY DEF Maps
<1>2. ASSUME NEW w \in Window PROVE With(f, b, w) \in [D \cup {b} -> Window]
  BY <1>1 DEF With
<1>3. Without(f, b) \in [D \ {b} -> Window]
  BY <1>1 DEF Without
<1> QED BY <1>1, <1>2, <1>3 DEF Maps

LEMMA CellsTyped ==
  ASSUME NEW h \in Health, NEW v \in BOOLEAN
  PROVE  Enabled(h, v) \in Health /\ Enabled(h, v).enabled = v /\ Observed(h, v, 1) \in Health
<1>1. Enabled(h, v) \in Health /\ Enabled(h, v).enabled = v
  BY DEF Enabled, Health
<1>2. CASE Flips(h, v, 1)
  <2>1. Observed(h, v, 1) = [h EXCEPT !.healthy = v, !.consecutive_counter = 0]
    BY <1>2 DEF Observed, Flips
  <2>2. [h EXCEPT !.healthy = v, !.consecutive_counter = 0] \in Health
    BY DEF Health
  <2> QED BY <1>1, <2>1, <2>2
<1>3. CASE h.healthy # v /\ ~Flips(h, v, 1)
  BY <1>1, <1>3 DEF Observed, Health
<1>4. CASE h.healthy = v
  <2>1. Observed(h, v, 1) = [h EXCEPT !.consecutive_counter = 0]
    BY <1>4 DEF Observed, Flips
  <2> QED BY <1>1, <2>1 DEF Health
<1> QED BY <1>2, <1>3, <1>4

\* A check leaves `enabled` as it has loaded it.
LEMMA ObservedKeepsEnabled ==
  ASSUME NEW h \in Health, NEW ok \in BOOLEAN
  PROVE  Observed(h, ok, 1).enabled = h.enabled
BY DEF Observed, Health

\* What enable does to the cell that it loaded.
LEMMA EnableLoadTyped ==
  ASSUME TypeOK, NEW r \in Request, NEW b \in Backend, NEW v \in BOOLEAN,
         EnableLoad(r, b, v)
  PROVE  enabling' \in [Request -> Enabling \cup {None}]
<1>1. [backend |-> b, value |-> v, loaded |-> cells[b]] \in Enabling
  BY DEF TypeOK, Enabling
<1> QED BY <1>1 DEF EnableLoad, TypeOK

LEMMA ContextTyped ==
  ASSUME TypeOK, NEW r \in Request
  PROVE  /\ ctx[r].state \in State /\ ctx[r].tried \in Seq(Backend)
         /\ ctx[r].backend \in Backend \cup {None}
         /\ ctx[r].again \in Nat
BY DEF TypeOK, Context

LEMMA WindowsTyped ==
  ASSUME TypeOK, NEW s \in State
  PROVE  windows[s] \in Maps
BY DEF TypeOK, Maps

LEMMA WindowTyped ==
  ASSUME TypeOK, NEW s \in State, NEW b \in Backend
  PROVE  /\ WindowAfter(windows[s], b).count \in Nat
         /\ WindowAfter(windows[s], b).count < MaxFails
              => WindowAfter(windows[s], b) \in Window
<1> DEFINE w == WindowAfter(windows[s], b)
<1>1. PICK D \in SUBSET Backend : windows[s] \in [D -> Window]
  BY DEF TypeOK
<1>2. CASE b \in DOMAIN windows[s] /\ windows[s][b].age <= FailTimeout
  <2>1. w = [windows[s][b] EXCEPT !.count = @ + 1] /\ windows[s][b] \in Window
    BY <1>1, <1>2 DEF WindowAfter
  <2> HIDE DEF w
  <2>2. w.count = windows[s][b].count + 1 /\ w.age = windows[s][b].age
    BY <2>1 DEF Window
  <2>3. w.count < MaxFails => w \in Window
    BY <2>1, <2>2, FailoverParameters DEF Window
  <2> QED BY <2>1, <2>2, <2>3 DEF w, Window
<1>3. CASE ~(b \in DOMAIN windows[s] /\ windows[s][b].age <= FailTimeout)
  <2>1. w = [count |-> 1, age |-> 0]
    BY <1>3 DEF WindowAfter
  <2>2. 1 < MaxFails => [count |-> 1, age |-> 0] \in Window
    BY FailoverParameters DEF Window
  <2> HIDE DEF w
  <2> QED BY <2>1, <2>2 DEF w
<1> QED BY <1>2, <1>3

LEMMA RecordTyped ==
  ASSUME TypeOK, NEW r \in Request, RecordFailure(r)
  PROVE  TypeOK'
<1> DEFINE s == ctx[r].state
           b == ctx[r].backend
           w == WindowAfter(windows[s], b)
           e == [backend |-> b, left |-> FailTimeout]
<1>1. s \in State /\ b \in Backend
  BY ContextTyped DEF RecordFailure, TypeOK, Maps
<1>2. w.count \in Nat /\ (w.count < MaxFails => w \in Window)
  BY <1>1, WindowTyped
<1>3. e \in Ejection
  BY <1>1, FailoverParameters DEF Ejection
<1> HIDE DEF e, w
<1>4. CASE w.count >= MaxFails
  <2>1. /\ windows' = [windows EXCEPT ![s] = Without(@, b)]
        /\ ejections' = [ejections EXCEPT ![s] = @ \cup {e}]
        /\ pc' = [pc EXCEPT ![r] = "eject"]
    BY <1>4 DEF RecordFailure, w, e
  <2>2. Without(windows[s], b) \in Maps
    BY <1>1, WindowsTyped, MapTyped
  <2>3. windows' \in [State -> Maps]
    BY <1>1, <2>1, <2>2 DEF TypeOK, Maps
  <2>4. ejections' \in [State -> SUBSET Ejection]
    BY <1>1, <1>3, <2>1 DEF TypeOK
  <2> QED BY <1>1, <2>1, <2>3, <2>4 DEF RecordFailure, TypeOK, Maps
<1>5. CASE ~(w.count >= MaxFails)
  <2>1. /\ windows' = [windows EXCEPT ![s] = With(@, b, w)]
        /\ ejections' = ejections
        /\ pc' = [pc EXCEPT ![r] = "failed"]
    BY <1>5 DEF RecordFailure, w, e
  <2>2. w \in Window
    BY <1>2, <1>5, FailoverParameters
  <2>3. With(windows[s], b, w) \in Maps
    BY <1>1, <2>2, WindowsTyped, MapTyped
  <2>4. windows' \in [State -> Maps]
    BY <1>1, <2>1, <2>3 DEF TypeOK, Maps
  <2> QED BY <1>1, <2>1, <2>4 DEF RecordFailure, TypeOK, Maps
<1> QED BY <1>4, <1>5

LEMMA TickTyped ==
  ASSUME TypeOK, Tick
  PROVE  TypeOK'
<1>1. windows' \in [State -> UNION {[D -> Window] : D \in SUBSET Backend}]
  <2>1. ASSUME NEW s \in State
        PROVE  [b \in DOMAIN windows[s] |-> [windows[s][b] EXCEPT !.age = Older(@)]]
                 \in UNION {[D -> Window] : D \in SUBSET Backend}
    <3>1. PICK D \in SUBSET Backend : windows[s] \in [D -> Window]
      BY DEF TypeOK
    <3>2. ASSUME NEW b \in D
          PROVE  [windows[s][b] EXCEPT !.age = Older(@)] \in Window
      <4>1. windows[s][b] \in Window
        BY <3>1
      <4>2. Older(windows[s][b].age) \in 0 .. FailTimeout + 1
        BY <4>1, FailoverParameters DEF Older, Window
      <4> QED BY <4>1, <4>2 DEF Window
    <3>3. [b \in DOMAIN windows[s] |-> [windows[s][b] EXCEPT !.age = Older(@)]]
            \in [D -> Window]
      BY <3>1, <3>2
    <3> QED BY <3>1, <3>3
  <2> QED BY <2>1 DEF Tick
<1>2. ejections' \in [State -> SUBSET Ejection]
  <2>1. ASSUME NEW s \in State, NEW e \in ejections[s]
        PROVE  [e EXCEPT !.left = IF @ = 0 THEN 0 ELSE @ - 1] \in Ejection
    <3>1. e \in Ejection
      BY DEF TypeOK
    <3>2. (IF e.left = 0 THEN 0 ELSE e.left - 1) \in 0 .. FailTimeout
      BY <3>1, FailoverParameters DEF Ejection
    <3> QED BY <3>1, <3>2 DEF Ejection
  <2> QED BY <2>1 DEF Tick
<1> QED BY <1>1, <1>2 DEF Tick, TypeOK

\* The end of a request.
LEMMA EndTyped ==
  ASSUME TypeOK, NEW r \in Request, End(r)
  PROVE  /\ ctx' \in [Request -> Context] /\ ctx'[r] = NoContext /\ pc'[r] = "idle"
         /\ pc' \in [Request -> {"idle", "peer", "restore", "select", "connect",
                                 "eject", "failed"}]
         /\ \A q \in Request \ {r} : ctx'[q] = ctx[q] /\ pc'[q] = pc[q]
         /\ \A q \in Request : pc'[q] \in {"connect", "eject"} => ctx'[q].backend \in Backend
<1>1. NoContext \in Context
  BY FailoverParameters DEF NoContext, Context, State
<1>2. ctx' = [ctx EXCEPT ![r] = NoContext] /\ pc' = [pc EXCEPT ![r] = "idle"]
  BY DEF End
<1> QED BY <1>1, <1>2 DEF TypeOK

LEMMA StepTyped ==
  ASSUME TypeOK, NEW r \in Request, Step(r)
  PROVE  TypeOK'
<1>1. CASE TakeExpired(r)
  <2> DEFINE s == ctx[r].state
             due == {e.backend : e \in Expired(s)}
  <2>1. s \in State
    BY ContextTyped
  <2>2. due \in SUBSET Backend
    BY <2>1 DEF Expired, TypeOK, Ejection
  <2>3. /\ restoring' = [restoring EXCEPT ![r] = due]
        /\ ejections' = [ejections EXCEPT ![s] = @ \ Expired(s)]
    BY <1>1 DEF TakeExpired
  <2> HIDE DEF due, s
  <2>4. ejections' \in [State -> SUBSET Ejection]
    BY <2>1, <2>3 DEF TypeOK
  <2> QED BY <1>1, <2>2, <2>3, <2>4 DEF TakeExpired, Goto, TypeOK
<1>2. CASE Restored(r)
  BY <1>2 DEF Restored, Goto, TypeOK
<1>3. CASE NoBackend(r)
  BY <1>3, EndTyped DEF NoBackend, TypeOK
<1>4. ASSUME NEW b \in Backend, Restore(r, b) PROVE TypeOK'
  <2>1. enabling' \in [Request -> Enabling \cup {None}]
    BY <1>4, EnableLoadTyped DEF Restore
  <2> QED BY <1>4, <2>1 DEF Restore, TypeOK
<1>5. ASSUME NEW b \in Backend, Select(r, b) PROVE TypeOK'
  <2>1. ctx' = [ctx EXCEPT ![r].tried = Append(@, b), ![r].backend = b]
    BY <1>5 DEF Select
  <2>2. Append(ctx[r].tried, b) \in Seq(Backend)
    BY ContextTyped
  <2>3. ctx' = [ctx EXCEPT ![r] = [ctx[r] EXCEPT !.tried = Append(ctx[r].tried, b),
                                                 !.backend = b]]
    BY <2>1 DEF TypeOK
  <2>4. [ctx[r] EXCEPT !.tried = Append(ctx[r].tried, b), !.backend = b] \in Context
    BY <2>2 DEF TypeOK, Context
  <2>5. ctx' \in [Request -> Context]
    BY <2>3, <2>4 DEF TypeOK
  <2>6. ctx'[r].backend = b
    BY <2>3 DEF TypeOK, Context
  <2> QED BY <1>5, <2>3, <2>5, <2>6 DEF Select, Goto, TypeOK
<1>6. CASE EnableStore(r)
  <2> DEFINE e == enabling[r]
  <2>1. e \in Enabling
    BY <1>6 DEF EnableStore, TypeOK
  <2>2. Enabled(e.loaded, e.value) \in Health
    BY <2>1, CellsTyped DEF Enabling
  <2>3. cells' = [cells EXCEPT ![e.backend] = Enabled(e.loaded, e.value)]
    BY <1>6 DEF EnableStore
  <2>4. cells' \in [Backend -> Health]
    BY <2>1, <2>2, <2>3 DEF TypeOK, Enabling
  <2> QED BY <1>6, <2>4 DEF EnableStore, TypeOK
<1>7. CASE Respond(r)
  <2> DEFINE s == ctx[r].state
             b == ctx[r].backend
  <2>1. s \in State /\ b \in Backend
    BY <1>7, ContextTyped DEF Respond, TypeOK
  <2>2. windows' = [windows EXCEPT ![s] = Without(@, b)]
    BY <1>7 DEF Respond
  <2>3. Without(windows[s], b) \in Maps
    BY <2>1, WindowsTyped, MapTyped
  <2>4. windows' \in [State -> Maps]
    BY <2>1, <2>2, <2>3 DEF TypeOK, Maps
  <2> QED BY <1>7, <2>4, EndTyped DEF Respond, TypeOK, Maps
<1>8. CASE NoResponse(r)
  BY <1>8, EndTyped DEF NoResponse, TypeOK
<1>9. CASE RecordFailure(r)
  BY <1>9, RecordTyped
<1>10. CASE Eject(r)
  <2>1. ctx[r].backend \in Backend
    BY <1>10 DEF Eject, Goto, TypeOK
  <2>2. enabling' \in [Request -> Enabling \cup {None}]
    BY <1>10, <2>1, EnableLoadTyped DEF Eject
  <2> QED BY <1>10, <2>2 DEF Eject, Goto, TypeOK
<1>11. CASE Retry(r)
  <2>1. CASE End(r)
    BY <1>11, <2>1, EndTyped DEF Retry, TypeOK
  <2>2. CASE pc' = [pc EXCEPT ![r] = "peer"] /\ UNCHANGED ctx
    BY <1>11, <2>2 DEF Retry, TypeOK
  <2> QED BY <1>11, <2>1, <2>2 DEF Retry
<1>12. CASE DeadConnection(r)
  <2>1. ctx' = [ctx EXCEPT ![r] = [ctx[r] EXCEPT !.again = @ + 1]]
    BY <1>12 DEF DeadConnection, TypeOK
  <2>2. [ctx[r] EXCEPT !.again = @ + 1] \in Context
    <3>1. ctx[r] \in Context
      BY DEF TypeOK
    <3>2. \A c \in Context : c.again + 1 \in Nat /\ [c EXCEPT !.again = @ + 1] \in Context
      BY DEF Context
    <3> QED BY <3>1, <3>2
  <2>3. /\ ctx' \in [Request -> Context]
        /\ \A q \in Request \ {r} : ctx'[q] = ctx[q]
    BY <2>1, <2>2 DEF TypeOK
  <2> QED BY <1>12, <2>3 DEF DeadConnection, Goto, TypeOK
<1> QED
  BY <1>1, <1>2, <1>3, <1>4, <1>5, <1>6, <1>7, <1>8, <1>9, <1>10, <1>11, <1>12 DEF Step

LEMMA NextTyped ==
  ASSUME TypeOK, [Next]_vars
  PROVE  TypeOK'
<1>1. ASSUME NEW r \in Request, Arrive(r) PROVE TypeOK'
  <2>1. [NoContext EXCEPT !.state = state] \in Context
    <3>1. state \in State
      BY DEF TypeOK
    <3>2. NoContext \in Context
      BY FailoverParameters DEF NoContext, Context, State
    <3>3. \A c \in Context : [c EXCEPT !.state = state] \in Context
      BY <3>1 DEF Context
    <3> QED BY <3>2, <3>3
  <2>2. /\ ctx' \in [Request -> Context]
        /\ \A q \in Request \ {r} : ctx'[q] = ctx[q]
    BY <1>1, <2>1 DEF Arrive, TypeOK
  <2> QED BY <1>1, <2>2 DEF Arrive, Goto, TypeOK
<1>2. ASSUME NEW r \in Request, Step(r) PROVE TypeOK'
  BY <1>2, StepTyped
<1>3. ASSUME NEW b \in Backend, NEW ok \in BOOLEAN, CheckLoad(b, ok) PROVE TypeOK'
  BY <1>3 DEF CheckLoad, TypeOK
<1>4. CASE CheckStore
  <2>1. check \in [backend : Backend, ok : BOOLEAN, loaded : Health]
    BY <1>4 DEF CheckStore, TypeOK
  <2>2. Observed(check.loaded, check.ok, 1) \in Health
    BY <2>1, CellsTyped
  <2> QED BY <1>4, <2>1, <2>2 DEF CheckStore, TypeOK
<1>5. CASE Reload
  BY <1>5, FailoverParameters DEF Reload, TypeOK, State
<1>6. CASE Tick
  BY <1>6, TickTyped
<1>7. CASE UNCHANGED vars
  BY <1>7 DEF vars, TypeOK
<1> QED BY <1>1, <1>2, <1>3, <1>4, <1>5, <1>6, <1>7 DEF Next

(***************************************************************************)
(* The types of Failover, and with them that a window never holds max_fails *)
(* failures and that a request that connects knows to which backend.       *)
(***************************************************************************)
THEOREM FailoverTyped == Spec => []TypeOK
<1>1. Init => TypeOK
  BY InitTyped
<1>2. TypeOK /\ [Next]_vars => TypeOK'
  BY NextTyped
<1> QED BY <1>1, <1>2, PTL DEF Spec

-----------------------------------------------------------------------------
\* One backend more among those tried, which was not there.
LEMMA DistinctAppend ==
  ASSUME NEW tried \in Seq(Backend), NEW b \in Backend, Distinct(tried), b \notin ToSet(tried)
  PROVE  Distinct(Append(tried, b)) /\ Len(Append(tried, b)) = Len(tried) + 1
<1>1. Len(Append(tried, b)) = Len(tried) + 1
  OBVIOUS
<1>2. ToSet(Append(tried, b)) = ToSet(tried) \cup {b}
  BY DEF ToSet
<1>3. /\ IsFiniteSet(ToSet(tried) \cup {b})
      /\ Cardinality(ToSet(tried) \cup {b}) = Cardinality(ToSet(tried)) + 1
  BY FS_AddElement DEF Distinct
<1> QED BY <1>1, <1>2, <1>3 DEF Distinct

LEMMA NothingTried == Distinct(<<>>)
<1>1. ToSet(<<>>) = {}
  BY DEF ToSet
<1> QED BY <1>1, FS_EmptySet DEF Distinct

\* A request that has ended has tried nothing.
LEMMA AttemptEnd ==
  ASSUME TypeOK, AttemptInv, NEW r \in Request, End(r)
  PROVE  AttemptInv'
<1>1. ctx'[r].tried = <<>> /\ ctx'[r].again = 0
  BY EndTyped DEF NoContext
<1> QED BY <1>1, EndTyped, NothingTried, FailoverParameters DEF AttemptInv

LEMMA AttemptStep ==
  ASSUME TypeOK, AttemptInv, [Next]_vars
  PROVE  AttemptInv'
<1>1. ASSUME NEW r \in Request, Arrive(r) PROVE AttemptInv'
  <2>1. /\ ctx' = [ctx EXCEPT ![r] = [NoContext EXCEPT !.state = state]]
        /\ \A q \in Request \ {r} : pc'[q] = pc[q]
    BY <1>1 DEF Arrive, Goto, TypeOK
  <2>2. /\ ctx'[r].tried = <<>> /\ ctx'[r].again = 0
        /\ \A q \in Request \ {r} : ctx'[q] = ctx[q]
    BY <2>1 DEF TypeOK, NoContext
  <2> QED BY <2>1, <2>2, NothingTried, FailoverParameters DEF AttemptInv
<1>2. ASSUME NEW r \in Request, NEW b \in Backend, Select(r, b) PROVE AttemptInv'
  <2>1. /\ ctx'[r].tried = Append(ctx[r].tried, b) /\ ctx'[r].again = ctx[r].again
        /\ \A q \in Request \ {r} : ctx'[q] = ctx[q]
    <3>1. ctx' = [ctx EXCEPT ![r].tried = Append(@, b), ![r].backend = b]
      BY <1>2 DEF Select
    <3> QED BY <3>1 DEF TypeOK, Context
  <2>2. pc[r] = "select" /\ pc' = [pc EXCEPT ![r] = "connect"]
    BY <1>2 DEF Select, Goto
  <2>3. b \notin ToSet(ctx[r].tried)
    BY <1>2 DEF Select, Selectable
  <2>4. /\ Distinct(ctx'[r].tried)
        /\ Len(ctx'[r].tried) = Len(ctx[r].tried) + 1
    BY <2>1, <2>3, ContextTyped, DistinctAppend DEF AttemptInv
  <2>5. Len(ctx[r].tried) \in Nat /\ Len(ctx[r].tried) <= MaxRetries + ctx[r].again
    BY <2>2, ContextTyped DEF AttemptInv
  <2>6. pc'[r] = "connect" /\ \A q \in Request \ {r} : pc'[q] = pc[q]
    BY <2>2 DEF TypeOK
  <2>7. Len(ctx'[r].tried) <= MaxRetries + 1 + ctx'[r].again
    BY <2>1, <2>4, <2>5, ContextTyped, FailoverParameters
  <2>8. ASSUME NEW q \in Request
        PROVE  /\ Distinct(ctx'[q].tried)
               /\ Len(ctx'[q].tried) <= MaxRetries + 1 + ctx'[q].again
               /\ pc'[q] \in {"peer", "restore", "select"}
                    => Len(ctx'[q].tried) <= MaxRetries + ctx'[q].again
    <3>1. CASE q = r
      BY <2>4, <2>6, <2>7, <3>1
    <3>2. CASE q # r
      BY <2>1, <2>6, <3>2 DEF AttemptInv
    <3> QED BY <3>1, <3>2
  <2> QED BY <2>8 DEF AttemptInv
<1>3. ASSUME NEW r \in Request, Retry(r) PROVE AttemptInv'
  <2>1. CASE Len(ctx[r].tried) <= MaxRetries /\ pc' = [pc EXCEPT ![r] = "peer"] /\ ctx' = ctx
    <3>1. /\ \A q \in Request \ {r} : pc'[q] = pc[q]
          /\ Len(ctx[r].tried) <= MaxRetries + ctx[r].again
      BY <2>1, ContextTyped, FailoverParameters DEF TypeOK
    <3> QED BY <2>1, <3>1 DEF AttemptInv
  <2> QED BY <1>3, <2>1, AttemptEnd DEF Retry
<1>4. ASSUME NEW r \in Request,
             TakeExpired(r) \/ Restored(r) \/ RecordFailure(r) \/ Eject(r)
      PROVE  AttemptInv'
  <2>1. /\ ctx' = ctx
        /\ \A q \in Request \ {r} : pc'[q] = pc[q]
        /\ pc'[r] \in {"peer", "restore", "select"} => pc[r] \in {"peer", "restore", "select"}
    BY <1>4 DEF TakeExpired, Restored, RecordFailure, Eject, Goto, TypeOK
  <2> QED BY <2>1 DEF AttemptInv
<1>7. ASSUME NEW r \in Request, NoBackend(r) \/ Respond(r) \/ NoResponse(r)
      PROVE  AttemptInv'
  BY <1>7, AttemptEnd DEF NoBackend, Respond, NoResponse
<1>8. ASSUME NEW r \in Request, DeadConnection(r) PROVE AttemptInv'
  <2>1. ctx' = [ctx EXCEPT ![r].again = @ + 1] /\ \A q \in Request \ {r} : pc'[q] = pc[q]
    BY <1>8 DEF DeadConnection, Goto, TypeOK
  <2>2. /\ ctx'[r].tried = ctx[r].tried /\ ctx'[r].again = ctx[r].again + 1
        /\ \A q \in Request \ {r} : ctx'[q] = ctx[q]
    BY <2>1 DEF TypeOK, Context
  <2>3. /\ Len(ctx'[r].tried) <= MaxRetries + 1 + ctx'[r].again
        /\ Len(ctx'[r].tried) <= MaxRetries + ctx'[r].again
    BY <2>2, ContextTyped, FailoverParameters DEF AttemptInv
  <2> QED BY <2>1, <2>2, <2>3 DEF AttemptInv
<1>5. ASSUME UNCHANGED <<ctx, pc>> PROVE AttemptInv'
  BY <1>5 DEF AttemptInv
<1>6. ASSUME NEW r \in Request, Step(r) PROVE AttemptInv'
  BY <1>2, <1>3, <1>4, <1>5, <1>6, <1>7, <1>8 DEF Step, Restore, EnableStore
<1> QED
  BY <1>1, <1>5, <1>6 DEF Next, CheckLoad, CheckStore, Reload, Tick, vars

(***************************************************************************)
(* A request connects to a backend at most once and makes at most          *)
(* max_retries attempts after the first and after those that replaced a    *)
(* dead connection, for any number of backends and requests, whatever is   *)
(* ejected, restored, checked or reloaded meanwhile.                       *)
(***************************************************************************)
THEOREM AttemptsAreBounded == Spec => []AttemptsBounded
<1>1. Init => AttemptInv
  BY NothingTried, FailoverParameters DEF Init, AttemptInv, NoContext
<1>2. TypeOK /\ AttemptInv /\ [Next]_vars => AttemptInv'
  BY AttemptStep
<1>3. AttemptInv => AttemptsBounded
  BY DEF AttemptInv, AttemptsBounded, Distinct
<1> QED BY <1>1, <1>2, <1>3, FailoverTyped, PTL DEF Spec

-----------------------------------------------------------------------------
\* A state in use has an ejection of b.
Noted(b) == \E s \in InUse : \E e \in ejections[s] : e.backend = b

\* No step makes the proxy forget a backend but for the reasons listed.
Remembers ==
  \A b \in Backend : ~Forgotten(b) /\ Forgotten(b)' => StateDropped \/ Overwritten(b)

\* A step that drops no state leaves all that are in use in use.
LEMMA StaysInUse ==
  ASSUME TypeOK, ~StateDropped,
         \A q \in Request : Live(q) /\ Live(q)' => ctx'[q].state = ctx[q].state
  PROVE  InUse \subseteq InUse'
<1>1. state' = state /\ \A r \in Request : Live(r) /\ ~Live(r)' => ctx[r].state = state
  BY DEF StateDropped
<1> QED BY <1>1 DEF InUse

LEMMA StatesInUse ==
  ASSUME TypeOK
  PROVE  InUse \subseteq State /\ \A r \in Request : Live(r) => ctx[r].state \in InUse
BY ContextTyped DEF InUse, TypeOK

\* What keeps a disabled backend from being forgotten is kept.
LEMMA RememberedIf ==
  ASSUME \A b \in Backend :
           /\ cells[b].enabled => cells'[b].enabled \/ Noted(b)' \/ Overwritten(b)
           /\ Noted(b) => Noted(b)' \/ BeingRestored(b)'
           /\ BeingRestored(b) => BeingRestored(b)' \/ cells'[b].enabled
  PROVE  Remembers
<1>1. ASSUME NEW b \in Backend
      PROVE  /\ Forgotten(b) <=> ~cells[b].enabled /\ ~Noted(b) /\ ~BeingRestored(b)
             /\ Forgotten(b)' <=> ~cells'[b].enabled /\ ~Noted(b)' /\ ~BeingRestored(b)'
  BY DEF Forgotten, Noted
<1> QED BY <1>1 DEF Remembers

\* Ejections that stay where they are.
LEMMA NotedStays ==
  ASSUME InUse \subseteq InUse', NEW b \in Backend, Noted(b),
         \A s \in InUse : \A e \in ejections[s] :
           e.backend = b => \E x \in ejections'[s] : x.backend = b
  PROVE  Noted(b)'
<1>1. PICK s \in InUse : \E e \in ejections[s] : e.backend = b
  BY DEF Noted
<1>2. \E x \in ejections'[s] : x.backend = b
  BY <1>1
<1> QED BY <1>1, <1>2 DEF Noted

\* Places and contexts change, and nothing that is about ejections.
LEMMA NothingSwitched ==
  ASSUME TypeOK, EjectInv, NEW r \in Request,
         UNCHANGED <<cells, state, ejections, restoring, enabling>>,
         \A q \in Request \ {r} : pc'[q] = pc[q] /\ ctx'[q] = ctx[q],
         Live(r) /\ Live(r)' => ctx'[r].state = ctx[r].state,
         pc'[r] # "eject", restoring[r] # {} => pc'[r] = "restore",
         enabling[r] # None => pc'[r] \in {"restore", "failed"} /\ Live(r)
  PROVE  EjectInv' /\ Remembers
<1>1. EjectInv'
  <2>1. ASSUME NEW q \in Request
        PROVE  /\ restoring[q] # {} => pc'[q] = "restore"
               /\ pc'[q] = "eject" => Fresh(ctx'[q].state, ctx'[q].backend)
               /\ enabling[q] # None => pc'[q] \in {"restore", "failed"}
               /\ enabling[q] # None /\ ~enabling[q].value =>
                    Fresh(ctx'[q].state, enabling[q].backend)
    <3>1. CASE q = r
      <4>1. enabling[r] # None => ctx'[r].state = ctx[r].state
        BY DEF Live
      <4> QED BY <3>1, <4>1 DEF EjectInv
    <3>2. CASE q # r
      BY <3>2 DEF EjectInv
    <3> QED BY <3>1, <3>2
  <2> QED BY <2>1 DEF EjectInv, Fresh
<1>2. CASE StateDropped
  BY <1>1, <1>2 DEF Remembers
<1>3. CASE ~StateDropped
  <2>1. InUse \subseteq InUse'
    BY <1>3, StaysInUse DEF Live
  <2>2. \A b \in Backend : Noted(b) => Noted(b)'
    BY <2>1, NotedStays
  <2>3. \A b \in Backend : BeingRestored(b) => BeingRestored(b)'
    BY DEF BeingRestored
  <2> QED BY <1>1, <2>2, <2>3, RememberedIf
<1> QED BY <1>1, <1>2, <1>3

LEMMA EndSafe ==
  ASSUME TypeOK, EjectInv, NEW r \in Request, End(r),
         UNCHANGED <<cells, state, ejections, restoring, enabling>>,
         pc[r] # "restore", enabling[r] = None
  PROVE  EjectInv' /\ Remembers
<1>1. restoring[r] = {} /\ pc'[r] = "idle"
  BY EndTyped DEF EjectInv
<1> QED BY <1>1, EndTyped, NothingSwitched DEF Live

LEMMA MoveSafe ==
  ASSUME TypeOK, EjectInv, NEW r \in Request,
         Arrive(r) \/ Restored(r) \/ NoBackend(r) \/ Respond(r) \/ NoResponse(r)
           \/ DeadConnection(r) \/ Retry(r) \/ \E b \in Backend : Select(r, b)
  PROVE  EjectInv' /\ Remembers
<1>1. CASE NoBackend(r) \/ Respond(r) \/ NoResponse(r)
  BY <1>1, EndSafe DEF NoBackend, Respond, NoResponse, Goto, EjectInv
<1>2. CASE Arrive(r)
  <2>1. /\ pc[r] = "idle" /\ pc'[r] = "peer"
        /\ \A q \in Request \ {r} : pc'[q] = pc[q] /\ ctx'[q] = ctx[q]
        /\ UNCHANGED <<cells, state, ejections, restoring, enabling>>
    BY <1>2 DEF Arrive, Goto, TypeOK
  <2>2. restoring[r] = {} /\ enabling[r] = None
    BY <2>1 DEF EjectInv
  <2> QED BY <2>1, <2>2, NothingSwitched DEF Live
<1>3. CASE Restored(r)
  <2>1. /\ pc'[r] = "select" /\ ctx' = ctx
        /\ \A q \in Request \ {r} : pc'[q] = pc[q]
        /\ restoring[r] = {} /\ enabling[r] = None
        /\ UNCHANGED <<cells, state, ejections, restoring, enabling>>
    BY <1>3 DEF Restored, Goto, TypeOK
  <2> QED BY <2>1, NothingSwitched
<1>4. CASE DeadConnection(r) \/ \E b \in Backend : Select(r, b)
  <2>1. /\ pc[r] \in {"connect", "select"} /\ pc'[r] \in {"peer", "connect"}
        /\ \A q \in Request \ {r} : pc'[q] = pc[q] /\ ctx'[q] = ctx[q]
        /\ ctx'[r].state = ctx[r].state
        /\ UNCHANGED <<cells, state, ejections, restoring, enabling>>
    <3>1. CASE DeadConnection(r)
      BY <3>1 DEF DeadConnection, Goto, TypeOK, Context
    <3>2. ASSUME NEW b \in Backend, Select(r, b) PROVE ctx'[r].state = ctx[r].state
      <4>1. ctx' = [ctx EXCEPT ![r].tried = Append(@, b), ![r].backend = b]
        BY <3>2 DEF Select
      <4> QED BY <4>1 DEF TypeOK, Context
    <3>3. ASSUME NEW b \in Backend, Select(r, b)
          PROVE  /\ pc[r] = "select" /\ pc'[r] = "connect"
                 /\ \A q \in Request \ {r} : pc'[q] = pc[q] /\ ctx'[q] = ctx[q]
                 /\ UNCHANGED <<cells, state, ejections, restoring, enabling>>
      BY <3>3 DEF Select, Goto, TypeOK
    <3> QED BY <1>4, <3>1, <3>2, <3>3
  <2>2. restoring[r] = {} /\ enabling[r] = None
    BY <2>1 DEF EjectInv
  <2> QED BY <2>1, <2>2, NothingSwitched
<1>5. CASE Retry(r)
  <2>1. pc[r] = "failed" /\ enabling[r] = None
        /\ UNCHANGED <<cells, state, ejections, restoring, enabling>>
    BY <1>5 DEF Retry
  <2>2. CASE End(r)
    BY <2>1, <2>2, EndSafe
  <2>3. CASE pc' = [pc EXCEPT ![r] = "peer"] /\ UNCHANGED ctx
    <3>1. /\ pc'[r] = "peer" /\ \A q \in Request \ {r} : pc'[q] = pc[q]
          /\ restoring[r] = {}
      BY <2>1, <2>3 DEF EjectInv, TypeOK
    <3> QED BY <2>1, <2>3, <3>1, NothingSwitched
  <2> QED BY <1>5, <2>2, <2>3 DEF Retry
<1> QED BY <1>1, <1>2, <1>3, <1>4, <1>5

LEMMA TakeExpiredSafe ==
  ASSUME TypeOK, EjectInv, NEW r \in Request, TakeExpired(r)
  PROVE  EjectInv' /\ Remembers
<1> DEFINE s == ctx[r].state
           due == {e.backend : e \in Expired(s)}
<1>1. /\ restoring' = [restoring EXCEPT ![r] = due]
      /\ ejections' = [ejections EXCEPT ![s] = @ \ Expired(s)]
      /\ pc[r] = "peer" /\ pc' = [pc EXCEPT ![r] = "restore"]
      /\ UNCHANGED <<cells, state, ctx, enabling>>
  BY DEF TakeExpired, Goto
<1>2. restoring'[r] = due /\ \A q \in Request \ {r} : restoring'[q] = restoring[q]
  BY <1>1 DEF TypeOK
<1>3. /\ s \in State /\ ejections'[s] = ejections[s] \ Expired(s)
      /\ \A x \in State : x # s => ejections'[x] = ejections[x]
  BY <1>1, ContextTyped DEF TypeOK
<1>4. pc'[r] = "restore" /\ \A q \in Request \ {r} : pc'[q] = pc[q]
  BY <1>1 DEF TypeOK
<1>5. restoring[r] = {} /\ enabling[r] = None
  BY <1>1 DEF EjectInv
<1> HIDE DEF due
<1>6. EjectInv'
  <2>1. \A x \in State : \A b : Fresh(x, b) => Fresh(x, b)'
    BY <1>3, FailoverParameters DEF Fresh, Expired
  <2>2. \A q \in Request : ctx[q].state \in State
    BY ContextTyped
  <2> QED BY <1>1, <1>2, <1>4, <1>5, <2>1, <2>2 DEF EjectInv, Fresh
<1>7. InUse' = InUse
  <2>1. \A q \in Request : Live(q) <=> Live(q)'
    BY <1>1, <1>4 DEF Live
  <2> QED BY <1>1, <2>1 DEF InUse
<1>8. ASSUME NEW b \in Backend, Noted(b) PROVE Noted(b)' \/ BeingRestored(b)'
  <2>1. PICK x \in InUse : \E e \in ejections[x] : e.backend = b
    BY <1>8 DEF Noted
  <2>2. PICK e \in ejections[x] : e.backend = b
    BY <2>1
  <2>3. CASE x = s /\ e \in Expired(s)
    BY <1>2, <2>2, <2>3 DEF BeingRestored, due
  <2>4. CASE ~(x = s /\ e \in Expired(s))
    <3>1. x \in State /\ e \in ejections'[x]
      BY <1>3, <2>2, <2>4, StatesInUse
    <3> QED BY <1>7, <2>1, <2>2, <3>1 DEF Noted
  <2> QED BY <2>3, <2>4
<1>9. \A b \in Backend : BeingRestored(b) => BeingRestored(b)'
  BY <1>1, <1>2, <1>5 DEF BeingRestored
<1> QED BY <1>1, <1>6, <1>8, <1>9, RememberedIf

\* `enable` has loaded the cell: it will store, or the cell is as wanted.
LEMMA Loaded ==
  ASSUME TypeOK, NEW r \in Request, NEW b \in Backend, NEW v \in BOOLEAN,
         EnableLoad(r, b, v)
  PROVE  /\ enabling[r] = None
         /\ \A q \in Request \ {r} : enabling'[q] = enabling[q]
         /\ \/ /\ enabling'[r] # None
               /\ enabling'[r].backend = b /\ enabling'[r].value = v
            \/ enabling'[r] = None /\ cells[b].enabled = v
<1> DEFINE call == [backend |-> b, value |-> v, loaded |-> cells[b]]
<1>1. call \in Enabling /\ call.backend = b /\ call.value = v
  BY DEF Enabling, TypeOK
<1>2. call # None
  BY <1>1, NoneIsNoCall
<1>3. enabling[r] = None
  BY DEF EnableLoad
<1>4. CASE EnableStores(cells[b], v)
  <2>1. enabling' = [enabling EXCEPT ![r] = call]
    BY <1>4 DEF EnableLoad
  <2> HIDE DEF call
  <2> QED BY <1>1, <1>2, <1>3, <2>1 DEF TypeOK
<1>5. CASE ~EnableStores(cells[b], v)
  BY <1>3, <1>5 DEF EnableLoad, EnableStores
<1> QED BY <1>4, <1>5

\* Nothing is noted or dropped by a step that moves no ejection and no context.
LEMMA NotedAsBefore ==
  ASSUME UNCHANGED <<state, ejections, ctx>>, \A q \in Request : Live(q) <=> Live(q)'
  PROVE  \A b : Noted(b)' <=> Noted(b)
<1>1. InUse' = InUse
  BY DEF InUse
<1> QED BY <1>1 DEF Noted

LEMMA RestoreSafe ==
  ASSUME TypeOK, EjectInv, NEW r \in Request, NEW b \in Backend, Restore(r, b)
  PROVE  EjectInv' /\ Remembers
<1>1. /\ EnableLoad(r, b, TRUE) /\ pc[r] = "restore"
      /\ restoring' = [restoring EXCEPT ![r] = @ \ {b}]
      /\ UNCHANGED <<cells, state, ejections, pc, ctx>>
  BY DEF Restore
<1>2. /\ \A q \in Request \ {r} : enabling'[q] = enabling[q]
      /\ enabling[r] = None
      /\ \/ /\ enabling'[r] # None
            /\ enabling'[r].backend = b /\ enabling'[r].value = TRUE
         \/ enabling'[r] = None /\ cells[b].enabled = TRUE
  BY <1>1, Loaded
<1>3. /\ restoring'[r] = restoring[r] \ {b}
      /\ \A q \in Request \ {r} : restoring'[q] = restoring[q]
  BY <1>1 DEF TypeOK
<1>4. EjectInv'
  BY <1>1, <1>2, <1>3 DEF EjectInv, Fresh
<1>5. \A c \in Backend : Noted(c)' <=> Noted(c)
  BY <1>1, NotedAsBefore DEF Live
<1>6. ASSUME NEW c \in Backend, BeingRestored(c)
      PROVE  BeingRestored(c)' \/ cells'[c].enabled
  <2>1. CASE c = b
    BY <1>1, <1>2, <2>1 DEF BeingRestored
  <2>2. CASE c # b
    BY <1>2, <1>3, <1>6, <2>2 DEF BeingRestored
  <2> QED BY <2>1, <2>2
<1> QED BY <1>1, <1>4, <1>5, <1>6, RememberedIf

LEMMA EjectSafe ==
  ASSUME TypeOK, EjectInv, NEW r \in Request, Eject(r)
  PROVE  EjectInv' /\ Remembers
<1> DEFINE b == ctx[r].backend
<1>1. /\ EnableLoad(r, b, FALSE) /\ pc[r] = "eject"
      /\ pc' = [pc EXCEPT ![r] = "failed"]
      /\ UNCHANGED <<cells, state, ejections, ctx, restoring>>
  BY DEF Eject, Goto
<1>2. b \in Backend /\ Fresh(ctx[r].state, b)
  BY <1>1 DEF TypeOK, EjectInv
<1>3. /\ \A q \in Request \ {r} : enabling'[q] = enabling[q]
      /\ enabling[r] = None
      /\ \/ /\ enabling'[r] # None
            /\ enabling'[r].backend = b /\ enabling'[r].value = FALSE
         \/ enabling'[r] = None /\ cells[b].enabled = FALSE
  BY <1>1, <1>2, Loaded
<1>4. pc'[r] = "failed" /\ \A q \in Request \ {r} : pc'[q] = pc[q]
  BY <1>1 DEF TypeOK
<1>5. EjectInv'
  BY <1>1, <1>2, <1>3, <1>4 DEF EjectInv, Fresh
<1>6. \A c \in Backend : BeingRestored(c) => BeingRestored(c)'
  BY <1>1, <1>3 DEF BeingRestored
<1>7. \A c \in Backend : Noted(c)' <=> Noted(c)
  BY <1>1, <1>4, NotedAsBefore DEF Live
<1> QED BY <1>1, <1>5, <1>6, <1>7, RememberedIf

\* The store: a backend is disabled by one that has noted its ejection.
LEMMA EnableStoreSafe ==
  ASSUME TypeOK, EjectInv, NEW r \in Request, EnableStore(r)
  PROVE  EjectInv' /\ Remembers
<1> DEFINE e == enabling[r]
<1>1. /\ e # None
      /\ cells' = [cells EXCEPT ![e.backend] = Enabled(e.loaded, e.value)]
      /\ enabling' = [enabling EXCEPT ![r] = None]
      /\ UNCHANGED <<state, ejections, pc, ctx, restoring>>
  BY DEF EnableStore
<1>2. e \in Enabling
  BY <1>1 DEF TypeOK
<1>3. e.backend \in Backend /\ e.value \in BOOLEAN /\ e.loaded \in Health
  BY <1>2 DEF Enabling
<1>4. Enabled(e.loaded, e.value).enabled = e.value
  BY <1>3, CellsTyped
<1>5. /\ cells'[e.backend].enabled = e.value
      /\ \A c \in Backend \ {e.backend} : cells'[c] = cells[c]
  BY <1>1, <1>3, <1>4 DEF TypeOK
<1>6. enabling'[r] = None /\ \A q \in Request \ {r} : enabling'[q] = enabling[q]
  BY <1>1 DEF TypeOK
<1>7. EjectInv'
  BY <1>1, <1>6 DEF EjectInv, Fresh
<1>8. \A c \in Backend : Noted(c)' <=> Noted(c)
  BY <1>1, NotedAsBefore DEF Live
<1>9. ~e.value => Noted(e.backend)
  <2>1. SUFFICES ASSUME ~e.value PROVE Noted(e.backend)
    OBVIOUS
  <2>2. Fresh(ctx[r].state, e.backend) /\ Live(r)
    BY <1>1, <2>1 DEF EjectInv, Live
  <2> QED BY <2>2, StatesInUse DEF Fresh, Noted
<1>10. ASSUME NEW c \in Backend
       PROVE  /\ cells[c].enabled => cells'[c].enabled \/ Noted(c)'
              /\ BeingRestored(c) => BeingRestored(c)' \/ cells'[c].enabled
  <2>1. CASE c = e.backend
    <3>1. CASE e.value
      BY <1>5, <2>1, <3>1
    <3>2. CASE ~e.value
      <4>1. BeingRestored(c) => BeingRestored(c)'
        BY <1>1, <1>6, <3>2 DEF BeingRestored
      <4> QED BY <1>8, <1>9, <2>1, <3>2, <4>1
    <3> QED BY <3>1, <3>2
  <2>2. CASE c # e.backend
    <3>1. BeingRestored(c) => BeingRestored(c)'
      BY <1>1, <1>6, <2>2 DEF BeingRestored
    <3> QED BY <1>5, <2>2, <3>1
  <2> QED BY <2>1, <2>2
<1> QED BY <1>7, <1>8, <1>10, RememberedIf

LEMMA RecordSafe ==
  ASSUME TypeOK, EjectInv, NEW r \in Request, RecordFailure(r)
  PROVE  EjectInv' /\ Remembers
<1> DEFINE b == ctx[r].backend
           s == ctx[r].state
           e == [backend |-> b, left |-> FailTimeout]
<1>1. /\ UNCHANGED <<cells, state, ctx, restoring, enabling>>
      /\ pc[r] = "connect"
      /\ \/ /\ ejections' = [ejections EXCEPT ![s] = @ \cup {e}]
            /\ pc' = [pc EXCEPT ![r] = "eject"]
         \/ ejections' = ejections /\ pc' = [pc EXCEPT ![r] = "failed"]
  BY Zenon DEF RecordFailure
<1>2. s \in State /\ \A x \in State : ejections[x] \subseteq ejections'[x]
  BY <1>1, ContextTyped DEF TypeOK
<1>3. /\ \A q \in Request \ {r} : pc'[q] = pc[q]
      /\ pc'[r] = "eject" => e \in ejections'[s]
      /\ pc'[r] \in {"eject", "failed"}
  BY <1>1, <1>2 DEF TypeOK
<1>4. restoring[r] = {} /\ enabling[r] = None
  BY <1>1 DEF EjectInv
<1>5. EjectInv'
  <2>1. \A q \in Request : ctx[q].state \in State
    BY ContextTyped
  <2> QED BY <1>1, <1>2, <1>3, <1>4, <2>1 DEF EjectInv, Fresh
<1>6. InUse' = InUse
  <2>1. \A q \in Request : Live(q) <=> Live(q)'
    BY <1>1, <1>3 DEF Live
  <2> QED BY <1>1, <2>1 DEF InUse
<1>7. \A c \in Backend : Noted(c) => Noted(c)'
  BY <1>2, <1>6, StatesInUse DEF Noted
<1>8. \A c \in Backend : BeingRestored(c) => BeingRestored(c)'
  BY <1>1 DEF BeingRestored
<1> QED BY <1>1, <1>5, <1>7, <1>8, RememberedIf

\* Time: no request is switching, so nothing has to stay as fresh as it is.
LEMMA TickSafe ==
  ASSUME TypeOK, EjectInv, Tick
  PROVE  EjectInv' /\ Remembers
<1>1. /\ \A r \in Request : pc[r] # "eject" /\ restoring[r] = {} /\ enabling[r] = None
      /\ UNCHANGED <<cells, state, pc, ctx, restoring, enabling>>
  BY DEF Tick, Switching
<1>2. EjectInv'
  BY <1>1 DEF EjectInv
<1>3. ASSUME NEW b \in Backend, NEW s \in State, NEW e \in ejections[s], e.backend = b
      PROVE  \E x \in ejections'[s] : x.backend = b
  <2> DEFINE aged == [e EXCEPT !.left = IF @ = 0 THEN 0 ELSE @ - 1]
  <2>1. ejections'[s] = {[x EXCEPT !.left = IF @ = 0 THEN 0 ELSE @ - 1] :
                           x \in ejections[s]}
    BY DEF Tick, TypeOK
  <2>2. aged \in ejections'[s]
    BY <2>1
  <2>3. e \in Ejection
    BY DEF TypeOK
  <2>4. aged.backend = b
    BY <1>3, <2>3 DEF Ejection
  <2> QED BY <2>2, <2>4
<1>4. InUse' = InUse
  BY <1>1 DEF InUse, Live
<1>5. \A b \in Backend : Noted(b) => Noted(b)'
  BY <1>3, <1>4, StatesInUse, NotedStays
<1>6. \A b \in Backend : BeingRestored(b) => BeingRestored(b)'
  BY <1>1 DEF BeingRestored
<1> QED BY <1>1, <1>2, <1>5, <1>6, RememberedIf

\* A check that stores over a cell which is enabled, and was when it loaded
\* it, leaves it enabled.
LEMMA CheckStoreSafe ==
  ASSUME TypeOK, EjectInv, CheckStore
  PROVE  EjectInv' /\ Remembers
<1>1. /\ check # None /\ check' = None
      /\ cells' = [cells EXCEPT ![check.backend] = Observed(check.loaded, check.ok, 1)]
      /\ UNCHANGED <<state, ejections, pc, ctx, restoring, enabling>>
  BY DEF CheckStore
<1>2. /\ check.backend \in Backend /\ check.ok \in BOOLEAN /\ check.loaded \in Health
  BY <1>1 DEF TypeOK
<1>3. Observed(check.loaded, check.ok, 1).enabled = check.loaded.enabled
  BY <1>2, ObservedKeepsEnabled
<1>4. ASSUME NEW b \in Backend, cells[b].enabled
      PROVE  cells'[b].enabled \/ Overwritten(b)
  <2>1. CASE b = check.backend
    BY <1>1, <1>2, <1>3, <1>4, <2>1 DEF TypeOK, Overwritten
  <2>2. CASE b # check.backend
    BY <1>1, <1>2, <1>4, <2>2 DEF TypeOK
  <2> QED BY <2>1, <2>2
<1>5. EjectInv'
  BY <1>1 DEF EjectInv, Fresh
<1>6. \A b \in Backend : Noted(b)' <=> Noted(b)
  BY <1>1, NotedAsBefore DEF Live
<1>7. \A b \in Backend : BeingRestored(b) => BeingRestored(b)'
  BY <1>1 DEF BeingRestored
<1> QED BY <1>4, <1>5, <1>6, <1>7, RememberedIf

LEMMA EjectStep ==
  ASSUME TypeOK, EjectInv, [Next]_vars
  PROVE  EjectInv' /\ Remembers
<1> DEFINE Safe == EjectInv' /\ Remembers
<1>1. ASSUME NEW r \in Request, Arrive(r) \/ Step(r) PROVE Safe
  BY <1>1, MoveSafe, TakeExpiredSafe, RestoreSafe, EjectSafe, EnableStoreSafe, RecordSafe
     DEF Step
<1>2. ASSUME UNCHANGED <<cells, state, ejections, pc, ctx, restoring, enabling>> PROVE Safe
  <2>1. EjectInv'
    BY <1>2 DEF EjectInv, Fresh
  <2>2. \A b \in Backend : Noted(b)' <=> Noted(b)
    BY <1>2, NotedAsBefore DEF Live
  <2>3. \A b \in Backend : BeingRestored(b) => BeingRestored(b)'
    BY <1>2 DEF BeingRestored
  <2> QED BY <1>2, <2>1, <2>2, <2>3, RememberedIf
<1>3. ASSUME Reload PROVE Safe
  <2>1. state' # state
    BY <1>3 DEF Reload, TypeOK, State
  <2>2. EjectInv'
    BY <1>3 DEF Reload, EjectInv, Fresh
  <2> QED BY <2>1, <2>2 DEF Remembers, StateDropped
<1> QED
  BY <1>1, <1>2, <1>3, TickSafe, CheckStoreSafe DEF Next, CheckLoad, vars

(***************************************************************************)
(* A disabled backend is forgotten only by a reload, by the end of the     *)
(* last request that holds an older state, or by a check that stores over  *)
(* an enablement it has not seen: for any backends, requests, limits and   *)
(* times, with reloads and active checks at any moment.                    *)
(***************************************************************************)
THEOREM ForgottenForAReason == Spec => ForgottenOnlyBy
<1>1. Init => EjectInv
  BY DEF Init, EjectInv
<1>2. TypeOK /\ EjectInv /\ [Next]_vars => EjectInv'
  BY EjectStep
<1>3. TypeOK /\ EjectInv /\ [Next]_vars =>
        [\A b \in Backend :
           ~Forgotten(b) /\ Forgotten(b)' => StateDropped \/ Overwritten(b)]_vars
  BY EjectStep DEF Remembers
<1> QED BY <1>1, <1>2, <1>3, FailoverTyped, PTL DEF Spec, ForgottenOnlyBy

-----------------------------------------------------------------------------
(***************************************************************************)
(* Windows and history: a window that is still open has counted failures   *)
(* that are all in the history and no older than the window.               *)
(***************************************************************************)
Counted(w, log) == w.age <= FailTimeout => \A i \in 1 .. w.count : log[i] <= w.age

HistoryTyped ==
  recent \in [State -> [Backend -> [1 .. MaxFails -> 0 .. TooOld]]]

CountInv ==
  \A s \in State, b \in Backend :
    b \in DOMAIN windows[s] => Counted(windows[s][b], recent[s][b])

LEMMA WindowOf ==
  ASSUME TypeOK, NEW s \in State, NEW b \in DOMAIN windows[s]
  PROVE  b \in Backend /\ windows[s][b] \in Window
<1>1. PICK D \in SUBSET Backend : windows[s] \in [D -> Window]
  BY DEF TypeOK
<1> QED BY <1>1

LEMMA FailedTyped ==
  ASSUME NEW log \in [1 .. MaxFails -> 0 .. TooOld]
  PROVE  Failed(log) \in [1 .. MaxFails -> 0 .. TooOld]
<1>1. ASSUME NEW i \in 1 .. MaxFails
      PROVE  (IF i = 1 THEN 0 ELSE log[i - 1]) \in 0 .. TooOld
  BY FailoverParameters DEF TooOld
<1> QED BY <1>1 DEF Failed

\* The window after a failure has counted what the history has.
LEMMA FailureCounted ==
  ASSUME TypeOK, HistoryTyped, CountInv, NEW s \in State, NEW b \in Backend
  PROVE  LET w == WindowAfter(windows[s], b)
         IN /\ w.count \in 1 .. MaxFails /\ w.age <= FailTimeout
            /\ \A i \in 1 .. w.count : Failed(recent[s][b])[i] <= w.age
<1> DEFINE old == windows[s][b]
           w == WindowAfter(windows[s], b)
           log == recent[s][b]
<1>1. log \in [1 .. MaxFails -> 0 .. TooOld]
  BY DEF HistoryTyped
<1>2. CASE b \in DOMAIN windows[s] /\ old.age <= FailTimeout
  <2>1. old \in Window /\ w = [old EXCEPT !.count = @ + 1]
    BY <1>2, WindowOf DEF WindowAfter
  <2>2. \A i \in 1 .. old.count : log[i] <= old.age
    BY <1>2 DEF CountInv, Counted
  <2> HIDE DEF old, w, log
  <2>3. w.count = old.count + 1 /\ w.age = old.age
    BY <2>1 DEF Window
  <2>4. old.count \in 1 .. MaxFails - 1 /\ old.age \in Nat
    BY <2>1, FailoverParameters DEF Window
  <2>5. ASSUME NEW i \in 1 .. w.count PROVE Failed(log)[i] <= w.age
    <3>1. i \in 1 .. MaxFails /\ (i # 1 => i - 1 \in 1 .. old.count)
      BY <2>3, <2>4, FailoverParameters
    <3> QED BY <2>2, <2>3, <2>4, <3>1 DEF Failed
  <2> QED BY <1>2, <2>3, <2>4, <2>5, FailoverParameters DEF w, log
<1>3. CASE ~(b \in DOMAIN windows[s] /\ old.age <= FailTimeout)
  <2>1. w = [count |-> 1, age |-> 0]
    BY <1>3 DEF WindowAfter
  <2>2. Failed(log)[1] = 0
    BY FailoverParameters DEF Failed
  <2> HIDE DEF w, log
  <2> QED BY <2>1, <2>2, FailoverParameters DEF w, log
<1> QED BY <1>2, <1>3

\* What is recorded: an ejection takes max_fails failures in the history.
LEMMA RecordCounted ==
  ASSUME TypeOK, HistoryTyped, CountInv, NEW r \in Request, RecordFailure(r)
  PROVE  /\ HistoryTyped' /\ CountInv'
         /\ pc'[r] = "eject" =>
              \A i \in 1 .. MaxFails : recent'[ctx[r].state][ctx[r].backend][i] <= FailTimeout
<1> DEFINE s == ctx[r].state
           b == ctx[r].backend
           w == WindowAfter(windows[s], b)
<1>1. s \in State /\ b \in Backend
  BY ContextTyped DEF RecordFailure, TypeOK
<1>2. /\ w.count \in 1 .. MaxFails /\ w.age <= FailTimeout
      /\ \A i \in 1 .. w.count : Failed(recent[s][b])[i] <= w.age
  BY <1>1, FailureCounted
<1>3. recent' = [recent EXCEPT ![s][b] = Failed(recent[s][b])]
  BY DEF RecordFailure
<1>4. IF w.count >= MaxFails
      THEN windows' = [windows EXCEPT ![s] = Without(windows[s], b)]
           /\ pc' = [pc EXCEPT ![r] = "eject"]
      ELSE windows' = [windows EXCEPT ![s] = With(windows[s], b, w)]
           /\ pc' = [pc EXCEPT ![r] = "failed"]
  BY DEF RecordFailure
<1>5. w.age \in Nat
  <2>1. w.age = 0 \/ (b \in DOMAIN windows[s] /\ w.age = windows[s][b].age)
    <3>1. CASE b \in DOMAIN windows[s] /\ windows[s][b].age <= FailTimeout
      <4>1. windows[s][b] \in Window
        BY <1>1, <3>1, WindowOf
      <4> QED BY <3>1, <4>1 DEF WindowAfter, Window
    <3> QED BY <3>1 DEF WindowAfter
  <2> QED BY <1>1, <2>1, WindowOf, FailoverParameters DEF Window
<1> HIDE DEF w
<1>6. /\ recent'[s][b] = Failed(recent[s][b])
      /\ \A t \in State, c \in Backend : t # s \/ c # b => recent'[t][c] = recent[t][c]
  BY <1>1, <1>3 DEF HistoryTyped
<1>7. HistoryTyped'
  <2>1. Failed(recent[s][b]) \in [1 .. MaxFails -> 0 .. TooOld]
    BY <1>1, FailedTyped DEF HistoryTyped
  <2> QED BY <1>1, <1>3, <2>1 DEF HistoryTyped
<1>8. CountInv'
  <2> SUFFICES ASSUME NEW t \in State, NEW c \in Backend, c \in DOMAIN windows'[t]
               PROVE  Counted(windows'[t][c], recent'[t][c])
    BY DEF CountInv
  <2>1. CASE t = s /\ c = b
    <3>1. windows \in [State -> Maps]
      BY DEF TypeOK, Maps
    <3>2. w.count < MaxFails
      <4>1. SUFFICES ASSUME w.count >= MaxFails PROVE FALSE
        BY <1>2, FailoverParameters
      <4>2. windows'[s] = Without(windows[s], b)
        BY <1>1, <1>4, <3>1, <4>1
      <4> QED BY <2>1, <4>2 DEF Without
    <3>3. windows'[s] = With(windows[s], b, w)
      BY <1>1, <1>2, <1>4, <3>1, <3>2, FailoverParameters
    <3>4. windows'[t][c] = w
      BY <2>1, <3>3 DEF With
    <3> QED BY <1>2, <1>6, <2>1, <3>4 DEF Counted
  <2>2. CASE t # s \/ c # b
    <3>1. c \in DOMAIN windows[t] /\ windows'[t][c] = windows[t][c]
      BY <1>1, <1>4, <2>2 DEF TypeOK, With, Without
    <3> QED BY <1>6, <2>2, <3>1 DEF CountInv
  <2> QED BY <2>1, <2>2
<1>9. ASSUME pc'[r] = "eject", NEW i \in 1 .. MaxFails
      PROVE  recent'[s][b][i] <= FailTimeout
  <2>1. w.count = MaxFails
    <3>1. pc' = [pc EXCEPT ![r] = "failed"] => pc'[r] = "failed"
      BY DEF TypeOK
    <3>2. w.count >= MaxFails
      BY <1>4, <1>9, <3>1
    <3> QED BY <1>2, <3>2, FailoverParameters
  <2>2. Failed(recent[s][b])[i] \in 0 .. TooOld
    BY <1>1, FailedTyped DEF HistoryTyped
  <2> QED BY <1>2, <1>5, <1>6, <2>1, <2>2, FailoverParameters DEF TooOld
<1> QED BY <1>7, <1>8, <1>9

LEMMA RespondCounted ==
  ASSUME TypeOK, HistoryTyped, CountInv, NEW r \in Request, Respond(r)
  PROVE  HistoryTyped' /\ CountInv'
<1> DEFINE s == ctx[r].state
           b == ctx[r].backend
<1>1. s \in State /\ b \in Backend
  BY ContextTyped DEF Respond, TypeOK
<1>2. /\ windows' = [windows EXCEPT ![s] = Without(windows[s], b)]
      /\ recent' = [recent EXCEPT ![s][b] = NoFailures]
  BY DEF Respond
<1>3. NoFailures \in [1 .. MaxFails -> 0 .. TooOld]
  BY FailoverParameters DEF NoFailures, TooOld
<1>4. HistoryTyped'
  BY <1>1, <1>2, <1>3 DEF HistoryTyped
<1>5. CountInv'
  <2> SUFFICES ASSUME NEW t \in State, NEW c \in Backend, c \in DOMAIN windows'[t]
               PROVE  Counted(windows'[t][c], recent'[t][c])
    BY DEF CountInv
  <2>1. /\ t # s \/ c # b
        /\ c \in DOMAIN windows[t] /\ windows'[t][c] = windows[t][c]
    BY <1>1, <1>2 DEF TypeOK, Without
  <2>2. recent'[t][c] = recent[t][c]
    BY <1>1, <1>2, <2>1 DEF HistoryTyped
  <2> QED BY <2>1, <2>2 DEF CountInv
<1> QED BY <1>4, <1>5

\* A tick ages a window and its failures alike.
LEMMA TickCounted ==
  ASSUME TypeOK, HistoryTyped, CountInv, Tick
  PROVE  HistoryTyped' /\ CountInv'
<1>1. /\ windows' = [s \in State |-> [b \in DOMAIN windows[s] |->
                      [windows[s][b] EXCEPT !.age = Older(@)]]]
      /\ recent' = [s \in State |-> [b \in Backend |->
                      [i \in 1 .. MaxFails |-> Older(recent[s][b][i])]]]
  BY DEF Tick
<1>2. \A n \in 0 .. TooOld : Older(n) \in 0 .. TooOld
  BY FailoverParameters DEF Older, TooOld
<1>3. HistoryTyped'
  <2>1. ASSUME NEW s \in State, NEW b \in Backend
        PROVE  [i \in 1 .. MaxFails |-> Older(recent[s][b][i])]
                 \in [1 .. MaxFails -> 0 .. TooOld]
    <3>1. recent[s][b] \in [1 .. MaxFails -> 0 .. TooOld]
      BY DEF HistoryTyped
    <3>2. \A i \in 1 .. MaxFails : Older(recent[s][b][i]) \in 0 .. TooOld
      BY <1>2, <3>1
    <3> QED BY <3>2
  <2> QED BY <1>1, <2>1 DEF HistoryTyped
<1>4. CountInv'
  <2> SUFFICES ASSUME NEW s \in State, NEW b \in Backend, b \in DOMAIN windows[s]
               PROVE  Counted([windows[s][b] EXCEPT !.age = Older(@)],
                              [i \in 1 .. MaxFails |-> Older(recent[s][b][i])])
    BY <1>1 DEF CountInv
  <2> DEFINE w == windows[s][b]
             aged == [w EXCEPT !.age = Older(@)]
             log == recent[s][b]
  <2>1. w \in Window /\ log \in [1 .. MaxFails -> 0 .. TooOld] /\ Counted(w, log)
    BY WindowOf DEF HistoryTyped, CountInv
  <2>2. aged.age = Older(w.age) /\ aged.count = w.count /\ w.count \in 1 .. MaxFails
        /\ w.age \in Nat
    BY <2>1, FailoverParameters DEF Window
  <2> HIDE DEF aged, w, log
  <2>3. ASSUME aged.age <= FailTimeout, NEW i \in 1 .. w.count
        PROVE  Older(log[i]) <= aged.age
    <3>1. w.age < FailTimeout
      BY <2>2, <2>3, FailoverParameters DEF Older
    <3>2. log[i] \in Nat /\ log[i] <= w.age
      BY <2>1, <2>2, <3>1, FailoverParameters DEF Counted, TooOld
    <3> QED BY <2>2, <3>1, <3>2, FailoverParameters DEF Older
  <2>4. Counted(aged, [i \in 1 .. MaxFails |-> Older(log[i])])
    BY <2>2, <2>3, FailoverParameters DEF Counted
  <2> QED BY <2>4 DEF aged, w, log
<1> QED BY <1>3, <1>4

LEMMA CountStep ==
  ASSUME TypeOK, HistoryTyped, CountInv, [Next]_vars
  PROVE  HistoryTyped' /\ CountInv'
<1>1. ASSUME UNCHANGED <<windows, recent>> PROVE HistoryTyped' /\ CountInv'
  BY <1>1 DEF HistoryTyped, CountInv
<1>2. ASSUME NEW r \in Request, Step(r) PROVE HistoryTyped' /\ CountInv'
  BY <1>1, <1>2, RecordCounted, RespondCounted
     DEF Step, TakeExpired, Restored, NoBackend, Restore, Select, EnableStore, NoResponse,
         DeadConnection, Eject, Retry
<1> QED BY <1>1, <1>2, TickCounted DEF Next, Arrive, CheckLoad, CheckStore, Reload, vars

\* Only a failure that is recorded sends a request to eject its backend.
LEMMA EjectsByRecord ==
  ASSUME TypeOK, [Next]_vars, NEW r \in Request, pc[r] = "connect", pc'[r] = "eject"
  PROVE  RecordFailure(r)
<1>1. ASSUME NEW q \in Request, Step(q) \/ Arrive(q) PROVE RecordFailure(r)
  BY <1>1 DEF Step, Arrive, TakeExpired, Restored, NoBackend, Restore, Select, EnableStore,
              Respond, NoResponse, DeadConnection, RecordFailure, Eject, Retry, End, Goto,
              TypeOK
<1> QED BY <1>1 DEF Next, CheckLoad, CheckStore, Reload, Tick, vars

(***************************************************************************)
(* An ejection is earned, for any limits and times, and whatever requests, *)
(* checks and reloads run beside: when record_failure says that a backend  *)
(* is to be disabled, its state has seen max_fails failures of it since    *)
(* its last success, none older than fail_timeout.                         *)
(***************************************************************************)
THEOREM EjectionsAreEarned == Spec => EjectionEarned
<1> DEFINE IInv == TypeOK /\ HistoryTyped /\ CountInv
<1>1. Init => IInv
  <2> SUFFICES ASSUME Init PROVE HistoryTyped /\ CountInv
    BY InitTyped
  <2>1. NoFailures \in [1 .. MaxFails -> 0 .. TooOld]
    BY FailoverParameters DEF NoFailures, TooOld
  <2> QED BY <2>1 DEF Init, HistoryTyped, CountInv, NoMap
<1>2. IInv /\ [Next]_vars => IInv'
  BY NextTyped, CountStep
<1>3. IInv /\ [Next]_vars =>
        [\A r \in Request :
           pc[r] = "connect" /\ pc'[r] = "eject" =>
             \A i \in 1 .. MaxFails :
               recent'[ctx[r].state][ctx[r].backend][i] <= FailTimeout]_vars
  BY EjectsByRecord, RecordCounted
<1> HIDE DEF IInv
<1> QED BY <1>1, <1>2, <1>3, PTL DEF Spec, EjectionEarned
=============================================================================
