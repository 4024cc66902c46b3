---------------------------- MODULE StrategySwitch ----------------------------
(***************************************************************************)
(* What a load balancer promises to the callers of `update_strategy` and   *)
(* to whoever selects from it (load_balancing/mod.rs, the comment on the   *)
(* field `strategy`), without locks, snapshots or stores of tables:        *)
(*                                                                         *)
(*   a call takes effect in one step, the one that answers it, and from    *)
(*   that step on selections follow its strategy;                          *)
(*   an update of the backends replaces the pool in one step and lists it  *)
(*   in another, and no call is answered between the two;                  *)
(*   neither disturbs the other: a call changes nothing of the pool, an    *)
(*   update nothing of the strategy, and a backend that stays keeps its    *)
(*   metrics.                                                              *)
(*                                                                         *)
(* LoadBalancer implements this specification (`Promise` there).           *)
(***************************************************************************)
CONSTANTS
  Caller,     \* tasks that call update_strategy
  Strategy    \* values of the strategy type

VARIABLES
  strategy,   \* the strategy selections follow
  pool,       \* the backends selections are made from, with their metrics
  listed,     \* the backends get_backends shows
  pending,    \* the callers waiting for an answer
  wanted      \* the strategy each caller asked for last

vars == <<strategy, pool, listed, pending, wanted>>

\* A new load balancer has no backends.
Init ==
  /\ strategy \in Strategy
  /\ DOMAIN pool = {}
  /\ listed = pool
  /\ pending = {}
  /\ wanted \in [Caller -> Strategy]

\* A caller asks for s.
Call(c, s) ==
  /\ c \notin pending
  /\ pending' = pending \cup {c}
  /\ wanted' = [wanted EXCEPT ![c] = s]
  /\ UNCHANGED <<strategy, pool, listed>>

\* It is answered, and its strategy is the one selections follow.  When that
\* is already so, the call changes nothing.
Answer(c) ==
  /\ c \in pending
  /\ pool = listed
  /\ strategy' = wanted[c]
  /\ pending' = pending \ {c}
  /\ UNCHANGED <<pool, listed, wanted>>

\* An update puts another set of backends in the pool.
Replace ==
  /\ pool = listed
  /\ \A b \in DOMAIN pool' \cap DOMAIN pool : pool'[b] = pool[b]
  /\ UNCHANGED <<strategy, listed, pending, wanted>>

\* The update lists them.
List ==
  /\ listed' = pool
  /\ UNCHANGED <<strategy, pool, pending, wanted>>

Next ==
  \/ Replace \/ List
  \/ \E c \in Caller : Answer(c) \/ \E s \in Strategy : Call(c, s)

Spec == Init /\ [][Next]_vars
=============================================================================
