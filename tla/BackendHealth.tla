---------------------------- MODULE BackendHealth ----------------------------
(***************************************************************************)
(* The health cell of one backend: `Health` and `HealthInner` of           *)
(* load_balancing/health_check.rs.                                         *)
(*                                                                         *)
(* The code keeps an immutable HealthInner behind an ArcSwap.  `enable`    *)
(* and `observe_health` each load the inner value, build a changed copy    *)
(* and store it back.  The load and the store are two separate atomic      *)
(* operations, so this module only gives the pure part of each method:     *)
(* whether it stores at all, and which value it stores as a function of    *)
(* the value it loaded.  The modules that use it take the load and the     *)
(* store as two steps.                                                     *)
(***************************************************************************)
EXTENDS Naturals

Health == [healthy : BOOLEAN, enabled : BOOLEAN, consecutive_counter : Nat]

\* `Health::default`: a new backend starts healthy, enabled and with no
\* opposite observation counted.
DefaultHealth ==
  [healthy |-> TRUE, enabled |-> TRUE, consecutive_counter |-> 0]

\* `Health::ready`
IsReady(h) == h.healthy /\ h.enabled

\* `Health::enable(enabled)`, on the loaded value h.
EnableStores(h, enabled) == h.enabled # enabled
Enabled(h, enabled) == [h EXCEPT !.enabled = enabled]

\* Mutant: one observation more than the threshold is needed.
FlipsLate(h, health, threshold) ==
  /\ h.healthy # health
  /\ h.consecutive_counter + 1 > threshold

\* `Health::observe_health(health, flip_threshold)`, on the loaded value h.
Flips(h, health, threshold) ==
  /\ h.healthy # health
  /\ h.consecutive_counter + 1 >= threshold

ObserveStores(h, health) ==
  h.healthy # health \/ h.consecutive_counter > 0

Observed(h, health, threshold) ==
  CASE Flips(h, health, threshold) ->
         [h EXCEPT !.healthy = health, !.consecutive_counter = 0]
    [] h.healthy # health /\ ~Flips(h, health, threshold) ->
         [h EXCEPT !.consecutive_counter = @ + 1]
    [] h.healthy = health ->
         [h EXCEPT !.consecutive_counter = 0]
=============================================================================
