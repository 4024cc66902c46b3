---------------------------- MODULE MCLoadBalancer ----------------------------
(***************************************************************************)
(* LoadBalancer on small values, in two settings one of which the initial  *)
(* state chooses: requests that select, eject and restore without a health *)
(* check, or parallel checks next to a discovery that switches backends.   *)
(***************************************************************************)
EXTENDS LoadBalancer, TLC

VARIABLE part

mcVars == <<vars, part>>

\* Discovery returns any set.
AnySet == SUBSET Backend

\* Discovery says nothing of enablement, or switches a backend.
NoEnablement == {Empty}
SomeEnablement == {[x \in {b} |-> v] : b \in Backend, v \in BOOLEAN}

Checked == INSTANCE LoadBalancer WITH
  HealthCheck <- TRUE,
  Parallel <- TRUE,
  Request <- {},
  Toggler <- {},
  Enablements <- SomeEnablement,
  MaxMetrics <- 2

MCInit ==
  \/ part = "requests" /\ Init
  \/ part = "checks" /\ Checked!Init

MCNext ==
  /\ \/ part = "requests" /\ Next
     \/ part = "checks" /\ Checked!Next
  /\ UNCHANGED part

MCSpec == MCInit /\ [][MCNext]_mcVars

SymmetricBackends == Permutations(Backend)
=============================================================================
