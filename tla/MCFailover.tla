------------------------------ MODULE MCFailover ------------------------------
(***************************************************************************)
(* Failover and DecisionEngine on small values, in one run.  They share no *)
(* state, so nothing is gained by interleaving them: the initial state     *)
(* chooses the one that moves.                                             *)
(*                                                                         *)
(* Failover in turn has three ways of being busy, one of which is chosen   *)
(* at the start: two requests on two backends or one on three without a    *)
(* reload or an active check, or two on one with both, where no connection *)
(* of the pool is found dead.                                              *)
(***************************************************************************)
EXTENDS Failover, DecisionEngine, TLC

VARIABLES
  part,       \* the component that moves
  calm,       \* neither a reload nor an active check comes
  callers,    \* the requests that arrive
  pool        \* the backends that are selected or checked

mcVars == <<vars, engineVars, part, calm, callers, pool>>

MCInit ==
  /\ Init /\ EngineInit
  /\ part \in {"failover", "engine"}
  /\ calm \in BOOLEAN
  /\ callers \in SUBSET Request /\ pool \in SUBSET Backend
  /\ <<part, calm, Cardinality(callers), Cardinality(pool)>> \in
       {<<"failover", TRUE, 2, 2>>, <<"failover", TRUE, 1, 3>>,
        <<"failover", FALSE, 2, 1>>, <<"engine", TRUE, 0, 0>>}
  /\ part = "failover" => strategy = "RoundRobin"

Allowed ==
  /\ ~calm => \A r \in Request : ctx'[r].again = 0
  /\ calm => UNCHANGED <<state, check>>
  /\ \A r \in Request \ callers : pc'[r] = "idle"
  /\ \A r \in Request : ctx'[r].backend \in pool \cup {None}
  /\ check' # None => check'.backend \in pool

MCNext ==
  /\ \/ part = "failover" /\ Next /\ Allowed /\ UNCHANGED engineVars
     \/ part = "engine" /\ EngineNext /\ UNCHANGED vars
  /\ UNCHANGED <<part, calm, callers, pool>>

MCSpec == MCInit /\ [][MCNext]_mcVars

Symmetric == Permutations(Backend) \cup Permutations(Request)
=============================================================================
