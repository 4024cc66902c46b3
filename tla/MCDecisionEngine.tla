--------------------------- MODULE MCDecisionEngine ---------------------------
(***************************************************************************)
(* Constants for the model checking of DecisionEngine.                     *)
(***************************************************************************)
EXTENDS DecisionEngine, TLC

SymmetricBackends == Permutations(Upstream)
=============================================================================
