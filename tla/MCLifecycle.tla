---------------------------- MODULE MCLifecycle ----------------------------
(* A small instance of ResourceLifecycle with the scripts of Blueprints. *)
EXTENDS ResourceLifecycle, Blueprints, TLC

Anonymous == Permutations(Resources)

\* The scripts of the table are what the theorems of ResourceLifecycle_proofs ask for.
ASSUME TableIsOrderly == \A b \in Blueprints : IsOrderly(b)
=============================================================================
