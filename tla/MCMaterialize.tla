--------------------------- MODULE MCMaterialize ---------------------------
(* The model-checking instance of Materialize and MaterializeRetention. *)
EXTENDS MaterializeRetention, TLC

Symmetry == Permutations(Proc)
=============================================================================
