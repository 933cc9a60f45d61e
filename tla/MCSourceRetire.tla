--------------------------- MODULE MCSourceRetire ---------------------------
(* The model-checking instance of SourceRetireRetention. *)
EXTENDS SourceRetireRetention, TLC

Symmetry == Permutations(Proc)
=============================================================================
