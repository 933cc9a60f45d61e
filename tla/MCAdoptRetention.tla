--------------------------- MODULE MCAdoptRetention ---------------------------
(* Small instances of AdoptRetention: the invocations are interchangeable.     *)
EXTENDS AdoptRetention, TLC

Symmetry == Permutations(Proc)
=============================================================================
