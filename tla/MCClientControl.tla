---------------------------- MODULE MCClientControl ----------------------------
(* Small instances of ClientControl: the invocations are interchangeable.     *)
EXTENDS ClientControl, TLC

Symmetry == Permutations(Proc)
================================================================================
