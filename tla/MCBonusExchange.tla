--------------------------- MODULE MCBonusExchange ---------------------------
(* Small instances of BonusExchange: the invocations are interchangeable.   *)
EXTENDS BonusExchange, TLC

Symmetry == Permutations(Proc)
=============================================================================
