--------------------------- MODULE MCStorageIndex ---------------------------
(* Small instances of StorageIndex: the invocations are interchangeable.    *)
EXTENDS StorageIndex, TLC

Symmetry == Permutations(Proc)
=============================================================================
