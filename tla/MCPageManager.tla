--------------------------- MODULE MCPageManager ---------------------------
(* Model values for TLC.                                                   *)
EXTENDS PageManager, TLC

PMMain == <<3, 6>>
PMLate == <<10, 1>>
PMNodes == 3..8 \cup {10}
PMStacks == {"main", "kernel"} \X (0..2)
PMRequests == {1, 3}
PMSymmetry == Permutations(Procs)
=============================================================================
