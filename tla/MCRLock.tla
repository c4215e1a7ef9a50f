------------------------------- MODULE MCRLock -------------------------------
(* Model values for RLock: the threads other than Main are interchangeable.   *)
EXTENDS RLock, TLC

Interchangeable == Permutations(Threads \ {Main})
=============================================================================
