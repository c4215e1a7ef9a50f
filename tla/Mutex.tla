-------------------------------- MODULE Mutex --------------------------------
(***************************************************************************)
(* What a lock of yapic/thread.hpp promises, without how it does it: at    *)
(* most one thread is inside the guards' scopes, only that thread leaves   *)
(* them, and with Reentrant = TRUE it may enter more while it is inside.   *)
(***************************************************************************)
EXTENDS Naturals

CONSTANTS
  Threads,
  NoThread,     (* the owner of a free lock                                  *)
  Reentrant     (* whether the owner may acquire again                       *)

VARIABLES
  owner,        (* the thread in the scopes, or NoThread                     *)
  depth         (* how many scopes it is in                                  *)

vars == <<owner, depth>>

Init ==
  /\ owner = NoThread
  /\ depth = 0

Acquire(t) ==
  /\ owner = NoThread \/ (Reentrant /\ owner = t)
  /\ owner' = t
  /\ depth' = depth + 1

Release(t) ==
  /\ owner = t
  /\ depth' = depth - 1
  /\ owner' = IF depth = 1 THEN NoThread ELSE t

Next == \E t \in Threads : Acquire(t) \/ Release(t)

Spec == Init /\ [][Next]_vars
=============================================================================
