-------------------------------- MODULE RLock --------------------------------
(***************************************************************************)
(* class RLock and its guard RLock::Auto of yapic/thread.hpp: a re-entrant *)
(* lock.  _count and _tid are plain fields, written only with the GIL.     *)
(***************************************************************************)
EXTENDS TimedLock

VARIABLES
  count,     (* _count *)
  tid        (* _tid, NoThread for 0 *)

rlockVars == <<gil, sem, frames, signals, count, tid>>

Init ==
  /\ TimedInit
  /\ count = 0
  /\ tid = NoThread

(* A step of AcquireTimed or of the GIL leaves the fields alone.           *)
Timed(t) == TimedStep(t) /\ UNCHANGED <<count, tid>>

(* Mutant of Acquire: the owner's re-entry is not counted.                 *)
AcquireUncounted(t, timeout) ==
  /\ gil = t
  /\ RunsUserCode(t)
  /\ Len(frames[t]) < MaxDepth
  /\ IF count > 0 /\ tid = t THEN Push(t, Scoped("held"))
     ELSE Push(t, [st |-> "try", left |-> timeout])
  /\ UNCHANGED <<gil, sem, signals, count, tid>>

(* A guard is declared: RLock::Acquire counts the owner's re-entry and     *)
(* calls AcquireTimed for anyone else.                                     *)
Acquire(t, timeout) ==
  /\ gil = t
  /\ RunsUserCode(t)
  /\ Len(frames[t]) < MaxDepth
  /\ \/ /\ count > 0 /\ tid = t
        /\ count' = count + 1
        /\ Push(t, Scoped("held"))
     \/ /\ ~(count > 0 /\ tid = t)
        /\ count' = count
        /\ Push(t, [st |-> "try", left |-> timeout])
  /\ UNCHANGED <<gil, sem, signals, tid>>

(* Mutant of Settle: the fields are set whatever the status is.            *)
SettleUnchecked(t) ==
  /\ gil = t
  /\ At(t, "got") \/ At(t, "late") \/ At(t, "eintr")
  /\ count' = 1
  /\ tid' = t
  /\ SetTop(t, Scoped("held"))
  /\ UNCHANGED <<gil, sem, signals>>

(* AcquireTimed has returned to RLock::Acquire: the fields are set only if *)
(* it acquired, and the scope is entered in any case.                      *)
Settle(t) ==
  /\ gil = t
  /\ \/ /\ At(t, "got")
        /\ count' = 1
        /\ tid' = t
        /\ SetTop(t, Scoped("held"))
     \/ /\ At(t, "late") \/ At(t, "eintr")
        /\ SetTop(t, Scoped("open"))
        /\ UNCHANGED <<count, tid>>
  /\ UNCHANGED <<gil, sem, signals>>

(* Mutants of Release.  What they share: the innermost guard goes.         *)
ScopeEnds(t) ==
  /\ gil = t
  /\ At(t, "held") \/ At(t, "open")
  /\ Pop(t)
  /\ UNCHANGED <<gil, signals>>

(* No check at all before the count is decremented.                        *)
ReleaseUnchecked(t) ==
  /\ ScopeEnds(t)
  /\ count' = count - 1
  /\ tid' = IF count = 1 THEN NoThread ELSE tid
  /\ sem' = IF count = 1 THEN Freed ELSE sem

(* The owner is not checked.                                               *)
ReleaseByAnyone(t) ==
  /\ ScopeEnds(t)
  /\ count' = IF count > 0 THEN count - 1 ELSE 0
  /\ tid' = IF count = 1 THEN NoThread ELSE tid
  /\ sem' = IF count = 1 THEN Freed ELSE sem

(* The lock is released by the last guard, but its count stays.            *)
ReleaseWithoutReset(t) ==
  /\ ScopeEnds(t)
  /\ count' = IF count > 1 /\ tid = t THEN count - 1 ELSE count
  /\ tid' = IF count = 1 /\ tid = t THEN NoThread ELSE tid
  /\ sem' = IF count = 1 /\ tid = t THEN Freed ELSE sem

(* The fields are cleared, but the lock is not released.                   *)
ReleaseWithoutUnlock(t) ==
  /\ ScopeEnds(t)
  /\ count' = IF count > 0 /\ tid = t THEN count - 1 ELSE count
  /\ tid' = IF count = 1 /\ tid = t THEN NoThread ELSE tid
  /\ sem' = sem

(* The outermost guard does not give the ownership up.                     *)
ReleaseButLast(t) ==
  /\ ScopeEnds(t)
  /\ count' = IF count > 1 /\ tid = t THEN count - 1 ELSE count
  /\ UNCHANGED <<tid, sem>>

(* The innermost guard's scope ends: RLock::Release does nothing for a     *)
(* thread that does not own the lock.                                      *)
Release(t) ==
  /\ gil = t
  /\ At(t, "held") \/ At(t, "open")
  /\ Pop(t)
  /\ \/ /\ count > 1 /\ tid = t
        /\ count' = count - 1
        /\ UNCHANGED <<tid, sem>>
     \/ /\ count = 1 /\ tid = t
        /\ count' = 0
        /\ tid' = NoThread
        /\ sem' = Freed
     \/ /\ ~(count > 0 /\ tid = t)
        /\ UNCHANGED <<count, tid, sem>>
  /\ UNCHANGED <<gil, signals>>

Next ==
  \E t \in Threads :
    \/ Timed(t)
    \/ \E timeout \in Timeouts : Acquire(t, timeout)
    \/ Settle(t)
    \/ Release(t)

Spec == Init /\ [][Next]_rlockVars

(* Every scope ends, the outermost one too.                                *)
Fairness ==
  \A t \in Threads :
    /\ TimedFairness(t)
    /\ WF_rlockVars(Settle(t))
    /\ SF_rlockVars(Release(t))
    /\ SF_rlockVars(Len(frames[t]) = 1 /\ Release(t))

FairSpec == Spec /\ Fairness

-----------------------------------------------------------------------------
TypeOK ==
  /\ TimedTypeOK
  /\ count \in Nat
  /\ tid \in Threads \cup {NoThread}

(* Two threads never both have a guard that holds the lock, whatever the   *)
(* timeouts and signals: a guard whose acquisition failed releases nothing.*)
OwnerExclusion ==
  \A t, u \in Threads : HeldAt(t) # {} /\ HeldAt(u) # {} => t = u

(* assert(_count == 0) of RLock::Acquire: whoever gets the PyThread lock,  *)
(* with or without having waited for the GIL after it, finds no owner.     *)
FreshOwnership == \A t \in Threads : At(t, "got") => count = 0

(* _count and _tid say exactly which guards hold: the owner's last _count  *)
(* ones.  In particular no held guard lies below one that failed.          *)
CountsHeldGuards ==
  \A t \in Threads : \A i \in 1..Len(frames[t]) :
    frames[t][i].st = "held" <=> tid = t /\ i + count > Len(frames[t])

(* The PyThread lock is never lost nor doubled.                            *)
Getting == {t \in Threads : At(t, "got")}

Conserved ==
  /\ sem \in {0, 1}
  /\ sem = 1 => tid = NoThread /\ Getting = {}
  /\ sem = 0 /\ tid = NoThread => \E t \in Threads : Getting = {t}
  /\ tid # NoThread => Getting = {}

(* The fields are set and cleared together, and the count is of guards     *)
(* that are on the owner's stack.                                          *)
FieldsAgree ==
  /\ count = 0 <=> tid = NoThread
  /\ tid # NoThread => count <= Len(frames[tid])

(* The inductive invariant: what together makes every step keep the above. *)
Inv ==
  /\ TypeOK
  /\ Nested
  /\ FieldsAgree
  /\ CountsHeldGuards
  /\ Conserved

(* RLock implements a re-entrant mutex: owner and depth are those of the   *)
(* guards that hold, not of the fields.                                    *)
Abstract == INSTANCE Mutex WITH Reentrant <- TRUE, owner <- Owner, depth <- Depth

ImplementsMutex == Abstract!Spec

(* A guard whose acquisition started gets into its scope, nested or not:   *)
(* the threads never wait on each other, nor a thread on itself.           *)
AcquisitionEnds ==
  \A t \in Threads : At(t, "wait") ~> At(t, "held") \/ At(t, "open")

(* A guard that waits for ever holds the lock in the end, whatever its     *)
(* thread holds already, unless a signal handler raises.                   *)
BlockedGetsLock ==
  \A t \in Threads :
    At(t, "wait") /\ Top(t).left = "neg" ~> At(t, "held") \/ At(t, "eintr")
=============================================================================
