-------------------------------- MODULE Lock --------------------------------
(***************************************************************************)
(* class Lock and its guard Lock::Auto of yapic/thread.hpp: a lock without *)
(* an owner.  The guard's constructor acquires with the given timeout and  *)
(* returns whatever the outcome; its destructor releases whatever the      *)
(* outcome was.                                                            *)
(***************************************************************************)
EXTENDS TimedLock

lockVars == timedVars

(* Code of the extension declares a guard: _AcquireLock's constructor      *)
(* calls Lock::Acquire, which enters AcquireTimed.                         *)
Acquire(t, timeout) ==
  /\ gil = t
  /\ RunsUserCode(t)
  /\ Len(frames[t]) < MaxDepth
  /\ Push(t, [st |-> "try", left |-> timeout])
  /\ UNCHANGED <<gil, sem, signals>>

(* AcquireTimed has returned: Acquire is void, so whether it acquired or   *)
(* not the scope is entered (the assertion is compiled out by NDEBUG).     *)
Settle(t) ==
  /\ gil = t
  /\ \/ At(t, "got") /\ SetTop(t, Scoped("held"))
     \/ At(t, "late") /\ SetTop(t, Scoped("open"))
     \/ At(t, "eintr") /\ SetTop(t, Scoped("open"))
  /\ UNCHANGED <<gil, sem, signals>>

(* Mutant of Release: the PyThread lock is not released.                   *)
ReleaseForgotten(t) ==
  /\ gil = t
  /\ At(t, "held") \/ At(t, "open")
  /\ Pop(t)
  /\ UNCHANGED <<gil, sem, signals>>

(* The innermost guard's scope ends: Lock::Release.                        *)
Release(t) ==
  /\ gil = t
  /\ At(t, "held") \/ At(t, "open")
  /\ Pop(t)
  /\ sem' = Freed
  /\ UNCHANGED <<gil, signals>>

Next ==
  \E t \in Threads :
    \/ TimedStep(t)
    \/ \E timeout \in Timeouts : Acquire(t, timeout)
    \/ Settle(t)
    \/ Release(t)

Spec == TimedInit /\ [][Next]_lockVars

(* Every scope ends: a thread that is back in its outermost scope again    *)
(* and again leaves it.                                                    *)
Fairness ==
  \A t \in Threads :
    /\ TimedFairness(t)
    /\ WF_lockVars(Settle(t))
    /\ SF_lockVars(Release(t))
    /\ SF_lockVars(Len(frames[t]) = 1 /\ Release(t))

FairSpec == Spec /\ Fairness

-----------------------------------------------------------------------------
TypeOK == TimedTypeOK

(* The threads that own the PyThread lock, each as often as it does.       *)
Owned(t) == {i \in 1..Len(frames[t]) : frames[t][i].st \in {"got", "held"}}

(* Two threads are never in guarded scopes at once.  It is what Lock::Auto *)
(* is for, and holds when every guard waits for ever and no signal handler *)
(* raises: then no scope is entered without the lock.                      *)
Exclusion ==
  \A t, u \in Threads :
    ScopesOf(t) # {} /\ ScopesOf(u) # {} => t = u

(* Whatever the timeouts and the handlers, the lock is never lost: guards  *)
(* that failed may have released it under its owner, but when it is not    *)
(* free there is a guard that will release it.                             *)
NeverLost == sem = 0 => \E t \in Threads : Owned(t) # {}

(* The PyThread lock is never lost nor doubled: it is free, or exactly one *)
(* guard of one thread owns it, so a blocked thread waits for a guard      *)
(* that exists (possibly, in a nested acquisition, one of its own).        *)
Conserved ==
  /\ sem \in {0, 1}
  /\ \A t \in Threads : \A i \in Owned(t) :
       /\ sem = 0
       /\ \A u \in Threads : \A j \in Owned(u) : u = t /\ j = i
  /\ NeverLost

(* No guard gives up: each one waits for ever or has acquired.             *)
NeverGivesUp ==
  \A t \in Threads : \A i \in 1..Len(frames[t]) :
    \/ frames[t][i].st \in Pending /\ frames[t][i].left = "neg"
    \/ frames[t][i].st \in {"got", "held"}

(* The inductive invariant, for guards that wait for ever.                 *)
Inv ==
  /\ TypeOK
  /\ Nested
  /\ NeverGivesUp
  /\ Conserved

(* Lock implements a mutex that cannot be re-entered.                      *)
Abstract == INSTANCE Mutex WITH Reentrant <- FALSE, owner <- Owner, depth <- Depth

ImplementsMutex == Abstract!Spec

(* A release is always of a lock that somebody holds, and that is the      *)
(* releasing thread: PyThread_release_lock is never called by a thread     *)
(* that did not acquire.                                                   *)
ReleasesOwn ==
  [][\A t \in Threads : Release(t) => At(t, "held") /\ sem = 0]_lockVars

(* A guard that waits for ever gets the lock, unless some thread waits for *)
(* a lock that it has itself: nesting, and nothing else, blocks for ever.  *)
SelfBlocked == \E t \in Threads : At(t, "wait") /\ HeldAt(t) # {}

BlockedGetsLock ==
  \A t \in Threads : At(t, "wait") ~> At(t, "held") \/ SelfBlocked

(* With timeouts and handlers that raise, a blocked guard still gets into  *)
(* its scope, under the same proviso.                                      *)
AcquisitionEnds ==
  \A t \in Threads :
    At(t, "wait") ~> At(t, "held") \/ At(t, "open") \/ SelfBlocked

(* assert(lockStatus != PY_LOCK_FAILURE) of Lock::Acquire.                 *)
AcquireAsserts == \A t \in Threads : ~At(t, "late")
=============================================================================
