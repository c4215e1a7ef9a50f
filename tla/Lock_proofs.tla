----------------------------- MODULE Lock_proofs -----------------------------
(***************************************************************************)
(* Proofs about Lock for every set of threads, every bound and both kinds  *)
(* of PyThread lock, when every guard is given an infinite timeout and no  *)
(* signal handler raises.  Without either, TLC shows that they fail.       *)
(***************************************************************************)
EXTENDS Lock, TimedLock_lemmas

USE ThreadsAssumption

(* The condition under which Lock::Auto guards what it is meant to guard.  *)
WaitForEver == Timeouts = {"neg"} /\ HandlersRaise = FALSE

(* What the innermost guard of t becomes decides whether it owns.          *)
LEMMA OwnedAfterSetTop ==
  ASSUME TypeOK, NEW t \in Threads, NEW f \in Frame, frames[t] # <<>>, SetTop(t, f)
  PROVE  /\ Len(frames[t]) \in Nat \ {0}
         /\ Owned(t)' = IF f.st \in {"got", "held"} THEN Owned(t) \cup {Len(frames[t])}
                        ELSE Owned(t) \ {Len(frames[t])}
         /\ \A u \in Threads : u # t => Owned(u)' = Owned(u)
<1> DEFINE n == Len(frames[t])
<1>1. /\ Len(frames'[t]) = n
      /\ frames'[t][n] = f
      /\ \A i \in 1..n : i # n => frames'[t][i] = frames[t][i]
      /\ \A u \in Threads : u # t => frames'[u] = frames[u]
  BY SetTopEffect DEF TypeOK, TimedTypeOK
<1>2. n \in Nat \ {0}
  BY TopIsFrame DEF TypeOK, TimedTypeOK
<1>3. \A u \in Threads : u # t => Owned(u)' = Owned(u)
  BY <1>1 DEF Owned
<1>4. n \in Owned(t)' <=> f.st \in {"got", "held"}
  BY <1>1, <1>2 DEF Owned
<1>5. \A i : i # n => (i \in Owned(t)' <=> i \in Owned(t))
  BY <1>1 DEF Owned
<1> QED
  BY <1>2, <1>3, <1>4, <1>5

(* Replacing the innermost guard by one that has not given up.             *)
LEMMA NeverGivesUpSetTop ==
  ASSUME TypeOK, NeverGivesUp,
         NEW t \in Threads, NEW f \in Frame, frames[t] # <<>>, SetTop(t, f),
         (f.st \in Pending /\ f.left = "neg") \/ f.st \in {"got", "held"}
  PROVE  NeverGivesUp'
<1>1. /\ Len(frames'[t]) = Len(frames[t])
      /\ frames'[t][Len(frames[t])] = f
      /\ \A i \in 1..Len(frames[t]) :
           i # Len(frames[t]) => frames'[t][i] = frames[t][i]
      /\ \A u \in Threads : u # t => frames'[u] = frames[u]
  BY SetTopEffect DEF TypeOK, TimedTypeOK
<1> SUFFICES ASSUME NEW u \in Threads, NEW i \in 1..Len(frames'[u])
             PROVE  \/ frames'[u][i].st \in Pending /\ frames'[u][i].left = "neg"
                    \/ frames'[u][i].st \in {"got", "held"}
  BY DEF NeverGivesUp
<1>2. CASE u = t /\ i = Len(frames[t])
  BY <1>1, <1>2
<1>3. CASE u = t /\ i # Len(frames[t])
  <2>1. i \in 1..Len(frames[t]) /\ frames'[t][i] = frames[t][i]
    BY <1>1, <1>3
  <2> QED
    BY <1>3, <2>1 DEF NeverGivesUp
<1>4. CASE u # t
  BY <1>1, <1>4 DEF NeverGivesUp
<1> QED
  BY <1>2, <1>3, <1>4

(* The innermost guard has not given up.                                   *)
LEMMA TopNeverGivesUp ==
  ASSUME TypeOK, NeverGivesUp, NEW t \in Threads, frames[t] # <<>>
  PROVE  \/ Top(t).st \in Pending /\ Top(t).left = "neg"
         \/ Top(t).st \in {"got", "held"} /\ Len(frames[t]) \in Owned(t)
<1>1. Len(frames[t]) \in 1..Len(frames[t]) /\ Top(t) = frames[t][Len(frames[t])]
  BY TopIsFrame DEF TypeOK, TimedTypeOK
<1> QED
  BY <1>1 DEF NeverGivesUp, Owned

(* Conserved speaks of the guards only through what they own.              *)
LEMMA ConservedSame ==
  ASSUME Conserved, sem' = sem, \A u \in Threads : Owned(u)' = Owned(u)
  PROVE  Conserved'
BY DEF Conserved, NeverLost

(* Nobody holds at first.                                                  *)
LEMMA InitInv == TimedInit => Inv
<1> SUFFICES ASSUME TimedInit PROVE Inv
  OBVIOUS
<1>1. \A t \in Threads : frames[t] = <<>> /\ Len(frames[t]) = 0
  BY DEF TimedInit
<1>2. TypeOK
  BY DEF TimedInit, TypeOK, TimedTypeOK
<1>3. \A t \in Threads : Owned(t) = {}
  <2>1. 1..0 = {}
    OBVIOUS
  <2>2. \A t \in Threads : 1..Len(frames[t]) = {}
    BY <1>1, <2>1
  <2> QED
    BY <2>2 DEF Owned
<1>4. Conserved
  BY <1>3 DEF TimedInit, Conserved, NeverLost
<1> QED
  BY <1>1, <1>2, <1>4 DEF Inv, Nested, NeverGivesUp

(* A step that leaves the guards and the lock alone.                       *)
LEMMA IdleStep ==
  ASSUME Inv, frames' = frames, sem' = sem,
         gil' \in Threads \cup {NoThread}, signals' \in Nat
  PROVE  Inv'
<1>1. \A t \in Threads : Owned(t)' = Owned(t)
  BY DEF Owned
<1> QED
  BY <1>1, ConservedSame DEF Inv, TypeOK, TimedTypeOK, Nested, NeverGivesUp

(* A step of AcquireTimed, or of the GIL.                                  *)
LEMMA TimedInv ==
  ASSUME WaitForEver, Inv, NEW t \in Threads, TimedStep(t)
  PROVE  Inv'
<1>1. /\ NoEffect \/ (\E f \in Frame : GoesOn(t, f) \/ Takes(t, f))
      /\ gil' \in Threads \cup {NoThread}
      /\ signals' \in Nat
  BY TimedEffect DEF Inv, TypeOK
<1>2. CASE NoEffect
  BY <1>1, <1>2, IdleStep DEF NoEffect
<1>3. ASSUME NEW f \in Frame, frames[t] # <<>>, SetTop(t, f), sem' \in Nat
      PROVE  TypeOK' /\ Nested'
  <2>1. frames' \in [Threads -> Seq(Frame)]
    BY <1>3, SetTopEffect DEF Inv, TypeOK, TimedTypeOK
  <2> QED
    BY <1>1, <1>3, <2>1, SetTopNested DEF Inv, TypeOK, TimedTypeOK
<1>4. ASSUME NEW f \in Frame, GoesOn(t, f)
      PROVE  Inv'
  <2>1. /\ Top(t).left = "neg" /\ Top(t).st \notin {"got", "held"}
    BY <1>4, TopNeverGivesUp DEF GoesOn, Pending, Inv
  <2>2. f.st \in Pending /\ f.left = "neg" /\ f.st \notin {"got", "held"}
    BY <1>4, <2>1 DEF GoesOn, Pending, WaitForEver
  <2>3. Len(frames[t]) \notin Owned(t)
    BY <2>1 DEF Owned, Top
  <2>4. Owned(t)' = Owned(t) \ {Len(frames[t])}
    BY <1>4, <2>2, OwnedAfterSetTop DEF GoesOn, Inv
  <2>5. \A u \in Threads : Owned(u)' = Owned(u)
    BY ZenonT(60), <1>4, <2>3, <2>4, OwnedAfterSetTop DEF GoesOn, Inv
  <2>6. Conserved'
    BY <1>4, <2>5, ConservedSame DEF GoesOn, Inv
  <2>7. NeverGivesUp'
    BY <1>4, <2>2, NeverGivesUpSetTop DEF GoesOn, Inv
  <2>8. TypeOK' /\ Nested'
    BY <1>3, <1>4 DEF GoesOn, Inv, TypeOK, TimedTypeOK
  <2> QED
    BY <2>6, <2>7, <2>8 DEF Inv
<1>5. ASSUME NEW f \in Frame, Takes(t, f)
      PROVE  Inv'
  <2>1. sem = 1 /\ sem' = 0
    BY <1>5 DEF Takes, Inv, Conserved, NeverLost
  <2>2. \A u \in Threads : Owned(u) = {}
    BY <2>1 DEF Inv, Conserved, NeverLost
  <2>3. /\ Owned(t)' = {Len(frames[t])}
        /\ \A u \in Threads : u # t => Owned(u)' = {}
    BY <1>5, <2>2, OwnedAfterSetTop DEF Takes, Inv
  <2>4. Conserved'
    <3>1. ASSUME NEW u \in Threads, NEW i \in Owned(u)'
          PROVE  u = t /\ i = Len(frames[t])
      BY <2>3, <3>1
    <3>2. Owned(t)' # {}
      BY <2>3
    <3> QED
      BY <2>1, <3>1, <3>2 DEF Conserved, NeverLost
  <2>5. NeverGivesUp'
    BY <1>5, NeverGivesUpSetTop DEF Takes, Inv
  <2>6. TypeOK' /\ Nested'
    BY <1>3, <1>5, <2>1 DEF Takes
  <2> QED
    BY <2>4, <2>5, <2>6 DEF Inv
<1> QED
  BY <1>1, <1>2, <1>4, <1>5

(* A new guard.                                                            *)
LEMMA AcquireInv ==
  ASSUME WaitForEver, Inv, NEW t \in Threads, NEW timeout \in Timeouts,
         Acquire(t, timeout)
  PROVE  Inv'
<1> DEFINE f == [st |-> "try", left |-> timeout]
           n == Len(frames[t])
<1>1. f \in Frame /\ f.st = "try" /\ f.left = "neg"
  BY DEF WaitForEver, Frame, Pending, Timeout
<1>2. Push(t, f) /\ RunsUserCode(t) /\ UNCHANGED <<gil, sem, signals>>
  BY DEF Acquire
<1> HIDE DEF f
<1>3. /\ frames' \in [Threads -> Seq(Frame)]
      /\ Len(frames'[t]) = n + 1
      /\ frames'[t][n + 1] = f
      /\ \A i \in 1..n : frames'[t][i] = frames[t][i]
      /\ \A u \in Threads : u # t => frames'[u] = frames[u]
  BY <1>1, <1>2, PushEffect DEF Inv, TypeOK, TimedTypeOK
<1>4. n \in Nat
  BY DEF Inv, TypeOK, TimedTypeOK
<1>5. TypeOK' /\ Nested'
  BY <1>1, <1>2, <1>3, PushNested DEF Inv, TypeOK, TimedTypeOK
<1>6. NeverGivesUp'
  <2> SUFFICES ASSUME NEW u \in Threads, NEW i \in 1..Len(frames'[u])
               PROVE  \/ frames'[u][i].st \in Pending /\ frames'[u][i].left = "neg"
                      \/ frames'[u][i].st \in {"got", "held"}
    BY DEF NeverGivesUp
  <2>1. CASE u = t /\ i = n + 1
    BY <1>1, <1>3, <2>1 DEF Pending
  <2>2. CASE u = t /\ i # n + 1
    <3>1. i \in 1..n
      BY <1>3, <1>4, <2>2
    <3>2. frames'[t][i] = frames[t][i]
      BY <1>3, <3>1
    <3> QED
      BY <2>2, <3>1, <3>2 DEF Inv, NeverGivesUp
  <2>3. CASE u # t
    BY <1>3, <2>3 DEF Inv, NeverGivesUp
  <2> QED
    BY <2>1, <2>2, <2>3
<1>7. \A u \in Threads : Owned(u)' = Owned(u)
  <2>1. \A u \in Threads : u # t => Owned(u)' = Owned(u)
    BY <1>3 DEF Owned
  <2>2. n + 1 \notin Owned(t)' /\ n + 1 \notin Owned(t)
    BY <1>1, <1>3, <1>4 DEF Owned
  <2>3. \A i \in 1..n : i \in Owned(t)' <=> i \in Owned(t)
    <3>1. \A i \in 1..n : i \in 1..(n + 1)
      BY <1>4
    <3> QED
      BY <1>3, <3>1 DEF Owned
  <2>4. Owned(t)' \subseteq 1..(n + 1) /\ Owned(t) \subseteq 1..n
    BY <1>3 DEF Owned
  <2>5. \A i \in 1..(n + 1) : i = n + 1 \/ i \in 1..n
    BY <1>4
  <2>6. Owned(t)' = Owned(t)
    BY <2>2, <2>3, <2>4, <2>5
  <2> QED
    BY <2>1, <2>6
<1>8. Conserved'
  BY <1>2, <1>7, ConservedSame DEF Inv
<1> QED
  BY <1>5, <1>6, <1>8 DEF Inv

(* The guard has been acquired and its scope begins.                       *)
LEMMA SettleInv ==
  ASSUME Inv, NEW t \in Threads, Settle(t)
  PROVE  Inv'
<1> DEFINE f == Scoped("held")
<1>1. /\ frames[t] # <<>> /\ Top(t).st \in {"got", "late", "eintr"}
      /\ UNCHANGED <<gil, sem, signals>>
  BY DEF Settle, At
<1>2. Top(t).st = "got" /\ Len(frames[t]) \in Owned(t)
  BY <1>1, TopNeverGivesUp DEF Inv, Pending
<1>3. SetTop(t, f)
  BY <1>2 DEF Settle, At
<1>4. f \in Frame /\ f.st = "held"
  BY DEF Scoped, Frame, InScope, Timeout
<1> HIDE DEF f
<1>5. TypeOK' /\ Nested'
  BY <1>1, <1>3, <1>4, SetTopEffect, SetTopNested DEF Inv, TypeOK, TimedTypeOK
<1>6. NeverGivesUp'
  BY <1>1, <1>3, <1>4, NeverGivesUpSetTop DEF Inv
<1>7. \A u \in Threads : Owned(u)' = Owned(u)
  <2>1. Owned(t)' = Owned(t) \cup {Len(frames[t])}
    BY <1>1, <1>3, <1>4, OwnedAfterSetTop DEF Inv
  <2>2. Owned(t)' = Owned(t)
    BY <1>2, <2>1
  <2> QED
    BY <1>1, <1>3, <1>4, <2>2, OwnedAfterSetTop DEF Inv
<1>8. Conserved'
  BY <1>1, <1>7, ConservedSame DEF Inv
<1> QED
  BY <1>5, <1>6, <1>8 DEF Inv

(* A thread that leaves a scope owns the PyThread lock.                    *)
LEMMA ReleaseOwns ==
  ASSUME Inv, NEW t \in Threads, Release(t)
  PROVE  /\ At(t, "held") /\ sem = 0
         /\ Owned(t) = {Len(frames[t])}
         /\ \A u \in Threads : u # t => Owned(u) = {}
<1>1. frames[t] # <<>> /\ Top(t).st \in {"held", "open"}
  BY DEF Release, At
<1>2. Top(t).st = "held" /\ Len(frames[t]) \in Owned(t)
  BY <1>1, TopNeverGivesUp DEF Inv, Pending
<1> QED
  BY <1>1, <1>2 DEF At, Inv, Conserved, NeverLost

(* The holder pops its guard and the lock is free again.                   *)
LEMMA ReleaseInv ==
  ASSUME Inv, NEW t \in Threads, Release(t)
  PROVE  Inv'
<1> DEFINE n == Len(frames[t])
<1>1. frames[t] # <<>> /\ n \in Nat \ {0} /\ gil' = gil /\ signals' = signals
  BY TopIsFrame DEF Release, At, Inv, TypeOK, TimedTypeOK
<1>2. /\ frames' \in [Threads -> Seq(Frame)]
      /\ Len(frames'[t]) = n - 1
      /\ \A i \in 1..(n - 1) : frames'[t][i] = frames[t][i]
      /\ \A u \in Threads : u # t => frames'[u] = frames[u]
  BY <1>1, PopEffect DEF Release, Inv, TypeOK, TimedTypeOK
<1>3. sem' = 1
  BY ReleaseOwns DEF Release, Freed
<1>4. TypeOK' /\ Nested'
  BY <1>1, <1>2, <1>3, PopNested DEF Release, Inv, TypeOK, TimedTypeOK
<1>5. \A i \in 1..(n - 1) : i \in 1..n /\ i # n
  BY <1>1
<1>6. NeverGivesUp'
  <2> SUFFICES ASSUME NEW u \in Threads, NEW i \in 1..Len(frames'[u])
               PROVE  \/ frames'[u][i].st \in Pending /\ frames'[u][i].left = "neg"
                      \/ frames'[u][i].st \in {"got", "held"}
    BY DEF NeverGivesUp
  <2>1. CASE u = t
    BY <1>2, <1>5, <2>1 DEF Inv, NeverGivesUp
  <2>2. CASE u # t
    BY <1>2, <2>2 DEF Inv, NeverGivesUp
  <2> QED
    BY <2>1, <2>2
<1>7. \A u \in Threads : Owned(u)' = {}
  <2>1. \A u \in Threads : u # t => Owned(u)' = {}
    BY <1>2, ReleaseOwns DEF Owned
  <2>2. \A i \in 1..(n - 1) : i \notin Owned(t)
    BY <1>5, ReleaseOwns
  <2>3. \A i \in 1..(n - 1) : i \notin Owned(t)'
    BY <1>2, <1>5, <2>2 DEF Owned
  <2>4. Owned(t)' \subseteq 1..(n - 1)
    BY <1>2 DEF Owned
  <2> QED
    BY <2>1, <2>3, <2>4
<1>8. Conserved'
  BY <1>3, <1>7 DEF Conserved, NeverLost
<1> QED
  BY <1>4, <1>6, <1>8 DEF Inv

-----------------------------------------------------------------------------
(* Every step keeps the invariant.                                         *)
LEMMA NextInv == WaitForEver /\ Inv /\ [Next]_lockVars => Inv'
<1> SUFFICES ASSUME WaitForEver, Inv, [Next]_lockVars PROVE Inv'
  OBVIOUS
<1>1. CASE UNCHANGED lockVars
  <2>1. /\ frames' = frames /\ sem' = sem
        /\ gil' \in Threads \cup {NoThread} /\ signals' \in Nat
    BY <1>1 DEF lockVars, timedVars, Inv, TypeOK, TimedTypeOK
  <2> QED
    BY <2>1, IdleStep
<1>2. ASSUME NEW t \in Threads, TimedStep(t) PROVE Inv'
  BY <1>2, TimedInv
<1>3. ASSUME NEW t \in Threads, NEW timeout \in Timeouts, Acquire(t, timeout)
      PROVE  Inv'
  BY <1>3, AcquireInv
<1>4. ASSUME NEW t \in Threads, Settle(t) PROVE Inv'
  BY <1>4, SettleInv
<1>5. ASSUME NEW t \in Threads, Release(t) PROVE Inv'
  BY <1>5, ReleaseInv
<1> QED
  BY <1>1, <1>2, <1>3, <1>4, <1>5 DEF Next

(* If guards wait for ever and handlers do not raise, every reachable      *)
(* state of Lock satisfies the inductive invariant.                        *)
THEOREM Invariance == ASSUME WaitForEver PROVE Spec => []Inv
<1>1. Inv /\ [Next]_lockVars => Inv'
  BY NextInv
<1> QED
  BY InitInv, <1>1, PTL DEF Spec

(* Then two threads are never in guarded scopes at once.                   *)
THEOREM MutualExclusion == ASSUME WaitForEver PROVE Spec => []Exclusion
<1>1. Inv => Exclusion
  <2> SUFFICES ASSUME Inv, NEW t \in Threads, NEW u \in Threads,
                      ScopesOf(t) # {}, ScopesOf(u) # {}
               PROVE  t = u
    BY DEF Exclusion
  <2>1. \A v \in Threads : ScopesOf(v) \subseteq Owned(v)
    BY DEF ScopesOf, InScope, Owned, Inv, NeverGivesUp, Pending
  <2> QED
    BY <2>1 DEF Inv, Conserved, NeverLost
<1> QED
  BY <1>1, Invariance, PTL

(* Then the PyThread lock is neither lost nor doubled.                     *)
THEOREM LockConserved == ASSUME WaitForEver PROVE Spec => []Conserved
<1>1. Inv => Conserved
  BY DEF Inv
<1> QED
  BY <1>1, Invariance, PTL

(* Then a thread releases the PyThread lock only when it has acquired it.  *)
THEOREM ReleasedByOwner == ASSUME WaitForEver PROVE Spec => ReleasesOwn
<1>1. Inv /\ [Next]_lockVars
        => [\A t \in Threads : Release(t) => At(t, "held") /\ sem = 0]_lockVars
  BY ReleaseOwns
<1> QED
  BY <1>1, Invariance, PTL DEF Spec, ReleasesOwn

-----------------------------------------------------------------------------
(* A scope of the mutex is a guard that holds: there is one, or none.      *)
LEMMA Holding ==
  ASSUME Inv, NEW t \in Threads, HeldAt(t) # {}
  PROVE  Owner = t /\ Depth = 1
<1>1. \A u \in Threads : HeldAt(u) \subseteq Owned(u)
  BY DEF HeldAt, Owned
<1>2. PICK i : i \in HeldAt(t)
  OBVIOUS
<1>3. HeldAt(t) = {i} /\ \A u \in Threads : u # t => HeldAt(u) = {}
  BY <1>1, <1>2 DEF Inv, Conserved
<1>4. IsFiniteSet({i}) /\ Cardinality({i}) = 1
  BY FS_Singleton
<1> QED
  BY <1>3, <1>4, OneHolder

(* What changing the innermost guard does to the guards that hold.         *)
LEMMA HeldAfterSetTop ==
  ASSUME TypeOK, NEW t \in Threads, NEW f \in Frame, frames[t] # <<>>, SetTop(t, f)
  PROVE  /\ HeldAt(t)' = IF f.st = "held" THEN HeldAt(t) \cup {Len(frames[t])}
                         ELSE HeldAt(t) \ {Len(frames[t])}
         /\ \A u \in Threads : u # t => HeldAt(u)' = HeldAt(u)
<1> DEFINE n == Len(frames[t])
<1>1. /\ Len(frames'[t]) = n
      /\ frames'[t][n] = f
      /\ \A i \in 1..n : i # n => frames'[t][i] = frames[t][i]
      /\ \A u \in Threads : u # t => frames'[u] = frames[u]
      /\ n \in Nat \ {0}
  BY SetTopEffect, TopIsFrame DEF TypeOK, TimedTypeOK
<1>2. \A u \in Threads : u # t => HeldAt(u)' = HeldAt(u)
  BY <1>1 DEF HeldAt
<1>3. n \in HeldAt(t)' <=> f.st = "held"
  BY <1>1 DEF HeldAt
<1>4. \A i : i # n => (i \in HeldAt(t)' <=> i \in HeldAt(t))
  BY <1>1 DEF HeldAt
<1> QED
  BY <1>2, <1>3, <1>4

(* While the guards that hold are the same, nothing changes for Mutex.     *)
LEMMA HeldSame ==
  ASSUME \A u \in Threads : HeldAt(u)' = HeldAt(u)
  PROVE  UNCHANGED Abstract!vars
<1>1. Holders' = Holders
  BY DEF Holders
<1>2. Owner' = Owner
  BY <1>1 DEF Owner
<1>3. UNION {{<<u, i>> : i \in HeldAt(u)'} : u \in Holders'} =
      UNION {{<<u, i>> : i \in HeldAt(u)} : u \in Holders}
  BY <1>1 DEF Holders
<1>4. Depth' = Depth
  BY <1>3 DEF Depth
<1> QED
  BY <1>2, <1>4 DEF Abstract!vars

(* Only Settle and Release change what holds.                              *)
LEMMA OthersKeepHeld ==
  ASSUME Inv, NEW t \in Threads,
         TimedStep(t) \/ \E timeout \in Timeouts : Acquire(t, timeout)
  PROVE  \A u \in Threads : HeldAt(u)' = HeldAt(u)
<1>1. ASSUME NEW f \in Frame, GoesOn(t, f) \/ Takes(t, f)
      PROVE  \A u \in Threads : HeldAt(u)' = HeldAt(u)
  <2>1. f.st # "held" /\ Top(t).st # "held" /\ frames[t] # <<>> /\ SetTop(t, f)
    BY <1>1 DEF GoesOn, Takes, Pending
  <2>2. Len(frames[t]) \notin HeldAt(t)
    BY <2>1, TopIsFrame DEF HeldAt, Inv, TypeOK, TimedTypeOK
  <2> QED
    BY <2>1, <2>2, HeldAfterSetTop DEF Inv
<1>2. ASSUME NEW timeout \in Timeouts, Acquire(t, timeout)
      PROVE  \A u \in Threads : HeldAt(u)' = HeldAt(u)
  <2> DEFINE n == Len(frames[t])
             f == [st |-> "try", left |-> timeout]
  <2>1. f \in Frame /\ f.st = "try" /\ Push(t, f) /\ n \in Nat
    BY <1>2 DEF Acquire, Frame, Pending, Timeout, Inv, TypeOK, TimedTypeOK
  <2> HIDE DEF f
  <2>2. /\ Len(frames'[t]) = n + 1
        /\ frames'[t][n + 1] = f
        /\ \A i \in 1..n : frames'[t][i] = frames[t][i]
        /\ \A u \in Threads : u # t => frames'[u] = frames[u]
    BY <2>1, PushEffect DEF Inv, TypeOK, TimedTypeOK
  <2> HIDE DEF n
  <2>3. 1..(n + 1) = 1..n \cup {n + 1}
    BY <2>1
  <2>4. HeldAt(t)' = HeldAt(t)
    BY <2>1, <2>2, <2>3 DEF HeldAt, n
  <2> QED
    BY <2>2, <2>4 DEF HeldAt
<1>3. CASE NoEffect
  BY <1>3 DEF NoEffect, HeldAt
<1> QED
  BY <1>1, <1>2, <1>3, TimedEffect DEF Inv, TypeOK

(* Lock implements a mutex that cannot be re-entered (property             *)
(* ImplementsMutex), for guards that wait for ever.                        *)
THEOREM Refinement == ASSUME WaitForEver PROVE Spec => ImplementsMutex
<1>1. TimedInit => Abstract!Init
  <2>1. TimedInit => \A t \in Threads : HeldAt(t) = {}
    BY DEF TimedInit, HeldAt
  <2> QED
    BY <2>1, NoHolder DEF Abstract!Init
<1>2. (Inv /\ \A t \in Threads : HeldAt(t) = {}) => Owner = NoThread /\ Depth = 0
  BY NoHolder
<1>3. Inv => \A t \in Threads : HeldAt(t) # {} => Owner = t /\ Depth = 1
  BY Holding
<1>4. (Inv => \A t \in Threads : HeldAt(t) # {} => Owner = t /\ Depth = 1)'
  BY <1>3, PTL
<1>5. (Inv /\ (\A t \in Threads : HeldAt(t) = {}) => Owner = NoThread /\ Depth = 0)'
  BY <1>2, PTL
<1>6. Inv /\ Inv' /\ [Next]_lockVars => [Abstract!Next]_(Abstract!vars)
  <2> SUFFICES ASSUME Inv, Inv', [Next]_lockVars
               PROVE  [Abstract!Next]_(Abstract!vars)
    OBVIOUS
  <2>1. CASE UNCHANGED lockVars
    BY <2>1, HeldSame DEF lockVars, timedVars, HeldAt
  <2>2. ASSUME NEW t \in Threads,
               TimedStep(t) \/ \E timeout \in Timeouts : Acquire(t, timeout)
        PROVE  UNCHANGED Abstract!vars
    BY <2>2, OthersKeepHeld, HeldSame
  <2>3. ASSUME NEW t \in Threads, Settle(t) PROVE Abstract!Acquire(t)
    <3>1. frames[t] # <<>> /\ Top(t).st \in {"got", "late", "eintr"}
      BY <2>3 DEF Settle, At
    <3>2. Top(t).st = "got" /\ Len(frames[t]) \in Owned(t)
      BY <3>1, TopNeverGivesUp DEF Inv, Pending
    <3>3. SetTop(t, Scoped("held")) /\ Scoped("held") \in Frame /\ Scoped("held").st = "held"
      BY <2>3, <3>2 DEF Settle, At, Scoped, Frame, InScope, Timeout
    <3>4. \A u \in Threads : HeldAt(u) = {}
      <4>1. Len(frames[t]) \notin HeldAt(t) /\ \A u \in Threads : HeldAt(u) \subseteq Owned(u)
        BY <3>2 DEF HeldAt, Owned, Top
      <4> QED
        BY <3>2, <4>1 DEF Inv, Conserved
    <3>5. HeldAt(t)' # {}
      BY <3>1, <3>3, HeldAfterSetTop DEF Inv
    <3> QED
      BY <1>2, <1>4, <3>4, <3>5 DEF Abstract!Acquire
  <2>4. ASSUME NEW t \in Threads, Release(t) PROVE Abstract!Release(t)
    <3>1. /\ At(t, "held") /\ Owned(t) = {Len(frames[t])}
          /\ \A u \in Threads : u # t => Owned(u) = {}
      BY <2>4, ReleaseOwns
    <3>2. HeldAt(t) # {}
      <4>1. frames[t] # <<>> /\ Top(t).st = "held"
        BY <3>1 DEF At
      <4>2. Len(frames[t]) \in HeldAt(t)
        BY <4>1, TopIsFrame DEF HeldAt, Inv, TypeOK, TimedTypeOK
      <4> QED
        BY <4>2
    <3>3. /\ Len(frames'[t]) = Len(frames[t]) - 1
          /\ \A i \in 1..(Len(frames[t]) - 1) : frames'[t][i] = frames[t][i]
          /\ \A u \in Threads : u # t => frames'[u] = frames[u]
          /\ Len(frames[t]) \in Nat
      BY <2>4, <3>1, PopEffect DEF Release, At, Inv, TypeOK, TimedTypeOK
    <3>4. HeldAt(t)' = {}
      <4>1. \A i \in 1..(Len(frames[t]) - 1) : i \in 1..Len(frames[t]) /\ i \notin Owned(t)
        BY <3>1, <3>3
      <4>2. \A i \in 1..(Len(frames[t]) - 1) : frames[t][i].st # "held"
        BY <4>1 DEF Owned
      <4> QED
        BY <3>3, <4>2 DEF HeldAt
    <3>5. \A u \in Threads : u # t => HeldAt(u)' = {}
      BY <3>1, <3>3 DEF HeldAt, Owned
    <3> QED
      BY <1>3, <1>5, <3>2, <3>4, <3>5 DEF Abstract!Release
  <2> QED
    BY <2>1, <2>2, <2>3, <2>4 DEF Next, Abstract!Next
<1> QED
  BY <1>1, <1>6, Invariance, PTL DEF Spec, ImplementsMutex, Abstract!Spec

-----------------------------------------------------------------------------
(* Without the condition: any timeouts, and handlers that raise.           *)
LossFree == TypeOK /\ NeverLost

(* An owner is left when no stack loses one.                               *)
LEMMA OwnersRemain ==
  ASSUME NeverLost, sem' = sem,
         \A u \in Threads : Owned(u) # {} => Owned(u)' # {}
  PROVE  NeverLost'
BY DEF NeverLost

(* A step inside AcquireTimed loses no lock.                               *)
LEMMA TimedLossFree ==
  ASSUME LossFree, NEW t \in Threads, TimedStep(t)
  PROVE  LossFree'
<1>1. /\ NoEffect \/ (\E f \in Frame : GoesOn(t, f) \/ Takes(t, f))
      /\ gil' \in Threads \cup {NoThread}
      /\ signals' \in Nat
  BY TimedEffect DEF LossFree, TypeOK
<1>2. CASE NoEffect
  <2>1. \A u \in Threads : Owned(u)' = Owned(u)
    BY <1>2 DEF NoEffect, Owned
  <2> QED
    BY <1>1, <1>2, <2>1, OwnersRemain DEF NoEffect, LossFree, TypeOK, TimedTypeOK
<1>3. ASSUME NEW f \in Frame, GoesOn(t, f) PROVE LossFree'
  <2>1. Len(frames[t]) \notin Owned(t)
    BY <1>3, TopIsFrame DEF GoesOn, Owned, Pending, LossFree, TypeOK, TimedTypeOK
  <2>2. \A u \in Threads : Owned(u) # {} => Owned(u)' # {}
    BY <1>3, <2>1, OwnedAfterSetTop DEF GoesOn, LossFree
  <2>3. frames' \in [Threads -> Seq(Frame)]
    BY <1>3, SetTopEffect DEF GoesOn, LossFree, TypeOK, TimedTypeOK
  <2> QED
    BY <1>1, <1>3, <2>2, <2>3, OwnersRemain DEF GoesOn, LossFree, TypeOK, TimedTypeOK
<1>4. ASSUME NEW f \in Frame, Takes(t, f) PROVE LossFree'
  <2>1. Owned(t)' # {}
    BY <1>4, OwnedAfterSetTop DEF Takes, LossFree
  <2>2. frames' \in [Threads -> Seq(Frame)]
    BY <1>4, SetTopEffect DEF Takes, LossFree, TypeOK, TimedTypeOK
  <2>3. sem' \in Nat
    BY <1>4 DEF Takes, LossFree, TypeOK, TimedTypeOK
  <2> QED
    BY <1>1, <2>1, <2>2, <2>3 DEF LossFree, NeverLost, TypeOK, TimedTypeOK
<1> QED
  BY <1>1, <1>2, <1>3, <1>4

(* Nor does a new guard, which is put on top.                              *)
LEMMA AcquireLossFree ==
  ASSUME LossFree, NEW t \in Threads, NEW timeout \in Timeouts, Acquire(t, timeout)
  PROVE  LossFree'
<1> DEFINE f == [st |-> "try", left |-> timeout]
<1>1. f \in Frame
  BY DEF Frame, Pending
<1>2. /\ frames' \in [Threads -> Seq(Frame)]
      /\ Len(frames'[t]) = Len(frames[t]) + 1
      /\ \A i \in 1..Len(frames[t]) : frames'[t][i] = frames[t][i]
      /\ \A u \in Threads : u # t => frames'[u] = frames[u]
  BY <1>1, PushEffect DEF Acquire, LossFree, TypeOK, TimedTypeOK
<1>3. Len(frames[t]) \in Nat
  BY DEF LossFree, TypeOK, TimedTypeOK
<1>4. \A u \in Threads : Owned(u) \subseteq Owned(u)'
  BY <1>2, <1>3 DEF Owned
<1> QED
  BY <1>2, <1>4, OwnersRemain DEF Acquire, LossFree, TypeOK, TimedTypeOK

(* Nor does the end of an acquisition, whatever its outcome.               *)
LEMMA SettleLossFree ==
  ASSUME LossFree, NEW t \in Threads, Settle(t)
  PROVE  LossFree'
<1>1. PICK f \in {Scoped("held"), Scoped("open")} :
        /\ SetTop(t, f)
        /\ f.st = "held" <=> At(t, "got")
        /\ At(t, "got") \/ At(t, "late") \/ At(t, "eintr")
  BY DEF Settle, Scoped, At
<1>2. f \in Frame /\ frames[t] # <<>>
  BY <1>1 DEF Frame, Scoped, InScope, Timeout, At
<1>3. \A u \in Threads : Owned(u) # {} => Owned(u)' # {}
  <2>1. f.st # "held" => Len(frames[t]) \notin Owned(t)
    BY <1>1, <1>2, TopIsFrame DEF At, Owned, Scoped, LossFree, TypeOK, TimedTypeOK
  <2> QED
    BY <1>1, <1>2, <2>1, OwnedAfterSetTop DEF LossFree
<1>4. frames' \in [Threads -> Seq(Frame)]
  BY <1>1, <1>2, SetTopEffect DEF LossFree, TypeOK, TimedTypeOK
<1> QED
  BY <1>3, <1>4, OwnersRemain DEF Settle, LossFree, TypeOK, TimedTypeOK

(* A release leaves the lock free, whoever owned it.                       *)
LEMMA ReleaseLossFree ==
  ASSUME LossFree, NEW t \in Threads, Release(t)
  PROVE  LossFree'
<1>1. sem' \in Nat \ {0}
  BY DEF Release, Freed, LossFree, TypeOK, TimedTypeOK
<1>2. frames' \in [Threads -> Seq(Frame)]
  BY PopEffect DEF Release, At, LossFree, TypeOK, TimedTypeOK
<1> QED
  BY <1>1, <1>2 DEF Release, LossFree, NeverLost, TypeOK, TimedTypeOK

(* Whatever the timeouts are and whatever signal handlers do, a lock that  *)
(* is not free has a guard that will release it.                           *)
THEOREM LockNeverLost == Spec => []NeverLost
<1>1. TimedInit => LossFree
  BY DEF TimedInit, LossFree, TypeOK, TimedTypeOK, NeverLost
<1>2. LossFree /\ [Next]_lockVars => LossFree'
  <2> SUFFICES ASSUME LossFree, [Next]_lockVars PROVE LossFree'
    OBVIOUS
  <2>1. CASE UNCHANGED lockVars
    BY <2>1 DEF lockVars, timedVars, LossFree, TypeOK, TimedTypeOK, NeverLost, Owned
  <2>2. CASE Next
    BY <2>2, TimedLossFree, AcquireLossFree, SettleLossFree, ReleaseLossFree DEF Next
  <2> QED
    BY <2>1, <2>2
<1>3. LossFree => NeverLost
  BY DEF LossFree
<1> QED
  BY <1>1, <1>2, <1>3, PTL DEF Spec
=============================================================================
