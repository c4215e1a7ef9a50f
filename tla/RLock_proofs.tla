---------------------------- MODULE RLock_proofs ----------------------------
(***************************************************************************)
(* Proofs about RLock for every set of threads, every set of timeouts,     *)
(* every bound and both kinds of PyThread lock.                            *)
(***************************************************************************)
EXTENDS RLock, TimedLock_lemmas

USE ThreadsAssumption

(* With the invariant, what a thread's stack looks like: it owns the       *)
(* PyThread lock in its innermost guard only, or through the fields.       *)
LEMMA GettingOwner ==
  ASSUME Inv, NEW t \in Threads, At(t, "got")
  PROVE  count = 0 /\ tid = NoThread /\ sem = 0 /\ Getting = {t}
BY DEF Inv, Conserved, FieldsAgree, Getting

(* Nobody holds at first.                                                  *)
LEMMA InitInv == Init => Inv
<1> SUFFICES ASSUME Init PROVE Inv
  OBVIOUS
<1>1. \A t \in Threads : frames[t] = <<>> /\ Len(frames[t]) = 0
  BY DEF Init, TimedInit
<1>2. TypeOK
  BY DEF Init, TimedInit, TypeOK, TimedTypeOK
<1>3. Getting = {}
  BY <1>1 DEF Getting, At
<1> QED
  BY <1>1, <1>2, <1>3
     DEF Init, TimedInit, Inv, Nested, FieldsAgree, CountsHeldGuards, Conserved

(* A step that leaves the guards, the lock and the fields alone.           *)
LEMMA IdleStep ==
  ASSUME Inv, frames' = frames, sem' = sem, count' = count, tid' = tid,
         gil' \in Threads \cup {NoThread}, signals' \in Nat
  PROVE  Inv'
<1>1. Getting' = Getting
  BY DEF Getting, At, Top
<1> QED
  BY <1>1 DEF Inv, TypeOK, TimedTypeOK, Nested, FieldsAgree, CountsHeldGuards,
              Conserved

(* A step that changes only the state of the innermost guard of t, from    *)
(* one that does not hold to another one that does not hold.               *)
LEMMA TopStep ==
  ASSUME Inv, NEW t \in Threads, NEW f \in Frame,
         frames[t] # <<>>, Top(t).st # "held", f.st # "held", SetTop(t, f),
         count' = count, tid' = tid,
         gil' \in Threads \cup {NoThread}, signals' \in Nat, sem' \in Nat
  PROVE  TypeOK' /\ Nested' /\ FieldsAgree' /\ CountsHeldGuards'
<1>1. /\ frames' \in [Threads -> Seq(Frame)]
      /\ Len(frames'[t]) = Len(frames[t])
      /\ frames'[t][Len(frames[t])] = f
      /\ \A i \in 1..Len(frames[t]) :
           i # Len(frames[t]) => frames'[t][i] = frames[t][i]
      /\ \A u \in Threads : u # t => frames'[u] = frames[u]
  BY SetTopEffect DEF Inv, TypeOK, TimedTypeOK
<1>2. Len(frames[t]) \in Nat \ {0} /\ Top(t) = frames[t][Len(frames[t])]
  BY TopIsFrame DEF Inv, TypeOK, TimedTypeOK
<1>3. TypeOK'
  BY <1>1 DEF Inv, TypeOK, TimedTypeOK
<1>4. Nested'
  BY SetTopNested DEF Inv, TypeOK, TimedTypeOK
<1>5. FieldsAgree'
  BY <1>1 DEF Inv, FieldsAgree, TypeOK
<1>6. CountsHeldGuards'
  <2>1. ASSUME NEW u \in Threads, NEW i \in 1..Len(frames'[u])
        PROVE  frames'[u][i].st = "held" <=> tid' = u /\ i + count' > Len(frames'[u])
    <3>1. CASE u = t /\ i = Len(frames[t])
      <4>1. frames[t][i].st # "held" /\ i \in 1..Len(frames[t])
        BY <1>2, <3>1
      <4>2. ~(tid = t /\ i + count > Len(frames[t]))
        BY <4>1 DEF Inv, CountsHeldGuards
      <4> QED
        BY <1>1, <3>1, <4>2
    <3>2. CASE ~(u = t /\ i = Len(frames[t]))
      BY <1>1, <3>2 DEF Inv, CountsHeldGuards
    <3> QED
      BY <3>1, <3>2
  <2> QED
    BY <2>1 DEF CountsHeldGuards
<1> QED
  BY <1>3, <1>4, <1>5, <1>6

(* What the innermost guard of t becomes decides who has just acquired.    *)
LEMMA GettingAfterSetTop ==
  ASSUME TypeOK, NEW t \in Threads, NEW f \in Frame, frames[t] # <<>>, SetTop(t, f)
  PROVE  Getting' = IF f.st = "got" THEN Getting \cup {t} ELSE Getting \ {t}
<1>1. /\ frames' \in [Threads -> Seq(Frame)]
      /\ Len(frames'[t]) = Len(frames[t])
      /\ frames'[t][Len(frames[t])] = f
      /\ \A u \in Threads : u # t => frames'[u] = frames[u]
  BY SetTopEffect DEF TypeOK, TimedTypeOK
<1>2. Len(frames[t]) # 0
  BY TopIsFrame DEF TypeOK, TimedTypeOK
<1>3. At(t, "got")' <=> f.st = "got"
  BY <1>1, <1>2 DEF At, Top
<1>4. \A u \in Threads : u # t => (At(u, "got")' <=> At(u, "got"))
  BY <1>1 DEF At, Top
<1> QED
  BY <1>3, <1>4 DEF Getting

(* A step of AcquireTimed, or of the GIL.                                  *)
LEMMA TimedInv ==
  ASSUME Inv, NEW t \in Threads, Timed(t)
  PROVE  Inv'
<1>1. /\ NoEffect \/ (\E f \in Frame : GoesOn(t, f) \/ Takes(t, f))
      /\ gil' \in Threads \cup {NoThread}
      /\ signals' \in Nat
      /\ count' = count /\ tid' = tid
  BY TimedEffect DEF Timed, Inv, TypeOK
<1>2. CASE NoEffect
  BY <1>1, <1>2, IdleStep DEF NoEffect
<1>3. ASSUME NEW f \in Frame, GoesOn(t, f)
      PROVE  Inv'
  <2>1. TypeOK' /\ Nested' /\ FieldsAgree' /\ CountsHeldGuards'
    BY <1>1, <1>3, TopStep DEF GoesOn, Pending, Inv, TypeOK, TimedTypeOK
  <2>2. t \notin Getting
    BY <1>3 DEF GoesOn, Pending, Getting, At
  <2>3. Getting' = Getting
    <3>1. f.st # "got"
      BY <1>3 DEF GoesOn, Pending
    <3>2. Getting' = Getting \ {t}
      BY <1>3, <3>1, GettingAfterSetTop DEF GoesOn, Inv
    <3> QED
      BY <2>2, <3>2
  <2>4. Conserved'
    BY <1>1, <1>3, <2>3 DEF GoesOn, Inv, Conserved
  <2> QED
    BY <2>1, <2>4 DEF Inv
<1>4. ASSUME NEW f \in Frame, Takes(t, f)
      PROVE  Inv'
  <2>1. sem = 1 /\ sem' = 0 /\ tid = NoThread /\ Getting = {}
    BY <1>4 DEF Takes, Inv, Conserved
  <2>2. TypeOK' /\ Nested' /\ FieldsAgree' /\ CountsHeldGuards'
    BY <1>1, <1>4, <2>1, TopStep DEF Takes, Pending, Inv
  <2>3. Getting' = {t}
    BY <1>4, <2>1, GettingAfterSetTop DEF Takes, Inv
  <2>4. Conserved'
    BY <1>1, <2>1, <2>3 DEF Conserved
  <2> QED
    BY <2>2, <2>4 DEF Inv
<1> QED
  BY <1>1, <1>2, <1>3, <1>4

(* A new guard.                                                            *)
LEMMA AcquireInv ==
  ASSUME Inv, NEW t \in Threads, NEW timeout \in Timeouts, Acquire(t, timeout)
  PROVE  Inv'
<1> DEFINE f == IF count > 0 /\ tid = t THEN Scoped("held")
                ELSE [st |-> "try", left |-> timeout]
           n == Len(frames[t])
<1>1. /\ f \in Frame /\ f.st # "got"
      /\ f.st = "held" <=> count > 0 /\ tid = t
  BY DEF Scoped, Frame, Pending, InScope, Timeout
<1>2. /\ Push(t, f)
      /\ RunsUserCode(t)
      /\ count' = IF count > 0 /\ tid = t THEN count + 1 ELSE count
      /\ UNCHANGED <<gil, sem, signals, tid>>
  BY DEF Acquire
<1> HIDE DEF f
<1>3. /\ frames' \in [Threads -> Seq(Frame)]
      /\ Len(frames'[t]) = n + 1
      /\ frames'[t][n + 1] = f
      /\ \A i \in 1..n : frames'[t][i] = frames[t][i]
      /\ \A u \in Threads : u # t => frames'[u] = frames[u]
  BY <1>1, <1>2, PushEffect DEF Inv, TypeOK, TimedTypeOK
<1>4. n \in Nat /\ count \in Nat
  BY DEF Inv, TypeOK, TimedTypeOK
<1>5. tid = t => count > 0 /\ count <= n
  BY <1>4 DEF Inv, FieldsAgree
<1>6. TypeOK'
  BY <1>2, <1>3, <1>4 DEF Inv, TypeOK, TimedTypeOK
<1>7. Nested'
  BY <1>1, <1>2, PushNested DEF Inv, TypeOK, TimedTypeOK
<1>8. FieldsAgree'
  <2>1. CASE tid = t
    BY <1>2, <1>3, <1>4, <1>5, <2>1 DEF FieldsAgree
  <2>2. CASE tid # t
    BY <1>2, <1>3, <2>2 DEF Inv, FieldsAgree, TypeOK
  <2> QED
    BY <2>1, <2>2
<1>9. CountsHeldGuards'
  <2>1. ASSUME NEW u \in Threads, NEW i \in 1..Len(frames'[u])
        PROVE  frames'[u][i].st = "held" <=> tid' = u /\ i + count' > Len(frames'[u])
    <3>1. CASE u # t
      <4>1. frames'[u] = frames[u] /\ tid' = tid /\ (tid = u => count' = count)
        BY <1>2, <1>3, <3>1
      <4>2. frames[u][i].st = "held" <=> tid = u /\ i + count > Len(frames[u])
        BY <4>1 DEF Inv, CountsHeldGuards
      <4> QED
        BY <4>1, <4>2
    <3>2. CASE u = t /\ i = n + 1
      <4>1. frames'[t][n + 1].st = "held" <=> tid = t
        BY <1>1, <1>3, <1>5
      <4>2. tid' = tid /\ (tid = t => count' = count + 1) /\ Len(frames'[t]) = n + 1
        BY <1>2, <1>3, <1>5
      <4> HIDE DEF n
      <4> QED
        BY <1>4, <3>2, <4>1, <4>2
    <3>3. CASE u = t /\ i \in 1..n
      <4>1. frames[t][i].st = "held" <=> tid = t /\ i + count > n
        BY <3>3 DEF Inv, CountsHeldGuards
      <4>2. frames'[t][i] = frames[t][i] /\ tid' = tid /\ Len(frames'[t]) = n + 1
        BY <1>2, <1>3, <3>3
      <4>3. tid = t => count' = count + 1
        BY <1>2, <1>5
      <4>4. i \in Nat
        BY <3>3
      <4> HIDE DEF n
      <4> QED
        BY <1>4, <3>3, <4>1, <4>2, <4>3, <4>4
    <3> QED
      BY <1>3, <1>4, <3>1, <3>2, <3>3
  <2> QED
    BY <2>1 DEF CountsHeldGuards
<1>10. Getting' = Getting
  <2>1. ~At(t, "got")
    BY <1>2 DEF RunsUserCode, At, InScope
  <2>2. ~At(t, "got")'
    BY <1>1, <1>3, <1>4 DEF At, Top
  <2>3. \A u \in Threads : u # t => (At(u, "got")' <=> At(u, "got"))
    BY <1>3 DEF At, Top
  <2> QED
    BY <2>1, <2>2, <2>3 DEF Getting
<1>11. Conserved'
  BY <1>2, <1>10 DEF Inv, Conserved
<1> QED
  BY <1>6, <1>7, <1>8, <1>9, <1>11 DEF Inv

(* The guard has been acquired, or not, and its scope begins.              *)
LEMMA SettleInv ==
  ASSUME Inv, NEW t \in Threads, Settle(t)
  PROVE  Inv'
<1> DEFINE n == Len(frames[t])
<1>1. /\ frames[t] # <<>> /\ n \in Nat \ {0}
      /\ gil' \in Threads \cup {NoThread} /\ sem' = sem /\ signals' \in Nat
  BY TopIsFrame DEF Settle, At, Inv, TypeOK, TimedTypeOK
<1>2. CASE At(t, "got") /\ count' = 1 /\ tid' = t /\ SetTop(t, Scoped("held"))
  <2>1. count = 0 /\ tid = NoThread /\ sem = 0 /\ Getting = {t}
    BY <1>2, GettingOwner
  <2>2. Scoped("held") \in Frame /\ Scoped("held").st = "held"
    BY DEF Scoped, Frame, InScope, Timeout
  <2>3. /\ frames' \in [Threads -> Seq(Frame)]
        /\ Len(frames'[t]) = n
        /\ frames'[t][n].st = "held"
        /\ \A i \in 1..n : i # n => frames'[t][i] = frames[t][i]
        /\ \A u \in Threads : u # t => frames'[u] = frames[u]
    BY <1>1, <1>2, <2>2, SetTopEffect DEF Inv, TypeOK, TimedTypeOK
  <2>4. TypeOK'
    BY <1>1, <1>2, <2>1, <2>3 DEF Inv, TypeOK, TimedTypeOK
  <2>5. Nested'
    BY <1>1, <1>2, <2>2, SetTopNested DEF Inv, TypeOK, TimedTypeOK
  <2>6. FieldsAgree'
    BY <1>1, <1>2, <2>3 DEF FieldsAgree
  <2>7. CountsHeldGuards'
    <3>1. \A u \in Threads : \A i \in 1..Len(frames[u]) : frames[u][i].st # "held"
      BY <2>1 DEF Inv, CountsHeldGuards
    <3>2. ASSUME NEW u \in Threads, NEW i \in 1..Len(frames'[u])
          PROVE  frames'[u][i].st = "held" <=> tid' = u /\ i + count' > Len(frames'[u])
      <4>1. CASE u # t
        BY <1>2, <2>3, <3>1, <4>1
      <4>2. CASE u = t /\ i = n
        BY <1>1, <1>2, <2>3, <4>2
      <4>3. CASE u = t /\ i # n
        <5>1. i \in 1..n /\ ~(i + 1 > n)
          BY <1>1, <2>3, <4>3
        <5> QED
          BY <1>2, <2>3, <3>1, <4>3, <5>1
      <4> QED
        BY <4>1, <4>2, <4>3
    <3> QED
      BY <3>2 DEF CountsHeldGuards
  <2>8. Getting' = {}
    BY <1>1, <1>2, <2>1, <2>2, GettingAfterSetTop DEF Inv
  <2>9. Conserved'
    BY <1>1, <1>2, <2>1, <2>8 DEF Conserved
  <2> QED
    BY <2>4, <2>5, <2>6, <2>7, <2>9 DEF Inv
<1>3. CASE /\ At(t, "late") \/ At(t, "eintr")
           /\ SetTop(t, Scoped("open"))
           /\ UNCHANGED <<count, tid>>
  <2>1. Scoped("open") \in Frame /\ Scoped("open").st = "open"
    BY DEF Scoped, Frame, InScope, Timeout
  <2>2. Top(t).st # "held" /\ t \notin Getting /\ sem' \in Nat
    BY <1>1, <1>3 DEF At, Getting, Inv, TypeOK, TimedTypeOK
  <2>3. TypeOK' /\ Nested' /\ FieldsAgree' /\ CountsHeldGuards'
    BY <1>1, <1>3, <2>1, <2>2, TopStep
  <2>4. Getting' = Getting
    <3>1. Getting' = Getting \ {t}
      BY <1>1, <1>3, <2>1, GettingAfterSetTop DEF Inv
    <3> QED
      BY <2>2, <3>1
  <2>5. Conserved'
    BY <1>1, <1>3, <2>4 DEF Inv, Conserved
  <2> QED
    BY <2>3, <2>5 DEF Inv
<1> QED
  BY <1>2, <1>3 DEF Settle

(* The innermost guard's scope ends.                                       *)
LEMMA ReleaseInv ==
  ASSUME Inv, NEW t \in Threads, Release(t)
  PROVE  Inv'
<1> DEFINE n == Len(frames[t])
<1>1. frames[t] # <<>> /\ n \in Nat \ {0} /\ count \in Nat
  BY TopIsFrame DEF Release, At, Inv, TypeOK, TimedTypeOK
<1>2. /\ frames' \in [Threads -> Seq(Frame)]
      /\ Len(frames'[t]) = n - 1
      /\ \A i \in 1..(n - 1) : frames'[t][i] = frames[t][i]
      /\ \A u \in Threads : u # t => frames'[u] = frames[u]
  BY <1>1, PopEffect DEF Release, Inv, TypeOK, TimedTypeOK
<1>3. gil' = gil /\ signals' = signals
  BY DEF Release
<1>4. Nested' /\ ~At(t, "got")'
  BY <1>1, PopNested DEF Release, Inv, TypeOK, TimedTypeOK
<1>5. Getting' = Getting
  <2>1. ~At(t, "got")
    BY DEF Release, At
  <2>2. \A u \in Threads : u # t => (At(u, "got")' <=> At(u, "got"))
    BY <1>2 DEF At, Top
  <2> QED
    BY <1>4, <2>1, <2>2 DEF Getting
<1>6. ASSUME NEW u \in Threads, u # t, NEW i \in 1..Len(frames'[u])
      PROVE  /\ frames'[u] = frames[u]
             /\ frames'[u][i].st = "held" <=> tid = u /\ i + count > Len(frames'[u])
  BY <1>2, <1>6 DEF Inv, CountsHeldGuards
<1>7. ASSUME NEW i \in 1..Len(frames'[t])
      PROVE  /\ i \in 1..(n - 1)
             /\ frames'[t][i].st = "held" <=> tid = t /\ i + count > n
  <2>1. i \in 1..(n - 1) /\ i \in 1..n
    BY <1>1, <1>2
  <2>2. frames[t][i].st = "held" <=> tid = t /\ i + count > n
    BY <2>1 DEF Inv, CountsHeldGuards
  <2> QED
    BY <1>2, <2>1, <2>2
<1>8. CASE count > 1 /\ tid = t /\ count' = count - 1 /\ UNCHANGED <<tid, sem>>
  <2>1. TypeOK'
    BY <1>1, <1>2, <1>3, <1>8 DEF Inv, TypeOK, TimedTypeOK
  <2>2. FieldsAgree'
    BY <1>1, <1>2, <1>8 DEF Inv, FieldsAgree
  <2>3. CountsHeldGuards'
    <3> SUFFICES ASSUME NEW u \in Threads, NEW i \in 1..Len(frames'[u])
                 PROVE  frames'[u][i].st = "held" <=> tid' = u /\ i + count' > Len(frames'[u])
      BY DEF CountsHeldGuards
    <3>1. CASE u # t
      BY <1>6, <1>8, <3>1
    <3>2. CASE u = t
      BY <1>1, <1>2, <1>7, <1>8, <3>2
    <3> QED
      BY <3>1, <3>2
  <2>4. Conserved'
    BY <1>5, <1>8 DEF Inv, Conserved
  <2> QED
    BY <1>4, <2>1, <2>2, <2>3, <2>4 DEF Inv
<1>9. CASE count = 1 /\ tid = t /\ count' = 0 /\ tid' = NoThread /\ sem' = Freed
  <2>1. sem = 0 /\ sem' = 1 /\ Getting = {}
    BY <1>9 DEF Inv, Conserved, Freed
  <2>2. TypeOK'
    BY <1>2, <1>3, <1>9, <2>1 DEF Inv, TypeOK, TimedTypeOK
  <2>3. FieldsAgree'
    BY <1>9 DEF FieldsAgree
  <2>4. CountsHeldGuards'
    <3> SUFFICES ASSUME NEW u \in Threads, NEW i \in 1..Len(frames'[u])
                 PROVE  frames'[u][i].st # "held"
      BY <1>9 DEF CountsHeldGuards
    <3>1. CASE u # t
      BY <1>6, <1>9, <3>1
    <3>2. CASE u = t
      BY <1>1, <1>7, <1>9, <3>2
    <3> QED
      BY <3>1, <3>2
  <2>5. Conserved'
    BY <1>5, <1>9, <2>1 DEF Conserved
  <2> QED
    BY <1>4, <2>2, <2>3, <2>4, <2>5 DEF Inv
<1>10. CASE ~(count > 0 /\ tid = t) /\ UNCHANGED <<count, tid, sem>>
  <2>1. tid # t
    BY <1>1, <1>10 DEF Inv, FieldsAgree
  <2>2. TypeOK'
    BY <1>2, <1>3, <1>10 DEF Inv, TypeOK, TimedTypeOK
  <2>3. FieldsAgree'
    BY <1>2, <1>10, <2>1 DEF Inv, FieldsAgree, TypeOK
  <2>4. CountsHeldGuards'
    <3> SUFFICES ASSUME NEW u \in Threads, NEW i \in 1..Len(frames'[u])
                 PROVE  frames'[u][i].st = "held" <=> tid' = u /\ i + count' > Len(frames'[u])
      BY DEF CountsHeldGuards
    <3>1. CASE u # t
      BY <1>6, <1>10, <3>1
    <3>2. CASE u = t
      BY <1>7, <1>10, <2>1, <3>2
    <3> QED
      BY <3>1, <3>2
  <2>5. Conserved'
    BY <1>5, <1>10 DEF Inv, Conserved
  <2> QED
    BY <1>4, <2>2, <2>3, <2>4, <2>5 DEF Inv
<1> QED
  BY <1>8, <1>9, <1>10 DEF Release

-----------------------------------------------------------------------------
(* Every step keeps the invariant.                                         *)
LEMMA NextInv == Inv /\ [Next]_rlockVars => Inv'
<1> SUFFICES ASSUME Inv, [Next]_rlockVars PROVE Inv'
  OBVIOUS
<1>1. CASE UNCHANGED rlockVars
  <2>1. /\ frames' = frames /\ sem' = sem /\ count' = count /\ tid' = tid
        /\ gil' \in Threads \cup {NoThread} /\ signals' \in Nat
    BY <1>1 DEF rlockVars, Inv, TypeOK, TimedTypeOK
  <2> QED
    BY <2>1, IdleStep
<1>2. ASSUME NEW t \in Threads, Timed(t) PROVE Inv'
  BY <1>2, TimedInv
<1>3. ASSUME NEW t \in Threads, NEW timeout \in Timeouts, Acquire(t, timeout)
      PROVE  Inv'
  BY <1>3, AcquireInv
<1>4. ASSUME NEW t \in Threads, Settle(t) PROVE Inv'
  BY <1>4, SettleInv
<1>5. ASSUME NEW t \in Threads, Release(t) PROVE Inv'
  BY <1>5, ReleaseInv
<1> QED
  BY <1>1, <1>2, <1>3, <1>4, <1>5 DEF Next

(* Every reachable state of RLock satisfies the inductive invariant: the   *)
(* fields count exactly the guards that hold, and the PyThread lock is     *)
(* owned by the fields' thread, by one thread about to set them, or free.  *)
THEOREM Invariance == Spec => []Inv
<1>1. Inv /\ [Next]_rlockVars => Inv'
  BY NextInv
<1> QED
  BY InitInv, <1>1, PTL DEF Spec

(* Type correctness of RLock.                                              *)
THEOREM TypeCorrect == Spec => []TypeOK
<1>1. Inv => TypeOK
  BY DEF Inv
<1> QED
  BY <1>1, Invariance, PTL

(* Two threads never both have a guard that holds an RLock, whatever the   *)
(* timeouts, however many guards are nested and whatever handlers raise.   *)
THEOREM MutualExclusion == Spec => []OwnerExclusion
<1>1. Inv => OwnerExclusion
  BY DEF Inv, CountsHeldGuards, OwnerExclusion, HeldAt
<1> QED
  BY <1>1, Invariance, PTL

(* The assertion in RLock::Acquire: the thread that gets the PyThread lock *)
(* finds _count = 0, although it sets the fields only after it got the GIL *)
(* back.                                                                   *)
THEOREM FreshOwner == Spec => []FreshOwnership
<1>1. Inv => FreshOwnership
  BY GettingOwner DEF FreshOwnership
<1> QED
  BY <1>1, Invariance, PTL

(* _count and _tid say exactly which guards hold.                          *)
THEOREM CountIsExact == Spec => []CountsHeldGuards
<1>1. Inv => CountsHeldGuards
  BY DEF Inv
<1> QED
  BY <1>1, Invariance, PTL

(* The PyThread lock is neither lost nor doubled.                          *)
THEOREM LockConserved == Spec => []Conserved
<1>1. Inv => Conserved
  BY DEF Inv
<1> QED
  BY <1>1, Invariance, PTL

-----------------------------------------------------------------------------
(* What the guards make of the mutex is what the fields say.               *)
LEMMA FieldsAreMutex == Inv => Owner = tid /\ Depth = count
<1> SUFFICES ASSUME Inv PROVE Owner = tid /\ Depth = count
  OBVIOUS
<1>1. CASE tid = NoThread
  <2>1. \A t \in Threads : HeldAt(t) = {}
    BY <1>1 DEF Inv, CountsHeldGuards, HeldAt
  <2> QED
    BY <1>1, <2>1, NoHolder DEF Inv, FieldsAgree
<1>2. CASE tid # NoThread
  <2> DEFINE n == Len(frames[tid])
  <2>1. /\ tid \in Threads /\ n \in Nat
        /\ count \in Nat /\ count > 0 /\ count <= n
    BY <1>2 DEF Inv, FieldsAgree, TypeOK, TimedTypeOK
  <2>2. \A u \in Threads : u # tid => HeldAt(u) = {}
    BY DEF Inv, CountsHeldGuards, HeldAt
  <2>3. HeldAt(tid) = {i \in 1..n : i + count > n}
    BY <2>1 DEF Inv, CountsHeldGuards, HeldAt
  <2> HIDE DEF n
  <2>4. HeldAt(tid) = (n - count + 1)..n
    BY <2>1, <2>3
  <2>5. IsFiniteSet(HeldAt(tid)) /\ Cardinality(HeldAt(tid)) = count
    BY <2>1, <2>4, FS_Interval
  <2>6. n \in HeldAt(tid)
    BY <2>1, <2>4
  <2> QED
    BY <2>1, <2>2, <2>5, <2>6, OneHolder
<1> QED
  BY <1>1, <1>2

(* RLock implements a re-entrant mutex (property ImplementsMutex): a step  *)
(* of its code enters or leaves one scope of the owner, or changes nothing *)
(* of the mutex.                                                           *)
THEOREM Refinement == Spec => ImplementsMutex
<1>1. Init => Abstract!Init
  <2>1. Init => Owner = tid /\ Depth = count
    BY InitInv, FieldsAreMutex
  <2> QED
    BY <2>1 DEF Init, Abstract!Init
<1>2. (Inv => Owner = tid /\ Depth = count)'
  BY FieldsAreMutex, PTL
<1>3. Inv /\ Inv' /\ [Next]_rlockVars => [Abstract!Next]_(Abstract!vars)
  <2> SUFFICES ASSUME Inv, Inv', [Next]_rlockVars
               PROVE  [Abstract!Next]_(Abstract!vars)
    OBVIOUS
  <2>1. Owner = tid /\ Depth = count /\ Owner' = tid' /\ Depth' = count'
    BY <1>2, FieldsAreMutex
  <2>2. count \in Nat /\ (count = 0 <=> tid = NoThread)
    BY DEF Inv, TypeOK, FieldsAgree
  <2>3. CASE UNCHANGED rlockVars
    BY <2>1, <2>3 DEF rlockVars, Abstract!vars
  <2>4. ASSUME NEW t \in Threads, Timed(t) PROVE UNCHANGED Abstract!vars
    BY <2>1, <2>4 DEF Timed, Abstract!vars
  <2>5. ASSUME NEW t \in Threads, NEW timeout \in Timeouts, Acquire(t, timeout)
        PROVE  [Abstract!Next]_(Abstract!vars)
    BY <2>1, <2>2, <2>5 DEF Acquire, Abstract!Next, Abstract!Acquire, Abstract!vars
  <2>6. ASSUME NEW t \in Threads, Settle(t) PROVE [Abstract!Next]_(Abstract!vars)
    <3>1. CASE At(t, "got") /\ count' = 1 /\ tid' = t
      <4>1. Abstract!Acquire(t)
        BY <2>1, <3>1, GettingOwner DEF Abstract!Acquire
      <4> QED
        BY <4>1 DEF Abstract!Next
    <3>2. CASE UNCHANGED <<count, tid>>
      BY <2>1, <3>2 DEF Abstract!vars
    <3> QED
      BY <2>6, <3>1, <3>2 DEF Settle
  <2>7. ASSUME NEW t \in Threads, Release(t) PROVE [Abstract!Next]_(Abstract!vars)
    BY <2>1, <2>2, <2>7 DEF Release, Abstract!Next, Abstract!Release, Abstract!vars
  <2> QED
    BY <2>3, <2>4, <2>5, <2>6, <2>7 DEF Next
<1> QED
  BY <1>1, <1>3, Invariance, PTL DEF Spec, ImplementsMutex, Abstract!Spec
=============================================================================
