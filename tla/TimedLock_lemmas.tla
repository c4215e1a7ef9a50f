-------------------------- MODULE TimedLock_lemmas --------------------------
(***************************************************************************)
(* What the operations on the stacks of guards do, and the three effects   *)
(* that a step inside AcquireTimed can have on them and on the lock.  The  *)
(* proofs about Lock and RLock rest on these.                              *)
(***************************************************************************)
EXTENDS TimedLock, SequenceTheorems, FiniteSetTheorems, TLAPS

(* All but the last element of a sequence.                                 *)
LEMMA FrontProperties ==
  ASSUME NEW S, NEW s \in Seq(S), Len(s) # 0
  PROVE  /\ SubSeq(s, 1, Len(s) - 1) \in Seq(S)
         /\ Len(SubSeq(s, 1, Len(s) - 1)) = Len(s) - 1
         /\ \A i \in 1..(Len(s) - 1) : SubSeq(s, 1, Len(s) - 1)[i] = s[i]
<1>1. PICK n \in Nat : Len(s) = n + 1
  <2>1. Len(s) \in Nat \ {0}
    OBVIOUS
  <2>2. Len(s) - 1 \in Nat /\ Len(s) = (Len(s) - 1) + 1
    BY <2>1
  <2> QED
    BY <2>2
<1>2. n = Len(s) - 1
  BY <1>1
<1>3. \A i \in 1..n : s[i] \in S
  BY <1>1
<1>4. /\ SubSeq(s, 1, n) \in Seq(S)
      /\ Len(SubSeq(s, 1, n)) = IF 1 <= n THEN n - 1 + 1 ELSE 0
      /\ \A i \in 1..(n - 1 + 1) : SubSeq(s, 1, n)[i] = s[1 + i - 1]
  BY <1>3, SubSeqProperties
<1>5. Len(SubSeq(s, 1, n)) = n
  BY <1>4
<1>6. \A i \in 1..n : SubSeq(s, 1, n)[i] = s[i]
  BY <1>4
<1> QED
  BY <1>2, <1>4, <1>5, <1>6

(* A frame stays a frame when only its state changes.                      *)
LEMMA FrameExcept ==
  ASSUME NEW f \in Frame, NEW s \in Pending \cup Returned \cup InScope
  PROVE  /\ [f EXCEPT !.st = s] \in Frame
         /\ [f EXCEPT !.st = s].st = s
         /\ [f EXCEPT !.st = s].left = f.left
BY DEF Frame

(* The innermost guard is a frame.                                         *)
LEMMA TopIsFrame ==
  ASSUME frames \in [Threads -> Seq(Frame)], NEW t \in Threads, frames[t] # <<>>
  PROVE  /\ Len(frames[t]) \in Nat \ {0}
         /\ Top(t) \in Frame
         /\ Top(t) = frames[t][Len(frames[t])]
BY DEF Top

(* A guard pushed on a stack leaves the others where they were.            *)
LEMMA PushEffect ==
  ASSUME frames \in [Threads -> Seq(Frame)],
         NEW t \in Threads, NEW f \in Frame, Push(t, f)
  PROVE  /\ frames' \in [Threads -> Seq(Frame)]
         /\ Len(frames'[t]) = Len(frames[t]) + 1
         /\ frames'[t][Len(frames[t]) + 1] = f
         /\ \A i \in 1..Len(frames[t]) : frames'[t][i] = frames[t][i]
         /\ \A u \in Threads : u # t => frames'[u] = frames[u]
<1> DEFINE s == frames[t]
<1>1. s \in Seq(Frame)
  OBVIOUS
<1>2. frames' = [frames EXCEPT ![t] = Append(s, f)]
  BY DEF Push
<1>3. frames'[t] = Append(s, f)
  BY <1>2
<1>4. /\ Append(s, f) \in Seq(Frame)
      /\ Len(Append(s, f)) = Len(s) + 1
      /\ Append(s, f)[Len(s) + 1] = f
      /\ \A i \in 1..Len(s) : Append(s, f)[i] = s[i]
  BY <1>1
<1>5. \A u \in Threads : u # t => frames'[u] = frames[u]
  BY <1>2
<1>6. frames' \in [Threads -> Seq(Frame)]
  BY <1>2, <1>4
<1> QED
  BY <1>3, <1>4, <1>5, <1>6

(* Replacing the innermost guard leaves the others where they were.        *)
LEMMA SetTopEffect ==
  ASSUME frames \in [Threads -> Seq(Frame)],
         NEW t \in Threads, NEW f \in Frame, frames[t] # <<>>, SetTop(t, f)
  PROVE  /\ frames' \in [Threads -> Seq(Frame)]
         /\ Len(frames'[t]) = Len(frames[t])
         /\ frames'[t][Len(frames[t])] = f
         /\ \A i \in 1..Len(frames[t]) :
              i # Len(frames[t]) => frames'[t][i] = frames[t][i]
         /\ \A u \in Threads : u # t => frames'[u] = frames[u]
<1> DEFINE s == frames[t]
           r == [s EXCEPT ![Len(s)] = f]
<1>1. s \in Seq(Frame) /\ Len(s) \in 1..Len(s)
  BY TopIsFrame
<1>2. frames' = [frames EXCEPT ![t] = r]
  BY DEF SetTop
<1>3. frames'[t] = r
  BY <1>2
<1>4. /\ r \in Seq(Frame)
      /\ Len(r) = Len(s)
      /\ r[Len(s)] = f
      /\ \A i \in 1..Len(s) : i # Len(s) => r[i] = s[i]
  BY <1>1, ExceptSeq
<1>5. \A u \in Threads : u # t => frames'[u] = frames[u]
  BY <1>2
<1>6. frames' \in [Threads -> Seq(Frame)]
  BY <1>2, <1>4
<1> QED
  BY <1>3, <1>4, <1>5, <1>6

(* Popping the innermost guard leaves the others where they were.          *)
LEMMA PopEffect ==
  ASSUME frames \in [Threads -> Seq(Frame)],
         NEW t \in Threads, frames[t] # <<>>, Pop(t)
  PROVE  /\ frames' \in [Threads -> Seq(Frame)]
         /\ Len(frames'[t]) = Len(frames[t]) - 1
         /\ \A i \in 1..(Len(frames[t]) - 1) : frames'[t][i] = frames[t][i]
         /\ \A u \in Threads : u # t => frames'[u] = frames[u]
<1> DEFINE s == frames[t]
           r == SubSeq(s, 1, Len(s) - 1)
<1>1. s \in Seq(Frame) /\ Len(s) \in Nat \ {0}
  BY TopIsFrame
<1>2. frames' = [frames EXCEPT ![t] = r]
  BY DEF Pop
<1>3. frames'[t] = r
  BY <1>2
<1>4. /\ r \in Seq(Frame)
      /\ Len(r) = Len(s) - 1
      /\ \A i \in 1..(Len(s) - 1) : r[i] = s[i]
  BY <1>1, FrontProperties
<1>5. \A u \in Threads : u # t => frames'[u] = frames[u]
  BY <1>2
<1>6. frames' \in [Threads -> Seq(Frame)]
  BY <1>2, <1>4
<1> QED
  BY <1>3, <1>4, <1>5, <1>6

(* The three operations keep the guards below the innermost one waiting.   *)
LEMMA PushNested ==
  ASSUME frames \in [Threads -> Seq(Frame)], Nested,
         NEW t \in Threads, NEW f \in Frame, Push(t, f), RunsUserCode(t)
  PROVE  Nested'
<1> SUFFICES ASSUME NEW u \in Threads, NEW i \in 1..Len(frames'[u]),
                    i < Len(frames'[u])
             PROVE  frames'[u][i].st \in InScope \cup {"handler"}
  BY DEF Nested
<1>1. /\ Len(frames'[t]) = Len(frames[t]) + 1
      /\ \A j \in 1..Len(frames[t]) : frames'[t][j] = frames[t][j]
      /\ \A v \in Threads : v # t => frames'[v] = frames[v]
  BY PushEffect
<1>2. CASE u # t
  BY <1>1, <1>2 DEF Nested
<1>3. CASE u = t
  <2>1. Len(frames[t]) \in Nat
    OBVIOUS
  <2>2. i \in 1..Len(frames[t]) /\ frames'[t][i] = frames[t][i]
    BY <1>1, <1>3, <2>1
  <2>3. CASE i = Len(frames[t])
    BY <1>3, <2>2, <2>3 DEF RunsUserCode, Top
  <2>4. CASE i < Len(frames[t])
    BY <1>3, <2>2, <2>4 DEF Nested
  <2> QED
    BY <2>1, <2>2, <2>3, <2>4
<1> QED
  BY <1>2, <1>3

(* Changing the innermost guard keeps the stack discipline.                *)
LEMMA SetTopNested ==
  ASSUME frames \in [Threads -> Seq(Frame)], Nested,
         NEW t \in Threads, NEW f \in Frame, frames[t] # <<>>, SetTop(t, f)
  PROVE  Nested'
<1> SUFFICES ASSUME NEW u \in Threads, NEW i \in 1..Len(frames'[u]),
                    i < Len(frames'[u])
             PROVE  frames'[u][i].st \in InScope \cup {"handler"}
  BY DEF Nested
<1>1. /\ Len(frames'[t]) = Len(frames[t])
      /\ \A j \in 1..Len(frames[t]) :
           j # Len(frames[t]) => frames'[t][j] = frames[t][j]
      /\ \A v \in Threads : v # t => frames'[v] = frames[v]
  BY SetTopEffect
<1>2. CASE u # t
  BY <1>1, <1>2 DEF Nested
<1>3. CASE u = t
  <2>1. Len(frames[t]) \in Nat
    OBVIOUS
  <2>2. i \in 1..Len(frames[t]) /\ i < Len(frames[t]) /\ i # Len(frames[t])
    BY <1>1, <1>3, <2>1
  <2>3. frames'[t][i] = frames[t][i]
    BY <1>1, <2>2
  <2> QED
    BY <1>3, <2>2, <2>3 DEF Nested
<1> QED
  BY <1>2, <1>3

(* So does popping it.                                                     *)
LEMMA PopNested ==
  ASSUME frames \in [Threads -> Seq(Frame)], Nested,
         NEW t \in Threads, frames[t] # <<>>, Pop(t)
  PROVE  /\ Nested'
         /\ ~At(t, "got")'
<1>1. /\ frames' \in [Threads -> Seq(Frame)]
      /\ Len(frames'[t]) = Len(frames[t]) - 1
      /\ \A j \in 1..(Len(frames[t]) - 1) : frames'[t][j] = frames[t][j]
      /\ \A v \in Threads : v # t => frames'[v] = frames[v]
  BY PopEffect
<1>2. Len(frames[t]) \in Nat \ {0}
  BY TopIsFrame
<1>3. \A i \in 1..Len(frames'[t]) : frames'[t][i].st \in InScope \cup {"handler"}
  <2> SUFFICES ASSUME NEW i \in 1..Len(frames'[t])
               PROVE  frames'[t][i].st \in InScope \cup {"handler"}
    OBVIOUS
  <2>1. /\ i \in 1..(Len(frames[t]) - 1)
        /\ i \in 1..Len(frames[t])
        /\ i < Len(frames[t])
    BY <1>1, <1>2
  <2> QED
    BY <1>1, <2>1 DEF Nested
<1>4. Nested'
  <2> SUFFICES ASSUME NEW u \in Threads, NEW i \in 1..Len(frames'[u]),
                      i < Len(frames'[u])
               PROVE  frames'[u][i].st \in InScope \cup {"handler"}
    BY DEF Nested
  <2>1. CASE u = t
    BY <1>3, <2>1
  <2>2. CASE u # t
    BY <1>1, <2>2 DEF Nested
  <2> QED
    BY <2>1, <2>2
<1>5. ~At(t, "got")'
  <2>1. CASE frames'[t] = <<>>
    BY <2>1 DEF At
  <2>2. CASE frames'[t] # <<>>
    <3>1. Len(frames'[t]) \in 1..Len(frames'[t])
      BY <1>1, <2>2
    <3>2. Top(t)'.st \in InScope \cup {"handler"}
      BY <1>3, <3>1 DEF Top
    <3> QED
      BY <3>2 DEF At, InScope
  <2> QED
    BY <2>1, <2>2
<1> QED
  BY <1>4, <1>5

-----------------------------------------------------------------------------
(* The effects of a step of AcquireTimed: the guards do not change; a      *)
(* guard that is being acquired goes on or gives up without the lock; it   *)
(* takes the lock.                                                         *)
NoEffect == frames' = frames /\ sem' = sem

GoesOn(t, f) ==
  /\ frames[t] # <<>>
  /\ Top(t).st \in Pending
  /\ f \in Frame
  /\ f.st \in Pending \cup {"late", "eintr"}
  /\ f.left = Top(t).left \/ Top(t).left = "pos"
  /\ f.st = "late" => Top(t).left # "neg"
  /\ f.st = "eintr" => HandlersRaise
  /\ SetTop(t, f)
  /\ sem' = sem

Takes(t, f) ==
  /\ frames[t] # <<>>
  /\ Top(t).st \in Pending
  /\ f \in Frame
  /\ f.st = "got"
  /\ SetTop(t, f)
  /\ sem > 0
  /\ sem' = sem - 1

(* A step inside AcquireTimed has one of these three effects: no step      *)
(* takes the lock without recording it in the guard, none releases it.     *)
THEOREM TimedEffect ==
  ASSUME TimedTypeOK, NEW t \in Threads, TimedStep(t)
  PROVE  /\ NoEffect \/ (\E f \in Frame : GoesOn(t, f) \/ Takes(t, f))
         /\ gil' \in Threads \cup {NoThread}
         /\ signals' \in Nat
<1> USE DEF TimedTypeOK
<1> DEFINE With(s) == [Top(t) EXCEPT !.st = s]
<1>1. ASSUME frames[t] # <<>>
      PROVE  /\ Top(t) \in Frame
             /\ \A s \in Pending \cup Returned \cup InScope :
                  With(s) \in Frame /\ With(s).st = s /\ With(s).left = Top(t).left
  BY <1>1, TopIsFrame, FrameExcept
<1>2. CASE TakeGil(t)
  BY <1>2 DEF TakeGil, NoEffect
<1>3. CASE DropGil(t)
  BY <1>3 DEF DropGil, NoEffect
<1>4. CASE Try(t)
  <2>1. frames[t] # <<>> /\ Top(t).st \in Pending /\ signals' = signals
    BY <1>4 DEF Try, At, Pending
  <2>2. CASE sem > 0 /\ sem' = sem - 1 /\ SetTop(t, With("got")) /\ gil' = gil
    <3>1. Takes(t, With("got"))
      BY <1>1, <2>1, <2>2 DEF Takes, Returned
    <3> QED
      BY <1>1, <2>1, <2>2, <3>1 DEF Returned
  <2>3. CASE Top(t).left = "zero" /\ SetTop(t, With("late")) /\ UNCHANGED <<gil, sem>>
    <3>1. GoesOn(t, With("late"))
      BY <1>1, <2>1, <2>3 DEF GoesOn, Returned
    <3> QED
      BY <1>1, <2>1, <2>3, <3>1 DEF Returned
  <2>4. CASE SetTop(t, With("wait")) /\ gil' = NoThread /\ sem' = sem
    <3>1. GoesOn(t, With("wait"))
      BY <1>1, <2>1, <2>4 DEF GoesOn, Pending
    <3> QED
      BY <1>1, <2>1, <2>4, <3>1 DEF Pending
  <2> QED
    BY <1>4, <2>2, <2>3, <2>4 DEF Try
<1>5. CASE WaitAcquire(t)
  <2>1. Takes(t, With("got"))
    BY <1>1, <1>5 DEF WaitAcquire, At, Takes, Pending, Returned
  <2> QED
    BY <1>1, <1>5, <2>1 DEF WaitAcquire, Takes
<1>6. CASE WaitTimeout(t)
  <2>1. GoesOn(t, With("late"))
    BY <1>1, <1>6 DEF WaitTimeout, At, GoesOn, Pending, Returned
  <2> QED
    BY <1>6, <2>1 DEF WaitTimeout, GoesOn
<1>7. CASE WaitInterrupt(t)
  <2>1. GoesOn(t, With("intr"))
    BY <1>1, <1>7 DEF WaitInterrupt, At, GoesOn, Pending
  <2> QED
    <3>1. signals' \in Nat /\ gil' = gil
      BY <1>7 DEF WaitInterrupt
    <3> QED
      BY <2>1, <3>1 DEF GoesOn
<1>8. CASE RunHandler(t)
  <2>1. GoesOn(t, With("handler"))
    BY <1>1, <1>8 DEF RunHandler, At, GoesOn, Pending
  <2> QED
    BY <1>8, <2>1 DEF RunHandler, GoesOn
<1>9. CASE HandlerRaises(t)
  <2>1. GoesOn(t, With("eintr"))
    BY <1>1, <1>9 DEF HandlerRaises, At, GoesOn, Pending, Returned
  <2> QED
    BY <1>9, <2>1 DEF HandlerRaises, GoesOn
<1>10. CASE Resume(t)
  <2>1. /\ frames[t] # <<>> /\ Top(t).st \in Pending
        /\ UNCHANGED <<gil, sem, signals>>
    BY <1>10 DEF Resume, At, Pending
  <2>2. CASE SetTop(t, With("try"))
    <3>1. GoesOn(t, With("try"))
      BY <1>1, <2>1, <2>2 DEF GoesOn, Pending
    <3> QED
      BY <1>1, <2>1, <3>1 DEF Pending
  <2>3. CASE Top(t).left = "pos" /\ SetTop(t, [st |-> "try", left |-> "zero"])
    <3>1. GoesOn(t, [st |-> "try", left |-> "zero"])
      BY <2>1, <2>3 DEF GoesOn, Frame, Pending, Timeout
    <3>2. [st |-> "try", left |-> "zero"] \in Frame
      BY DEF Frame, Pending, Timeout
    <3> QED
      BY <2>1, <3>1, <3>2
  <2>4. CASE Top(t).left = "pos" /\ SetTop(t, With("late"))
    <3>1. GoesOn(t, With("late"))
      BY <1>1, <2>1, <2>4 DEF GoesOn, Returned
    <3> QED
      BY <1>1, <2>1, <3>1 DEF Returned
  <2> QED
    BY <1>10, <2>2, <2>3, <2>4 DEF Resume
<1> QED
  BY <1>2, <1>3, <1>4, <1>5, <1>6, <1>7, <1>8, <1>9, <1>10 DEF TimedStep

-----------------------------------------------------------------------------
(* The abstract mutex that the guards make: one thread holds, or none.     *)
LEMMA OneHolder ==
  ASSUME NEW t \in Threads, HeldAt(t) # {}, IsFiniteSet(HeldAt(t)),
         \A u \in Threads : u # t => HeldAt(u) = {}
  PROVE  Owner = t /\ Depth = Cardinality(HeldAt(t))
<1>1. Holders = {t}
  BY DEF Holders
<1>2. Owner = t
  BY <1>1 DEF Owner
<1> DEFINE T == {<<t, i>> : i \in HeldAt(t)}
           f == [i \in HeldAt(t) |-> <<t, i>>]
<1>3. UNION {{<<v, i>> : i \in HeldAt(v)} : v \in Holders} = T
  BY <1>1
<1>4. f \in Bijection(HeldAt(t), T)
  <2>1. f \in [HeldAt(t) -> T] /\ \A i, j \in HeldAt(t) : f[i] = f[j] => i = j
    OBVIOUS
  <2>2. \A x \in T : \E i \in HeldAt(t) : f[i] = x
    OBVIOUS
  <2> HIDE DEF f, T
  <2> QED
    BY <2>1, <2>2 DEF Bijection, Injection, Surjection, IsInjective
<1>5. Cardinality(T) = Cardinality(HeldAt(t))
  BY <1>4, FS_Bijection DEF ExistsBijection
<1> QED
  BY <1>2, <1>3, <1>5 DEF Depth

(* Nobody owns what no guard holds.                                        *)
LEMMA NoHolder ==
  ASSUME \A t \in Threads : HeldAt(t) = {}
  PROVE  Owner = NoThread /\ Depth = 0
<1>1. Holders = {}
  BY DEF Holders
<1>2. UNION {{<<v, i>> : i \in HeldAt(v)} : v \in Holders} = {}
  BY <1>1
<1> QED
  BY <1>1, <1>2, FS_EmptySet DEF Owner, Depth
=============================================================================
