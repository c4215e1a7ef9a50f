--------------------------- MODULE Objects_proofs ---------------------------
(***************************************************************************)
(* Proofs about Objects, for any classes, any order of registration and    *)
(* any failures, any number of objects and pointers, and destructors that  *)
(* call one another to any depth: first that no operation of PyPtr and of  *)
(* the allocators breaks the invariant of Ownership; then that the MROs    *)
(* and the references of registered types are right, and that objects are  *)
(* counted, destroyed and given back as they must be.                      *)
(***************************************************************************)
EXTENDS Ownership, FiniteSetTheorems, SequenceTheorems, WellFoundedInduction, TLAPS

(* A call in a stack is a `__dealloc__` of a block or an assignment        *)
(* between two places.                                                     *)
LEMMA FrameType ==
  ASSUME NEW f \in Frame
  PROVE  /\ f.op = "dealloc" => f.obj \in Block /\ f.next \in Nat
         /\ f.op # "dealloc" => f.op \in {"copy", "move"} /\ f.dst \in Target /\ f.src \in Target
  BY DEF Frame

(* The frame that a `__dealloc__` pushes is one of the first kind.         *)
LEMMA DestroyingType ==
  ASSUME NEW b \in Block, NEW n \in Nat
  PROVE  /\ Destroying(b, n) \in Frame
         /\ Destroying(b, n).op = "dealloc"
         /\ Destroying(b, n).obj = b /\ Destroying(b, n).next = n
  BY DEF Destroying, Frame

(* The frame that an assignment pushes is one of the second.               *)
LEMMA AssigningType ==
  ASSUME NEW op \in {"copy", "move"}, NEW dst \in Target, NEW src \in Target
  PROVE  /\ Assigning(op, dst, src) \in Frame
         /\ Assigning(op, dst, src).op = op
         /\ Assigning(op, dst, src).op # "dealloc"
         /\ Assigning(op, dst, src).dst = dst /\ Assigning(op, dst, src).src = src
  BY DEF Assigning, Frame

(* A stack without its innermost call: the other calls move by one place.  *)
LEMMA TailIs ==
  ASSUME NEW s \in Seq(Frame), s # <<>>
  PROVE  /\ Tail(s) \in Seq(Frame)
         /\ Head(s) = s[1] /\ Head(s) \in Frame
         /\ Len(s) \in Nat /\ DOMAIN s = 1 .. Len(s) /\ 1 \in DOMAIN s
         /\ Len(Tail(s)) = Len(s) - 1 /\ DOMAIN Tail(s) = 1 .. Len(s) - 1
         /\ \A i \in DOMAIN Tail(s) : i + 1 \in DOMAIN s /\ Tail(s)[i] = s[i + 1]
         /\ \A i \in DOMAIN s : i = 1 \/ (i - 1 \in DOMAIN Tail(s) /\ s[i] = Tail(s)[i - 1])
  <1>1. /\ Tail(s) \in Seq(Frame) /\ Head(s) \in Frame
        /\ Len(Tail(s)) = Len(s) - 1
        /\ \A i \in 1 .. Len(Tail(s)) : Tail(s)[i] = s[i + 1]
    BY HeadTailProperties
  <1>2. Len(s) \in Nat \ {0} /\ DOMAIN s = 1 .. Len(s) /\ Head(s) = s[1]
    BY EmptySeq
  <1>3. DOMAIN Tail(s) = 1 .. Len(s) - 1
    BY <1>1, <1>2
  <1> QED
    BY <1>1, <1>2, <1>3

(* A stack with one more call: the calls that were there move by one       *)
(* place.                                                                  *)
LEMMA PushIs ==
  ASSUME NEW s \in Seq(Frame), NEW f \in Frame
  PROVE  /\ <<f>> \o s \in Seq(Frame)
         /\ <<f>> \o s # <<>>
         /\ Len(s) \in Nat /\ DOMAIN s = 1 .. Len(s)
         /\ Len(<<f>> \o s) = Len(s) + 1 /\ DOMAIN (<<f>> \o s) = 1 .. Len(s) + 1
         /\ (<<f>> \o s)[1] = f
         /\ \A i \in DOMAIN s : i + 1 \in DOMAIN (<<f>> \o s) /\ (<<f>> \o s)[i + 1] = s[i]
         /\ \A i \in DOMAIN (<<f>> \o s) :
               i = 1 \/ (i - 1 \in DOMAIN s /\ (<<f>> \o s)[i] = s[i - 1])
  <1>1. /\ <<f>> \in Seq(Frame) /\ Len(<<f>>) = 1 /\ <<f>>[1] = f
    OBVIOUS
  <1>2. /\ <<f>> \o s \in Seq(Frame)
        /\ Len(<<f>> \o s) = Len(s) + 1
        /\ \A i \in 1 .. Len(s) + 1 : (<<f>> \o s)[i] = IF i <= 1 THEN <<f>>[i] ELSE s[i - 1]
    BY <1>1, ConcatProperties
  <1>3. Len(s) \in Nat /\ DOMAIN s = 1 .. Len(s) /\ DOMAIN (<<f>> \o s) = 1 .. Len(s) + 1
    BY <1>2, LenProperties
  <1>4. <<f>> \o s # <<>>
    BY <1>2, <1>3, EmptySeq
  <1> QED
    BY <1>1, <1>2, <1>3, <1>4

-----------------------------------------------------------------------------
(* A place is busy, and an object dying, when a call of the stack says     *)
(* so.                                                                     *)
LEMMA StackSets ==
  ASSUME NEW s
  PROVE  /\ \A p : p \in BusyIn(s) <=> \E i \in DOMAIN s : s[i].op # "dealloc" /\ s[i].dst = p
         /\ \A b : b \in Dying(s) <=> \E i \in DOMAIN s : s[i].op = "dealloc" /\ s[i].obj = b
  BY DEF BusyIn, Dying

(* What is busy and dying is what the innermost call says and what is      *)
(* without it.                                                             *)
LEMMA TailBusy ==
  ASSUME NEW s \in Seq(Frame), s # <<>>
  PROVE  /\ BusyIn(Tail(s)) \subseteq BusyIn(s)
         /\ s[1].op = "dealloc" => BusyIn(Tail(s)) = BusyIn(s)
         /\ s[1].op # "dealloc" => BusyIn(s) = BusyIn(Tail(s)) \cup {s[1].dst}
         /\ s[1].op # "dealloc" => Dying(Tail(s)) = Dying(s)
         /\ s[1].op = "dealloc" => Dying(s) = Dying(Tail(s)) \cup {s[1].obj}
<1> DEFINE t == Tail(s)
<1>1. /\ 1 \in DOMAIN s
      /\ \A i \in DOMAIN t : i + 1 \in DOMAIN s /\ t[i] = s[i + 1]
      /\ \A i \in DOMAIN s : i = 1 \/ (i - 1 \in DOMAIN t /\ s[i] = t[i - 1])
  BY TailIs
<1> HIDE DEF t
<1>2. \A p : p \in BusyIn(s) <=> p \in BusyIn(t) \/ (s[1].op # "dealloc" /\ s[1].dst = p)
  <2>1. ASSUME NEW p, p \in BusyIn(s)
        PROVE  p \in BusyIn(t) \/ (s[1].op # "dealloc" /\ s[1].dst = p)
    <3>1. PICK i \in DOMAIN s : s[i].op # "dealloc" /\ s[i].dst = p
      BY <2>1, StackSets
    <3> QED
      BY <3>1, <1>1, StackSets
  <2>2. ASSUME NEW p, p \in BusyIn(t) PROVE p \in BusyIn(s)
    BY <2>2, <1>1, StackSets
  <2>3. s[1].op # "dealloc" => s[1].dst \in BusyIn(s)
    BY <1>1, StackSets
  <2> QED
    BY <2>1, <2>2, <2>3
<1>3. \A b : b \in Dying(s) <=> b \in Dying(t) \/ (s[1].op = "dealloc" /\ s[1].obj = b)
  <2>1. ASSUME NEW b, b \in Dying(s)
        PROVE  b \in Dying(t) \/ (s[1].op = "dealloc" /\ s[1].obj = b)
    <3>1. PICK i \in DOMAIN s : s[i].op = "dealloc" /\ s[i].obj = b
      BY <2>1, StackSets
    <3> QED
      BY <3>1, <1>1, StackSets
  <2>2. ASSUME NEW b, b \in Dying(t) PROVE b \in Dying(s)
    BY <2>2, <1>1, StackSets
  <2>3. s[1].op = "dealloc" => s[1].obj \in Dying(s)
    BY <1>1, StackSets
  <2> QED
    BY <2>1, <2>2, <2>3
<1> QED
  BY <1>2, <1>3 DEF t

(* What one more call adds to what is busy and what is dying.              *)
LEMMA PushBusy ==
  ASSUME NEW s \in Seq(Frame), NEW f \in Frame
  PROVE  /\ f.op = "dealloc" =>
              BusyIn(<<f>> \o s) = BusyIn(s) /\ Dying(<<f>> \o s) = Dying(s) \cup {f.obj}
         /\ f.op # "dealloc" =>
              BusyIn(<<f>> \o s) = BusyIn(s) \cup {f.dst} /\ Dying(<<f>> \o s) = Dying(s)
<1>1. /\ <<f>> \o s \in Seq(Frame) /\ <<f>> \o s # <<>>
      /\ (<<f>> \o s)[1] = f
  BY PushIs
<1>2. Tail(<<f>> \o s) = s
  OBVIOUS
<1> QED
  BY <1>1, <1>2, TailBusy

(* Without calls nothing is busy or dying.                                 *)
LEMMA EmptyStack == BusyIn(<<>>) = {} /\ Dying(<<>>) = {} /\ StackOK(<<>>)
  BY DEF BusyIn, Dying, StackOK

(* When the innermost call ends the stack below it is right, and nobody    *)
(* else assigns the same pointer or destroys the same object.              *)
LEMMA StackTail ==
  ASSUME NEW s \in Seq(Frame), s # <<>>, StackOK(s)
  PROVE  /\ StackOK(Tail(s))
         /\ s[1].op = "dealloc" => s[1].obj \notin Dying(Tail(s))
         /\ s[1].op # "dealloc" => s[1].dst \notin BusyIn(Tail(s))
<1> DEFINE t == Tail(s)
<1>1. /\ t \in Seq(Frame)
      /\ Len(s) \in Nat /\ DOMAIN s = 1 .. Len(s) /\ 1 \in DOMAIN s
      /\ Len(t) = Len(s) - 1 /\ DOMAIN t = 1 .. Len(s) - 1
      /\ \A i \in DOMAIN t : i + 1 \in DOMAIN s /\ t[i] = s[i + 1]
      /\ \A i \in DOMAIN s : i = 1 \/ (i - 1 \in DOMAIN t /\ s[i] = t[i - 1])
  BY TailIs
<1>2. BusyIn(t) \subseteq BusyIn(s)
  BY TailBusy
<1> HIDE DEF t
<1>3. ASSUME NEW i \in DOMAIN t, t[i].op = "dealloc"
      PROVE  DeallocOK(i, t)
  <2>1. DeallocOK(i + 1, s) /\ t[i] = s[i + 1]
    BY <1>1, <1>3 DEF StackOK
  <2> QED
    BY <2>1, <1>1, <1>3 DEF DeallocOK
<1>4. ASSUME NEW i \in DOMAIN t, NEW p, Steady(i + 1, p, s)
      PROVE  Steady(i, p, t)
  <2>1. \A b : Held(b, s) => Held(b, t)
    BY <1>2 DEF Held
  <2>2. \A b : Waiting(i + 1, b, s) => Waiting(i, b, t)
    <3>1. SUFFICES ASSUME NEW b, Waiting(i + 1, b, s) PROVE Waiting(i, b, t)
      OBVIOUS
    <3>2. PICK j \in DOMAIN s : /\ i + 1 < j /\ s[j].op = "dealloc"
                                /\ s[j].obj = b /\ s[j].next = 1
      BY <3>1 DEF Waiting
    <3>3. j - 1 \in DOMAIN t /\ t[j - 1] = s[j] /\ i < j - 1
      BY <3>2, <1>1
    <3> QED
      BY <3>2, <3>3 DEF Waiting
  <2>3. i + 1 = Len(s) => i = Len(t)
    BY <1>1
  <2> QED
    BY <2>1, <2>2, <2>3, <1>4 DEF Steady
<1>5. ASSUME NEW i \in DOMAIN t, t[i].op # "dealloc"
      PROVE  AssignOK(i, t)
  <2>1. AssignOK(i + 1, s) /\ t[i] = s[i + 1]
    BY <1>1, <1>5 DEF StackOK
  <2>2. t[i].dst # Hand /\ Steady(i, t[i].dst, t) /\ Steady(i, t[i].src, t)
    BY <2>1, <1>4 DEF AssignOK
  <2>3. ASSUME NEW j \in DOMAIN t, i <= j, t[j].op # "dealloc"
        PROVE  t[i].src # t[j].dst /\ (t[i].dst = t[j].dst => i = j)
    <3>1. j + 1 \in DOMAIN s /\ t[j] = s[j + 1] /\ i + 1 <= j + 1 /\ (i + 1 = j + 1 => i = j)
      BY <1>1, <2>3
    <3> QED
      BY <3>1, <2>1, <2>3 DEF AssignOK
  <2> QED
    BY <2>2, <2>3 DEF AssignOK
<1>6. StackOK(t)
  BY <1>3, <1>5 DEF StackOK
<1>7. ASSUME s[1].op = "dealloc" PROVE s[1].obj \notin Dying(t)
  <2>1. DeallocOK(1, s)
    BY <1>1, <1>7 DEF StackOK
  <2>2. ASSUME NEW i \in DOMAIN t, t[i].op = "dealloc", t[i].obj = s[1].obj PROVE FALSE
    <3>1. i + 1 \in DOMAIN s /\ t[i] = s[i + 1] /\ i + 1 # 1
      BY <1>1
    <3> QED
      BY <3>1, <2>1, <2>2 DEF DeallocOK
  <2> QED
    BY <2>2, StackSets
<1>8. ASSUME s[1].op # "dealloc" PROVE s[1].dst \notin BusyIn(t)
  <2>1. AssignOK(1, s)
    BY <1>1, <1>8 DEF StackOK
  <2>2. ASSUME NEW i \in DOMAIN t, t[i].op # "dealloc", t[i].dst = s[1].dst PROVE FALSE
    <3>1. i + 1 \in DOMAIN s /\ t[i] = s[i + 1] /\ i + 1 # 1 /\ 1 <= i + 1
      BY <1>1
    <3> QED
      BY <3>1, <2>1, <2>2 DEF AssignOK
  <2> QED
    BY <2>2, StackSets
<1> QED
  BY <1>6, <1>7, <1>8 DEF t

(* A right stack stays right when a call is pushed that is right itself,   *)
(* destroys an object that is not dying or assigns what leaves the         *)
(* variables alone.                                                        *)
LEMMA Pushed ==
  ASSUME NEW s \in Seq(Frame), StackOK(s)', NEW f \in Frame,
         NEW t, t = <<f>> \o s,
         f.op = "dealloc" => f.obj \notin Dying(s) /\ DeallocOK(1, t)',
         f.op # "dealloc" => AssignOK(1, t)' /\ (s = <<>> \/ f.dst \in Block \X Nat)
  PROVE  StackOK(t)'
<1>1. /\ Len(s) \in Nat /\ DOMAIN s = 1 .. Len(s)
      /\ Len(t) = Len(s) + 1 /\ DOMAIN t = 1 .. Len(s) + 1
      /\ t[1] = f
      /\ \A i \in DOMAIN s : i + 1 \in DOMAIN t /\ t[i + 1] = s[i]
      /\ \A i \in DOMAIN t : i = 1 \/ (i - 1 \in DOMAIN s /\ t[i] = s[i - 1])
  BY PushIs
<1>2. f.op = "dealloc" => \A i \in DOMAIN s : ~(s[i].op = "dealloc" /\ s[i].obj = f.obj)
  BY StackSets
<1>3. ASSUME NEW i \in DOMAIN s, s[i].op = "dealloc"
      PROVE  DeallocOK(i + 1, t)'
  <2>1. DeallocOK(i, s)'
    BY <1>3 DEF StackOK
  <2>2. ASSUME NEW j \in DOMAIN t, t[j].op = "dealloc", t[j].obj = s[i].obj PROVE i + 1 = j
    <3>1. j # 1
      BY <1>1, <1>2, <1>3, <2>2
    <3>2. j - 1 \in DOMAIN s /\ t[j] = s[j - 1]
      BY <3>1, <1>1
    <3>3. i = j - 1
      BY <3>2, <2>1, <2>2 DEF DeallocOK
    <3> QED
      BY <3>3, <1>1
  <2>3. t[i + 1] = s[i]
    BY <1>1
  <2> QED
    BY <2>1, <2>2, <2>3 DEF DeallocOK
<1>4. ASSUME NEW i \in DOMAIN s, NEW p, Steady(i, p, s)'
      PROVE  Steady(i + 1, p, t)'
  <2>1. BusyIn(t) = BusyIn(s) \/ (f.dst \in Block \X Nat /\ BusyIn(t) = BusyIn(s) \cup {f.dst})
    <3>1. s # <<>>
      BY <1>1, <1>4
    <3> QED
      BY <3>1, PushBusy
  <2>2. \A c : Held(c, s)' => Held(c, t)'
    BY <2>1, PointersOK DEF Held, Variable
  <2>3. \A c : Waiting(i, c, s) => Waiting(i + 1, c, t)
    <3>1. SUFFICES ASSUME NEW c, Waiting(i, c, s) PROVE Waiting(i + 1, c, t)
      OBVIOUS
    <3>2. PICK j \in DOMAIN s : /\ i < j /\ s[j].op = "dealloc"
                                /\ s[j].obj = c /\ s[j].next = 1
      BY <3>1 DEF Waiting
    <3>3. j + 1 \in DOMAIN t /\ t[j + 1] = s[j] /\ i + 1 < j + 1
      BY <3>2, <1>1
    <3> QED
      BY <3>2, <3>3 DEF Waiting
  <2>4. i = Len(s) => i + 1 = Len(t)
    BY <1>1
  <2> QED
    BY <2>2, <2>3, <2>4, <1>4 DEF Steady
<1>5. ASSUME NEW i \in DOMAIN s, s[i].op # "dealloc"
      PROVE  AssignOK(i + 1, t)'
  <2>1. AssignOK(i, s)' /\ t[i + 1] = s[i]
    BY <1>1, <1>5 DEF StackOK
  <2>2. /\ t[i + 1].dst # Hand
        /\ Steady(i + 1, t[i + 1].dst, t)' /\ Steady(i + 1, t[i + 1].src, t)'
    BY <2>1, <1>4 DEF AssignOK
  <2>3. ASSUME NEW j \in DOMAIN t, i + 1 <= j, t[j].op # "dealloc"
        PROVE  s[i].src # t[j].dst /\ (s[i].dst = t[j].dst => i + 1 = j)
    <3>1. j - 1 \in DOMAIN s /\ t[j] = s[j - 1] /\ i <= j - 1 /\ (i = j - 1 => i + 1 = j)
      BY <1>1, <2>3
    <3> QED
      BY <3>1, <2>1, <2>3 DEF AssignOK
  <2> QED
    BY <2>1, <2>2, <2>3 DEF AssignOK
<1>6. ASSUME NEW i \in DOMAIN t
      PROVE  (IF t[i].op = "dealloc" THEN DeallocOK(i, t) ELSE AssignOK(i, t))'
  <2>1. CASE i = 1
    BY <2>1, <1>1
  <2>2. CASE i # 1
    <3>1. PICK k \in DOMAIN s : i = k + 1 /\ t[i] = s[k]
      BY <2>2, <1>1, <1>6
    <3> QED
      BY <3>1, <1>3, <1>5
  <2> QED
    BY <2>1, <2>2
<1> QED
  BY <1>6 DEF StackOK

(* So when the `__dealloc__` of an object that is not dying begins above   *)
(* it, or goes on above it having emptied some fields.                     *)
LEMMA PushDestroying ==
  ASSUME NEW s \in Seq(Frame), StackOK(s)',
         NEW b \in Block, NEW n \in Nat,
         InUse(b)', rc'[b] = 0, b \notin Dying(s),
         \A j \in DOMAIN field'[b] : j < n => field'[b][j] = Null
  PROVE  StackOK(<<Destroying(b, n)>> \o s)'
<1>1. PICK f : f = Destroying(b, n)
  OBVIOUS
<1>2. PICK t : t = <<f>> \o s
  OBVIOUS
<1>3. /\ f \in Frame /\ f.op = "dealloc" /\ f.obj = b /\ f.next = n
  BY <1>1, DestroyingType
<1>4. /\ t[1] = f
      /\ \A i \in DOMAIN t : i = 1 \/ (i - 1 \in DOMAIN s /\ t[i] = s[i - 1])
  BY <1>2, <1>3, PushIs
<1>5. \A i \in DOMAIN s : ~(s[i].op = "dealloc" /\ s[i].obj = b)
  BY StackSets
<1>6. \A j \in DOMAIN t : t[j].op = "dealloc" /\ t[j].obj = b => 1 = j
  BY <1>4, <1>5
<1>7. DeallocOK(1, t)'
  BY <1>3, <1>4, <1>6 DEF DeallocOK
<1>8. StackOK(t)'
  BY <1>2, <1>3, <1>7, Pushed
<1> QED
  BY <1>1, <1>2, <1>8

(* And when an assignment that dropped the old object is pushed, if its    *)
(* two pointers will stay and nobody below assigns them.                   *)
LEMMA PushAssigning ==
  ASSUME NEW s \in Seq(Frame), StackOK(s)',
         NEW op \in {"copy", "move"}, NEW dst \in Target, NEW src \in Target,
         dst # Hand, dst # src, dst \notin BusyIn(s), src \notin BusyIn(s),
         s = <<>> \/ dst \in Block \X Nat,
         Steady(1, dst, <<Assigning(op, dst, src)>> \o s)',
         Steady(1, src, <<Assigning(op, dst, src)>> \o s)'
  PROVE  StackOK(<<Assigning(op, dst, src)>> \o s)'
<1>1. PICK f : f = Assigning(op, dst, src)
  OBVIOUS
<1>2. PICK t : t = <<f>> \o s
  OBVIOUS
<1>3. f \in Frame /\ f.op # "dealloc" /\ f.dst = dst /\ f.src = src
  BY <1>1, AssigningType
<1>4. /\ t[1] = f
      /\ \A i \in DOMAIN t : i = 1 \/ (i - 1 \in DOMAIN s /\ t[i] = s[i - 1])
  BY <1>2, <1>3, PushIs
<1>5. \A i \in DOMAIN s : s[i].op # "dealloc" => s[i].dst # dst /\ s[i].dst # src
  BY StackSets
<1>6. ASSUME NEW j \in DOMAIN t, t[j].op # "dealloc"
      PROVE  src # t[j].dst /\ (dst = t[j].dst => 1 = j)
  <2>1. CASE j = 1
    BY <2>1, <1>3, <1>4
  <2>2. CASE j # 1
    BY <2>2, <1>4, <1>5, <1>6
  <2> QED
    BY <2>1, <2>2
<1>7. Steady(1, dst, t)' /\ Steady(1, src, t)'
  BY <1>1, <1>2
<1>8. AssignOK(1, t)'
  BY <1>3, <1>4, <1>6, <1>7 DEF AssignOK
<1>9. StackOK(t)'
  BY <1>2, <1>3, <1>8, Pushed
<1> QED
  BY <1>1, <1>2, <1>9

(* A stack stays right while variables and the objects its calls need      *)
(* stay as they are: those that are dying or held by a variable.           *)
LEMMA StackStays ==
  ASSUME NEW s \in Seq(Frame), StackOK(s),
         s = <<>> \/ var' = var,
         \A b \in Block : (b \in Dying(s) \/ Held(b, s)) /\ InUse(b) =>
              InUse(b)' /\ type'[b] = type[b],
         \A b \in Dying(s) : rc'[b] = 0,
         \A i \in DOMAIN s : s[i].op = "dealloc" =>
              \A j \in DOMAIN field'[s[i].obj] : j < s[i].next => field'[s[i].obj][j] = Null
  PROVE  StackOK(s)'
<1>1. \A i \in DOMAIN s : s[i] \in Frame
  BY ElementOfSeq, LenProperties
<1>2. ASSUME NEW i \in DOMAIN s, s[i].op = "dealloc"
      PROVE  DeallocOK(i, s)'
  <2>1. DeallocOK(i, s) /\ s[i].obj \in Dying(s) /\ s[i].obj \in Block
    BY <1>1, <1>2, FrameType, StackSets DEF StackOK
  <2>2. InUse(s[i].obj)' /\ rc'[s[i].obj] = 0
    BY <2>1 DEF DeallocOK
  <2> QED
    BY <1>2, <2>1, <2>2 DEF DeallocOK
<1>3. ASSUME NEW i \in DOMAIN s, NEW p, Steady(i, p, s)
      PROVE  Steady(i, p, s)'
  <2>1. var' = var
    BY <1>3
  <2>2. \A b : Held(b, s)' <=> Held(b, s)
    BY <2>1 DEF Held
  <2>3. \A b : Waiting(i, b, s) => b \in Dying(s)
    BY StackSets DEF Waiting
  <2>4. CASE p \in Variable /\ i = Len(s) /\ var[p] # Absent
    BY <2>1, <2>4 DEF Steady
  <2>5. CASE IsField(p) /\ (Held(p[1], s) \/ Waiting(i, p[1], s))
    <3>1. p[1] \in Block /\ InUse(p[1])
      BY <2>5 DEF IsField
    <3>2. InUse(p[1])' /\ type'[p[1]] = type[p[1]]
      BY <3>1, <2>3, <2>5
    <3> QED
      BY <3>2, <2>2, <2>5 DEF Steady, IsField
  <2> QED
    BY <1>3, <2>4, <2>5 DEF Steady
<1>4. ASSUME NEW i \in DOMAIN s, s[i].op # "dealloc"
      PROVE  AssignOK(i, s)'
  BY <1>3, <1>4 DEF StackOK, AssignOK
<1> QED
  BY <1>2, <1>4 DEF StackOK

-----------------------------------------------------------------------------
(* The owners of an object are the places whose pointer owns it.           *)
LEMMA OwnersAre ==
  ASSUME field \in [Block -> Seq(Object \cup {Null})]
  PROVE  \A o \in Object : Owners(o) = {p \in Target : Owner(p) = o}
<1>1. \A b \in Block : DOMAIN field[b] \subseteq Nat
  BY LenProperties
<1>2. ASSUME NEW o \in Object, NEW p, p \in Owners(o)
      PROVE  p \in Target /\ Owner(p) = o
  <2>1. CASE p \in Local \cup {Hand} /\ var[p] = o /\ p \notin Busy
    BY <2>1 DEF Owner, Value, Target, Variable
  <2>2. CASE p \in UNION {{<<b, i>> : i \in {j \in DOMAIN field[b] :
                             field[b][j] = o /\ <<b, j>> \notin Busy}} : b \in Block}
    <3>1. PICK b \in Block : p \in {<<b, i>> : i \in {j \in DOMAIN field[b] :
                               field[b][j] = o /\ <<b, j>> \notin Busy}}
      BY <2>2
    <3>2. PICK i \in DOMAIN field[b] : p = <<b, i>> /\ field[b][i] = o /\ <<b, i>> \notin Busy
      BY <3>1
    <3>3. p \in Block \X Nat /\ p[1] = b /\ p[2] = i
      BY <3>2, <1>1
    <3>4. p \notin Variable
      BY <3>3, PointersOK DEF Variable
    <3> QED
      BY <3>2, <3>3, <3>4 DEF Owner, Value, Target
  <2> QED
    BY <1>2, <2>1, <2>2 DEF Owners
<1>3. ASSUME NEW o \in Object, NEW p \in Target, Owner(p) = o
      PROVE  p \in Owners(o)
  <2>1. o # Null
    BY PointersOK DEF Object
  <2>2. p \notin Busy /\ Value(p) = o
    BY <1>3, <2>1 DEF Owner
  <2>3. CASE p \in Variable
    BY <2>2, <2>3 DEF Value, Variable, Owners
  <2>4. CASE p \notin Variable
    <3>1. p \in Block \X Nat
      BY <2>4 DEF Target
    <3>2. PICK b \in Block, i \in Nat : p = <<b, i>>
      BY <3>1
    <3>3. p[1] = b /\ p[2] = i
      BY <3>2
    <3>4. i \in DOMAIN field[b] /\ field[b][i] = o
      BY <2>1, <2>2, <2>4, <3>3 DEF Value
    <3>5. i \in {j \in DOMAIN field[b] : field[b][j] = o /\ <<b, j>> \notin Busy}
      BY <3>2, <3>4, <2>2
    <3>6. p \in {<<b, k>> : k \in {j \in DOMAIN field[b] : field[b][j] = o /\ <<b, j>> \notin Busy}}
      BY ONLY <3>2, <3>5
    <3>7. p \in UNION {{<<c, k>> : k \in {j \in DOMAIN field[c] :
                         field[c][j] = o /\ <<c, j>> \notin Busy}} : c \in Block}
      BY ONLY <3>6
    <3> QED
      BY ONLY <3>7 DEF Owners
  <2> QED
    BY <2>3, <2>4
<1> QED
  BY <1>2, <1>3

(* So they are after a step.                                               *)
LEMMA OwnersNext ==
  ASSUME field' \in [Block -> Seq(Object \cup {Null})]
  PROVE  \A o \in Object : Owners(o)' = {p \in Target : Owner(p)' = o}
<1>1. (field \in [Block -> Seq(Object \cup {Null})]
         => \A o \in Object : Owners(o) = {p \in Target : Owner(p) = o})'
  BY OwnersAre, PTL
<1> QED
  BY <1>1

(* Counts stay right when one pointer drops what it owned and that count   *)
(* goes down (Py_XDECREF), which was above 0.                              *)
LEMMA Drops ==
  ASSUME CountsRight,
         field \in [Block -> Seq(Object \cup {Null})],
         field' \in [Block -> Seq(Object \cup {Null})],
         NEW p \in Target, NEW v \in Object \cup {Null},
         Owner(p) = v, Owner(p)' \notin Object,
         \A q \in Target \ {p} : Owner(q)' = Owner(q),
         rc' = IF v = Null THEN rc ELSE [rc EXCEPT ![v] = @ - 1]
  PROVE  CountsRight' /\ (v \in Block => rc[v] > 0)
<1>1. /\ \A o \in Object : Owners(o) = {q \in Target : Owner(q) = o}
      /\ \A o \in Object : Owners(o)' = {q \in Target : Owner(q)' = o}
  BY OwnersAre, OwnersNext
<1>2. \A o \in Object \ {v} : Owners(o)' = Owners(o)
  BY ZenonT(60), <1>1
<1>3. CASE v = Null
  <2>1. v \notin Object
    BY <1>3, PointersOK DEF Object
  <2> QED
    BY ZenonT(60), <1>2, <1>3, <2>1 DEF CountsRight, Object
<1>4. CASE v \in Object
  <2>1. v # Null
    BY <1>4, PointersOK DEF Object
  <2>2. p \in Owners(v) /\ Owners(v)' = Owners(v) \ {p}
    BY <1>1, <1>4
  <2>3. /\ IsFiniteSet(Owners(v)')
        /\ Cardinality(Owners(v)') = Cardinality(Owners(v)) - 1
        /\ Cardinality(Owners(v)') \in Nat
    BY <1>4, <2>2, FS_RemoveElement, FS_CardinalityType DEF CountsRight
  <2>4. rc' = [rc EXCEPT ![v] = @ - 1]
    BY <2>1
  <2>5. rc[v] = Cardinality(Owners(v)') + 1 + (IF v = None THEN 1 ELSE 0)
    BY <1>4, <2>3, FS_CardinalityType DEF CountsRight
  <2>6. rc' \in [Object -> Nat] /\ rc'[v] = Cardinality(Owners(v)') + IF v = None THEN 1 ELSE 0
    BY <1>4, <2>3, <2>4, <2>5 DEF CountsRight
  <2>7. \A o \in Object \ {v} : rc'[o] = rc[o]
    BY <1>4, <2>4 DEF CountsRight
  <2>8. CountsRight'
    BY <1>2, <1>4, <2>3, <2>6, <2>7 DEF CountsRight, Object
  <2> QED
    BY <2>3, <2>5, <2>8
<1> QED
  BY <1>3, <1>4

(* Counts stay right when one pointer that owned nothing takes a           *)
(* reference and that count goes up (Py_XINCREF).                          *)
LEMMA Takes ==
  ASSUME CountsRight,
         field \in [Block -> Seq(Object \cup {Null})],
         field' \in [Block -> Seq(Object \cup {Null})],
         NEW p \in Target, NEW v \in Object \cup {Null},
         Owner(p) \notin Object, Owner(p)' = v,
         \A q \in Target \ {p} : Owner(q)' = Owner(q),
         rc' = IF v = Null THEN rc ELSE [rc EXCEPT ![v] = @ + 1]
  PROVE  CountsRight'
<1>1. /\ \A o \in Object : Owners(o) = {q \in Target : Owner(q) = o}
      /\ \A o \in Object : Owners(o)' = {q \in Target : Owner(q)' = o}
  BY OwnersAre, OwnersNext
<1>2. \A o \in Object \ {v} : Owners(o)' = Owners(o)
  BY <1>1
<1>3. CASE v = Null
  <2>1. v \notin Object
    BY <1>3, PointersOK DEF Object
  <2> QED
    BY ZenonT(60), <1>2, <1>3, <2>1 DEF CountsRight, Object
<1>4. CASE v \in Object
  <2>1. v # Null
    BY <1>4, PointersOK DEF Object
  <2>2. p \notin Owners(v) /\ Owners(v)' = Owners(v) \cup {p}
    BY <1>1, <1>4
  <2>3. /\ IsFiniteSet(Owners(v)')
        /\ Cardinality(Owners(v)') = Cardinality(Owners(v)) + 1
        /\ Cardinality(Owners(v)) \in Nat
    BY <1>4, <2>2, FS_AddElement, FS_CardinalityType DEF CountsRight
  <2>4. rc' = [rc EXCEPT ![v] = @ + 1]
    BY <2>1
  <2>5. rc' \in [Object -> Nat] /\ rc'[v] = Cardinality(Owners(v)') + IF v = None THEN 1 ELSE 0
    BY <1>4, <2>3, <2>4 DEF CountsRight
  <2>6. \A o \in Object \ {v} : rc'[o] = rc[o]
    BY <1>4, <2>4 DEF CountsRight
  <2> QED
    BY <1>2, <1>4, <2>3, <2>5, <2>6 DEF CountsRight, Object
<1> QED
  BY <1>3, <1>4

(* Counts stay right when a reference goes from one pointer to another     *)
(* and no count changes (Steal).                                           *)
LEMMA Moves ==
  ASSUME CountsRight,
         field \in [Block -> Seq(Object \cup {Null})],
         field' \in [Block -> Seq(Object \cup {Null})],
         NEW p \in Target, NEW q \in Target, p # q, NEW v \in Object \cup {Null},
         Owner(p) = v, Owner(p)' \notin Object,
         Owner(q) \notin Object, Owner(q)' = v,
         \A r \in Target \ {p, q} : Owner(r)' = Owner(r),
         rc' = rc
  PROVE  CountsRight'
<1>1. /\ \A o \in Object : Owners(o) = {r \in Target : Owner(r) = o}
      /\ \A o \in Object : Owners(o)' = {r \in Target : Owner(r)' = o}
  BY OwnersAre, OwnersNext
<1>2. \A o \in Object \ {v} : Owners(o)' = Owners(o)
  BY <1>1
<1>3. CASE v = Null
  <2>1. v \notin Object
    BY <1>3, PointersOK DEF Object
  <2> QED
    BY <1>2, <2>1 DEF CountsRight, Object
<1>4. CASE v \in Object
  <2>1. /\ p \in Owners(v) /\ q \notin Owners(v) \ {p}
        /\ Owners(v)' = (Owners(v) \ {p}) \cup {q}
    BY <1>1, <1>4
  <2>2. /\ IsFiniteSet(Owners(v) \ {p})
        /\ Cardinality(Owners(v) \ {p}) = Cardinality(Owners(v)) - 1
    BY <1>4, <2>1, FS_RemoveElement DEF CountsRight
  <2> DEFINE rest == Owners(v) \ {p}
  <2> HIDE DEF rest
  <2>3. /\ IsFiniteSet(Owners(v)')
        /\ Cardinality(Owners(v)') = Cardinality(Owners(v) \ {p}) + 1
    <3>1. IsFiniteSet(rest) /\ q \notin rest
      BY <2>1, <2>2 DEF rest
    <3>2. IsFiniteSet(rest \cup {q}) /\ Cardinality(rest \cup {q}) = Cardinality(rest) + 1
      BY ONLY <3>1, FS_AddElement
    <3> QED
      BY <2>1, <3>2 DEF rest
  <2>4. Cardinality(Owners(v)') = Cardinality(Owners(v))
    BY <1>4, <2>2, <2>3, FS_CardinalityType DEF CountsRight
  <2> QED
    BY <1>2, <1>4, <2>3, <2>4 DEF CountsRight, Object
<1> QED
  BY <1>3, <1>4

(* Counts stay right when nobody owns anything else than before.           *)
LEMMA Keeps ==
  ASSUME CountsRight,
         field \in [Block -> Seq(Object \cup {Null})],
         field' \in [Block -> Seq(Object \cup {Null})],
         \A q \in Target : Owner(q)' = Owner(q),
         rc' = rc
  PROVE  CountsRight'
<1>1. /\ \A o \in Object : Owners(o) = {r \in Target : Owner(r) = o}
      /\ \A o \in Object : Owners(o)' = {r \in Target : Owner(r)' = o}
  BY OwnersAre, OwnersNext
<1>2. \A o \in Object : Owners(o)' = Owners(o)
  BY <1>1
<1>3. rc' \in [Object -> Nat]
  BY DEF CountsRight
<1>4. ASSUME NEW o \in Object
      PROVE  /\ IsFiniteSet(Owners(o)')
             /\ rc'[o] = Cardinality(Owners(o)') + IF o = None THEN 1 ELSE 0
  BY <1>2 DEF CountsRight
<1> QED
  BY <1>3, <1>4 DEF CountsRight, Object

-----------------------------------------------------------------------------
(* The function that stores one pointer.                                   *)
LEMMA OnlyIs ==
  ASSUME NEW p, NEW v
  PROVE  DOMAIN Only(p, v) = {p} /\ Only(p, v)[p] = v
  BY DEF Only

(* Storing values that the places may hold changes those places only, and  *)
(* leaves blocks and variables right.                                      *)
LEMMA Stores ==
  ASSUME BlocksOK, VarsOK, UNCHANGED <<type, room, list>>,
         NEW f, Store(f), \A p \in DOMAIN f : MayHold(p, f[p])
  PROVE  /\ BlocksOK' /\ VarsOK'
         /\ \A q \in Target : Value(q)' = IF q \in DOMAIN f THEN f[q] ELSE Value(q)
         /\ \A b \in Block : DOMAIN field'[b] = DOMAIN field[b]
         /\ \A b \in Block : \A i \in DOMAIN field[b] :
               field'[b][i] = IF <<b, i>> \in DOMAIN f THEN f[<<b, i>>] ELSE field[b][i]
         /\ DOMAIN f \subseteq Block \X Nat => var' = var
<1>1. /\ field \in [Block -> Seq(Object \cup {Null})]
      /\ var \in [Variable -> Object \cup {Null, Absent}]
  BY DEF BlocksOK, VarsOK
<1>2. /\ var' = [p \in Variable |-> IF p \in DOMAIN f THEN f[p] ELSE var[p]]
      /\ field' = [b \in Block |-> [i \in DOMAIN field[b] |->
                    IF <<b, i>> \in DOMAIN f THEN f[<<b, i>>] ELSE field[b][i]]]
  BY DEF Store, Variable
<1>3. \A b \in Block :
        /\ Len(field[b]) \in Nat /\ DOMAIN field[b] = 1 .. Len(field[b])
        /\ \A i \in DOMAIN field[b] : field[b][i] \in Object \cup {Null}
  BY <1>1, LenProperties
<1>4. \A p \in Variable : p \notin Block \X Nat
  BY PointersOK DEF Variable
<1>5. ASSUME NEW b \in Block
      PROVE  /\ DOMAIN field'[b] = DOMAIN field[b]
             /\ \A i \in DOMAIN field[b] :
                  /\ field'[b][i] = IF <<b, i>> \in DOMAIN f THEN f[<<b, i>>] ELSE field[b][i]
                  /\ field'[b][i] \in Object \cup {Null}
                  /\ field'[b][i] # Null => InUse(b) /\ i <= Fields[type[b]]
             /\ field'[b] \in Seq(Object \cup {Null})
             /\ Len(field'[b]) = Len(field[b])
  <2>1. field'[b] = [i \in DOMAIN field[b] |->
                    IF <<b, i>> \in DOMAIN f THEN f[<<b, i>>] ELSE field[b][i]]
    BY <1>2
  <2>2. ASSUME NEW i \in DOMAIN field[b]
        PROVE  /\ field'[b][i] = IF <<b, i>> \in DOMAIN f THEN f[<<b, i>>] ELSE field[b][i]
               /\ field'[b][i] \in Object \cup {Null}
               /\ field'[b][i] # Null => InUse(b) /\ i <= Fields[type[b]]
    <3>1. field'[b][i] = IF <<b, i>> \in DOMAIN f THEN f[<<b, i>>] ELSE field[b][i]
      BY <2>1
    <3>2. CASE <<b, i>> \in DOMAIN f
      <4>1. MayHold(<<b, i>>, f[<<b, i>>]) /\ <<b, i>> \notin Variable
        BY <3>2, <1>3, <1>4
      <4>2. <<b, i>>[1] = b /\ <<b, i>>[2] = i
        OBVIOUS
      <4> QED
        BY <3>1, <3>2, <4>1, <4>2 DEF MayHold
    <3>3. CASE <<b, i>> \notin DOMAIN f
      BY <3>1, <3>3, <1>3 DEF BlocksOK
    <3> QED
      BY <3>1, <3>2, <3>3
  <2>3. field'[b] \in [1 .. Len(field[b]) -> Object \cup {Null}]
    BY <2>1, <2>2, <1>3
  <2>4. field'[b] \in Seq(Object \cup {Null})
    BY <2>3, <1>3
  <2>5. Len(field'[b]) = Len(field[b])
    BY <2>3, <2>4, <1>3, LenProperties
  <2> QED
    BY <2>1, <2>2, <2>4, <2>5
<1>6. field' \in [Block -> Seq(Object \cup {Null})]
  BY <1>2, <1>5
<1>7. \A b \in Block : InUse(b)' <=> InUse(b)
  BY DEF InUse, Pooled
<1>8. ListsOK' <=> ListsOK
  BY DEF ListsOK
<1>9. BlocksOK'
  <2>1. \A b \in Block : type'[b] # Null =>
            room'[b] >= Size[type'[b]] /\ Len(field'[b]) >= Fields[type'[b]]
    BY <1>5 DEF BlocksOK
  <2>2. \A b \in Block : \A i \in DOMAIN field'[b] :
            field'[b][i] # Null => InUse(b)' /\ i <= Fields[type'[b]]
    BY <1>5, <1>7
  <2> QED
    BY <1>6, <1>8, <2>1, <2>2 DEF BlocksOK
<1>10. VarsOK'
  <2>1. \A p \in Variable : p \in DOMAIN f => f[p] \in Object \cup {Null, Absent}
                                  /\ (p = Hand => f[p] # Absent)
    BY <1>4 DEF MayHold
  <2>2. Hand \in Variable
    BY DEF Variable
  <2> QED
    BY <1>1, <1>2, <2>1, <2>2 DEF VarsOK
<1>11. ASSUME NEW q \in Target
       PROVE  Value(q)' = IF q \in DOMAIN f THEN f[q] ELSE Value(q)
  <2>1. CASE q \in Variable
    BY <2>1, <1>2 DEF Value
  <2>2. CASE q \notin Variable
    <3>1. PICK b \in Block, i \in Nat : q = <<b, i>>
      BY <2>2 DEF Target
    <3>2. q[1] = b /\ q[2] = i
      BY <3>1
    <3>3. CASE i \in DOMAIN field[b]
      BY <3>1, <3>2, <3>3, <2>2, <1>5 DEF Value
    <3>4. CASE i \notin DOMAIN field[b]
      <4>1. q \notin DOMAIN f
        BY <3>2, <3>4, <2>2 DEF MayHold
      <4> QED
        BY <4>1, <3>2, <3>4, <2>2, <1>5 DEF Value
    <3> QED
      BY <3>3, <3>4
  <2> QED
    BY <2>1, <2>2
<1>12. DOMAIN f \subseteq Block \X Nat => var' = var
  BY <1>1, <1>2, <1>4
<1> QED
  BY <1>5, <1>9, <1>10, <1>11, <1>12

(* Storing one pointer (`_var = ...`).                                     *)
LEMMA StoresOne ==
  ASSUME BlocksOK, VarsOK, UNCHANGED <<type, room, list>>,
         NEW p \in Target, NEW v, MayHold(p, v), Store(Only(p, v))
  PROVE  /\ BlocksOK' /\ VarsOK'
         /\ Value(p)' = v
         /\ \A q \in Target \ {p} : Value(q)' = Value(q)
         /\ \A b \in Block : DOMAIN field'[b] = DOMAIN field[b]
         /\ \A b \in Block : \A i \in DOMAIN field[b] :
               field'[b][i] = IF <<b, i>> = p THEN v ELSE field[b][i]
         /\ p \in Block \X Nat => var' = var
<1> DEFINE f == Only(p, v)
<1>1. DOMAIN f = {p} /\ f[p] = v
  BY OnlyIs
<1>2. Store(f)
  OBVIOUS
<1> HIDE DEF f
<1>3. \A q \in DOMAIN f : MayHold(q, f[q])
  BY <1>1
<1>4. /\ BlocksOK' /\ VarsOK'
      /\ \A q \in Target : Value(q)' = IF q \in DOMAIN f THEN f[q] ELSE Value(q)
      /\ \A b \in Block : DOMAIN field'[b] = DOMAIN field[b]
      /\ \A b \in Block : \A i \in DOMAIN field[b] :
            field'[b][i] = IF <<b, i>> \in DOMAIN f THEN f[<<b, i>>] ELSE field[b][i]
      /\ DOMAIN f \subseteq Block \X Nat => var' = var
  BY <1>2, <1>3, Stores
<1> QED
  BY <1>1, <1>4

(* Storing two at once (a reference that moves).                           *)
LEMMA StoresTwo ==
  ASSUME BlocksOK, VarsOK, UNCHANGED <<type, room, list>>,
         NEW p \in Target, NEW v, NEW q \in Target, NEW w, p # q,
         MayHold(p, v), MayHold(q, w), Store(Both(p, v, q, w))
  PROVE  /\ BlocksOK' /\ VarsOK'
         /\ Value(p)' = v /\ Value(q)' = w
         /\ \A r \in Target \ {p, q} : Value(r)' = Value(r)
         /\ \A b \in Block : DOMAIN field'[b] = DOMAIN field[b]
         /\ \A b \in Block : \A i \in DOMAIN field[b] :
               field'[b][i] = IF <<b, i>> = p THEN v ELSE IF <<b, i>> = q THEN w ELSE field[b][i]
         /\ p \in Block \X Nat /\ q \in Block \X Nat => var' = var
<1> DEFINE f == Both(p, v, q, w)
<1>1. DOMAIN f = {p, q} /\ f[p] = v /\ f[q] = w
  BY DEF Both
<1>2. Store(f)
  OBVIOUS
<1> HIDE DEF f
<1>3. \A r \in DOMAIN f : MayHold(r, f[r])
  BY <1>1
<1>4. /\ BlocksOK' /\ VarsOK'
      /\ \A r \in Target : Value(r)' = IF r \in DOMAIN f THEN f[r] ELSE Value(r)
      /\ \A b \in Block : DOMAIN field'[b] = DOMAIN field[b]
      /\ \A b \in Block : \A i \in DOMAIN field[b] :
            field'[b][i] = IF <<b, i>> \in DOMAIN f THEN f[<<b, i>>] ELSE field[b][i]
      /\ DOMAIN f \subseteq Block \X Nat => var' = var
  BY <1>2, <1>3, Stores
<1> QED
  BY <1>1, <1>4

-----------------------------------------------------------------------------
(* Busy is what the stack of the program makes busy.                       *)
LEMMA BusyIs == Busy = BusyIn(frames)
  BY DEF Busy, BusyIn

(* A field of an object in use is a place in its block that may hold any   *)
(* object.                                                                 *)
LEMMA FieldIs ==
  ASSUME BlocksOK, NEW p, IsField(p)
  PROVE  /\ p \in Target /\ p \notin Variable
         /\ p[1] \in Block /\ InUse(p[1]) /\ p = <<p[1], p[2]>>
         /\ p[2] \in DOMAIN field[p[1]] /\ p[2] \in Nat
         /\ Value(p) = field[p[1]][p[2]] /\ Val(p) = Value(p)
         /\ Value(p) \in Object \cup {Null}
         /\ \A v \in Object \cup {Null} : MayHold(p, v)
<1>1. p \in Block \X Nat /\ p[1] \in Block /\ p[2] \in Nat /\ InUse(p[1])
  BY DEF IsField
<1>2. p \in Target /\ p \notin Variable /\ p = <<p[1], p[2]>>
  BY <1>1, PointersOK DEF Target, Variable
<1>3. /\ type[p[1]] \in Class /\ Fields[type[p[1]]] \in Nat
      /\ Len(field[p[1]]) >= Fields[type[p[1]]]
  BY <1>1, SizesOK DEF BlocksOK, InUse
<1>4. /\ Len(field[p[1]]) \in Nat /\ DOMAIN field[p[1]] = 1 .. Len(field[p[1]])
      /\ \A i \in DOMAIN field[p[1]] : field[p[1]][i] \in Object \cup {Null}
  BY <1>1, LenProperties DEF BlocksOK
<1>5. p[2] \in DOMAIN field[p[1]] /\ p[2] <= Fields[type[p[1]]]
  BY <1>3, <1>4 DEF IsField
<1>6. Value(p) = field[p[1]][p[2]] /\ Val(p) = Value(p) /\ Value(p) \in Object \cup {Null}
  BY <1>2, <1>4, <1>5 DEF Value, Val, Variable
<1>7. \A v \in Object \cup {Null} : MayHold(p, v)
  BY <1>1, <1>5 DEF MayHold
<1> QED
  BY <1>1, <1>2, <1>5, <1>6, <1>7

(* A variable is a place that may hold any object.                         *)
LEMMA VariableIs ==
  ASSUME VarsOK, NEW p \in Variable
  PROVE  /\ p \in Target /\ p \notin Block \X Nat
         /\ Value(p) = var[p] /\ Val(p) = Value(p)
         /\ Value(p) \in Object \cup {Null, Absent}
         /\ \A v \in Object \cup {Null} : MayHold(p, v)
  BY PointersOK DEF VarsOK, Target, Variable, Value, Val, MayHold, Object

(* Null and Absent are no objects, and the raw pointer is no PyPtr.        *)
LEMMA NoObject == Null \notin Object /\ Absent \notin Object /\ Null # Absent /\ Hand \notin Local
  BY PointersOK DEF Object

(* What a pointer owns has a count above 0.                                *)
LEMMA OwnedCounts ==
  ASSUME BlocksOK, CountsRight, NEW p \in Target, NEW b \in Block, Owner(p) = b
  PROVE  rc[b] > 0
<1>1. b \in Object /\ b # None
  BY PointersOK DEF Object
<1>2. p \in Owners(b) /\ IsFiniteSet(Owners(b)) /\ rc[b] = Cardinality(Owners(b)) + 0
  BY <1>1, OwnersAre DEF BlocksOK, CountsRight
<1>3. Cardinality(Owners(b)) # 0 /\ Cardinality(Owners(b)) \in Nat
  BY <1>2, FS_EmptySet, FS_CardinalityType
<1> QED
  BY <1>2, <1>3

(* So has what a variable holds that nobody assigns.                       *)
LEMMA HeldCounts ==
  ASSUME BlocksOK, VarsOK, CountsRight, NEW b \in Block, Held(b, frames)
  PROVE  rc[b] > 0
<1>1. PICK l \in Variable \ BusyIn(frames) : var[l] = b
  BY DEF Held
<1>2. Owner(l) = b /\ l \in Target
  BY <1>1, BusyIs, VariableIs DEF Owner
<1> QED
  BY <1>2, OwnedCounts

(* An object that is being destroyed is still there, and its count is 0.   *)
LEMMA DyingIs ==
  ASSUME frames \in Seq(Frame), StackOK(frames), NEW b \in Dying(frames)
  PROVE  b \in Block /\ InUse(b) /\ rc[b] = 0
<1>1. PICK i \in DOMAIN frames : frames[i].op = "dealloc" /\ frames[i].obj = b
  BY StackSets
<1>2. frames[i] \in Frame
  BY <1>1, ElementOfSeq, LenProperties
<1> QED
  BY <1>1, <1>2, FrameType DEF StackOK, DeallocOK

(* A pointer that stays until a call ends is a place that may hold any     *)
(* object.                                                                 *)
LEMMA SteadyIs ==
  ASSUME BlocksOK, VarsOK, NEW s, NEW i, NEW p, Steady(i, p, s)
  PROVE  /\ p \in Target
         /\ Val(p) = Value(p) /\ Value(p) \in Object \cup {Null}
         /\ \A v \in Object \cup {Null} : MayHold(p, v)
<1>1. CASE IsField(p)
  BY <1>1, FieldIs
<1>2. CASE p \in Variable /\ var[p] # Absent
  BY <1>2, VariableIs
<1> QED
  BY <1>1, <1>2 DEF Steady

(* Nobody assigns to a field of the object whose `__dealloc__` runs: a     *)
(* variable would hold it, or another of its `__dealloc__`s wait.          *)
LEMMA NotAssigned ==
  ASSUME Owned, frames # <<>>, frames[1].op = "dealloc",
         NEW p, IsField(p), p[1] = frames[1].obj
  PROVE  p \notin Busy
<1>1. /\ 1 \in DOMAIN frames /\ frames[1] \in Frame
      /\ DOMAIN frames = 1 .. Len(frames) /\ Len(frames) \in Nat
  BY TailIs DEF Owned
<1>2. DeallocOK(1, frames) /\ p[1] \in Block /\ rc[p[1]] = 0
  BY <1>1, FrameType DEF Owned, StackOK, DeallocOK
<1>3. SUFFICES ASSUME p \in Busy PROVE FALSE
  OBVIOUS
<1>4. PICK j \in DOMAIN frames : frames[j].op # "dealloc" /\ frames[j].dst = p
  BY <1>3, BusyIs, StackSets
<1>5. Steady(j, p, frames)
  BY <1>4 DEF Owned, StackOK, AssignOK
<1>6. CASE Held(p[1], frames)
  BY <1>6, <1>2, HeldCounts DEF Owned
<1>7. CASE Waiting(j, p[1], frames)
  <2>1. PICK k \in DOMAIN frames : j < k /\ frames[k].op = "dealloc" /\ frames[k].obj = p[1]
    BY <1>7 DEF Waiting
  <2>2. k = 1
    BY <2>1, <1>1, <1>2 DEF DeallocOK
  <2> QED
    BY <2>1, <2>2, <1>1
<1> QED
  BY <1>5, <1>6, <1>7, FieldIs DEF Steady, Owned

(* The pointers that an operation may use are places that nobody assigns.  *)
(* In a destructor they are fields, of objects that stay.                  *)
LEMMA UsableIs ==
  ASSUME Owned, NEW p, NEW dst, Usable(p, dst)
  PROVE  /\ p \in Target /\ p # Hand /\ p \notin Busy
         /\ Val(p) = Value(p) /\ Value(p) \in Object \cup {Null}
         /\ \A v \in Object \cup {Null} : MayHold(p, v)
         /\ InFunction \/ InDestructor
         /\ \/ InFunction /\ p \in Local /\ var[p] # Absent
            \/ /\ IsField(p)
               /\ \/ \E l \in Variable \ (Busy \cup {dst}) : var[l] = p[1]
                  \/ InDestructor /\ p[1] = Head(frames).obj
<1> USE DEF Owned
<1>1. CASE InFunction /\ Constructed(p)
  <2>1. p \in Variable /\ p \in Local /\ var[p] # Absent /\ Busy = {}
    BY <1>1 DEF Variable, Constructed, InFunction, Busy
  <2>2. p # Hand
    BY <2>1, NoObject
  <2> QED
    BY <1>1, <2>1, <2>2, VariableIs
<1>2. CASE (InFunction \/ InDestructor) /\ p \notin Busy /\ Reaches(p, dst)
  <2>1. PICK b \in Block : InUse(b) /\ p \in FieldsOf(b)
    BY <1>2 DEF Reaches
  <2>2. IsField(p)
    <3>1. PICK k \in 1 .. Fields[type[b]] : p = <<b, k>>
      BY <2>1 DEF FieldsOf
    <3>2. type[b] \in Class /\ Fields[type[b]] \in Nat
      BY <2>1, SizesOK DEF InUse, BlocksOK
    <3> QED
      BY <2>1, <3>1, <3>2 DEF IsField
  <2>3. p \notin Variable /\ p # Hand
    BY <2>2, FieldIs DEF Variable
  <2>4. \E l \in Variable \ (Busy \cup {dst}) : var[l] = p[1]
    BY <1>2 DEF Reaches, Variable
  <2> QED
    BY <1>2, <2>2, <2>3, <2>4, FieldIs
<1>3. CASE InDestructor /\ p # dst /\ p \in FieldsOf(Head(frames).obj)
  <2> DEFINE b == Head(frames).obj
  <2>1. /\ 1 \in DOMAIN frames /\ Head(frames) = frames[1] /\ frames[1].op = "dealloc"
        /\ frames[1] \in Frame /\ DOMAIN frames = 1 .. Len(frames) /\ Len(frames) \in Nat
    BY <1>3, TailIs DEF InDestructor
  <2>2. DeallocOK(1, frames) /\ b \in Block /\ InUse(b) /\ rc[b] = 0
    BY <2>1, FrameType DEF StackOK, DeallocOK
  <2>3. IsField(p) /\ p[1] = b
    <3>1. PICK k \in 1 .. Fields[type[b]] : p = <<b, k>>
      BY <1>3 DEF FieldsOf
    <3>2. type[b] \in Class /\ Fields[type[b]] \in Nat
      BY <2>2, SizesOK DEF InUse, BlocksOK
    <3> QED
      BY <2>2, <3>1, <3>2 DEF IsField
  <2>4. p \notin Variable /\ p # Hand
    BY <2>3, FieldIs DEF Variable
  <2>5. p \notin Busy
    BY <1>3, <2>1, <2>3, NotAssigned DEF InDestructor
  <2> QED
    BY <1>3, <2>3, <2>4, <2>5, FieldIs
<1> QED
  BY <1>1, <1>2, <1>3 DEF Usable

-----------------------------------------------------------------------------
(* One lemma for all that drops a reference: p gives up v, and the calls   *)
(* t go on, below the `__dealloc__` of v if that was the last reference.   *)
LEMMA Decrefs ==
  ASSUME Owned, NEW p \in Target, NEW v \in Object \cup {Null}, NEW t \in Seq(Frame),
         Owner(p) = v, Decref(v, t),
         UNCHANGED <<type, room, list>>, BlocksOK', VarsOK',
         p \in BusyIn(t) \/ Value(p)' \notin Object,
         \A q \in Target \ {p} : Value(q)' = Value(q),
         BusyIn(t) \cup {p} = Busy \cup {p},
         Dying(t) = Dying(frames),
         (\A b \in Dying(frames) : rc'[b] = 0) => StackOK(t)'
  PROVE  Owned'
<1> USE DEF Owned
<1>1. /\ rc' = IF v = Null THEN rc ELSE [rc EXCEPT ![v] = @ - 1]
      /\ frames' = IF v \in Block /\ rc[v] = 1 THEN <<Destroying(v, 0)>> \o t ELSE t
  BY DEF Decref
<1>2. Busy' = BusyIn(t)
  <2>1. Busy' = BusyIn(frames')
    BY DEF Busy, BusyIn
  <2>2. v \in Block => BusyIn(<<Destroying(v, 0)>> \o t) = BusyIn(t)
    BY DestroyingType, PushBusy
  <2> QED
    BY <1>1, <2>1, <2>2
<1>3. /\ Owner(p)' \notin Object
      /\ \A q \in Target \ {p} : Owner(q)' = Owner(q)
  <2>1. Owner(p)' \notin Object
    BY <1>2, NoObject DEF Owner
  <2>2. ASSUME NEW q \in Target \ {p} PROVE Owner(q)' = Owner(q)
    <3>1. q \in Busy' <=> q \in Busy
      BY <1>2
    <3> QED
      BY <3>1 DEF Owner
  <2> QED
    BY <2>1, <2>2
<1>4. CountsRight' /\ (v \in Block => rc[v] > 0)
  <2>1. /\ field \in [Block -> Seq(Object \cup {Null})]
        /\ field' \in [Block -> Seq(Object \cup {Null})]
    BY DEF BlocksOK
  <2> QED
    BY <1>1, <1>3, <2>1, Drops
<1>5. /\ \A b \in Block : InUse(b)' <=> InUse(b)
      /\ \A b \in Block : rc[b] \in Nat /\ rc'[b] = IF b = v THEN rc[b] - 1 ELSE rc[b]
  <2>1. \A b \in Block : InUse(b)' <=> InUse(b)
    BY DEF InUse, Pooled
  <2>2. \A b \in Block : b \in Object /\ b # Null
    BY NoObject DEF Object
  <2> QED
    BY <1>1, <2>1, <2>2 DEF CountsRight
<1>6. OwnedIsUsed'
  <2>1. \A b \in Block : rc'[b] > 0 => rc[b] > 0
    BY <1>4, <1>5
  <2> QED
    BY <2>1, <1>5 DEF OwnedIsUsed
<1>7. \A b \in Dying(frames) : b \in Block /\ InUse(b) /\ rc[b] = 0 /\ b # v /\ rc'[b] = 0
  BY <1>4, <1>5, DyingIs
<1>8. StackOK(t)'
  BY <1>7
<1>9. CASE v \in Block /\ rc[v] = 1
  <2>1. frames' = <<Destroying(v, 0)>> \o t
    BY <1>1, <1>9
  <2>2. InUse(v)' /\ rc'[v] = 0 /\ v \notin Dying(t)
    BY <1>5, <1>7, <1>9 DEF OwnedIsUsed
  <2>3. \A j \in DOMAIN field'[v] : j < 0 => field'[v][j] = Null
    BY <1>9, LenProperties DEF BlocksOK
  <2>4. StackOK(<<Destroying(v, 0)>> \o t)'
    BY <1>8, <1>9, <2>2, <2>3, PushDestroying
  <2>5. frames' \in Seq(Frame) /\ Dying(frames') = Dying(t) \cup {v}
    <3> DEFINE f == Destroying(v, 0)
    <3>1. f \in Frame /\ f.op = "dealloc" /\ f.obj = v
      BY <1>9, DestroyingType
    <3> HIDE DEF f
    <3>2. <<f>> \o t \in Seq(Frame) /\ Dying(<<f>> \o t) = Dying(t) \cup {v}
      BY <3>1, PushIs, PushBusy
    <3> QED
      BY <2>1, <3>2 DEF f
  <2>6. AllDying'
    <3>1. SUFFICES ASSUME NEW b \in Block, InUse(b)', rc'[b] = 0 PROVE b \in Dying(frames')
      BY DEF AllDying
    <3>2. CASE b = v
      BY <3>2, <2>5
    <3>3. CASE b # v
      BY <3>1, <3>3, <2>5, <1>5 DEF AllDying
    <3> QED
      BY <3>2, <3>3
  <2>7. StackOK(frames)'
    BY SMTT(30), <2>1, <2>4 DEF StackOK, DeallocOK, AssignOK
  <2> QED
    BY <1>4, <1>6, <2>5, <2>6, <2>7
<1>10. CASE ~(v \in Block /\ rc[v] = 1)
  <2>1. frames' = t
    BY <1>1, <1>10
  <2>2. StackOK(frames)'
    BY <2>1, <1>8 DEF StackOK, DeallocOK, AssignOK
  <2>3. AllDying'
    <3>1. SUFFICES ASSUME NEW b \in Block, InUse(b)', rc'[b] = 0 PROVE b \in Dying(frames')
      BY DEF AllDying
    <3>2. b # v
      BY <3>1, <1>4, <1>5, <1>10
    <3> QED
      BY <3>1, <3>2, <2>1, <1>5 DEF AllDying
  <2> QED
    BY <1>4, <1>6, <2>1, <2>2, <2>3
<1> QED
  BY <1>9, <1>10

(* A function that drops nothing leaves the rest of the invariant alone    *)
(* when it keeps blocks, variables and counts right.                       *)
LEMMA FunctionKeeps ==
  ASSUME Owned, InFunction, frames' = frames, UNCHANGED <<type, room, list>>,
         BlocksOK', VarsOK', CountsRight',
         \A b \in Block : rc'[b] >= rc[b] /\ (rc'[b] > 0 => rc[b] > 0)
  PROVE  Owned'
<1>1. \A b \in Block : InUse(b)' <=> InUse(b)
  BY DEF InUse, Pooled
<1>2. OwnedIsUsed'
  BY <1>1 DEF OwnedIsUsed, Owned
<1>3. frames = <<>>
  BY DEF InFunction
<1>4. StackOK(frames)' /\ Dying(frames') = {}
  BY <1>3, EmptyStack DEF StackOK
<1>5. AllDying'
  <2>1. SUFFICES ASSUME NEW b \in Block, InUse(b)', rc'[b] = 0 PROVE FALSE
    BY DEF AllDying
  <2>2. rc[b] = 0
    <3>1. rc[b] \in Nat
      BY DEF Owned, CountsRight, Object
    <3> QED
      BY <2>1, <3>1
  <2> QED
    BY <1>1, <1>3, <2>1, <2>2, EmptyStack DEF Owned, AllDying
<1> QED
  BY <1>2, <1>4, <1>5 DEF Owned

-----------------------------------------------------------------------------
(* In a function that called nothing no pointer is half assigned.          *)
LEMMA NoneBusy ==
  ASSUME InFunction
  PROVE  Busy = {} /\ \A p : Owner(p) = Value(p)
  BY DEF InFunction, Busy, Owner

(* _PyPtr() keeps the invariant: None gets one more owner.                 *)
LEMMA ConstructKeeps ==
  ASSUME Owned, NEW l \in Local, Construct(l)
  PROVE  Owned'
<1>1. /\ InFunction /\ var[l] = Absent /\ Store(Only(l, None)) /\ frames' = frames
      /\ UNCHANGED <<type, room, list>> /\ BlocksOK /\ VarsOK /\ CountsRight
      /\ rc' = [rc EXCEPT ![None] = @ + 1]
  BY PointersOK DEF Construct, Incref, Owned
<1>2. l \in Variable /\ l \in Target /\ None \in Object /\ None # Null /\ MayHold(l, None)
  BY <1>1, VariableIs, NoObject DEF Variable, Object
<1>3. /\ BlocksOK' /\ VarsOK' /\ Value(l)' = None
      /\ \A q \in Target \ {l} : Value(q)' = Value(q)
  BY <1>1, <1>2, StoresOne
<1>4. /\ \A p : Owner(p) = Value(p)
      /\ \A p : Owner(p)' = Value(p)'
  BY <1>1, NoneBusy DEF InFunction, Busy, Owner
<1>5. Owner(l) \notin Object /\ Owner(l)' = None
  BY <1>1, <1>2, <1>3, <1>4, VariableIs, NoObject
<1>6. CountsRight'
  <2>1. /\ field \in [Block -> Seq(Object \cup {Null})]
        /\ field' \in [Block -> Seq(Object \cup {Null})]
    BY <1>1, <1>3 DEF BlocksOK
  <2>2. \A q \in Target \ {l} : Owner(q)' = Owner(q)
    BY <1>3, <1>4
  <2>3. rc' = IF None = Null THEN rc ELSE [rc EXCEPT ![None] = @ + 1]
    BY <1>1, <1>2
  <2> QED
    BY <1>1, <1>2, <1>5, <2>1, <2>2, <2>3, Takes
<1>7. \A b \in Block : rc'[b] = rc[b] /\ rc[b] \in Nat
  BY <1>1, PointersOK DEF CountsRight, Object
<1> QED
  BY <1>1, <1>3, <1>6, <1>7, FunctionKeeps

(* A free variable gets a reference of its own to what a pointer has:      *)
(* Borrow and Share.                                                       *)
LEMMA SharedKeeps ==
  ASSUME Owned, InFunction, UNCHANGED <<type, room, list, frames>>,
         NEW l \in Variable, Value(l) \notin Object,
         NEW p \in Target, NEW v \in Object, Value(p) = v,
         Store(Only(l, v)), Incref(v)
  PROVE  Owned'
<1>1. /\ BlocksOK /\ VarsOK /\ CountsRight
      /\ rc' = [rc EXCEPT ![v] = @ + 1]
  BY NoObject DEF Incref, Owned
<1>2. l \in Target /\ MayHold(l, v)
  BY <1>1, VariableIs
<1>3. /\ BlocksOK' /\ VarsOK' /\ Value(l)' = v
      /\ \A q \in Target \ {l} : Value(q)' = Value(q)
  BY <1>1, <1>2, StoresOne
<1>4. /\ \A q : Owner(q) = Value(q)
      /\ \A q : Owner(q)' = Value(q)'
  BY NoneBusy DEF InFunction, Busy, Owner
<1>5. Owner(l) \notin Object /\ Owner(l)' = v
  BY <1>3, <1>4
<1>6. CountsRight'
  <2>1. /\ field \in [Block -> Seq(Object \cup {Null})]
        /\ field' \in [Block -> Seq(Object \cup {Null})]
    BY <1>1, <1>3 DEF BlocksOK
  <2>2. \A q \in Target \ {l} : Owner(q)' = Owner(q)
    BY <1>3, <1>4
  <2>3. rc' = IF v = Null THEN rc ELSE [rc EXCEPT ![v] = @ + 1]
    BY <1>1, NoObject
  <2> QED
    BY <1>1, <1>2, <1>5, <2>1, <2>2, <2>3, Takes
<1>7. v \in Block => rc[v] > 0
  BY <1>1, <1>4, OwnedCounts
<1>8. \A b \in Block : rc[b] \in Nat /\ rc'[b] = IF b = v THEN rc[b] + 1 ELSE rc[b]
  BY <1>1 DEF CountsRight, Object
<1>9. \A b \in Block : rc'[b] >= rc[b] /\ (rc'[b] > 0 => rc[b] > 0)
  BY <1>7, <1>8
<1> QED
  BY <1>3, <1>6, <1>9, FunctionKeeps

(* The constructor from a borrowed O* keeps the invariant.                 *)
LEMMA BorrowKeeps ==
  ASSUME Owned, NEW l \in Local, NEW p \in Pointer, Borrow(l, p)
  PROVE  Owned'
<1>1. /\ InFunction /\ UNCHANGED <<type, room, list, frames>> /\ var[l] = Absent
      /\ Usable(p, l) /\ Val(p) # Null /\ Store(Only(l, Val(p))) /\ Incref(Val(p))
  BY DEF Borrow
<1>2. l \in Variable /\ Value(l) \notin Object
  BY <1>1, VariableIs, NoObject DEF Owned, Variable
<1>3. p \in Target /\ Value(p) = Val(p) /\ Val(p) \in Object
  BY <1>1, UsableIs
<1> QED
  BY <1>1, <1>2, <1>3, SharedKeeps

(* So does Incref for a raw copy of the pointer.                           *)
LEMMA ShareKeeps ==
  ASSUME Owned, NEW p \in Pointer, Share(p)
  PROVE  Owned'
<1>1. /\ InFunction /\ UNCHANGED <<type, room, list, frames>> /\ var[Hand] = Null
      /\ Usable(p, p) /\ Val(p) # Null /\ Store(Only(Hand, Val(p))) /\ Incref(Val(p))
  BY DEF Share
<1>2. Hand \in Variable /\ Value(Hand) \notin Object
  BY <1>1, VariableIs, NoObject DEF Owned, Variable
<1>3. p \in Target /\ Value(p) = Val(p) /\ Val(p) \in Object
  BY <1>1, UsableIs
<1> QED
  BY <1>1, <1>2, <1>3, SharedKeeps

(* A reference goes to a variable in a function: Adopt and Steal.          *)
LEMMA HandOver ==
  ASSUME Owned, InFunction, UNCHANGED <<type, room, list, rc, frames>>,
         NEW p \in Target, NEW q \in Variable, p # q, MayHold(p, Null),
         NEW v \in Object \cup {Null}, Value(p) = v, Value(q) \notin Object,
         Store(Both(p, Null, q, v)) \/ Store(Both(q, v, p, Null))
  PROVE  Owned'
<1>1. BlocksOK /\ VarsOK /\ CountsRight
  BY DEF Owned
<1>2. /\ p \in Target /\ q \in Target /\ MayHold(p, Null) /\ MayHold(q, v)
  BY <1>1, VariableIs
<1>3. /\ BlocksOK' /\ VarsOK' /\ Value(p)' = Null /\ Value(q)' = v
      /\ \A r \in Target \ {p, q} : Value(r)' = Value(r)
  <2>1. CASE Store(Both(p, Null, q, v))
    BY <2>1, <1>1, <1>2, StoresTwo
  <2>2. CASE Store(Both(q, v, p, Null))
    <3>1. {q, p} = {p, q}
      OBVIOUS
    <3> QED
      BY <2>2, <3>1, <1>1, <1>2, StoresTwo
  <2> QED
    BY <2>1, <2>2
<1>4. /\ \A r : Owner(r) = Value(r)
      /\ \A r : Owner(r)' = Value(r)'
  BY NoneBusy DEF InFunction, Busy, Owner
<1>5. CountsRight'
  <2>1. /\ field \in [Block -> Seq(Object \cup {Null})]
        /\ field' \in [Block -> Seq(Object \cup {Null})]
    BY <1>1, <1>3 DEF BlocksOK
  <2>2. \A r \in Target \ {p, q} : Owner(r)' = Owner(r)
    BY <1>3, <1>4
  <2>3. Owner(p) = v /\ Owner(p)' \notin Object /\ Owner(q) \notin Object /\ Owner(q)' = v
    BY <1>3, <1>4, NoObject
  <2>4. rc' = rc
    OBVIOUS
  <2> QED
    BY <1>1, <1>2, <2>1, <2>2, <2>3, <2>4, Moves
<1>6. \A b \in Block : rc'[b] >= rc[b] /\ (rc'[b] > 0 => rc[b] > 0)
  BY <1>1 DEF CountsRight, Object
<1> QED
  BY <1>3, <1>5, <1>6, FunctionKeeps

(* The constructor from an owned O* keeps the invariant.                   *)
LEMMA AdoptKeeps ==
  ASSUME Owned, NEW l \in Local, Adopt(l)
  PROVE  Owned'
<1>1. /\ InFunction /\ UNCHANGED <<type, room, list, rc, frames>> /\ var[l] = Absent
      /\ Store(Both(l, var[Hand], Hand, Null))
  BY DEF Adopt
<1>2. /\ Hand \in Target /\ l \in Variable /\ Hand # l /\ MayHold(Hand, Null)
      /\ Value(Hand) = var[Hand] /\ var[Hand] \in Object \cup {Null}
      /\ Value(l) \notin Object
  BY <1>1, VariableIs, NoObject DEF Owned, VarsOK, Variable
<1> QED
  BY <1>1, <1>2, HandOver

(* Steal keeps it.                                                         *)
LEMMA StealKeeps ==
  ASSUME Owned, NEW p \in Pointer, Steal(p)
  PROVE  Owned'
<1>1. /\ InFunction /\ UNCHANGED <<type, room, list, rc, frames>> /\ var[Hand] = Null
      /\ Usable(p, p) /\ Store(Both(p, Null, Hand, Val(p)))
  BY DEF Steal
<1>2. Hand \in Variable /\ Value(Hand) \notin Object
  BY <1>1, VariableIs, NoObject DEF Owned, Variable
<1>3. /\ p \in Target /\ p # Hand /\ MayHold(p, Null)
      /\ Value(p) = Val(p) /\ Val(p) \in Object \cup {Null}
  BY <1>1, UsableIs
<1> QED
  BY <1>1, <1>2, <1>3, HandOver

-----------------------------------------------------------------------------
(* The calls below one that a function or a destructor makes are a right   *)
(* stack; the `__dealloc__` that calls is the innermost of them.           *)
LEMMA BelowStack ==
  ASSUME Owned, InFunction \/ InDestructor,
         UNCHANGED <<type, list>>, InFunction \/ var' = var,
         \A b \in Block : DOMAIN field'[b] = DOMAIN field[b],
         \A b \in Block : \A j \in DOMAIN field[b] : field[b][j] = Null => field'[b][j] = Null,
         NEW t, t = Below
  PROVE  /\ t \in Seq(Frame) /\ BusyIn(t) = Busy /\ Dying(t) = Dying(frames)
         /\ (\A b \in Dying(frames) : rc'[b] = 0) => StackOK(t)'
         /\ InFunction => t = <<>>
         /\ InDestructor => /\ t # <<>> /\ t[1].op = "dealloc"
                            /\ t[1].obj = Head(frames).obj /\ t[1].next = 1
<1>1. CASE InFunction
  <2>1. t = <<>> /\ frames = <<>> /\ ~InDestructor
    BY <1>1 DEF Below, InFunction, InDestructor
  <2> QED
    BY <2>1, EmptyStack, BusyIs DEF Owned, StackOK
<1>2. CASE InDestructor
  <2>1. PICK b : b = Head(frames).obj
    OBVIOUS
  <2>2. PICK s : s = Tail(frames)
    OBVIOUS
  <2>3. /\ frames # <<>> /\ frames[1].op = "dealloc" /\ b = frames[1].obj /\ ~InFunction
        /\ s \in Seq(Frame) /\ frames[1] \in Frame /\ 1 \in DOMAIN frames
    BY <1>2, <2>1, <2>2, TailIs DEF InDestructor, InFunction, Owned
  <2>4. /\ b \in Block /\ b \in Dying(frames) /\ InUse(b)
    BY <2>3, FrameType, StackSets, DyingIs DEF Owned
  <2>5. /\ BusyIn(s) = Busy /\ Dying(frames) = Dying(s) \cup {b}
        /\ StackOK(s) /\ b \notin Dying(s)
    BY <2>3, <2>2, TailBusy, StackTail, BusyIs DEF Owned
  <2>6. PICK f : f = Destroying(b, 1)
    OBVIOUS
  <2>7. f \in Frame /\ f.op = "dealloc" /\ f.obj = b /\ f.next = 1
    BY <2>4, <2>6, DestroyingType
  <2>8. t = <<f>> \o s
    BY <2>3, <2>1, <2>2, <2>6 DEF Below
  <2>9. /\ t \in Seq(Frame) /\ t # <<>> /\ t[1] = f
        /\ BusyIn(t) = BusyIn(s) /\ Dying(t) = Dying(s) \cup {b}
    BY <2>3, <2>7, <2>8, PushIs, PushBusy
  <2>10. ASSUME \A c \in Dying(frames) : rc'[c] = 0
        PROVE  StackOK(t)'
    <3>1. \A c \in Block : InUse(c)' <=> InUse(c)
      BY DEF InUse, Pooled
    <3>2. \A i \in DOMAIN s : s[i].op = "dealloc" => s[i].obj \in Block /\ DeallocOK(i, s)
      BY <2>3, <2>5, ElementOfSeq, LenProperties, FrameType DEF StackOK
    <3>3. \A i \in DOMAIN s : s[i].op = "dealloc" =>
              \A j \in DOMAIN field'[s[i].obj] : j < s[i].next => field'[s[i].obj][j] = Null
      BY <3>2 DEF DeallocOK
    <3>4. s = <<>> \/ var' = var
      BY <2>3
    <3>5. \A c \in Dying(s) : rc'[c] = 0
      BY <2>5, <2>10
    <3>6. \A c \in Block : (c \in Dying(s) \/ Held(c, s)) /\ InUse(c) =>
              InUse(c)' /\ type'[c] = type[c]
      BY <3>1
    <3>7. StackOK(s)'
      BY <2>3, <2>5, <3>3, <3>4, <3>5, <3>6, StackStays
    <3>8. InUse(b)' /\ rc'[b] = 0
      BY <2>4, <2>10, <3>1
    <3>9. \A j \in DOMAIN field'[b] : j < 1 => field'[b][j] = Null
      BY <2>4, LenProperties DEF Owned, BlocksOK
    <3>10. StackOK(<<Destroying(b, 1)>> \o s)'
      BY <2>3, <2>4, <2>5, <3>7, <3>8, <3>9, PushDestroying
    <3> QED
      BY <3>10, <2>8, <2>6
  <2> QED
    BY <2>3, <2>5, <2>7, <2>9, <2>10, <2>1
<1> QED
  BY <1>1, <1>2

-----------------------------------------------------------------------------
(* A variable or a field is emptied and what it referred to is dropped:    *)
(* Destruct, Release and Clear.                                            *)
LEMMA EmptiedKeeps ==
  ASSUME Owned, InFunction \/ InDestructor, UNCHANGED <<type, room, list>>,
         NEW p \in Target, p \notin Busy, InFunction \/ p \in Block \X Nat,
         NEW v \in Object \cup {Null}, Value(p) = v,
         NEW w \in {Null, Absent}, MayHold(p, w), Store(Only(p, w)), Decref(v, Below)
  PROVE  Owned'
<1>1. /\ BlocksOK' /\ VarsOK' /\ Value(p)' = w
      /\ \A q \in Target \ {p} : Value(q)' = Value(q)
      /\ \A b \in Block : DOMAIN field'[b] = DOMAIN field[b]
      /\ \A b \in Block : \A i \in DOMAIN field[b] :
             field'[b][i] = IF <<b, i>> = p THEN w ELSE field[b][i]
      /\ p \in Block \X Nat => var' = var
  BY StoresOne DEF Owned
<1>2. w # Null => p \in Variable
  BY NoObject DEF MayHold
<1>3. \A b \in Block : \A j \in DOMAIN field[b] : field[b][j] = Null => field'[b][j] = Null
  <2>1. ASSUME NEW b \in Block, NEW j \in DOMAIN field[b], <<b, j>> = p PROVE w = Null
    <3>1. p \in Block \X Nat
      BY <2>1, LenProperties DEF Owned, BlocksOK
    <3> QED
      BY <3>1, <1>2, VariableIs DEF Owned
  <2> QED
    BY <1>1, <2>1
<1>4. PICK t : t = Below
  OBVIOUS
<1>5. /\ t \in Seq(Frame) /\ BusyIn(t) = Busy /\ Dying(t) = Dying(frames)
      /\ (\A b \in Dying(frames) : rc'[b] = 0) => StackOK(t)'
  BY <1>1, <1>3, <1>4, BelowStack
<1>6. Owner(p) = v /\ Decref(v, t) /\ Value(p)' \notin Object
  BY <1>1, <1>4, NoObject DEF Owner
<1> QED
  BY <1>1, <1>5, <1>6, Decrefs

(* ~_PyPtr keeps the invariant.                                            *)
LEMMA DestructKeeps ==
  ASSUME Owned, NEW l \in Local, Destruct(l)
  PROVE  Owned'
<1>1. /\ InFunction /\ var[l] # Absent /\ Store(Only(l, Absent)) /\ Decref(var[l], Below)
      /\ UNCHANGED <<type, room, list>>
  BY DEF Destruct
<1>2. /\ l \in Variable /\ l \in Target /\ Value(l) = var[l] /\ var[l] \in Object \cup {Null}
      /\ l # Hand
  BY <1>1, VariableIs, NoObject DEF Variable, Owned
<1>3. MayHold(l, Absent) /\ l \notin Busy
  BY <1>1, <1>2, NoneBusy DEF MayHold
<1> QED
  BY <1>1, <1>2, <1>3, EmptiedKeeps

(* Py_DECREF of a raw reference keeps it.                                  *)
LEMMA ReleaseKeeps ==
  ASSUME Owned, Release
  PROVE  Owned'
<1>1. /\ InFunction /\ Store(Only(Hand, Null)) /\ Decref(var[Hand], Below)
      /\ UNCHANGED <<type, room, list>>
  BY DEF Release
<1>2. /\ Hand \in Variable /\ Hand \in Target /\ Value(Hand) = var[Hand]
      /\ var[Hand] \in Object \cup {Null} /\ MayHold(Hand, Null)
  BY VariableIs DEF Variable, Owned, VarsOK
<1>3. Hand \notin Busy
  BY <1>1, NoneBusy
<1> QED
  BY <1>1, <1>2, <1>3, EmptiedKeeps

(* Clear keeps it, in a function and in a destructor.                      *)
LEMMA ClearKeeps ==
  ASSUME Owned, NEW p \in Pointer, Clear(p)
  PROVE  Owned'
<1>1. /\ Usable(p, p) /\ Store(Only(p, Null)) /\ Decref(Val(p), Below)
      /\ UNCHANGED <<type, room, list>>
  BY DEF Clear
<1>2. PICK v : v = Val(p)
  OBVIOUS
<1>3. /\ p \in Target /\ p \notin Busy /\ v = Value(p) /\ v \in Object \cup {Null}
      /\ MayHold(p, Null)
      /\ InFunction \/ InDestructor
      /\ InFunction \/ p \in Block \X Nat
  BY <1>1, <1>2, UsableIs DEF IsField
<1>4. Store(Only(p, Null)) /\ Decref(v, Below)
  BY <1>1, <1>2
<1> QED
  BY <1>1, <1>3, <1>4, EmptiedKeeps

-----------------------------------------------------------------------------
(* The pointers of an assignment stay where they are while destructors     *)
(* run for the old object: the innermost function has its variables, and   *)
(* fields are of an object that a variable or a waiting `__dealloc__`      *)
(* keeps.                                                                  *)
LEMMA AssigningStays ==
  ASSUME Owned, UNCHANGED <<type, list, field, var>>,
         NEW op \in {"copy", "move"}, NEW dst, NEW src, dst # src, Usable(dst, dst),
         Usable(src, dst) \/ (InFunction /\ src = Hand),
         NEW t, t = <<Assigning(op, dst, src)>> \o Below
  PROVE  /\ t \in Seq(Frame) /\ BusyIn(t) = Busy \cup {dst} /\ Dying(t) = Dying(frames)
         /\ (\A b \in Dying(frames) : rc'[b] = 0) => StackOK(t)'
<1>1. /\ dst \in Target /\ dst # Hand /\ dst \notin Busy
      /\ InFunction \/ InDestructor
      /\ \/ InFunction /\ dst \in Local /\ var[dst] # Absent
         \/ /\ IsField(dst)
            /\ \/ \E l \in Variable \ (Busy \cup {dst}) : var[l] = dst[1]
               \/ InDestructor /\ dst[1] = Head(frames).obj
  BY UsableIs
<1>2. /\ src \in Target /\ src \notin Busy
      /\ \/ InFunction /\ src \in Variable /\ var[src] # Absent
         \/ /\ IsField(src)
            /\ \/ \E l \in Variable \ (Busy \cup {dst}) : var[l] = src[1]
               \/ InDestructor /\ src[1] = Head(frames).obj
  <2>1. CASE Usable(src, dst)
    BY <2>1, UsableIs DEF Variable
  <2>2. CASE InFunction /\ src = Hand
    BY <2>2, VariableIs, NoneBusy DEF Owned, VarsOK, Variable
  <2> QED
    BY <2>1, <2>2
<1>3. PICK s : s = Below
  OBVIOUS
<1>4. /\ s \in Seq(Frame) /\ BusyIn(s) = Busy /\ Dying(s) = Dying(frames)
      /\ (\A b \in Dying(frames) : rc'[b] = 0) => StackOK(s)'
      /\ InFunction => s = <<>>
      /\ InDestructor => /\ s # <<>> /\ s[1].op = "dealloc"
                         /\ s[1].obj = Head(frames).obj /\ s[1].next = 1
  BY <1>1, <1>3, BelowStack
<1>5. PICK f : f = Assigning(op, dst, src)
  OBVIOUS
<1>6. f \in Frame /\ f.op # "dealloc" /\ f.dst = dst
  BY <1>1, <1>2, <1>5, AssigningType
<1>7. t = <<f>> \o s
  BY <1>3, <1>5
<1>8. /\ t \in Seq(Frame) /\ BusyIn(t) = Busy \cup {dst} /\ Dying(t) = Dying(frames)
      /\ DOMAIN t = 1 .. Len(s) + 1 /\ Len(t) = Len(s) + 1
      /\ Len(s) \in Nat /\ DOMAIN s = 1 .. Len(s)
      /\ \A i \in DOMAIN s : i + 1 \in DOMAIN t /\ t[i + 1] = s[i]
  <2>1. BusyIn(t) = BusyIn(s) \cup {dst} /\ Dying(t) = Dying(s)
    BY ZenonT(60), <1>4, <1>6, <1>7, PushBusy
  <2>2. /\ t \in Seq(Frame)
        /\ DOMAIN t = 1 .. Len(s) + 1 /\ Len(t) = Len(s) + 1
        /\ Len(s) \in Nat /\ DOMAIN s = 1 .. Len(s)
        /\ \A i \in DOMAIN s : i + 1 \in DOMAIN t /\ t[i + 1] = s[i]
    <3>1. /\ <<f>> \o s \in Seq(Frame)
          /\ DOMAIN (<<f>> \o s) = 1 .. Len(s) + 1 /\ Len(<<f>> \o s) = Len(s) + 1
          /\ Len(s) \in Nat /\ DOMAIN s = 1 .. Len(s)
          /\ \A i \in DOMAIN s : i + 1 \in DOMAIN (<<f>> \o s) /\ (<<f>> \o s)[i + 1] = s[i]
      BY <1>4, <1>6, PushIs
    <3> QED
      BY ONLY <3>1, <1>7
  <2> QED
    BY <2>1, <2>2, <1>4
<1>9. ASSUME NEW p,
             \/ InFunction /\ p \in Variable /\ var[p] # Absent
             \/ /\ IsField(p)
                /\ \/ \E l \in Variable \ (Busy \cup {dst}) : var[l] = p[1]
                   \/ InDestructor /\ p[1] = Head(frames).obj
      PROVE  Steady(1, p, t)'
  <2>1. CASE InFunction /\ p \in Variable /\ var[p] # Absent
    <3>1. Len(t) = 1
      BY <2>1, <1>4, <1>8, EmptySeq
    <3> QED
      BY <2>1, <3>1 DEF Steady
  <2>2. CASE IsField(p) /\ \E l \in Variable \ (Busy \cup {dst}) : var[l] = p[1]
    <3>1. IsField(p)'
      BY <2>2 DEF IsField, InUse, Pooled
    <3>2. Held(p[1], t)'
      BY <2>2, <1>8 DEF Held
    <3> QED
      BY <3>1, <3>2 DEF Steady
  <2>3. CASE IsField(p) /\ InDestructor /\ p[1] = Head(frames).obj
    <3>1. IsField(p)'
      BY <2>3 DEF IsField, InUse, Pooled
    <3>2. 1 \in DOMAIN s
      BY <2>3, <1>4, TailIs
    <3>3. Waiting(1, p[1], t)
      <4>1. 1 + 1 \in DOMAIN t /\ t[1 + 1] = s[1]
        BY <3>2, <1>8
      <4>2. 1 + 1 = 2
        OBVIOUS
      <4>3. 2 \in DOMAIN t /\ t[2].op = "dealloc" /\ t[2].obj = p[1] /\ t[2].next = 1
        BY <4>1, <4>2, <2>3, <1>4
      <4> QED
        BY <4>3 DEF Waiting
    <3> QED
      BY <3>1, <3>3 DEF Steady, Waiting
  <2> QED
    BY <1>9, <2>1, <2>2, <2>3
<1>10. Steady(1, dst, t)' /\ Steady(1, src, t)'
  BY <1>1, <1>2, <1>9 DEF Variable
<1>11. ASSUME \A b \in Dying(frames) : rc'[b] = 0
       PROVE  StackOK(t)'
  <2>1. StackOK(s)' /\ dst \notin BusyIn(s) /\ src \notin BusyIn(s)
    BY <1>1, <1>2, <1>4, <1>11
  <2>2. s = <<>> \/ dst \in Block \X Nat
    BY <1>1, <1>4 DEF IsField
  <2>3. Steady(1, dst, <<Assigning(op, dst, src)>> \o s)' /\ Steady(1, src, <<Assigning(op, dst, src)>> \o s)'
    BY <1>7, <1>10, <1>5
  <2>4. StackOK(<<Assigning(op, dst, src)>> \o s)'
    BY <1>1, <1>2, <1>4, <2>1, <2>2, <2>3, PushAssigning
  <2> QED
    BY <2>4, <1>7, <1>5
<1> QED
  BY <1>8, <1>11

(* An assignment that drops the old object keeps the invariant, with the   *)
(* pointer half assigned: Assign and AssignRaw.                            *)
LEMMA AssigningKeeps ==
  ASSUME Owned, UNCHANGED <<type, room, list, field, var>>,
         NEW op \in {"copy", "move"}, NEW dst, NEW src, dst # src, Usable(dst, dst),
         Usable(src, dst) \/ (InFunction /\ src = Hand),
         Decref(Val(dst), <<Assigning(op, dst, src)>> \o Below)
  PROVE  Owned'
<1>1. PICK t : t = <<Assigning(op, dst, src)>> \o Below
  OBVIOUS
<1>2. /\ t \in Seq(Frame) /\ BusyIn(t) = Busy \cup {dst} /\ Dying(t) = Dying(frames)
      /\ (\A b \in Dying(frames) : rc'[b] = 0) => StackOK(t)'
  BY <1>1, AssigningStays
<1>3. PICK v \in Object \cup {Null} : v = Val(dst) /\ v = Owner(dst)
  BY UsableIs DEF Owner
<1>4. BlocksOK' /\ VarsOK'
  BY DEF Owned, BlocksOK, VarsOK, ListsOK, InUse, Pooled
<1>5. \A q \in Target : Value(q)' = Value(q)
  BY DEF Value
<1>6. dst \in Target /\ dst \in BusyIn(t) /\ BusyIn(t) \cup {dst} = Busy \cup {dst}
  BY <1>2, UsableIs
<1>7. Decref(v, t) /\ Owner(dst) = v
  BY <1>1, <1>3
<1> QED
  BY <1>2, <1>4, <1>5, <1>6, <1>7, Decrefs

-----------------------------------------------------------------------------
(* operator= of a PyPtr keeps it, up to where the old object is dropped.   *)
LEMMA AssignKeeps ==
  ASSUME Owned, NEW op \in {"copy", "move"}, NEW dst \in Pointer, NEW src \in Pointer,
         Assign(op, dst, src)
  PROVE  Owned'
<1>1. /\ dst # src /\ Usable(dst, dst) /\ Usable(src, dst)
      /\ Decref(Val(dst), <<Assigning(op, dst, src)>> \o Below)
      /\ UNCHANGED <<type, room, list, field, var>>
  BY DEF Assign
<1> QED
  BY <1>1, AssigningKeeps

(* operator= of a raw reference keeps it, up to there.                     *)
LEMMA AssignRawKeeps ==
  ASSUME Owned, NEW dst \in Pointer, AssignRaw(dst)
  PROVE  Owned'
<1>1. /\ InFunction /\ Usable(dst, dst)
      /\ Decref(Val(dst), <<Assigning("move", dst, Hand)>>)
      /\ UNCHANGED <<type, room, list, field, var>>
  BY DEF AssignRaw
<1>2. dst # Hand
  BY <1>1, UsableIs
<1>3. <<Assigning("move", dst, Hand)>> \o Below = <<Assigning("move", dst, Hand)>>
  BY <1>1 DEF Below
<1>4. Decref(Val(dst), <<Assigning("move", dst, Hand)>> \o Below)
  BY <1>1, <1>3
<1> QED
  BY <1>1, <1>2, <1>4, AssigningKeeps

-----------------------------------------------------------------------------
(* A `__dealloc__` that clears its next field keeps the invariant.         *)
LEMMA DropFieldKeeps ==
  ASSUME Owned, DropField
  PROVE  Owned'
<1>1. PICK b, i, s :
        /\ b = Head(frames).obj /\ s = Tail(frames)
        /\ i = IF Head(frames).next = 0 THEN 1 ELSE Head(frames).next
  OBVIOUS
<1>2. PICK v : v = field[b][i]
  OBVIOUS
<1>3. /\ frames # <<>> /\ Head(frames).op = "dealloc" /\ i <= Fields[type[b]]
      /\ Store(Only(<<b, i>>, Null)) /\ Decref(v, <<Destroying(b, i + 1)>> \o s)
      /\ UNCHANGED <<type, room, list>>
  BY <1>1, <1>2 DEF DropField
<1>4. /\ Head(frames) = frames[1] /\ 1 \in DOMAIN frames /\ s \in Seq(Frame)
      /\ b \in Block /\ frames[1].next \in Nat
  BY <1>1, <1>3, TailIs, FrameType DEF Owned
<1>5. i \in Nat /\ i >= 1 /\ (frames[1].next = i \/ i = 1)
  BY <1>1, <1>4
<1>6. DeallocOK(1, frames) /\ InUse(b)
  BY <1>1, <1>3, <1>4 DEF Owned, StackOK, DeallocOK
<1>7. PICK p : p = <<b, i>>
  OBVIOUS
<1>8. IsField(p) /\ p[1] = b /\ p[2] = i
  <2>1. type[b] \in Class /\ Fields[type[b]] \in Nat
    BY <1>4, <1>6, SizesOK DEF InUse, Owned, BlocksOK
  <2> QED
    BY <1>3, <1>4, <1>5, <1>6, <1>7, <2>1 DEF IsField
<1>9. /\ p \in Target /\ p \in Block \X Nat /\ Value(p) = v /\ v \in Object \cup {Null}
      /\ MayHold(p, Null)
  BY <1>2, <1>8, FieldIs DEF Owned, IsField
<1>10. p \notin Busy
  BY <1>1, <1>3, <1>4, <1>8, NotAssigned
<1>11. /\ BlocksOK' /\ VarsOK' /\ Value(p)' = Null /\ var' = var
       /\ \A q \in Target \ {p} : Value(q)' = Value(q)
       /\ \A c \in Block : DOMAIN field'[c] = DOMAIN field[c]
       /\ \A c \in Block : \A j \in DOMAIN field[c] :
             field'[c][j] = IF <<c, j>> = p THEN Null ELSE field[c][j]
  <2>1. Store(Only(p, Null))
    BY <1>3, <1>7
  <2> QED
    BY <1>3, <1>9, <2>1, StoresOne DEF Owned
<1>12. /\ BusyIn(s) = Busy /\ Dying(frames) = Dying(s) \cup {b}
       /\ StackOK(s) /\ b \notin Dying(s)
  BY <1>1, <1>3, <1>4, TailBusy, StackTail, BusyIs DEF Owned
<1>13. PICK f : f = Destroying(b, i + 1)
  OBVIOUS
<1>14. PICK t : t = <<f>> \o s
  OBVIOUS
<1>15. t \in Seq(Frame) /\ BusyIn(t) = Busy /\ Dying(t) = Dying(frames)
  <2>1. f \in Frame /\ f.op = "dealloc" /\ f.obj = b
    BY <1>4, <1>5, <1>13, DestroyingType
  <2> QED
    BY <1>4, <1>12, <1>14, <2>1, PushIs, PushBusy
<1>16. ASSUME \A c \in Dying(frames) : rc'[c] = 0
       PROVE  StackOK(t)'
  <2>1. \A c \in Block : InUse(c)' <=> InUse(c)
    BY <1>3 DEF InUse, Pooled
  <2>2. \A k \in DOMAIN s : s[k].op = "dealloc" => s[k].obj \in Block /\ DeallocOK(k, s)
    BY <1>4, <1>12, ElementOfSeq, LenProperties, FrameType DEF StackOK
  <2>3. \A k \in DOMAIN s : s[k].op = "dealloc" =>
            \A j \in DOMAIN field'[s[k].obj] : j < s[k].next => field'[s[k].obj][j] = Null
    BY <1>11, <2>2 DEF DeallocOK
  <2>4. \A c \in Block : (c \in Dying(s) \/ Held(c, s)) /\ InUse(c) =>
            InUse(c)' /\ type'[c] = type[c]
    BY <1>3, <2>1
  <2>5. StackOK(s)'
    BY <1>4, <1>11, <1>12, <1>16, <2>3, <2>4, StackStays
  <2>6. InUse(b)' /\ rc'[b] = 0
    BY <1>4, <1>6, <1>12, <1>16, <2>1
  <2>7. ASSUME NEW j \in DOMAIN field'[b], j < i + 1 PROVE field'[b][j] = Null
    <3>1. j \in DOMAIN field[b] /\ j \in Nat /\ j >= 1
      BY <1>4, <1>11, LenProperties DEF Owned, BlocksOK
    <3>2. CASE j = i
      BY <3>1, <3>2, <1>4, <1>7, <1>11
    <3>3. CASE j # i
      <4>1. j < frames[1].next
        BY <3>1, <3>3, <1>5, <2>7
      <4>2. field[b][j] = Null
        BY <3>1, <4>1, <1>1, <1>4, <1>6 DEF DeallocOK
      <4> QED
        BY <3>1, <4>2, <1>4, <1>11
    <3> QED
      BY <3>2, <3>3
  <2>8. i + 1 \in Nat
    BY <1>5
  <2>9. StackOK(<<Destroying(b, i + 1)>> \o s)'
    BY <1>4, <1>12, <2>5, <2>6, <2>7, <2>8, PushDestroying
  <2> QED
    BY <2>9, <1>13, <1>14
<1>17. Owner(p) = v /\ Decref(v, t) /\ Value(p)' \notin Object
  BY <1>3, <1>9, <1>10, <1>11, <1>13, <1>14, NoObject DEF Owner
<1>18. BusyIn(t) \cup {p} = Busy \cup {p}
  BY <1>15
<1> QED
  BY <1>3, <1>9, <1>11, <1>15, <1>16, <1>17, <1>18, Decrefs

-----------------------------------------------------------------------------
(* The assignment that goes on: its pointers are still where they were,    *)
(* and nobody below it assigns them.                                       *)
LEMMA FinishIs ==
  ASSUME Owned, frames # <<>>, frames[1].op # "dealloc",
         NEW dst, dst = frames[1].dst, NEW src, src = frames[1].src,
         NEW s, s = Tail(frames)
  PROVE  /\ s \in Seq(Frame) /\ StackOK(s) /\ Dying(s) = Dying(frames)
         /\ Busy = BusyIn(s) \cup {dst} /\ dst \notin BusyIn(s) /\ src \notin Busy /\ dst # src
         /\ Steady(1, dst, frames) /\ Steady(1, src, frames)
         /\ dst \in Target /\ src \in Target
         /\ s # <<>> => dst \in Block \X Nat /\ src \in Block \X Nat
<1>1. /\ 1 \in DOMAIN frames /\ frames[1] \in Frame /\ s \in Seq(Frame)
      /\ DOMAIN frames = 1 .. Len(frames) /\ Len(frames) \in Nat /\ Len(s) = Len(frames) - 1
  BY TailIs DEF Owned
<1>2. AssignOK(1, frames) /\ dst \in Target /\ src \in Target
  BY <1>1, FrameType DEF Owned, StackOK
<1>3. /\ StackOK(s) /\ Dying(s) = Dying(frames)
      /\ Busy = BusyIn(s) \cup {dst} /\ dst \notin BusyIn(s)
  BY StackTail, TailBusy, BusyIs DEF Owned
<1>4. /\ Steady(1, dst, frames) /\ Steady(1, src, frames)
      /\ \A j \in DOMAIN frames : frames[j].op # "dealloc" => src # frames[j].dst
  BY <1>1, <1>2 DEF AssignOK
<1>5. src \notin Busy
  BY <1>4, BusyIs, StackSets
<1>6. dst # src
  BY <1>3, <1>5
<1>7. ASSUME s # <<>> PROVE dst \in Block \X Nat /\ src \in Block \X Nat
  <2>1. Len(frames) # 1
    BY <1>1, <1>7, EmptySeq
  <2> QED
    BY <2>1, <1>4 DEF Steady, IsField
<1> QED
  BY <1>1, <1>2, <1>3, <1>4, <1>5, <1>6, <1>7

(* What it stores leaves the calls below it right: a field that is         *)
(* assigned is not one that a `__dealloc__` has already cleared.           *)
LEMMA FinishStays ==
  ASSUME Owned, frames # <<>>, frames[1].op # "dealloc", UNCHANGED <<type, list>>,
         NEW dst, dst = frames[1].dst, NEW src, src = frames[1].src,
         NEW s, s = Tail(frames),
         dst \in Block \X Nat /\ src \in Block \X Nat => var' = var,
         \A b \in Block : DOMAIN field'[b] = DOMAIN field[b],
         \A b \in Block : \A j \in DOMAIN field[b] :
             field[b][j] = Null /\ <<b, j>> # dst => field'[b][j] = Null,
         \A b \in Dying(frames) : rc'[b] = 0
  PROVE  StackOK(s)'
<1>1. /\ s \in Seq(Frame) /\ StackOK(s) /\ Dying(s) = Dying(frames)
      /\ Steady(1, dst, frames) /\ dst \in Target
      /\ s = <<>> \/ var' = var
      /\ s # <<>> => IsField(dst)
  <2>1. /\ s \in Seq(Frame) /\ StackOK(s) /\ Dying(s) = Dying(frames)
        /\ Steady(1, dst, frames) /\ dst \in Target
        /\ s # <<>> => dst \in Block \X Nat /\ src \in Block \X Nat
    <3>1. s \in Seq(Frame) /\ StackOK(s) /\ Dying(s) = Dying(frames)
      BY FinishIs
    <3>2. Steady(1, dst, frames)
      BY FinishIs
    <3>3. dst \in Target
      BY FinishIs
    <3>4. s # <<>> => dst \in Block \X Nat /\ src \in Block \X Nat
      BY FinishIs
    <3> QED
      BY <3>1, <3>2, <3>3, <3>4
  <2>2. s # <<>> => IsField(dst)
    BY <2>1, PointersOK DEF Steady, Variable
  <2> QED
    BY <2>1, <2>2
<1>2. /\ DOMAIN frames = 1 .. Len(frames) /\ Len(frames) \in Nat /\ 1 \in DOMAIN frames
      /\ \A i \in DOMAIN s : i + 1 \in DOMAIN frames /\ s[i] = frames[i + 1]
  BY TailIs DEF Owned
<1>3. ASSUME NEW i \in DOMAIN s, s[i].op = "dealloc",
             NEW j \in DOMAIN field'[s[i].obj], j < s[i].next
      PROVE  field'[s[i].obj][j] = Null
  <2>1. PICK b : b = s[i].obj
    OBVIOUS
  <2>2. b \in Block /\ s[i].next \in Nat
    BY <1>1, <1>3, <2>1, ElementOfSeq, LenProperties, FrameType
  <2>3. DeallocOK(i, s) /\ b \in Dying(s)
    BY <1>1, <1>3, <2>1, StackSets DEF StackOK
  <2>4. j \in DOMAIN field[b] /\ j \in Nat /\ j >= 1
    BY <1>3, <2>1, <2>2, LenProperties DEF Owned, BlocksOK
  <2>5. field[b][j] = Null
    BY <1>3, <2>1, <2>3, <2>4 DEF DeallocOK
  <2>6. ASSUME dst = <<b, j>> PROVE FALSE
    <3>1. IsField(dst) /\ dst[1] = b
      BY <1>1, <1>3, <2>6, LenProperties
    <3>2. ~Held(b, frames)
      <4>1. rc[b] = 0
        BY <1>1, <2>3, DyingIs DEF Owned
      <4> QED
        BY <4>1, <2>2, HeldCounts DEF Owned
    <3>3. dst \notin Variable
      BY <3>1, PointersOK DEF IsField, Variable
    <3>4. PICK k \in DOMAIN frames : frames[k].op = "dealloc" /\ frames[k].obj = b /\ frames[k].next = 1
      BY <1>1, <3>1, <3>2, <3>3 DEF Steady, Waiting
    <3>5. i + 1 \in DOMAIN frames /\ s[i] = frames[i + 1]
      BY <1>2
    <3>6. DeallocOK(k, frames)
      BY <3>4 DEF Owned, StackOK
    <3>7. k = i + 1
      BY <3>4, <3>5, <3>6, <1>3, <2>1 DEF DeallocOK
    <3>8. s[i].next = 1
      BY <3>4, <3>5, <3>7
    <3> QED
      BY <3>8, <1>3, <2>4
  <2> QED
    BY <2>1, <2>2, <2>4, <2>5, <2>6
<1>4. \A b \in Block : (b \in Dying(s) \/ Held(b, s)) /\ InUse(b) =>
          InUse(b)' /\ type'[b] = type[b]
  BY DEF InUse, Pooled
<1>5. \A b \in Dying(s) : rc'[b] = 0
  BY <1>1
<1> QED
  BY <1>1, <1>3, <1>4, <1>5, StackStays

(* What is left to show of an assignment that ends.                        *)
LEMMA FinishKeeps ==
  ASSUME Owned, NEW s \in Seq(Frame), frames' = s, StackOK(s)', Dying(s) = Dying(frames),
         UNCHANGED <<type, room, list>>, BlocksOK', VarsOK', CountsRight',
         \A b \in Block : rc'[b] >= rc[b] /\ (rc'[b] > 0 => rc[b] > 0)
  PROVE  Owned'
<1>1. \A b \in Block : InUse(b)' <=> InUse(b)
  BY DEF InUse, Pooled
<1>2. OwnedIsUsed'
  BY <1>1 DEF OwnedIsUsed, Owned
<1>3. StackOK(frames)'
  BY DEF StackOK, DeallocOK, AssignOK
<1>4. AllDying'
  <2>1. SUFFICES ASSUME NEW b \in Block, InUse(b)', rc'[b] = 0 PROVE b \in Dying(frames')
    BY DEF AllDying
  <2>2. rc[b] = 0
    <3>1. rc[b] \in Nat
      BY DEF Owned, CountsRight, Object
    <3> QED
      BY <2>1, <3>1
  <2> QED
    BY <1>1, <2>1, <2>2 DEF Owned, AllDying
<1> QED
  BY <1>2, <1>3, <1>4 DEF Owned

(* The end of a copy keeps the invariant: one more owner, one more         *)
(* reference.                                                              *)
LEMMA FinishCopyKeeps ==
  ASSUME Owned, FinishCopy
  PROVE  Owned'
<1>1. PICK dst, src, s, v :
        /\ dst = Head(frames).dst /\ src = Head(frames).src /\ s = Tail(frames)
        /\ v = Val(Head(frames).src)
  OBVIOUS
<1>2. /\ frames # <<>> /\ Head(frames).op = "copy"
      /\ rc' = IF v = Null THEN rc ELSE [rc EXCEPT ![v] = @ + 1]
      /\ Store(Only(dst, v)) /\ frames' = s /\ UNCHANGED <<type, room, list>>
  BY <1>1 DEF FinishCopy, Incref
<1>3. Head(frames) = frames[1] /\ frames[1].op # "dealloc"
  BY <1>2, TailIs DEF Owned
<1>4. /\ s \in Seq(Frame) /\ StackOK(s) /\ Dying(s) = Dying(frames)
      /\ Busy = BusyIn(s) \cup {dst} /\ dst \notin BusyIn(s) /\ src \notin Busy /\ dst # src
      /\ Steady(1, dst, frames) /\ Steady(1, src, frames) /\ dst \in Target /\ src \in Target
  BY <1>1, <1>2, <1>3, FinishIs
<1>5. v = Value(src) /\ v \in Object \cup {Null} /\ MayHold(dst, v)
  BY <1>1, <1>4, SteadyIs DEF Owned
<1>6. /\ BlocksOK' /\ VarsOK' /\ Value(dst)' = v
      /\ \A q \in Target \ {dst} : Value(q)' = Value(q)
      /\ \A b \in Block : DOMAIN field'[b] = DOMAIN field[b]
      /\ \A b \in Block : \A i \in DOMAIN field[b] :
            field'[b][i] = IF <<b, i>> = dst THEN v ELSE field[b][i]
      /\ dst \in Block \X Nat => var' = var
  BY <1>2, <1>4, <1>5, StoresOne DEF Owned
<1>7. Busy' = BusyIn(s)
  BY <1>2 DEF Busy, BusyIn
<1>8. /\ Owner(dst) \notin Object /\ Owner(dst)' = v /\ Owner(src) = v
      /\ \A q \in Target \ {dst} : Owner(q)' = Owner(q)
  <2>1. Owner(dst) \notin Object
    BY <1>4, NoObject DEF Owner
  <2>2. Owner(dst)' = v
    BY <1>4, <1>6, <1>7 DEF Owner
  <2>3. ASSUME NEW q \in Target \ {dst} PROVE Owner(q)' = Owner(q)
    BY <1>4, <1>6, <1>7 DEF Owner
  <2> QED
    BY <1>4, <1>5, <2>1, <2>2, <2>3 DEF Owner
<1>9. CountsRight'
  <2>1. /\ field \in [Block -> Seq(Object \cup {Null})]
        /\ field' \in [Block -> Seq(Object \cup {Null})]
    BY <1>6 DEF BlocksOK, Owned
  <2> QED
    BY <1>2, <1>4, <1>5, <1>8, <2>1, Takes DEF Owned
<1>10. \A b \in Block : rc'[b] >= rc[b] /\ (rc'[b] > 0 => rc[b] > 0)
  <2>1. \A b \in Block : b \in Object /\ b # Null
    BY NoObject DEF Object
  <2>2. \A b \in Block : rc[b] \in Nat /\ rc'[b] = IF b = v THEN rc[b] + 1 ELSE rc[b]
    BY <1>2, <2>1 DEF Owned, CountsRight
  <2>3. v \in Block => rc[v] > 0
    BY <1>4, <1>8, OwnedCounts DEF Owned
  <2> QED
    BY <2>2, <2>3
<1>11. StackOK(s)'
  <2>1. \A b \in Dying(frames) : rc'[b] = 0
    <3>1. ASSUME NEW b \in Dying(frames) PROVE rc'[b] = 0
      <4>1. b \in Block /\ rc[b] = 0
        BY <3>1, DyingIs DEF Owned
      <4>2. rc'[b] \in Nat
        BY <4>1, <1>9 DEF CountsRight, Object
      <4> QED
        BY <4>1, <4>2, <1>10
    <3> QED
      BY <3>1
  <2>2. \A b \in Block : \A j \in DOMAIN field[b] :
            field[b][j] = Null /\ <<b, j>> # dst => field'[b][j] = Null
    BY <1>6
  <2>3. UNCHANGED <<type, list>> /\ (dst \in Block \X Nat /\ src \in Block \X Nat => var' = var)
    BY <1>2, <1>6
  <2> QED
    <3>1. /\ frames # <<>> /\ frames[1].op # "dealloc"
          /\ dst = frames[1].dst /\ src = frames[1].src /\ s = Tail(frames)
      BY <1>1, <1>2, <1>3
    <3>2. dst \in Block \X Nat /\ src \in Block \X Nat => var' = var
      BY <1>6
    <3>3. \A b \in Block : DOMAIN field'[b] = DOMAIN field[b]
      BY <1>6
    <3> QED
      BY ZenonT(60), <3>1, <3>2, <3>3, <2>1, <2>2, <2>3, FinishStays
<1> QED
  BY <1>2, <1>4, <1>6, <1>9, <1>10, <1>11, FinishKeeps

(* The end of a move keeps it: the reference changes its owner.            *)
LEMMA FinishMoveKeeps ==
  ASSUME Owned, FinishMove
  PROVE  Owned'
<1>1. PICK dst, src, s, v :
        /\ dst = Head(frames).dst /\ src = Head(frames).src /\ s = Tail(frames)
        /\ v = Val(Head(frames).src)
  OBVIOUS
<1>2. /\ frames # <<>> /\ Head(frames).op = "move" /\ rc' = rc
      /\ Store(Both(dst, v, src, Null)) /\ frames' = s /\ UNCHANGED <<type, room, list>>
  BY <1>1 DEF FinishMove
<1>3. Head(frames) = frames[1] /\ frames[1].op # "dealloc"
  BY <1>2, TailIs DEF Owned
<1>4. /\ s \in Seq(Frame) /\ StackOK(s) /\ Dying(s) = Dying(frames)
      /\ Busy = BusyIn(s) \cup {dst} /\ dst \notin BusyIn(s) /\ src \notin Busy /\ dst # src
      /\ Steady(1, dst, frames) /\ Steady(1, src, frames) /\ dst \in Target /\ src \in Target
  BY <1>1, <1>2, <1>3, FinishIs
<1>5. v = Value(src) /\ v \in Object \cup {Null} /\ MayHold(dst, v) /\ MayHold(src, Null)
  BY <1>1, <1>4, SteadyIs DEF Owned
<1>6. /\ BlocksOK' /\ VarsOK' /\ Value(dst)' = v /\ Value(src)' = Null
      /\ \A q \in Target \ {dst, src} : Value(q)' = Value(q)
      /\ \A b \in Block : DOMAIN field'[b] = DOMAIN field[b]
      /\ \A b \in Block : \A i \in DOMAIN field[b] :
            field'[b][i] = IF <<b, i>> = dst THEN v
                           ELSE IF <<b, i>> = src THEN Null ELSE field[b][i]
      /\ dst \in Block \X Nat /\ src \in Block \X Nat => var' = var
  BY <1>2, <1>4, <1>5, StoresTwo DEF Owned
<1>7. Busy' = BusyIn(s)
  BY <1>2 DEF Busy, BusyIn
<1>8. /\ Owner(dst) \notin Object /\ Owner(dst)' = v
      /\ Owner(src) = v /\ Owner(src)' \notin Object
      /\ \A q \in Target \ {src, dst} : Owner(q)' = Owner(q)
  <2>1. Owner(dst) \notin Object
    BY <1>4, NoObject DEF Owner
  <2>2. Owner(dst)' = v
    BY <1>4, <1>6, <1>7 DEF Owner
  <2>3. ASSUME NEW q \in Target \ {src, dst} PROVE Owner(q)' = Owner(q)
    BY <1>4, <1>6, <1>7 DEF Owner
  <2>4. Owner(src)' \notin Object
    BY <1>6, NoObject DEF Owner
  <2> QED
    BY <1>4, <1>5, <2>1, <2>2, <2>3, <2>4 DEF Owner
<1>9. CountsRight'
  <2>1. /\ field \in [Block -> Seq(Object \cup {Null})]
        /\ field' \in [Block -> Seq(Object \cup {Null})]
    BY <1>6 DEF BlocksOK, Owned
  <2> QED
    BY <1>2, <1>4, <1>5, <1>8, <2>1, Moves DEF Owned
<1>10. \A b \in Block : rc'[b] >= rc[b] /\ (rc'[b] > 0 => rc[b] > 0)
  BY <1>2 DEF Owned, CountsRight, Object
<1>11. StackOK(s)'
  <2>1. \A b \in Dying(frames) : rc'[b] = 0
    BY <1>2, DyingIs DEF Owned
  <2>2. \A b \in Block : \A j \in DOMAIN field[b] :
            field[b][j] = Null /\ <<b, j>> # dst => field'[b][j] = Null
    BY <1>6
  <2>3. UNCHANGED <<type, list>>
    BY <1>2
  <2> QED
    <3>1. /\ frames # <<>> /\ frames[1].op # "dealloc"
          /\ dst = frames[1].dst /\ src = frames[1].src /\ s = Tail(frames)
      BY <1>1, <1>2, <1>3
    <3>2. dst \in Block \X Nat /\ src \in Block \X Nat => var' = var
      BY <1>6
    <3>3. \A b \in Block : DOMAIN field'[b] = DOMAIN field[b]
      BY <1>6
    <3> QED
      BY <3>1, <3>2, <3>3, <2>1, <2>2, <2>3, FinishStays, Zenon
<1> QED
  BY <1>2, <1>4, <1>6, <1>9, <1>10, <1>11, FinishKeeps

-----------------------------------------------------------------------------
(* A set of numbers that is not empty has a least one.                     *)
LEMMA LeastIs ==
  ASSUME NEW T \in SUBSET Nat, T # {}
  PROVE  \E i \in T : \A j \in T : i <= j
<1> DEFINE R == {p \in Nat \X Nat : p[1] < p[2]}
<1>1. IsWellFoundedOn(R, Nat)
  BY NatLessThanWellFounded DEF OpToRel
<1>2. \A i, j \in Nat : j < i => <<j, i>> \in R
  OBVIOUS
<1> HIDE DEF R
<1>3. PICK i \in T : \A j \in T : <<j, i>> \notin R
  BY ONLY <1>1, WFMin, T \subseteq Nat, T # {}
<1>4. \A j \in T : ~(j < i)
  BY <1>3, <1>2
<1> QED
  BY <1>4

(* The class that Yapic_GetTypeMethod finds is one of the extension.       *)
LEMMA NearestType ==
  ASSUME NEW c \in Class, NEW S, Nearest(c, S) # Null
  PROVE  Nearest(c, S) \in Class
<1> DEFINE line == <<c>> \o Bases[c]
           at == {i \in DOMAIN line : line[i] \in S}
<1>1. line \in Seq(Class)
  <2>1. Bases[c] \in Seq(Class) /\ <<c>> \in Seq(Class)
    BY ClassesOK
  <2> QED
    BY ONLY <2>1
<1>2. \A i \in DOMAIN line : i \in Nat /\ line[i] \in Class
  BY <1>1, ElementOfSeq, LenProperties
<1>3. at # {} /\ Nearest(c, S) = line[CHOOSE i \in at : \A j \in at : i <= j]
  BY DEF Nearest
<1> HIDE DEF line
<1>4. \E i \in at : \A j \in at : i <= j
  BY <1>2, <1>3, LeastIs
<1>5. (CHOOSE i \in at : \A j \in at : i <= j) \in at
  BY <1>4
<1> QED
  BY <1>2, <1>3, <1>5

-----------------------------------------------------------------------------
(* A block waits in a list when some class has it there.                   *)
LEMMA PooledIs ==
  \A b : b \in Pooled <=> \E c \in Class : \E i \in DOMAIN list[c] : list[c][i] = b
  BY DEF Pooled

(* A block that is not used has no pointer to anything.                    *)
LEMMA UnusedIs ==
  ASSUME BlocksOK, NEW b \in Block, ~InUse(b), NEW i \in Nat
  PROVE  Value(<<b, i>>) = Null
  BY PointersOK DEF BlocksOK, Value, Variable

(* A place that is no variable is a field of a block.                      *)
LEMMA TargetIs ==
  ASSUME NEW q \in Target, q \notin Variable
  PROVE  \E b \in Block : \E i \in Nat : q = <<b, i>>
  BY DEF Target

-----------------------------------------------------------------------------
(* FreeList::Dealloc appends a block whose fields are empty to a list:     *)
(* blocks and lists stay right, and that block only is unused after it.    *)
LEMMA KeepIs ==
  ASSUME BlocksOK, NEW b \in Block, InUse(b), Keep(b),
         \A i \in DOMAIN field[b] : field[b][i] = Null
  PROVE  /\ BlocksOK' /\ type' = type /\ field' = field
         /\ ~InUse(b)' /\ \A o \in Block \ {b} : InUse(o)' <=> InUse(o)
<1>1. PICK l : l = Freer(type[b])
  OBVIOUS
<1>2. /\ l # Null /\ Len(list[l]) < Pool[l]
      /\ list' = [list EXCEPT ![l] = Append(@, b)]
      /\ type' = type /\ room' = room /\ field' = field
  BY <1>1 DEF Keep
<1>3. l \in Class /\ type[b] \in Class /\ b \notin Pooled
  BY <1>1, <1>2, NearestType DEF Freer, InUse, BlocksOK
<1>4. /\ list \in [Class -> Seq(Block)] /\ list[l] \in Seq(Block) /\ Len(list[l]) \in Nat
      /\ DOMAIN list[l] = 1 .. Len(list[l])
  BY <1>3, LenProperties DEF BlocksOK
<1>5. PICK m : m = Append(list[l], b)
  OBVIOUS
<1>6. /\ m \in Seq(Block) /\ Len(m) = Len(list[l]) + 1 /\ DOMAIN m = 1 .. Len(list[l]) + 1
      /\ \A i \in DOMAIN list[l] : m[i] = list[l][i]
      /\ m[Len(list[l]) + 1] = b
  BY <1>4, <1>5, AppendProperties, LenProperties
<1>7. /\ list' \in [Class -> Seq(Block)] /\ list'[l] = m
      /\ \A c \in Class \ {l} : list'[c] = list[c]
  BY <1>2, <1>3, <1>4, <1>5, <1>6
(* What is in a list was there, or is b at the end of this one.            *)
<1>8. ASSUME NEW c \in Class, NEW i \in DOMAIN list'[c]
      PROVE  \/ i \in DOMAIN list[c] /\ list'[c][i] = list[c][i] /\ list[c][i] # b
             \/ c = l /\ i = Len(list[l]) + 1 /\ list'[c][i] = b
  <2>1. \A k \in DOMAIN list[c] : list[c][k] # b
    BY <1>3, PooledIs
  <2>2. CASE c = l
    <3>1. i \in DOMAIN list[l] \/ i = Len(list[l]) + 1
      BY <2>2, <1>4, <1>6, <1>7, <1>8
    <3> QED
      BY <3>1, <2>1, <2>2, <1>6, <1>7
  <2>3. CASE c # l
    BY <2>1, <2>3, <1>7, <1>8
  <2> QED
    BY <2>2, <2>3
<1>9. /\ \A c \in Class : \A i \in DOMAIN list[c] : i \in DOMAIN list'[c] /\ list'[c][i] = list[c][i]
      /\ Len(list[l]) + 1 \in DOMAIN list'[l] /\ list'[l][Len(list[l]) + 1] = b
  <2>1. ASSUME NEW c \in Class, NEW i \in DOMAIN list[c]
        PROVE  i \in DOMAIN list'[c] /\ list'[c][i] = list[c][i]
    <3>1. CASE c = l
      BY <3>1, <1>4, <1>6, <1>7
    <3>2. CASE c # l
      BY <3>2, <1>7
    <3> QED
      BY <3>1, <3>2
  <2>2. Len(list[l]) + 1 \in DOMAIN list'[l] /\ list'[l][Len(list[l]) + 1] = b
    BY <1>4, <1>6, <1>7
  <2> QED
    BY <2>1, <2>2
<1>10. b \in Pooled' /\ \A o \in Block \ {b} : o \in Pooled' <=> o \in Pooled
  <2>1. \A o : o \in Pooled' <=> \E c \in Class : \E i \in DOMAIN list'[c] : list'[c][i] = o
    BY DEF Pooled
  <2>2. b \in Pooled'
    BY <2>1, <1>3, <1>9
  <2>3. ASSUME NEW o \in Block \ {b}, o \in Pooled' PROVE o \in Pooled
    <3>1. PICK c \in Class : \E i \in DOMAIN list'[c] : list'[c][i] = o
      BY <2>1, <2>3
    <3>2. PICK i \in DOMAIN list'[c] : list'[c][i] = o
      BY <3>1
    <3>3. i \in DOMAIN list[c] /\ list[c][i] = o
      BY <3>2, <1>8
    <3> QED
      BY <3>3, PooledIs
  <2>4. ASSUME NEW o \in Block \ {b}, o \in Pooled PROVE o \in Pooled'
    <3>1. PICK c \in Class : \E i \in DOMAIN list[c] : list[c][i] = o
      BY <2>4, PooledIs
    <3> QED
      BY <3>1, <2>1, <1>9
  <2> QED
    BY <2>2, <2>3, <2>4
<1>11. ~InUse(b)' /\ \A o \in Block \ {b} : InUse(o)' <=> InUse(o)
  BY <1>2, <1>10 DEF InUse
<1>12. ListsOK'
  <2>1. ASSUME NEW c \in Class PROVE Len(list'[c]) <= Pool[c]
    <3>1. CASE c = l
      BY <3>1, <1>2, <1>3, <1>4, <1>6, <1>7, SizesOK
    <3>2. CASE c # l
      BY <3>2, <1>7 DEF BlocksOK, ListsOK
    <3> QED
      BY <3>1, <3>2
  <2>2. ASSUME NEW c \in Class, NEW i \in DOMAIN list'[c], NEW d \in Class, NEW j \in DOMAIN list'[d],
               list'[c][i] = list'[d][j]
        PROVE  c = d /\ i = j
    <3>1. \A k \in DOMAIN list[c], n \in DOMAIN list[d] : list[c][k] = list[d][n] => c = d /\ k = n
      BY DEF BlocksOK, ListsOK
    <3> QED
      BY <3>1, <2>2, <1>8
  <2> QED
    BY <2>1, <2>2 DEF ListsOK
<1>13. \A c \in Class : \A i \in DOMAIN list'[c] :
           type'[list'[c][i]] # Null /\ Freer(type'[list'[c][i]]) = c
  <2>1. ASSUME NEW c \in Class, NEW i \in DOMAIN list'[c]
        PROVE  type[list'[c][i]] # Null /\ Freer(type[list'[c][i]]) = c
    <3>1. type[b] # Null /\ Freer(type[b]) = l
      BY <1>1 DEF InUse
    <3>2. \A k \in DOMAIN list[c] : type[list[c][k]] # Null /\ Freer(type[list[c][k]]) = c
      BY DEF BlocksOK
    <3> QED
      BY <3>1, <3>2, <1>8
  <2> QED
    BY <2>1, <1>2
<1>14. \A o \in Block : \A i \in DOMAIN field'[o] :
           field'[o][i] # Null => InUse(o)' /\ i <= Fields[type'[o]]
  BY <1>2, <1>11 DEF BlocksOK
<1>15. /\ type' \in [Block -> Class \cup {Null}] /\ room' \in [Block -> Nat]
       /\ field' \in [Block -> Seq(Object \cup {Null})]
       /\ \A o \in Block : type'[o] # Null =>
            room'[o] >= Size[type'[o]] /\ Len(field'[o]) >= Fields[type'[o]]
  BY <1>2 DEF BlocksOK
<1>16. BlocksOK'
  BY <1>7, <1>12, <1>13, <1>14, <1>15 DEF BlocksOK
<1> QED
  BY <1>2, <1>11, <1>16

(* TypeAllocator::Dealloc gives a block back to Python: the same.          *)
LEMMA GiveBackIs ==
  ASSUME BlocksOK, NEW b \in Block, InUse(b), GiveBack(b)
  PROVE  /\ BlocksOK' /\ list' = list
         /\ \A o \in Block \ {b} : type'[o] = type[o] /\ field'[o] = field[o] /\ room'[o] = room[o]
         /\ type'[b] = Null /\ field'[b] = <<>> /\ room'[b] = 0
         /\ ~InUse(b)' /\ \A o \in Block \ {b} : InUse(o)' <=> InUse(o)
<1>1. /\ type' = [type EXCEPT ![b] = Null] /\ room' = [room EXCEPT ![b] = 0]
      /\ field' = [field EXCEPT ![b] = <<>>] /\ list' = list
  BY DEF GiveBack
<1>2. /\ type \in [Block -> Class \cup {Null}] /\ room \in [Block -> Nat]
      /\ field \in [Block -> Seq(Object \cup {Null})]
  BY DEF BlocksOK
<1>3. /\ \A o \in Block \ {b} : type'[o] = type[o] /\ field'[o] = field[o] /\ room'[o] = room[o]
      /\ type'[b] = Null /\ field'[b] = <<>> /\ room'[b] = 0
  BY <1>1, <1>2
<1>4. /\ type' \in [Block -> Class \cup {Null}] /\ room' \in [Block -> Nat]
      /\ field' \in [Block -> Seq(Object \cup {Null})]
  <2>1. <<>> \in Seq(Object \cup {Null})
    OBVIOUS
  <2> QED
    BY <1>1, <1>2, <2>1
<1>5. Pooled' = Pooled /\ b \notin Pooled
  BY <1>1 DEF Pooled, InUse
<1>6. ~InUse(b)' /\ \A o \in Block \ {b} : InUse(o)' <=> InUse(o)
  BY <1>3, <1>5 DEF InUse
<1>7. \A c \in Class : \A i \in DOMAIN list'[c] :
          type'[list'[c][i]] # Null /\ Freer(type'[list'[c][i]]) = c
  <2>1. ASSUME NEW c \in Class, NEW i \in DOMAIN list[c]
        PROVE  type'[list[c][i]] = type[list[c][i]]
    <3>1. list[c][i] # b
      BY <1>5, PooledIs
    <3>2. list[c][i] \in Block
      BY ElementOfSeq, LenProperties DEF BlocksOK
    <3> QED
      BY <3>1, <3>2, <1>3
  <2> QED
    BY <2>1, <1>1 DEF BlocksOK
<1>8. \A o \in Block : type'[o] # Null =>
          room'[o] >= Size[type'[o]] /\ Len(field'[o]) >= Fields[type'[o]]
  BY <1>3 DEF BlocksOK
<1>9. \A o \in Block : \A i \in DOMAIN field'[o] :
          field'[o][i] # Null => InUse(o)' /\ i <= Fields[type'[o]]
  <2>1. ASSUME NEW o \in Block, NEW i \in DOMAIN field'[o], field'[o][i] # Null
        PROVE  InUse(o)' /\ i <= Fields[type'[o]]
    <3>1. o # b
      BY <2>1, <1>3
    <3> QED
      BY <2>1, <3>1, <1>3, <1>6 DEF BlocksOK
  <2> QED
    BY <2>1
<1>10. ListsOK' <=> ListsOK
  BY <1>1 DEF ListsOK
<1>11. BlocksOK'
  BY <1>1, <1>4, <1>7, <1>8, <1>9, <1>10 DEF BlocksOK
<1> QED
  BY <1>1, <1>3, <1>6, <1>11

(* At the last call of a `__dealloc__` all fields of the object are        *)
(* empty.                                                                  *)
LEMMA FreedIs ==
  ASSUME Owned, Free, NEW b, b = Head(frames).obj
  PROVE  /\ b \in Block /\ InUse(b) /\ rc[b] = 0 /\ Dealloc(b)
         /\ \A i \in DOMAIN field[b] : field[b][i] = Null
<1>1. /\ frames # <<>> /\ Head(frames).op = "dealloc" /\ Dealloc(b)
      /\ Head(frames).next > Fields[type[b]] \/ Fields[type[b]] = 0
  BY DEF Free
<1>2. /\ Head(frames) = frames[1] /\ 1 \in DOMAIN frames
      /\ b \in Block /\ frames[1].next \in Nat
  BY <1>1, TailIs, FrameType DEF Owned
<1>3. DeallocOK(1, frames) /\ InUse(b) /\ rc[b] = 0
  BY <1>1, <1>2 DEF Owned, StackOK, DeallocOK
<1>4. \A i \in DOMAIN field[b] : field[b][i] = Null
  <2>1. SUFFICES ASSUME NEW i \in DOMAIN field[b], field[b][i] # Null PROVE FALSE
    OBVIOUS
  <2>2. i \in Nat /\ i >= 1
    BY <1>2, LenProperties DEF Owned, BlocksOK
  <2>3. i <= Fields[type[b]] /\ Fields[type[b]] \in Nat
    BY <1>2, <1>3, <2>1, SizesOK DEF Owned, BlocksOK, InUse
  <2>4. ~(i < frames[1].next)
    BY <1>2, <1>3, <2>1 DEF DeallocOK
  <2> QED
    BY <1>1, <1>2, <2>2, <2>3, <2>4
<1> QED
  BY <1>1, <1>2, <1>3, <1>4

(* That call keeps the invariant: nobody has a pointer into the block,     *)
(* and no call below needs it.                                             *)
LEMMA FreeKeeps ==
  ASSUME Owned, Free
  PROVE  Owned'
<1>1. PICK b, s : b = Head(frames).obj /\ s = Tail(frames)
  OBVIOUS
<1>2. /\ frames # <<>> /\ Head(frames).op = "dealloc"
      /\ Dealloc(b) /\ frames' = s /\ UNCHANGED <<var, rc>>
  BY <1>1 DEF Free
<1>3. /\ Head(frames) = frames[1] /\ 1 \in DOMAIN frames /\ s \in Seq(Frame)
      /\ b \in Block
  BY <1>1, <1>2, TailIs, FrameType DEF Owned
<1>4. InUse(b) /\ rc[b] = 0
  BY <1>1, FreedIs
<1>5. /\ BusyIn(s) = Busy /\ Dying(frames) = Dying(s) \cup {b}
      /\ StackOK(s) /\ b \notin Dying(s)
  BY <1>1, <1>2, <1>3, TailBusy, StackTail, BusyIs DEF Owned
<1>6. \A i \in DOMAIN field[b] : field[b][i] = Null
  BY <1>1, FreedIs
<1>7. /\ BlocksOK' /\ ~InUse(b)'
      /\ \A o \in Block \ {b} :
            (InUse(o)' <=> InUse(o)) /\ type'[o] = type[o] /\ field'[o] = field[o]
      /\ field'[b] = field[b] \/ field'[b] = <<>>
  <2>1. CASE Keep(b)
    BY <2>1, <1>3, <1>4, <1>6, KeepIs DEF Owned
  <2>2. CASE GiveBack(b)
    BY <2>2, <1>3, <1>4, GiveBackIs DEF Owned
  <2> QED
    BY <2>1, <2>2, <1>2 DEF Dealloc
<1>8. VarsOK'
  BY <1>2 DEF Owned, VarsOK
<1>9. Busy' = Busy
  <2>1. Busy' = BusyIn(s)
    BY <1>2 DEF Busy, BusyIn
  <2> QED
    BY <2>1, <1>5
<1>10. \A q \in Target : Owner(q)' = Owner(q)
  <2>1. ASSUME NEW q \in Target PROVE Value(q)' = Value(q)
    <3>1. CASE q \in Variable
      BY <3>1, <1>2 DEF Value
    <3>2. CASE q \notin Variable
      <4>1. PICK o \in Block : \E i \in Nat : q = <<o, i>>
        BY <3>2, TargetIs
      <4>2. PICK i \in Nat : q = <<o, i>>
        BY <4>1
      <4>3. CASE o # b
        BY <4>2, <4>3, <3>2, <1>7 DEF Value
      <4>4. CASE o = b
        <5>1. \A j \in DOMAIN field'[b] : field'[b][j] = Null
          BY <1>6, <1>7
        <5> QED
          BY <4>2, <4>4, <5>1, <3>2, <1>6 DEF Value
      <4> QED
        BY <4>3, <4>4
    <3> QED
      BY <3>1, <3>2
  <2> QED
    BY <2>1, <1>9 DEF Owner
<1>11. CountsRight'
  <2>1. /\ field \in [Block -> Seq(Object \cup {Null})]
        /\ field' \in [Block -> Seq(Object \cup {Null})]
    BY <1>7 DEF BlocksOK, Owned
  <2> QED
    BY <1>2, <1>10, <2>1, Keeps DEF Owned
<1>12. OwnedIsUsed'
  <2>1. SUFFICES ASSUME NEW o \in Block, rc'[o] > 0 PROVE InUse(o)'
    BY DEF OwnedIsUsed
  <2>2. o # b
    BY <2>1, <1>2, <1>4
  <2> QED
    BY <2>1, <2>2, <1>2, <1>7 DEF Owned, OwnedIsUsed
<1>13. StackOK(s)'
  <2>1. ~Held(b, s)
    <3>1. Held(b, s) => Held(b, frames)
      BY <1>5, BusyIs DEF Held
    <3> QED
      BY <3>1, <1>3, <1>4, HeldCounts DEF Owned
  <2>2. \A c \in Block : (c \in Dying(s) \/ Held(c, s)) /\ InUse(c) =>
            InUse(c)' /\ type'[c] = type[c]
    <3>1. SUFFICES ASSUME NEW c \in Block, c \in Dying(s) \/ Held(c, s), InUse(c)
                   PROVE  InUse(c)' /\ type'[c] = type[c]
      OBVIOUS
    <3>2. c # b
      BY <3>1, <2>1, <1>5
    <3> QED
      BY <3>1, <3>2, <1>7
  <2>3. \A c \in Dying(s) : rc'[c] = 0
    BY <1>2, <1>5, DyingIs DEF Owned
  <2>4. ASSUME NEW k \in DOMAIN s, s[k].op = "dealloc",
               NEW j \in DOMAIN field'[s[k].obj], j < s[k].next
        PROVE  field'[s[k].obj][j] = Null
    <3>1. DeallocOK(k, s) /\ s[k].obj \in Dying(s) /\ s[k].obj \in Block
      BY <1>3, <1>5, <2>4, StackSets, ElementOfSeq, LenProperties, FrameType DEF StackOK
    <3>2. s[k].obj # b
      BY <3>1, <1>5
    <3>3. field'[s[k].obj] = field[s[k].obj]
      BY <3>1, <3>2, <1>7
    <3> QED
      BY <2>4, <3>1, <3>3 DEF DeallocOK
  <2>5. s = <<>> \/ var' = var
    BY <1>2
  <2> QED
    BY <1>3, <1>5, <2>2, <2>3, <2>4, <2>5, StackStays
<1>14. StackOK(frames)'
  BY <1>2, <1>13 DEF StackOK, DeallocOK, AssignOK
<1>15. AllDying'
  <2>1. SUFFICES ASSUME NEW o \in Block, InUse(o)', rc'[o] = 0 PROVE o \in Dying(frames')
    BY DEF AllDying
  <2>2. o # b
    BY <2>1, <1>7
  <2>3. o \in Dying(frames)
    BY <2>1, <2>2, <1>2, <1>7 DEF Owned, AllDying
  <2> QED
    BY <2>2, <2>3, <1>2, <1>5
<1> QED
  BY <1>2, <1>3, <1>7, <1>8, <1>11, <1>12, <1>14, <1>15 DEF Owned

-----------------------------------------------------------------------------
(* FreeList::Alloc takes the last block of a list, which has room for the  *)
(* object: blocks and lists stay right, and that block only comes in use.  *)
LEMMA ReuseIs ==
  ASSUME BlocksOK, NEW c \in Class, NEW b, Reuse(b, c), type' = [type EXCEPT ![b] = c]
  PROVE  /\ b \in Block /\ ~InUse(b) /\ BlocksOK'
         /\ InUse(b)' /\ type'[b] = c /\ \A o \in Block \ {b} : InUse(o)' <=> InUse(o)
         /\ \A o \in Block \ {b} : type'[o] = type[o]
         /\ \A i \in Nat : Value(<<b, i>>)' = Null
         /\ \A o \in Block \ {b} : field'[o] = field[o]
         /\ room'[b] >= Size[c]
         /\ \A o \in Block \ {b} : room'[o] = room[o]
<1>1. PICK l, n : l = Maker(c) /\ n = Len(list[l])
  OBVIOUS
<1>2. /\ l # Null /\ list[l] # <<>> /\ b = list[l][n]
      /\ list' = [list EXCEPT ![l] = SubSeq(@, 1, n - 1)]
      /\ room' = room /\ field' = field
  BY <1>1 DEF Reuse
<1>3. l \in Class
  BY <1>1, <1>2, NearestType DEF Maker
<1>4. /\ list \in [Class -> Seq(Block)] /\ list[l] \in Seq(Block)
      /\ n \in Nat /\ n >= 1 /\ DOMAIN list[l] = 1 .. n /\ n \in DOMAIN list[l]
  <2>1. list \in [Class -> Seq(Block)] /\ list[l] \in Seq(Block)
    BY <1>3 DEF BlocksOK
  <2>2. n \in Nat /\ DOMAIN list[l] = 1 .. n /\ n # 0
    BY <2>1, <1>1, <1>2, LenProperties, EmptySeq
  <2> QED
    BY <2>1, <2>2
<1>5. b \in Block /\ b \in Pooled /\ ~InUse(b)
  <2>1. b \in Block
    BY <1>2, <1>4, ElementOfSeq
  <2>2. b \in Pooled
    BY <1>2, <1>3, <1>4, PooledIs
  <2> QED
    BY <2>1, <2>2 DEF InUse
<1>6. type[b] \in Class /\ Freer(type[b]) = l /\ Pool[l] > 0
  <2>1. type[b] # Null /\ Freer(type[b]) = l
    BY <1>2, <1>3, <1>4 DEF BlocksOK
  <2>2. n <= Pool[l] /\ Pool[l] \in Nat
    BY <1>1, <1>3, SizesOK DEF BlocksOK, ListsOK
  <2> QED
    BY <2>1, <2>2, <1>4, <1>5 DEF BlocksOK
<1>7. room[b] >= Size[c] /\ Len(field[b]) >= Fields[c]
  <2>1. Size[type[b]] >= Size[c] /\ Fields[type[b]] >= Fields[c]
    BY <1>1, <1>2, <1>6, RoomForAll
  <2>2. room[b] >= Size[type[b]] /\ Len(field[b]) >= Fields[type[b]] /\ type[b] # Null
    BY <1>5, <1>6, ClassesOK DEF BlocksOK
  <2>3. /\ room[b] \in Nat /\ Len(field[b]) \in Nat /\ Size[c] \in Nat /\ Fields[c] \in Nat
        /\ Size[type[b]] \in Nat /\ Fields[type[b]] \in Nat
    BY <1>5, <1>6, SizesOK, LenProperties DEF BlocksOK
  <2> QED
    BY <2>1, <2>2, <2>3
<1>8. type' \in [Block -> Class \cup {Null}] /\ type'[b] = c /\ \A o \in Block \ {b} : type'[o] = type[o]
  BY <1>5 DEF BlocksOK
<1>9. PICK m : m = SubSeq(list[l], 1, n - 1)
  OBVIOUS
<1>10. /\ m \in Seq(Block) /\ Len(m) = n - 1 /\ DOMAIN m = 1 .. n - 1
       /\ \A i \in 1 .. n - 1 : m[i] = list[l][i]
  <2>1. \A i \in 1 .. n - 1 : list[l][i] \in Block
    BY <1>4, ElementOfSeq
  <2>2. n - 1 \in Int /\ 1 \in Int
    BY <1>4
  <2>3. /\ m \in Seq(Block) /\ Len(m) = IF 1 <= n - 1 THEN n - 1 - 1 + 1 ELSE 0
        /\ \A i \in 1 .. n - 1 - 1 + 1 : m[i] = list[l][1 + i - 1]
    BY <2>1, <2>2, <1>9, SubSeqProperties
  <2>4. Len(m) = n - 1 /\ \A i \in 1 .. n - 1 : m[i] = list[l][i]
    BY <2>3, <1>4
  <2> QED
    BY <2>3, <2>4, LenProperties
<1>11. /\ list' \in [Class -> Seq(Block)] /\ list'[l] = m
       /\ \A d \in Class \ {l} : list'[d] = list[d]
  BY <1>2, <1>3, <1>4, <1>9, <1>10
<1>12. ASSUME NEW d \in Class, NEW i \in DOMAIN list'[d]
       PROVE  i \in DOMAIN list[d] /\ list'[d][i] = list[d][i] /\ list[d][i] # b
  <2>1. i \in DOMAIN list[d] /\ list'[d][i] = list[d][i] /\ (d = l => i # n)
    <3>1. CASE d = l
      BY <3>1, <1>4, <1>10, <1>11, <1>12
    <3>2. CASE d # l
      BY <3>2, <1>11, <1>12
    <3> QED
      BY <3>1, <3>2
  <2>2. list[d][i] = list[l][n] => d = l /\ i = n
    BY <2>1, <1>3, <1>4 DEF BlocksOK, ListsOK
  <2> QED
    BY <2>1, <2>2, <1>2
<1>13. ASSUME NEW d \in Class, NEW i \in DOMAIN list[d], list[d][i] # b
       PROVE  i \in DOMAIN list'[d] /\ list'[d][i] = list[d][i]
  <2>1. CASE d = l
    <3>1. i \in 1 .. n /\ i # n
      BY <2>1, <1>2, <1>4, <1>13
    <3>2. i \in 1 .. n - 1
      BY <3>1, <1>4
    <3> QED
      BY <3>2, <2>1, <1>10, <1>11
  <2>2. CASE d # l
    BY <2>2, <1>11, <1>13
  <2> QED
    BY <2>1, <2>2
<1>14. b \notin Pooled' /\ \A o \in Block \ {b} : o \in Pooled' <=> o \in Pooled
  <2>1. \A o : o \in Pooled' <=> \E d \in Class : \E i \in DOMAIN list'[d] : list'[d][i] = o
    BY DEF Pooled
  <2>2. b \notin Pooled'
    BY <2>1, <1>12
  <2>3. ASSUME NEW o \in Block \ {b}, o \in Pooled' PROVE o \in Pooled
    <3>1. PICK d \in Class : \E i \in DOMAIN list'[d] : list'[d][i] = o
      BY <2>1, <2>3
    <3>2. PICK i \in DOMAIN list'[d] : list'[d][i] = o
      BY <3>1
    <3>3. i \in DOMAIN list[d] /\ list[d][i] = o
      BY <3>2, <1>12
    <3> QED
      BY <3>3, PooledIs
  <2>4. ASSUME NEW o \in Block \ {b}, o \in Pooled PROVE o \in Pooled'
    <3>1. PICK d \in Class : \E i \in DOMAIN list[d] : list[d][i] = o
      BY <2>4, PooledIs
    <3>2. PICK i \in DOMAIN list[d] : list[d][i] = o
      BY <3>1
    <3>3. i \in DOMAIN list'[d] /\ list'[d][i] = o
      BY <3>2, <1>13
    <3> QED
      BY <3>3, <2>1
  <2> QED
    BY <2>2, <2>3, <2>4
<1>15. InUse(b)' /\ \A o \in Block \ {b} : InUse(o)' <=> InUse(o)
  BY <1>8, <1>14, ClassesOK DEF InUse
<1>16. ListsOK'
  <2>1. ASSUME NEW d \in Class PROVE Len(list'[d]) <= Pool[d]
    <3>1. CASE d = l
      <4>1. n <= Pool[l] /\ Pool[l] \in Nat
        BY <1>1, <1>3, SizesOK DEF BlocksOK, ListsOK
      <4> QED
        BY <4>1, <3>1, <1>4, <1>10, <1>11
    <3>2. CASE d # l
      BY <3>2, <1>11 DEF BlocksOK, ListsOK
    <3> QED
      BY <3>1, <3>2
  <2>2. ASSUME NEW d \in Class, NEW i \in DOMAIN list'[d], NEW e \in Class, NEW j \in DOMAIN list'[e],
               list'[d][i] = list'[e][j]
        PROVE  d = e /\ i = j
    <3>1. \A k \in DOMAIN list[d], q \in DOMAIN list[e] : list[d][k] = list[e][q] => d = e /\ k = q
      BY DEF BlocksOK, ListsOK
    <3> QED
      BY <3>1, <2>2, <1>12
  <2> QED
    BY <2>1, <2>2 DEF ListsOK
<1>17. \A d \in Class : \A i \in DOMAIN list'[d] :
           type'[list'[d][i]] # Null /\ Freer(type'[list'[d][i]]) = d
  <2>1. ASSUME NEW d \in Class, NEW i \in DOMAIN list'[d]
        PROVE  type'[list'[d][i]] # Null /\ Freer(type'[list'[d][i]]) = d
    <3>1. i \in DOMAIN list[d] /\ list'[d][i] = list[d][i] /\ list[d][i] # b
      BY <1>12
    <3>2. list[d][i] \in Block
      BY <3>1, ElementOfSeq, LenProperties DEF BlocksOK
    <3>3. type[list[d][i]] # Null /\ Freer(type[list[d][i]]) = d
      BY <3>1 DEF BlocksOK
    <3> QED
      BY <3>1, <3>2, <3>3, <1>8
  <2> QED
    BY <2>1
<1>18. \A o \in Block : type'[o] # Null =>
           room'[o] >= Size[type'[o]] /\ Len(field'[o]) >= Fields[type'[o]]
  BY <1>2, <1>7, <1>8 DEF BlocksOK
<1>19. /\ \A i \in DOMAIN field[b] : field[b][i] = Null
       /\ \A o \in Block : \A i \in DOMAIN field'[o] :
            field'[o][i] # Null => InUse(o)' /\ i <= Fields[type'[o]]
  <2>1. \A i \in DOMAIN field[b] : field[b][i] = Null
    BY <1>5 DEF BlocksOK
  <2>2. ASSUME NEW o \in Block, NEW i \in DOMAIN field[o], field[o][i] # Null
        PROVE  InUse(o)' /\ i <= Fields[type'[o]]
    <3>1. o # b
      BY <2>1, <2>2
    <3> QED
      BY <2>2, <3>1, <1>8, <1>15 DEF BlocksOK
  <2> QED
    BY <2>1, <2>2, <1>2
<1>20. room' \in [Block -> Nat] /\ field' \in [Block -> Seq(Object \cup {Null})]
  BY <1>2 DEF BlocksOK
<1>21. BlocksOK'
  BY <1>8, <1>11, <1>16, <1>17, <1>18, <1>19, <1>20 DEF BlocksOK
<1>22. \A i \in Nat : Value(<<b, i>>)' = Null
  BY <1>2, <1>5, <1>19, PointersOK DEF Value, Variable
<1> QED
  BY <1>2, <1>5, <1>7, <1>8, <1>15, <1>21, <1>22

(* TypeAllocator::Alloc takes a block that Python has: the same.           *)
LEMMA FreshIs ==
  ASSUME BlocksOK, NEW c \in Class, NEW b, Fresh(b, c), type' = [type EXCEPT ![b] = c]
  PROVE  /\ b \in Block /\ ~InUse(b) /\ BlocksOK'
         /\ InUse(b)' /\ type'[b] = c /\ \A o \in Block \ {b} : InUse(o)' <=> InUse(o)
         /\ \A o \in Block \ {b} : type'[o] = type[o]
         /\ \A i \in Nat : Value(<<b, i>>)' = Null
         /\ \A o \in Block \ {b} : field'[o] = field[o]
         /\ room'[b] >= Size[c]
         /\ \A o \in Block \ {b} : room'[o] = room[o]
<1>1. /\ b \in Block /\ type[b] = Null
      /\ room' = [room EXCEPT ![b] = Size[c]]
      /\ field' = [field EXCEPT ![b] = [i \in 1 .. Fields[c] |-> Null]] /\ list' = list
  <2>1. {o \in Block : type[o] = Null} \in (SUBSET Block) \ {{}}
    BY DEF Fresh
  <2>2. b \in {o \in Block : type[o] = Null}
    BY <2>1, GivesOK DEF Fresh
  <2> QED
    BY <2>2 DEF Fresh
<1>2. Size[c] \in Nat /\ Fields[c] \in Nat
  BY SizesOK
<1>3. PICK f : f = [i \in 1 .. Fields[c] |-> Null]
  OBVIOUS
<1>4. /\ f \in Seq(Object \cup {Null}) /\ Len(f) = Fields[c]
      /\ \A i \in DOMAIN f : f[i] = Null
  BY <1>2, <1>3
<1>5. /\ type' \in [Block -> Class \cup {Null}] /\ room' \in [Block -> Nat]
      /\ field' \in [Block -> Seq(Object \cup {Null})]
      /\ type'[b] = c /\ room'[b] = Size[c] /\ field'[b] = f
      /\ \A o \in Block \ {b} : type'[o] = type[o] /\ field'[o] = field[o] /\ room'[o] = room[o]
  BY <1>1, <1>2, <1>3, <1>4 DEF BlocksOK
<1>6. Pooled' = Pooled /\ b \notin Pooled /\ ~InUse(b)
  <2>1. b \notin Pooled
    BY <1>1, PooledIs DEF BlocksOK
  <2> QED
    BY <2>1, <1>1 DEF Pooled, InUse
<1>7. InUse(b)' /\ \A o \in Block \ {b} : InUse(o)' <=> InUse(o)
  BY <1>5, <1>6, ClassesOK DEF InUse
<1>8. \A d \in Class : \A i \in DOMAIN list'[d] :
          type'[list'[d][i]] # Null /\ Freer(type'[list'[d][i]]) = d
  <2>1. ASSUME NEW d \in Class, NEW i \in DOMAIN list[d]
        PROVE  type'[list[d][i]] = type[list[d][i]]
    <3>1. list[d][i] # b
      BY <1>6, PooledIs
    <3>2. list[d][i] \in Block
      BY ElementOfSeq, LenProperties DEF BlocksOK
    <3> QED
      BY <3>1, <3>2, <1>5
  <2> QED
    BY <2>1, <1>1 DEF BlocksOK
<1>9. \A o \in Block : type'[o] # Null =>
          room'[o] >= Size[type'[o]] /\ Len(field'[o]) >= Fields[type'[o]]
  BY <1>2, <1>4, <1>5 DEF BlocksOK
<1>10. \A o \in Block : \A i \in DOMAIN field'[o] :
           field'[o][i] # Null => InUse(o)' /\ i <= Fields[type'[o]]
  <2>1. ASSUME NEW o \in Block, NEW i \in DOMAIN field'[o], field'[o][i] # Null
        PROVE  InUse(o)' /\ i <= Fields[type'[o]]
    <3>1. o # b
      BY <2>1, <1>4, <1>5
    <3> QED
      BY <2>1, <3>1, <1>5, <1>7 DEF BlocksOK
  <2> QED
    BY <2>1
<1>11. ListsOK' <=> ListsOK
  BY <1>1 DEF ListsOK
<1>12. BlocksOK'
  BY <1>1, <1>5, <1>8, <1>9, <1>10, <1>11 DEF BlocksOK
<1>13. \A i \in Nat : Value(<<b, i>>)' = Null
  BY <1>1, <1>4, <1>5, PointersOK DEF Value, Variable
<1> QED
  BY <1>1, <1>2, <1>5, <1>6, <1>7, <1>12, <1>13

(* A `__new__` keeps the invariant: the raw pointer is the one owner of    *)
(* the new object, and nothing in its block refers to anything.            *)
LEMMA NewKeeps ==
  ASSUME Owned, NEW c \in Class, New(c)
  PROVE  Owned'
<1>1. PICK b \in Block :
        /\ Alloc(b, c)
        /\ rc' = [rc EXCEPT ![b] = 1]
        /\ var' = [var EXCEPT ![Hand] = b]
  BY DEF New
<1>2. InFunction /\ var[Hand] = Null /\ frames' = frames /\ frames = <<>>
  BY DEF New, InFunction
<1>3. /\ ~InUse(b) /\ BlocksOK'
      /\ InUse(b)' /\ \A o \in Block \ {b} : InUse(o)' <=> InUse(o)
      /\ \A i \in Nat : Value(<<b, i>>)' = Null
      /\ \A o \in Block \ {b} : field'[o] = field[o]
  <2>1. BlocksOK /\ type' = [type EXCEPT ![b] = c]
    BY <1>1 DEF Owned, Alloc
  <2>2. CASE Reuse(b, c)
    <3>1. ~InUse(b) /\ BlocksOK' /\ InUse(b)'
      BY <2>1, <2>2, ReuseIs
    <3>2. \A o \in Block \ {b} : InUse(o)' <=> InUse(o)
      BY <2>1, <2>2, ReuseIs
    <3>3. \A i \in Nat : Value(<<b, i>>)' = Null
      BY <2>1, <2>2, ReuseIs
    <3>4. \A o \in Block \ {b} : field'[o] = field[o]
      BY <2>1, <2>2, ReuseIs
    <3> QED
      BY <3>1, <3>2, <3>3, <3>4
  <2>3. CASE Fresh(b, c)
    <3>1. ~InUse(b) /\ BlocksOK' /\ InUse(b)'
      BY <2>1, <2>3, FreshIs
    <3>2. \A o \in Block \ {b} : InUse(o)' <=> InUse(o)
      BY <2>1, <2>3, FreshIs
    <3>3. \A i \in Nat : Value(<<b, i>>)' = Null
      BY <2>1, <2>3, FreshIs
    <3>4. \A o \in Block \ {b} : field'[o] = field[o]
      BY <2>1, <2>3, FreshIs
    <3> QED
      BY <3>1, <3>2, <3>3, <3>4
  <2> QED
    BY <2>2, <2>3, <1>1 DEF Alloc
<1>4. b \in Object /\ b # Null /\ b # None /\ Hand \in Variable /\ Hand \in Target
  BY PointersOK DEF Object, Variable, Target
<1>5. /\ var \in [Variable -> Object \cup {Null, Absent}]
      /\ VarsOK' /\ var'[Hand] = b /\ \A l \in Variable \ {Hand} : var'[l] = var[l]
  BY <1>1, <1>4, PointersOK DEF Owned, VarsOK
<1>6. rc[b] = 0 /\ rc \in [Object -> Nat]
  BY <1>3 DEF Owned, OwnedIsUsed, CountsRight, Object
<1>7. /\ \A p : Owner(p) = Value(p)
      /\ \A p : Owner(p)' = Value(p)'
  BY <1>2, NoneBusy DEF InFunction, Busy, Owner
<1>8. Value(Hand) = Null /\ Value(Hand)' = b
  BY <1>2, <1>4, <1>5 DEF Value
<1>9. ASSUME NEW q \in Target \ {Hand} PROVE Value(q)' = Value(q)
  <2>1. CASE q \in Variable
    BY <2>1, <1>5, <1>9 DEF Value
  <2>2. CASE q \notin Variable
    <3>1. PICK o \in Block : \E i \in Nat : q = <<o, i>>
      BY <2>2, <1>9, TargetIs
    <3>2. PICK i \in Nat : q = <<o, i>>
      BY <3>1
    <3>3. CASE o # b
      BY <3>2, <3>3, <2>2, <1>3 DEF Value
    <3>4. CASE o = b
      <4>1. Value(q) = Null
        BY <3>2, <3>4, <1>3, UnusedIs DEF Owned
      <4>2. Value(q)' = Null
        BY <3>2, <3>4, <1>3
      <4> QED
        BY <4>1, <4>2
    <3> QED
      BY <3>3, <3>4
  <2> QED
    BY <2>1, <2>2
<1>10. CountsRight'
  <2>1. /\ field \in [Block -> Seq(Object \cup {Null})]
        /\ field' \in [Block -> Seq(Object \cup {Null})]
    BY <1>3 DEF BlocksOK, Owned
  <2>2. rc' = IF b = Null THEN rc ELSE [rc EXCEPT ![b] = @ + 1]
    BY <1>1, <1>4, <1>6
  <2>3. Owner(Hand) \notin Object /\ Owner(Hand)' = b
    BY <1>7, <1>8, NoObject
  <2>4. \A q \in Target \ {Hand} : Owner(q)' = Owner(q)
    BY <1>7, <1>9
  <2> QED
    BY <1>4, <2>1, <2>2, <2>3, <2>4, Takes DEF Owned
<1>11. /\ rc'[b] = 1
       /\ \A o \in Block \ {b} : rc'[o] = rc[o]
  BY <1>1, <1>4, <1>6 DEF Object
<1>12. OwnedIsUsed'
  BY <1>3, <1>11 DEF Owned, OwnedIsUsed
<1>13. AllDying'
  <2>1. SUFFICES ASSUME NEW o \in Block, InUse(o)', rc'[o] = 0 PROVE FALSE
    BY DEF AllDying
  <2>2. o # b
    BY <2>1, <1>11
  <2> QED
    BY <2>1, <2>2, <1>2, <1>3, <1>11, EmptyStack DEF Owned, AllDying
<1>14. frames' \in Seq(Frame) /\ StackOK(frames)'
  BY <1>2, EmptyStack DEF Owned, StackOK
<1> QED
  BY <1>3, <1>5, <1>10, <1>12, <1>13, <1>14 DEF Owned

-----------------------------------------------------------------------------
(* A class is registered once in an import.                                *)
OrderOK ==
    /\ order \in [1 .. Cardinality(Class) -> Class]
    /\ \A c \in Class : \E i \in DOMAIN order : \A j \in DOMAIN order : order[j] = c <=> j = i
    /\ done \in 0 .. Cardinality(Class)

(* Types that this import has registered are ready.                        *)
DoneAreReady ==
    /\ ready \subseteq Class
    /\ \A i \in 1 .. done : order[i] \in ready

(* The first half of MroRight.                                             *)
LineRight(c) ==
    \/ Bases[c] = <<>> /\ mro[c] = <<c>>
    \/ Bases[c] # <<>> /\ Head(Bases[c]) \in ready /\ mro[c] = <<c>> \o mro[Head(Bases[c])]
    \/ SubclassFirst(c) /\ mro[c] = <<c>>

MroInv ==
    /\ OrderOK
    /\ DoneAreReady
    /\ base \in [Class -> Class \cup {Null}]
    /\ mro \in [Class -> Seq(Class)]
    /\ \A c \in ready : LineRight(c)
    /\ SupersFirst => \A c \in ready : mro[c] = <<c>> \o Bases[c]

-----------------------------------------------------------------------------
(* There are so many classes: a number.                                    *)
LEMMA ClassCount == Cardinality(Class) \in Nat
  BY FinitelyMany, FS_CardinalityType

(* Where a class is in the order.                                          *)
LEMMA PositionType ==
  ASSUME OrderOK, NEW c \in Class
  PROVE  /\ Position(c) \in 1 .. Cardinality(Class)
         /\ order[Position(c)] = c
  BY ClassCount DEF OrderOK, Position

(* Each place holds another class.                                         *)
LEMMA PositionIs ==
  ASSUME OrderOK, NEW i \in DOMAIN order
  PROVE  Position(order[i]) = i
  <1>1. order[i] \in Class
    BY DEF OrderOK
  <1>2. PICK k \in DOMAIN order : \A j \in DOMAIN order : order[j] = order[i] <=> j = k
    BY <1>1 DEF OrderOK
  <1> QED
    BY <1>2 DEF Position

(* The line of a class without super.                                      *)
LEMMA NothingAdded == \A c : <<c>> \o <<>> = <<c>>
  OBVIOUS

(* The super of a class and its line.                                      *)
LEMMA SuperType ==
  ASSUME NEW c \in Class, Bases[c] # <<>>
  PROVE  /\ Head(Bases[c]) \in Class
         /\ Head(Bases[c]) # c
         /\ Bases[c] = <<Head(Bases[c])>> \o Bases[Head(Bases[c])]
  <1>1. Bases[c] \in Seq(Class) /\ Tail(Bases[c]) = Bases[Head(Bases[c])]
    BY ClassesOK
  <1>2. /\ Head(Bases[c]) \in Class
        /\ Bases[c] = <<Head(Bases[c])>> \o Tail(Bases[c])
        /\ Len(Tail(Bases[c])) = Len(Bases[c]) - 1
        /\ Len(Bases[c]) \in Nat
    BY <1>1
  <1>3. Head(Bases[c]) # c
    <2>1. SUFFICES ASSUME Head(Bases[c]) = c PROVE FALSE
      OBVIOUS
    <2>2. Tail(Bases[c]) = Bases[c]
      BY <1>1, <2>1
    <2>3. Len(Bases[c]) = Len(Bases[c]) - 1
      BY <1>2, <2>2
    <2> QED
      BY <1>2, <2>3
  <1> QED
    BY <1>1, <1>2, <1>3

(* A class that is not ready comes after the one that is being registered. *)
LEMMA UnreadyIsLater ==
  ASSUME OrderOK, DoneAreReady, ~Imported, NEW h \in Class \ ready, h # Current
  PROVE  /\ Current \in Class
         /\ Position(Current) < Position(h)
  <1>1. done + 1 \in DOMAIN order /\ DOMAIN order = 1 .. Cardinality(Class)
    BY ClassCount DEF OrderOK, Imported
  <1>2. Current \in Class /\ Position(Current) = done + 1
    BY <1>1, PositionIs DEF Current, OrderOK
  <1>3. Position(h) \notin 1 .. done
    BY PositionType DEF DoneAreReady
  <1>4. Position(h) # done + 1
    BY PositionType DEF Current
  <1> QED
    BY <1>2, <1>3, <1>4, PositionType, ClassCount DEF OrderOK

-----------------------------------------------------------------------------
(* PyType_Ready makes the type ready, its base, both or none.              *)
LEMMA ReadyKeeps ==
  ASSUME MroInv, ~Imported, UNCHANGED order,
         NEW c \in Class, c = Current, SetBase(c),
         NEW made \in SUBSET Unready(c), c \in made => made = Unready(c), Ready(c, made)
  PROVE  /\ base' \in [Class -> Class \cup {Null}]
         /\ ready' \subseteq Class /\ ready \subseteq ready'
         /\ mro' \in [Class -> Seq(Class)]
         /\ \A d \in ready' : LineRight(d)'
         /\ SupersFirst' => \A d \in ready' : mro'[d] = <<d>> \o Bases[d]
<1> DEFINE h == BaseType(c)
<1>1. /\ OrderOK /\ DoneAreReady /\ mro \in [Class -> Seq(Class)]
      /\ base' \in [Class -> Class \cup {Null}] /\ base'[c] = h
      /\ h \in Class \cup {Null} /\ Null \notin Class
      /\ h = Null <=> Bases[c] = <<>>
      /\ h # Null => h = Head(Bases[c]) /\ h # c /\ Bases[c] = <<h>> \o Bases[h]
  <2>1. Null \notin Class
    BY ClassesOK
  <2>2. /\ h \in Class \cup {Null}
        /\ h = Null <=> Bases[c] = <<>>
        /\ h # Null => h = Head(Bases[c]) /\ h # c /\ Bases[c] = <<h>> \o Bases[h]
    BY <2>1, SuperType DEF BaseType
  <2> HIDE DEF h
  <2>3. base' \in [Class -> Class \cup {Null}] /\ base'[c] = h
    BY <2>1, <2>2 DEF MroInv, SetBase, h
  <2> QED
    BY <2>1, <2>2, <2>3 DEF MroInv
<1>2. /\ ready' = ready \cup made
      /\ mro' = [d \in Class |-> IF d \notin made THEN mro[d]
                                 ELSE IF d = c THEN LineOf(c) ELSE <<d>>]
  BY DEF Ready
<1> HIDE DEF h
<1>3. made \subseteq (IF c \in ready THEN {} ELSE {c, h} \ (ready \cup {Null}))
  BY <1>1 DEF Unready
<1>4. LineOf(c) \in Seq(Class)
  <2>1. CASE h = Null
    BY <2>1, <1>1 DEF LineOf, DoneAreReady
  <2>2. CASE h # Null /\ h \in ready
    <3>1. <<c>> \in Seq(Class) /\ mro[h] \in Seq(Class)
      BY <2>2, <1>1
    <3>2. LineOf(c) = <<c>> \o mro[h]
      BY <2>2, <1>1 DEF LineOf
    <3>3. <<c>> \o mro[h] \in Seq(Class)
      BY <3>1
    <3> QED
      BY <3>2, <3>3
  <2>3. CASE h # Null /\ h \notin ready
    <3>1. LineOf(c) = <<c, h>>
      BY <2>3, <1>1 DEF LineOf
    <3> QED
      BY <3>1, <2>3, <1>1
  <2> QED
    BY <2>1, <2>2, <2>3
<1>5. ready' \subseteq Class /\ ready \subseteq ready' /\ mro' \in [Class -> Seq(Class)]
  BY <1>1, <1>2, <1>3, <1>4 DEF DoneAreReady
<1>6. \A d \in Class \ made : mro'[d] = mro[d]
  BY <1>2
<1>7. \A d \in Class : SubclassFirst(d)' <=> SubclassFirst(d)
  BY DEF SubclassFirst, Position
<1>8. SupersFirst' <=> SupersFirst
  BY DEF SupersFirst, Position
<1>9. \A d \in ready : LineRight(d)' /\ mro'[d] = mro[d]
  <2>1. SUFFICES ASSUME NEW d \in ready PROVE LineRight(d)' /\ mro'[d] = mro[d]
    OBVIOUS
  <2>2. d \in Class /\ d \notin made /\ LineRight(d)
    BY <1>3, <1>1 DEF MroInv, DoneAreReady
  <2>3. Bases[d] # <<>> /\ Head(Bases[d]) \in ready => mro'[Head(Bases[d])] = mro[Head(Bases[d])]
    BY <1>3, <1>6, <2>2, SuperType
  <2> QED
    BY <2>2, <2>3, <1>5, <1>6, <1>7 DEF LineRight
(* The base that is made ready comes later: a subclass is first.           *)
<1>10. ASSUME h \in made
       PROVE  /\ h \in Class /\ mro'[h] = <<h>> /\ SubclassFirst(h) /\ ~SupersFirst
  <2>1. h \in Class \ ready /\ h # c /\ h = Head(Bases[c]) /\ Bases[c] # <<>>
    BY <1>1, <1>3, <1>10
  <2>2. Position(c) < Position(h)
    BY <2>1, <1>1, UnreadyIsLater
  <2>3. ~(Position(h) < Position(c))
    BY <2>1, <2>2, <1>1, PositionType
  <2>4. SubclassFirst(h) /\ ~SupersFirst
    BY <2>1, <2>2, <2>3, <1>1 DEF SubclassFirst, SupersFirst
  <2> QED
    BY <2>1, <2>4, <1>2, <1>10
<1>11. ASSUME c \in made
       PROVE  LineRight(c)' /\ (SupersFirst => mro'[c] = <<c>> \o Bases[c])
  <2>1. mro'[c] = LineOf(c) /\ c \notin ready
    BY <1>1, <1>2, <1>3, <1>11
  <2>2. CASE h = Null
    <3>1. mro'[c] = <<c>> /\ Bases[c] = <<>>
      BY <2>1, <2>2, <1>1 DEF LineOf, DoneAreReady
    <3> QED
      BY <3>1, NothingAdded DEF LineRight
  <2>3. CASE h # Null /\ h \in ready
    <3>1. mro'[c] = <<c>> \o mro[h] /\ h \in ready' /\ mro'[h] = mro[h]
      BY <2>1, <2>3, <1>1, <1>5, <1>9 DEF LineOf
    <3>2. LineRight(c)'
      BY <3>1, <2>3, <1>1 DEF LineRight
    <3>3. SupersFirst => mro[h] = <<h>> \o Bases[h]
      BY <2>3 DEF MroInv
    <3> QED
      BY <3>1, <3>2, <3>3, <2>3, <1>1
  <2>4. CASE h # Null /\ h \notin ready
    <3>1. made = Unready(c)
      BY <1>11
    <3>2. h \in made
      BY <3>1, <2>1, <2>4, <1>1 DEF Unready
    <3>3. mro'[c] = <<c>> \o <<h>> /\ mro'[h] = <<h>> /\ h \in ready' /\ ~SupersFirst
      BY <3>2, <2>1, <2>4, <1>1, <1>2, <1>10 DEF LineOf
    <3> QED
      BY <3>3, <2>4, <1>1 DEF LineRight
  <2> QED
    BY <2>2, <2>3, <2>4
<1>12. \A d \in ready' : d \in ready \/ (d = c /\ c \in made) \/ (d = h /\ h \in made)
  BY <1>2, <1>3
<1>13. \A d \in ready' : LineRight(d)'
  <2>1. h \in made => LineRight(h)'
    BY <1>10, <1>7 DEF LineRight
  <2> QED
    BY <2>1, <1>9, <1>11, <1>12
<1>14. SupersFirst' => \A d \in ready' : mro'[d] = <<d>> \o Bases[d]
  BY <1>8, <1>9, <1>10, <1>11, <1>12 DEF MroInv
<1> QED
  BY <1>1, <1>5, <1>13, <1>14

-----------------------------------------------------------------------------
(* Before the first import, and after each step.                           *)
LEMMA MroInit == RegistrationInit => MroInv
<1> SUFFICES ASSUME RegistrationInit PROVE MroInv
  OBVIOUS
<1>1. OrderOK
  BY ClassCount DEF RegistrationInit, OrderOK
<1>2. DoneAreReady
  BY DEF RegistrationInit, DoneAreReady
<1>3. base \in [Class -> Class \cup {Null}] /\ mro \in [Class -> Seq(Class)] /\ ready = {}
  BY DEF RegistrationInit
<1> QED
  BY <1>1, <1>2, <1>3 DEF MroInv

(* Only registration changes an MRO; the rest of Next leaves rvars alone.  *)
LEMMA MroStep == MroInv /\ [Next]_vars => MroInv'
<1> SUFFICES ASSUME MroInv, [Next]_vars PROVE MroInv'
  OBVIOUS
<1>1. CASE UNCHANGED rvars
  <2>1. \A c \in Class : LineRight(c)' <=> LineRight(c)
    BY <1>1 DEF rvars, LineRight, SubclassFirst, Position
  <2>2. SupersFirst' <=> SupersFirst
    BY <1>1 DEF rvars, SupersFirst, Position
  <2>3. OrderOK' /\ DoneAreReady'
    BY <1>1 DEF rvars, MroInv, OrderOK, DoneAreReady
  <2>4. \A c \in ready : c \in Class
    BY DEF MroInv, DoneAreReady
  <2> QED
    BY <1>1, <2>1, <2>2, <2>3, <2>4 DEF rvars, MroInv
<1>2. CASE Register \/ ReadyFails \/ AddFails
  <2>1. ~Imported /\ order' = order /\ Current \in Class
    <3>1. ~Imported /\ order' = order
      BY <1>2 DEF Register, ReadyFails, AddFails
    <3>2. done + 1 \in DOMAIN order
      BY <3>1, ClassCount DEF MroInv, OrderOK, Imported
    <3> QED
      BY <3>1, <3>2 DEF MroInv, OrderOK, Current
  <2>2. PICK c \in Class : c = Current
    BY <2>1
  <2>3. SetBase(c)
    BY <1>2, <2>2 DEF Register, ReadyFails, AddFails
  <2>4. PICK made \in SUBSET Unready(c) :
          /\ Ready(c, made)
          /\ c \in made => made = Unready(c)
          /\ done' = 0 \/ (done' = done + 1 /\ made = Unready(c))
    <3>1. CASE Register \/ AddFails
      BY <3>1, <2>2 DEF Register, AddFails, Abandon
    <3>2. CASE ReadyFails
      BY <3>2, <2>2 DEF ReadyFails, Abandon
    <3> QED
      BY <1>2, <3>1, <3>2
  <2>5. /\ base' \in [Class -> Class \cup {Null}]
        /\ ready' \subseteq Class /\ ready \subseteq ready'
        /\ mro' \in [Class -> Seq(Class)]
        /\ \A d \in ready' : LineRight(d)'
        /\ SupersFirst' => \A d \in ready' : mro'[d] = <<d>> \o Bases[d]
    BY <2>1, <2>2, <2>3, <2>4, ReadyKeeps
  <2>6. OrderOK'
    BY <2>1, <2>4, ClassCount DEF MroInv, OrderOK, Imported
  <2>7. made = Unready(c) => c \in ready'
    BY <2>4, ClassesOK DEF Ready, Unready
  <2>8. DoneAreReady'
    <3>1. CASE done' = 0
      BY <3>1, <2>5 DEF DoneAreReady
    <3>2. CASE done' = done + 1 /\ made = Unready(c)
      <4>1. SUFFICES ASSUME NEW i \in 1 .. done' PROVE order'[i] \in ready'
        BY <2>5 DEF DoneAreReady
      <4>2. i \in 1 .. done \/ i = done + 1
        BY <3>2 DEF MroInv, OrderOK
      <4> QED
        BY <4>2, <2>1, <2>2, <2>5, <2>7, <3>2 DEF MroInv, DoneAreReady, Current
    <3> QED
      BY <2>4, <3>1, <3>2
  <2> QED
    BY <2>5, <2>6, <2>8 DEF MroInv
<1>3. UNCHANGED rvars \/ Register \/ ReadyFails \/ AddFails
  BY DEF Next, Import, UseObjects, GoOn, vars
<1> QED
  BY <1>1, <1>2, <1>3

(* MROs are right in every import (property MroRight, Type::Register).      *)
THEOREM MroCorrect == Spec => []MroRight
<1>1. Init => MroInv
  BY MroInit DEF Init
<1>2. MroInv => MroRight
  <2>1. SUFFICES ASSUME MroInv PROVE MroRight
    OBVIOUS
  <2>2. ASSUME SupersFirst, NEW c \in ready, NEW d \in Class
        PROVE  Check(c, d) <=> d = c \/ d \in {Bases[c][i] : i \in DOMAIN Bases[c]}
    <3>1. c \in Class /\ mro[c] = <<c>> \o Bases[c]
      BY <2>1, <2>2 DEF MroInv, DoneAreReady
    <3>2. Bases[c] \in Seq(Class)
      BY <3>1, ClassesOK
    <3>3. /\ DOMAIN mro[c] = 1 .. Len(Bases[c]) + 1
          /\ mro[c][1] = c
          /\ \A i \in 2 .. Len(Bases[c]) + 1 : mro[c][i] = Bases[c][i - 1]
          /\ DOMAIN Bases[c] = 1 .. Len(Bases[c]) /\ Len(Bases[c]) \in Nat
      BY <3>1, <3>2
    <3>4. ASSUME NEW i \in DOMAIN Bases[c] PROVE i + 1 \in DOMAIN mro[c] /\ mro[c][i + 1] = Bases[c][i]
      BY <3>3, <3>4
    <3>5. ASSUME NEW i \in DOMAIN mro[c] PROVE i = 1 \/ (i - 1 \in DOMAIN Bases[c] /\ mro[c][i] = Bases[c][i - 1])
      BY <3>3, <3>5
    <3>6. 1 \in DOMAIN mro[c]
      BY <3>3
    <3>7. ASSUME Check(c, d)
          PROVE  d = c \/ d \in {Bases[c][i] : i \in DOMAIN Bases[c]}
      <4>1. PICK i \in DOMAIN mro[c] : mro[c][i] = d
        BY <3>7 DEF Check
      <4> QED
        BY <4>1, <3>3, <3>5
    <3>8. ASSUME d = c \/ d \in {Bases[c][i] : i \in DOMAIN Bases[c]}
          PROVE  Check(c, d)
      <4>1. CASE d = c
        BY <4>1, <3>3, <3>6 DEF Check
      <4>2. CASE d \in {Bases[c][i] : i \in DOMAIN Bases[c]}
        <5>1. PICK i \in DOMAIN Bases[c] : Bases[c][i] = d
          BY <4>2
        <5> QED
          BY <5>1, <3>4 DEF Check
      <4> QED
        BY <3>8, <4>1, <4>2
    <3> QED
      BY <3>7, <3>8
  <2> QED
    BY <2>1, <2>2 DEF MroInv, LineRight, MroRight
<1> QED
  BY <1>1, <1>2, MroStep, PTL DEF Spec
-----------------------------------------------------------------------------
(* A type has one reference for each time this import has registered it.   *)
Places(c, n) == {i \in 1 .. n : order[i] = c}

RefsRight ==
    /\ refs \in [Class -> Nat]
    /\ \A c \in Class : refs[c] = Cardinality(Places(c, done))

Inv == MroInv /\ RefsRight /\ Owned

(* The places of a class among the first n are finitely many.              *)
LEMMA PlacesType ==
  ASSUME NEW c, NEW n \in Nat
  PROVE  /\ IsFiniteSet(Places(c, n)) /\ Cardinality(Places(c, n)) \in Nat
         /\ Places(c, 0) = {} /\ Cardinality(Places(c, 0)) = 0
<1>1. IsFiniteSet(1 .. n) /\ Places(c, n) \subseteq 1 .. n
  BY FS_Interval DEF Places
<1>2. IsFiniteSet(Places(c, n))
  BY <1>1, FS_Subset
<1>3. Places(c, 0) = {}
  BY DEF Places
<1> QED
  BY <1>2, <1>3, FS_CardinalityType, FS_EmptySet

(* One more place is one more for the class that is there.                 *)
LEMMA PlacesNext ==
  ASSUME NEW c, NEW n \in Nat
  PROVE  Cardinality(Places(c, n + 1)) = Cardinality(Places(c, n))
                                          + IF order[n + 1] = c THEN 1 ELSE 0
<1>1. n + 1 \notin Places(c, n)
  BY DEF Places
<1>2. Places(c, n + 1) = IF order[n + 1] = c THEN Places(c, n) \cup {n + 1} ELSE Places(c, n)
  BY DEF Places
<1>3. IsFiniteSet(Places(c, n)) /\ Cardinality(Places(c, n)) \in Nat
  BY PlacesType
<1> DEFINE S == Places(c, n)
<1> HIDE DEF S
<1>4. Cardinality(S \cup {n + 1}) = Cardinality(S) + 1
  <2>1. n + 1 \notin S /\ IsFiniteSet(S)
    BY <1>1, <1>3 DEF S
  <2> QED
    BY ONLY <2>1, FS_AddElement
<1> QED
  BY <1>2, <1>3, <1>4 DEF S

(* Before the first import no type has a reference.                        *)
LEMMA RefsInit == RegistrationInit => RefsRight
  BY PlacesType DEF RegistrationInit, RefsRight

(* The references that a failed import drops are all that it took          *)
(* (Register, AddFails, ReadyFails).                                       *)
LEMMA RefsStep == MroInv /\ RefsRight /\ [Next]_vars => RefsRight'
<1> SUFFICES ASSUME MroInv, RefsRight, [Next]_vars PROVE RefsRight'
  OBVIOUS
<1>1. done \in Nat
  BY ClassCount DEF MroInv, OrderOK
<1>2. CASE UNCHANGED rvars
  BY <1>2 DEF rvars, RefsRight, Places
<1>3. CASE Abandon /\ order' = order
  <2>1. \A c \in Class : refs'[c] = 0
    <3>1. \A c \in Class : refs'[c] = refs[c] - Cardinality(Places(c, done))
      BY <1>3 DEF Abandon, Places
    <3> QED
      BY <3>1, <1>1, PlacesType DEF RefsRight
  <2>2. refs' \in [Class -> Nat] /\ done' = 0
    BY <2>1, <1>3 DEF Abandon
  <2>3. \A c : Places(c, 0)' = {}
    BY DEF Places
  <2> QED
    BY <2>1, <2>2, <2>3, FS_EmptySet DEF RefsRight, Places
<1>4. CASE Register
  <2>1. /\ refs' = [refs EXCEPT ![order[done + 1]] = @ + 1] /\ done' = done + 1 /\ order' = order
    BY <1>4 DEF Register, Current
  <2>2. \A c \in Class : refs'[c] = refs[c] + IF order[done + 1] = c THEN 1 ELSE 0
    BY <2>1 DEF RefsRight
  <2>3. \A c \in Class : refs'[c] = Cardinality(Places(c, done + 1))
    BY <2>2, <1>1, PlacesNext, PlacesType DEF RefsRight
  <2>4. refs' \in [Class -> Nat]
    <3>1. \A c \in Class : refs'[c] \in Nat
      BY <2>2 DEF RefsRight
    <3> QED
      BY <2>1, <3>1 DEF RefsRight
  <2> QED
    BY <2>1, <2>3, <2>4 DEF RefsRight, Places
<1>5. UNCHANGED rvars \/ (Abandon /\ order' = order) \/ Register
  BY DEF Next, Import, UseObjects, GoOn, vars, ReadyFails, AddFails
<1> QED
  BY <1>2, <1>3, <1>4, <1>5

-----------------------------------------------------------------------------
(* Before the first import no block is used and no pointer constructed.    *)
LEMMA OwnedInit == PtrInit => Owned
<1> SUFFICES ASSUME PtrInit PROVE Owned
  OBVIOUS
<1>1. /\ type = [b \in Block |-> Null] /\ room = [b \in Block |-> 0]
      /\ field = [b \in Block |-> <<>>] /\ list = [c \in Class |-> <<>>]
      /\ var = [p \in Variable |-> IF p = Hand THEN Null ELSE Absent]
      /\ rc = [o \in Object |-> IF o = None THEN 1 ELSE 0]
      /\ frames = <<>>
  BY DEF PtrInit, FreeListInit, Variable
<1>2. BlocksOK
  <2>1. <<>> \in Seq(Object \cup {Null}) /\ <<>> \in Seq(Block) /\ Len(<<>>) = 0
        /\ DOMAIN <<>> = {}
    OBVIOUS
  <2>2. /\ type \in [Block -> Class \cup {Null}] /\ room \in [Block -> Nat]
        /\ field \in [Block -> Seq(Object \cup {Null})] /\ list \in [Class -> Seq(Block)]
    BY <1>1, <2>1
  <2>3. /\ \A b \in Block : type[b] = Null /\ DOMAIN field[b] = {}
        /\ \A c \in Class : list[c] = <<>> /\ DOMAIN list[c] = {} /\ Len(list[c]) = 0
    BY <1>1, <2>1
  <2>4. ListsOK
    <3>1. \A c \in Class : Pool[c] \in Nat
      BY SizesOK
    <3>2. ASSUME NEW c \in Class PROVE Len(list[c]) <= Pool[c]
      <4>1. Len(list[c]) = 0 /\ Pool[c] \in Nat
        BY <2>3, <3>1
      <4> QED
        BY ONLY <4>1
    <3> QED
      BY <2>3, <3>2 DEF ListsOK
  <2> QED
    BY <2>2, <2>3, <2>4 DEF BlocksOK
<1>3. VarsOK
  BY <1>1, PointersOK DEF VarsOK, Variable
<1>4. CountsRight
  <2>1. \A p \in Target : Owner(p) \notin Object
    <3>1. \A p \in Variable : Value(p) \notin Object
      BY <1>1, NoObject DEF Value
    <3>2. ASSUME NEW p \in Target \ Variable PROVE Value(p) \notin Object
      <4>1. PICK b \in Block : \E i \in Nat : p = <<b, i>>
        BY <3>2, TargetIs
      <4> QED
        BY <4>1, <3>2, <1>1, NoObject DEF Value
    <3> QED
      BY <3>1, <3>2, NoObject DEF Owner
  <2>2. \A o \in Object : Owners(o) = {}
    BY <2>1, <1>2, OwnersAre DEF BlocksOK
  <2>3. /\ rc \in [Object -> Nat]
        /\ \A o \in Object : rc[o] = IF o = None THEN 1 ELSE 0
    BY <1>1
  <2>4. IsFiniteSet({}) /\ Cardinality({}) = 0
    BY FS_EmptySet
  <2> QED
    BY <2>2, <2>3, <2>4 DEF CountsRight
<1>5. \A b \in Block : rc[b] = 0 /\ ~InUse(b)
  BY <1>1, PointersOK DEF InUse, Object
<1>6. OwnedIsUsed /\ AllDying
  BY <1>5 DEF OwnedIsUsed, AllDying
<1>7. frames \in Seq(Frame) /\ StackOK(frames)
  BY <1>1, EmptyStack
<1> QED
  BY <1>2, <1>3, <1>4, <1>6, <1>7 DEF Owned

(* The invariant is about the variables of PyPtr only.                     *)
LEMMA OwnedStutters == Owned /\ UNCHANGED pvars => Owned'
<1> SUFFICES ASSUME Owned, UNCHANGED pvars PROVE Owned'
  OBVIOUS
<1>1. /\ type' = type /\ room' = room /\ field' = field /\ list' = list
      /\ var' = var /\ rc' = rc /\ frames' = frames
  BY DEF pvars
<1>2. \A b \in Block : InUse(b)' <=> InUse(b)
  BY <1>1 DEF InUse, Pooled
<1>3. BlocksOK' /\ VarsOK' /\ OwnedIsUsed' /\ AllDying'
  BY <1>1, <1>2 DEF Owned, BlocksOK, ListsOK, VarsOK, OwnedIsUsed, AllDying
<1>4. CountsRight'
  <2>1. \A o : Owners(o)' = Owners(o)
    BY <1>1 DEF Owners, Busy
  <2> QED
    BY <2>1, <1>1 DEF Owned, CountsRight
<1>5. StackOK(frames)'
  <2>1. \A b \in Dying(frames) : rc'[b] = 0
    BY <1>1, DyingIs DEF Owned
  <2>2. \A i \in DOMAIN frames : frames[i].op = "dealloc" =>
            \A j \in DOMAIN field'[frames[i].obj] :
                j < frames[i].next => field'[frames[i].obj][j] = Null
    BY <1>1 DEF Owned, StackOK, DeallocOK
  <2>3. PICK s : s = frames
    OBVIOUS
  <2>4. StackOK(s)'
    BY <1>1, <1>2, <2>1, <2>2, <2>3, StackStays DEF Owned
  <2> QED
    BY <1>1, <2>3, <2>4 DEF StackOK, DeallocOK, AssignOK
<1> QED
  BY <1>1, <1>3, <1>4, <1>5 DEF Owned

(* Every step of the extension keeps the invariant: one lemma above for    *)
(* each operation.                                                         *)
LEMMA OwnedStep == MroInv /\ Owned /\ [Next]_vars => Owned'
<1> SUFFICES ASSUME MroInv, Owned, [Next]_vars PROVE Owned'
  OBVIOUS
<1>1. CASE UNCHANGED pvars
  BY <1>1, OwnedStutters
<1>2. ASSUME NEW l \in Local, Construct(l) \/ Adopt(l) \/ Destruct(l) PROVE Owned'
  BY <1>2, ConstructKeeps, AdoptKeeps, DestructKeeps
<1>3. ASSUME NEW p \in Pointer, AssignRaw(p) \/ Steal(p) \/ Share(p) \/ Clear(p) PROVE Owned'
  BY <1>3, AssignRawKeeps, StealKeeps, ShareKeeps, ClearKeeps
<1>4. ASSUME NEW p \in Pointer, NEW l \in Local, Borrow(l, p) PROVE Owned'
  BY <1>4, BorrowKeeps
<1>5. ASSUME NEW p \in Pointer, NEW q \in Pointer, NEW op \in {"copy", "move"}, Assign(op, p, q)
      PROVE  Owned'
  BY <1>5, AssignKeeps
<1>6. CASE Release
  BY <1>6, ReleaseKeeps
<1>7. ASSUME NEW c \in ready, New(c) PROVE Owned'
  <2>1. c \in Class
    BY <1>7 DEF MroInv, DoneAreReady
  <2> QED
    BY <1>7, <2>1, NewKeeps
<1>8. CASE Unwind
  BY <1>8, FinishCopyKeeps, FinishMoveKeeps, DropFieldKeeps, FreeKeeps DEF Unwind
<1>9. Use => Owned'
  BY <1>2, <1>3, <1>4, <1>5, <1>6 DEF Use
<1> QED
  BY <1>1, <1>7, <1>8, <1>9 DEF Next, Import, UseObjects, GoOn, vars

(* The invariant holds before the first import.                            *)
LEMMA InvInit == Init => Inv
  BY MroInit, RefsInit, OwnedInit DEF Init, Inv

(* Who owns what is right after any calls, destructors that call one       *)
(* another and failed imports included (PyPtr, FreeList, Type::Register).  *)
THEOREM Invariance == Spec => []Inv
<1>1. Inv /\ [Next]_vars => Inv'
  BY MroStep, RefsStep, OwnedStep DEF Inv
<1> QED
  BY InvInit, <1>1, PTL DEF Spec

-----------------------------------------------------------------------------
(* Blocks are large enough for what they are used for, lists fit into      *)
(* their arrays and share no block (property TypeOK; FreeList::Alloc,      *)
(* FreeList::Dealloc).                                                     *)
THEOREM TypeCorrect == Spec => []TypeOK
<1>1. Inv => TypeOK
  BY DEF Inv, Owned, BlocksOK, VarsOK, Variable, TypeOK
<1> QED
  BY <1>1, Invariance, PTL

(* The count of every object is the number of pointers that own it, and    *)
(* no pointer is left to an object that is gone (property CountsExact;     *)
(* _PyPtr, Type::Register).                                                *)
THEOREM CountsAreExact == Spec => []CountsExact
<1>1. Inv => CountsExact
  <2>1. SUFFICES ASSUME Inv PROVE CountsExact
    OBVIOUS
  <2>2. ASSUME NEW b \in Block PROVE rc[b] = Cardinality(Owners(b)) /\ (rc[b] > 0 => InUse(b))
    <3>1. b \in Object /\ b # None
      BY PointersOK DEF Object
    <3>2. rc[b] = Cardinality(Owners(b)) + 0 /\ IsFiniteSet(Owners(b))
      BY <2>1, <3>1 DEF Inv, Owned, CountsRight
    <3>3. rc[b] = Cardinality(Owners(b))
      BY <3>2, FS_CardinalityType
    <3> QED
      BY <2>1, <3>3 DEF Inv, Owned, OwnedIsUsed
  <2>3. rc[None] = 1 + Cardinality(Owners(None))
    <3>1. None \in Object
      BY DEF Object
    <3>2. rc[None] = Cardinality(Owners(None)) + 1 /\ IsFiniteSet(Owners(None))
      BY <2>1, <3>1 DEF Inv, Owned, CountsRight
    <3> QED
      BY <3>2, FS_CardinalityType
  <2>4. \A c \in Class : refs[c] = Cardinality({i \in 1 .. done : order[i] = c})
    BY <2>1 DEF Inv, RefsRight, Places
  <2> QED
    BY <2>2, <2>3, <2>4 DEF CountsExact
<1> QED
  BY <1>1, Invariance, PTL

(* An object whose count has reached 0 is being destroyed, once, and no    *)
(* other is (property DeadOnce; `__dealloc__`, _PyPtr::operator=).         *)
THEOREM DestroyedOnce == Spec => []DeadOnce
<1>1. Inv => DeadOnce
  <2>1. SUFFICES ASSUME Owned, NEW b \in Block
                 PROVE  Cardinality({i \in DOMAIN frames : frames[i].op = "dealloc" /\ frames[i].obj = b})
                           = IF InUse(b) /\ rc[b] = 0 THEN 1 ELSE 0
    BY DEF Inv, DeadOnce
  <2> DEFINE S == {i \in DOMAIN frames : frames[i].op = "dealloc" /\ frames[i].obj = b}
  <2>2. S # {} <=> b \in Dying(frames)
    BY StackSets
  <2>3. CASE InUse(b) /\ rc[b] = 0
    <3>1. PICK i \in S : TRUE
      BY <2>1, <2>2, <2>3 DEF Owned, AllDying
    <3>2. DeallocOK(i, frames)
      BY <2>1, <3>1 DEF Owned, StackOK
    <3>3. S = {i}
      BY <3>1, <3>2 DEF DeallocOK
    <3> QED
      BY <2>3, <3>3, FS_Singleton
  <2>4. CASE ~(InUse(b) /\ rc[b] = 0)
    <3>1. S = {}
      BY <2>1, <2>2, <2>4, DyingIs DEF Owned
    <3> QED
      BY <2>4, <3>1, FS_EmptySet
  <2> QED
    BY <2>3, <2>4
<1> QED
  BY <1>1, Invariance, PTL

-----------------------------------------------------------------------------
(* Who uses a block, as the abstract heap sees it.                         *)
User == [b \in Block |-> IF InUse(b) THEN type[b] ELSE Null]

(* New gives a block out and Free gives one back, as the abstract heap     *)
(* allows; all else leaves the blocks to those who use them.               *)
LEMMA HeapStep == Inv /\ [Next]_vars => [H!Next]_(H!hvars)
<1> SUFFICES ASSUME Inv, [Next]_vars PROVE H!Next \/ UNCHANGED H!hvars
  OBVIOUS
<1>1. CASE UNCHANGED <<type, room, list>>
  BY <1>1 DEF H!hvars, InUse, Pooled
<1>2. ASSUME NEW c \in ready, New(c) PROVE H!Next
  <2>1. PICK b \in Block : Alloc(b, c)
    BY <1>2 DEF New
  <2>2. c \in Class
    BY <1>2 DEF Inv, MroInv, DoneAreReady
  <2>3. BlocksOK /\ type' = [type EXCEPT ![b] = c]
    BY <2>1 DEF Inv, Owned, Alloc
  <2>4. ~InUse(b) /\ InUse(b)' /\ type'[b] = c /\ room'[b] >= Size[c]
    BY <2>1, <2>2, <2>3, ReuseIs, FreshIs DEF Alloc
  <2>5. \A o \in Block \ {b} : InUse(o)' <=> InUse(o)
    BY <2>1, <2>2, <2>3, ReuseIs, FreshIs DEF Alloc
  <2>6. \A o \in Block \ {b} : type'[o] = type[o]
    BY <2>1, <2>2, <2>3, ReuseIs, FreshIs DEF Alloc
  <2>7. \A o \in Block \ {b} : room'[o] = room[o]
    BY <2>1, <2>2, <2>3, ReuseIs, FreshIs DEF Alloc
  <2>8. User[b] = Null /\ User' = [User EXCEPT ![b] = c]
    BY <2>4, <2>5, <2>6 DEF User
  <2>9. H!Obtain(b, c)
    BY <2>4, <2>7, <2>8 DEF H!Obtain, User
  <2> QED
    BY <2>2, <2>9 DEF H!Next
<1>3. CASE Free
  <2>1. PICK b : b = Head(frames).obj
    OBVIOUS
  <2>2. b \in Block /\ InUse(b) /\ Dealloc(b) /\ \A i \in DOMAIN field[b] : field[b][i] = Null
    BY <1>3, <2>1, FreedIs DEF Inv
  <2>3. BlocksOK /\ type[b] # Null
    BY <2>2 DEF Inv, Owned, InUse
  <2>4. /\ ~InUse(b)'
        /\ \A o \in Block \ {b} : (InUse(o)' <=> InUse(o)) /\ type'[o] = type[o]
        /\ room'[b] \in {0, room[b]} /\ \A o \in Block \ {b} : room'[o] = room[o]
    <3>1. CASE Keep(b)
      <4>1. room' = room
        BY <3>1 DEF Keep
      <4> QED
        BY <3>1, <4>1, <2>2, <2>3, KeepIs
    <3>2. CASE GiveBack(b)
      BY <3>2, <2>2, <2>3, GiveBackIs
    <3> QED
      BY <3>1, <3>2, <2>2 DEF Dealloc
  <2>5. User[b] # Null /\ User' = [User EXCEPT ![b] = Null]
    BY <2>2, <2>3, <2>4 DEF User
  <2>6. H!Return(b)
    BY <2>4, <2>5 DEF H!Return, User
  <2> QED
    BY <2>2, <2>6 DEF H!Next
<1>4. \/ UNCHANGED <<type, room, list>>
      \/ \E c \in ready : New(c)
      \/ Free
  BY DEF Next, Import, UseObjects, GoOn, Use, Unwind, vars, pvars, Construct, Adopt, Destruct,
         Borrow, Assign, AssignRaw, FinishCopy, FinishMove, Steal, Share, Clear, Release,
         DropField
<1> QED
  BY <1>1, <1>2, <1>3, <1>4 DEF H!Next

(* The allocators implement the abstract heap (property ImplementsHeap;    *)
(* TypeAllocator, FreeList, Type::Alloc).                                  *)
THEOREM HeapRefinement == Spec => ImplementsHeap
<1>1. Init => H!Init
  BY PointersOK DEF Init, PtrInit, FreeListInit, H!Init, InUse
<1> QED
  BY Invariance, <1>1, HeapStep, PTL DEF Spec, ImplementsHeap, H!Spec
=============================================================================
