-------------------------- MODULE Parameters_proofs --------------------------
(***************************************************************************)
(* Proofs that the parameters that Typing lists are those of the function, *)
(* each with its own hint and default.                                     *)
(***************************************************************************)
EXTENDS Parameters, SequenceTheorems, TLAPS

(* What a code object and __defaults__ say: names, and no more defaults    *)
(* than positional parameters.                                             *)
IsFunction(f, S, D) ==
  /\ f.pos \in Seq(S) /\ f.kwonly \in Seq(S)
  /\ f.defaults \in Seq(D) /\ Len(f.defaults) <= Len(f.pos)

(* How many parameters are left out.                                       *)
Offset(bound) == IF bound THEN 1 ELSE 0

(* Parameters a call may pass by position: those from offset on.           *)
LEMMA TakenIs ==
  ASSUME NEW S, NEW f, f.pos \in Seq(S), NEW bound \in BOOLEAN
  PROVE  Taken(f, bound) =
           [i \in 1..(Len(f.pos) - Offset(bound)) |-> f.pos[i + Offset(bound)]]
<1>1. CASE bound
  <2>1. f.pos \in Seq(S) /\ Len(f.pos) \in Nat
    OBVIOUS
  <2>2. Taken(f, bound) = SubSeq(f.pos, 2, Len(f.pos))
    BY <1>1 DEF Taken
  <2>3. SubSeq(f.pos, 2, Len(f.pos)) = [i \in 1..(Len(f.pos) - 1) |-> f.pos[i + 1]]
    BY <2>1
  <2> QED
    BY <1>1, <2>2, <2>3 DEF Offset
<1>2. CASE ~bound
  <2>1. f.pos = [i \in 1..Len(f.pos) |-> f.pos[i]] /\ Len(f.pos) \in Nat
    OBVIOUS
  <2> QED
    BY <1>2, <2>1 DEF Taken, Offset
<1> QED
  BY <1>1, <1>2

(* Counting from the first default and counting from the end are the same. *)
LEMMA FromEnd ==
  ASSUME NEW p \in Nat, NEW d \in Nat, NEW offset \in {0, 1}, d <= p - offset,
         NEW i \in 1..(p - offset)
  PROVE  /\ p - (i + offset) < d <=> i + offset > p - d
         /\ d - (p - (i + offset)) = i + offset - (IF p - d > offset THEN p - d ELSE offset)
  OBVIOUS

(* The index into the defaults that the code keeps by counting is Python's *)
(* when no default is that of a parameter left out.                        *)
LEMMA DefaultIs ==
  ASSUME NEW f, Len(f.pos) \in Nat, Len(f.defaults) \in Nat, NEW offset \in {0, 1}, NEW types,
         Len(f.defaults) <= Len(f.pos) - offset,
         NEW i \in 1..(Len(f.pos) - offset)
  PROVE  Positional(f, offset, types)[i].default = DefaultOf(f, i + offset)
<1> DEFINE p == Len(f.pos)
           d == Len(f.defaults)
           start == IF p - d > offset THEN p - d ELSE offset
           nth == IF i + offset > p - d THEN <<f.defaults[i + offset - start]>> ELSE NoDefault
<1>1. Positional(f, offset, types)[i] =
        [name |-> f.pos[i + offset], type |-> types[f.pos[i + offset]], default |-> nth]
  BY Zenon DEF Positional
<1>2. DefaultOf(f, i + offset) =
        IF p - (i + offset) < d THEN <<f.defaults[d - (p - (i + offset))]>> ELSE NoDefault
  BY Zenon DEF DefaultOf
<1>3. p \in Nat /\ d \in Nat /\ d <= p - offset /\ i \in 1..(p - offset)
  OBVIOUS
<1> HIDE DEF p, d
<1>4. /\ p - (i + offset) < d <=> i + offset > p - d
      /\ d - (p - (i + offset)) = i + offset - start
  BY <1>3, FromEnd
<1>5. nth = DefaultOf(f, i + offset)
  BY <1>2, <1>4, Zenon
<1> HIDE DEF nth
<1> QED
  BY <1>1, <1>5

(* What ResolveArguments lists are the parameters of the function, the one *)
(* that is bound left out, in order, and each has the default that Python  *)
(* gives it and the hint of its own name.                                  *)
THEOREM ListedRight ==
  ASSUME NEW S, NEW D, NEW f, IsFunction(f, S, D), NEW bound \in BOOLEAN, FreeSelf(f, bound),
         NEW types
  PROVE  LET list == Listed(f, Offset(bound), types)
         IN  /\ AreParameters(list, f, bound)
             /\ \A i \in DOMAIN list.pos : list.pos[i].type = types[list.pos[i].name]
             /\ \A i \in DOMAIN list.kw : list.kw[i].type = types[list.kw[i].name]
<1> DEFINE offset == Offset(bound)
           list == Listed(f, offset, types)
<1>1. offset \in {0, 1} /\ Len(f.pos) \in Nat
  BY DEF IsFunction, Offset
<1>2. list.pos = Positional(f, offset, types) /\ list.kw = KeywordOnly(f, types)
  BY DEF Listed
<1> HIDE DEF list
<1>3. DOMAIN list.pos = 1..(Len(f.pos) - offset)
  BY <1>2 DEF Positional
<1>4. ASSUME NEW i \in DOMAIN list.pos
      PROVE  list.pos[i].name = f.pos[i + offset] /\ list.pos[i].type = types[f.pos[i + offset]]
  BY <1>2, <1>3 DEF Positional
<1>5. [i \in DOMAIN list.pos |-> list.pos[i].name] = Taken(f, bound)
  <2>1. Taken(f, bound) = [i \in 1..(Len(f.pos) - offset) |-> f.pos[i + offset]]
    BY TakenIs DEF IsFunction
  <2> QED
    BY <1>3, <1>4, <2>1
<1>6. ASSUME NEW i \in DOMAIN list.pos
      PROVE  list.pos[i].default = DefaultOf(f, IF bound THEN i + 1 ELSE i)
  <2>1. i \in 1..(Len(f.pos) - offset)
    BY <1>3, Zenon
  <2>2. f.pos # <<>> /\ Len(f.defaults) \in Nat
    BY <1>1, <2>1 DEF IsFunction
  <2>3. Len(f.defaults) <= Len(f.pos) - offset
    <3>1. CASE bound
      BY <1>1, <2>2, <3>1 DEF FreeSelf, Offset
    <3>2. CASE ~bound
      BY <1>1, <2>2, <3>2 DEF IsFunction, Offset
    <3> QED
      BY <3>1, <3>2
  <2>4. Positional(f, offset, types)[i].default = DefaultOf(f, i + offset)
    BY <1>1, <2>1, <2>2, <2>3, DefaultIs
  <2>5. i + offset = IF bound THEN i + 1 ELSE i
    BY <1>1, <2>1 DEF Offset
  <2> QED
    BY <1>2, <2>4, <2>5, Zenon
<1>7. /\ DOMAIN list.kw = DOMAIN f.kwonly
      /\ \A i \in DOMAIN list.kw :
           /\ list.kw[i].name = f.kwonly[i]
           /\ list.kw[i].type = types[f.kwonly[i]]
           /\ list.kw[i].default = IF f.kwonly[i] \in DOMAIN f.kwdefaults
                                   THEN <<f.kwdefaults[f.kwonly[i]]>> ELSE NoDefault
  BY <1>2 DEF KeywordOnly
<1>8. [i \in DOMAIN list.kw |-> list.kw[i].name] = f.kwonly
  <2>1. f.kwonly = [i \in DOMAIN f.kwonly |-> f.kwonly[i]]
    BY DEF IsFunction
  <2> QED
    BY <1>7, <2>1
<1> QED
  BY <1>4, <1>5, <1>6, <1>7, <1>8 DEF AreParameters, list

(* FreeSelf is needed: when even the parameter that is bound has a default *)
(* the others get those of the parameters before them.                     *)
THEOREM BoundDefaultShifts ==
  ASSUME NEW S, NEW D, NEW f, IsFunction(f, S, D), Len(f.defaults) = Len(f.pos), NEW types,
         NEW i \in 1..(Len(f.pos) - 1)
  PROVE  Positional(f, 1, types)[i].default = DefaultOf(f, i)
<1>1. Len(f.pos) \in Nat
  BY DEF IsFunction
<1>2. Positional(f, 1, types)[i].default = <<f.defaults[i]>>
  <2> DEFINE p == Len(f.pos)
             start == IF p - p > 1 THEN p - p ELSE 1
             nth == IF i + 1 > p - p THEN <<f.defaults[i + 1 - start]>> ELSE NoDefault
  <2>1. Positional(f, 1, types)[i] =
          [name |-> f.pos[i + 1], type |-> types[f.pos[i + 1]], default |-> nth]
    BY Zenon DEF Positional
  <2>2. p \in Nat /\ i \in 1..(p - 1)
    BY <1>1
  <2> HIDE DEF p
  <2>3. i + 1 > p - p /\ i + 1 - start = i
    BY <2>2
  <2>4. nth = <<f.defaults[i]>>
    BY <2>3, Zenon
  <2> HIDE DEF nth
  <2> QED
    BY <2>1, <2>4
<1>3. DefaultOf(f, i) = <<f.defaults[i]>>
  BY <1>1 DEF DefaultOf
<1> QED
  BY <1>2, <1>3
=============================================================================
