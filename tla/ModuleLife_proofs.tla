-------------------------- MODULE ModuleLife_proofs ---------------------------
(***************************************************************************)
(* Proofs that the references a module's state takes and drops balance,    *)
(* that __traverse__ visits each of them at most once, and that __clear__  *)
(* drops those that were registered and no other module's.                 *)
(***************************************************************************)
EXTENDS ModuleLife, FiniteSetTheorems, TLAPS

Table == [Modules -> [Fields -> Objects \cup {Null}]]

-----------------------------------------------------------------------------
(* Counting what a table of fields refers an object by.                    *)
LEMMA PointerFinite == IsFiniteSet(Pointer)
BY FiniteAssumption, FS_Product DEF Pointer

(* The pointers that hold an object can be counted.                        *)
LEMMA HoldingFinite ==
  ASSUME NEW table, NEW o, NEW S
  PROVE  /\ IsFiniteSet(Holding(table, o)) /\ Cardinality(Holding(table, o)) \in Nat
         /\ IsFiniteSet(Holding(table, o) \cap S)
         /\ Cardinality(Holding(table, o) \cap S) \in Nat
<1>1. Holding(table, o) \in SUBSET Pointer /\ Holding(table, o) \cap S \in SUBSET Pointer
  BY DEF Holding
<1>2. IsFiniteSet(Holding(table, o)) /\ IsFiniteSet(Holding(table, o) \cap S)
  BY <1>1, PointerFinite, FS_Subset
<1> QED
  BY <1>2, FS_CardinalityType

(* One entry changes: the count of what was there goes down by one, that   *)
(* of what is there now up by one.                                         *)
Put(table, m, f, v) == [table EXCEPT ![m][f] = v]
Is(o, x) == IF o = x THEN 1 ELSE 0

(* Setting one entry of a table changes the count of one object by one, or *)
(* of two.                                                                 *)
LEMMA SetEntry ==
  ASSUME NEW table \in Table, NEW m \in Modules, NEW f \in Fields,
         NEW v \in Objects \cup {Null}, NEW o \in Objects
  PROVE  Cardinality(Holding(Put(table, m, f, v), o)) =
           Cardinality(Holding(table, o)) + Is(o, v) - Is(o, table[m][f])
<1> DEFINE new == Put(table, m, f, v)
           p == <<m, f>>
<1>1. Cardinality(Holding(table, o)) \in Nat /\ IsFiniteSet(Holding(table, o))
  BY HoldingFinite
<1>2. p \in Pointer
  BY DEF Pointer
<1>3. \A q \in Pointer : new[q[1]][q[2]] = IF q = p THEN v ELSE table[q[1]][q[2]]
  BY DEF Table, Pointer, Put
<1>4. CASE v = table[m][f]
  <2>1. Holding(new, o) = Holding(table, o)
    BY <1>3, <1>4 DEF Holding
  <2> QED
    BY <1>1, <1>4, <2>1 DEF Is
<1>5. CASE v # table[m][f] /\ o = v
  <2>1. Holding(new, o) = Holding(table, o) \cup {p} /\ p \notin Holding(table, o)
    BY <1>2, <1>3, <1>5 DEF Holding
  <2>2. Cardinality(Holding(new, o)) = Cardinality(Holding(table, o)) + 1
    BY <1>1, <2>1, FS_AddElement
  <2> QED
    BY <1>1, <1>5, <2>2 DEF Is
<1>6. CASE v # table[m][f] /\ o = table[m][f]
  <2>1. Holding(new, o) = Holding(table, o) \ {p} /\ p \in Holding(table, o)
    BY <1>2, <1>3, <1>6 DEF Holding
  <2>2. Cardinality(Holding(new, o)) = Cardinality(Holding(table, o)) - 1
    BY ZenonT(60), <1>1, <2>1, FS_RemoveElement
  <2> QED
    BY <1>1, <1>6, <2>2 DEF Is
<1>7. CASE v # table[m][f] /\ o # v /\ o # table[m][f]
  <2>1. Holding(new, o) = Holding(table, o)
    BY <1>3, <1>7 DEF Holding
  <2> QED
    BY <1>1, <1>7, <2>1 DEF Is
<1> QED
  BY <1>4, <1>5, <1>6, <1>7

(* Several entries let go.                                                 *)
LEMMA EmptyEntries ==
  ASSUME NEW table \in Table, NEW S, NEW o \in Objects
  PROVE  /\ Emptied(table, S) \in Table
         /\ \A k \in Modules, f \in Fields :
              Emptied(table, S)[k][f] = IF <<k, f>> \in S THEN Null ELSE table[k][f]
         /\ Cardinality(Holding(Emptied(table, S), o)) =
              Cardinality(Holding(table, o)) - Cardinality(Holding(table, o) \cap S)
<1> DEFINE new == Emptied(table, S)
<1>1. new \in Table
  BY DEF Table, Emptied
<1>2. \A k \in Modules, f \in Fields :
        new[k][f] = IF <<k, f>> \in S THEN Null ELSE table[k][f]
  BY DEF Emptied
<1>3. Holding(new, o) = Holding(table, o) \ S
  <2>1. \A q \in Pointer : new[q[1]][q[2]] = IF q \in S THEN Null ELSE table[q[1]][q[2]]
    BY <1>2 DEF Pointer
  <2>2. o # Null
    BY NullAssumption
  <2> QED
    BY <2>1, <2>2 DEF Holding
<1>4. Cardinality(Holding(table, o) \ S) =
        Cardinality(Holding(table, o)) - Cardinality(Holding(table, o) \cap S)
  BY HoldingFinite, FS_Difference
<1> QED
  BY <1>1, <1>2, <1>3, <1>4

(* The counts stay right if each changes as much as the entries do.        *)
LEMMA Counted ==
  ASSUME Balanced, rc \in [Objects -> Nat], rc' \in [Objects -> Int],
         \A o \in Objects :
           rc'[o] = rc[o] + Cardinality(Holding(ref', o)) - Cardinality(Holding(ref, o))
                          + Cardinality(Holding(dict', o)) - Cardinality(Holding(dict, o))
  PROVE  Balanced' /\ rc' \in [Objects -> Nat]
<1>1. ASSUME NEW o \in Objects
      PROVE  /\ rc'[o] = Cardinality(Holding(ref', o)) + Cardinality(Holding(dict', o))
             /\ rc'[o] \in Nat
  <2>1. /\ Cardinality(Holding(ref, o)) \in Nat /\ Cardinality(Holding(ref', o)) \in Nat
        /\ Cardinality(Holding(dict, o)) \in Nat /\ Cardinality(Holding(dict', o)) \in Nat
    BY HoldingFinite
  <2>2. rc[o] = Cardinality(Holding(ref, o)) + Cardinality(Holding(dict, o)) /\ rc[o] \in Nat
    BY DEF Balanced
  <2> QED
    BY <2>1, <2>2
<1>2. Balanced'
  BY <1>1 DEF Balanced, Holding
<1> QED
  BY <1>1, <1>2

Uncounted == UNCHANGED <<ref, dict, rc>>

(* A step that neither takes nor drops a reference keeps the balance.      *)
LEMMA UncountedKeeps ==
  ASSUME TypeOK, Balanced, Uncounted
  PROVE  Balanced' /\ rc' \in [Objects -> Nat]
BY DEF TypeOK, Balanced, Uncounted, Holding

(* The tables, by type.                                                    *)
LEMMA Tables == TypeOK => ref \in Table /\ dict \in Table /\ rc \in [Objects -> Nat]
BY DEF TypeOK, Table

(* A field refers to an object, and one reference is taken.                *)
LEMMA SetKeeps ==
  ASSUME TypeOK, Balanced, NEW m \in Modules, NEW f \in Fields, NEW o \in Objects,
         ref[m][f] = Null, Set(m, f, o), rc' = Taken(o, 1), dict' = dict
  PROVE  Balanced' /\ rc' \in [Objects -> Nat]
<1>1. ASSUME NEW x \in Objects
      PROVE  rc'[x] = rc[x] + Cardinality(Holding(ref', x)) - Cardinality(Holding(ref, x))
                            + Cardinality(Holding(dict', x)) - Cardinality(Holding(dict, x))
  <2>1. Cardinality(Holding(ref', x)) = Cardinality(Holding(ref, x)) + Is(x, o) - Is(x, Null)
    <3>1. ref \in Table /\ ref' = Put(ref, m, f, o) /\ o \in Objects \cup {Null}
      BY Tables DEF Set, Put
    <3> QED
      BY <3>1, SetEntry
  <2>2. Is(x, Null) = 0 /\ rc'[x] = rc[x] + Is(x, o) /\ rc[x] \in Nat
    BY NullAssumption DEF TypeOK, Taken, Is
  <2>3. /\ Cardinality(Holding(ref, x)) \in Nat /\ Cardinality(Holding(dict, x)) \in Nat
        /\ Is(x, o) \in Nat
    BY HoldingFinite DEF Is
  <2> QED
    BY <2>1, <2>2, <2>3
<1>2. rc' \in [Objects -> Int]
  BY DEF TypeOK, Taken
<1> QED
  BY <1>1, <1>2, Counted DEF TypeOK

(* An object is exported, and the reference the dict steals made good.     *)
LEMMA ExportsKeeps ==
  ASSUME TypeOK, Balanced, NEW f \in Fields, NEW o \in Objects, static \in Modules,
         Exports(f, o), rc' = Taken(o, 1), ref' = ref
  PROVE  Balanced' /\ rc' \in [Objects -> Nat]
<1>1. ASSUME NEW x \in Objects
      PROVE  rc'[x] = rc[x] + Cardinality(Holding(ref', x)) - Cardinality(Holding(ref, x))
                            + Cardinality(Holding(dict', x)) - Cardinality(Holding(dict, x))
  <2>1. Cardinality(Holding(dict', x)) = Cardinality(Holding(dict, x)) + Is(x, o) - Is(x, Null)
    <3>1. dict \in Table /\ dict' = Put(dict, static, f, o) /\ dict[static][f] = Null
          /\ o \in Objects \cup {Null}
      BY Tables DEF Exports, Put
    <3> QED
      BY <3>1, SetEntry
  <2>2. Is(x, Null) = 0 /\ rc'[x] = rc[x] + Is(x, o) /\ rc[x] \in Nat
    BY NullAssumption DEF TypeOK, Taken, Is
  <2>3. /\ Cardinality(Holding(ref, x)) \in Nat /\ Cardinality(Holding(dict, x)) \in Nat
        /\ Is(x, o) \in Nat
    BY HoldingFinite DEF Is
  <2> QED
    BY <2>1, <2>2, <2>3
<1>2. rc' \in [Objects -> Int]
  BY DEF TypeOK, Taken
<1> QED
  BY <1>1, <1>2, Counted DEF TypeOK

(* Both: a new exception.                                                  *)
LEMMA DefineKeeps ==
  ASSUME TypeOK, Balanced, NEW m \in Modules, NEW f \in Fields, NEW o \in Objects,
         static \in Modules, ref[m][f] = Null, Set(m, f, o), Exports(f, o), rc' = Taken(o, 2)
  PROVE  Balanced' /\ rc' \in [Objects -> Nat]
<1>1. ASSUME NEW x \in Objects
      PROVE  rc'[x] = rc[x] + Cardinality(Holding(ref', x)) - Cardinality(Holding(ref, x))
                            + Cardinality(Holding(dict', x)) - Cardinality(Holding(dict, x))
  <2>1. /\ Cardinality(Holding(dict', x)) = Cardinality(Holding(dict, x)) + Is(x, o) - Is(x, Null)
        /\ Cardinality(Holding(ref', x)) = Cardinality(Holding(ref, x)) + Is(x, o) - Is(x, Null)
    <3>1. ref \in Table /\ ref' = Put(ref, m, f, o) /\ o \in Objects \cup {Null}
      BY Tables DEF Set, Put
    <3>2. dict \in Table /\ dict' = Put(dict, static, f, o) /\ dict[static][f] = Null
          /\ o \in Objects \cup {Null}
      BY Tables DEF Exports, Put
    <3> QED
      BY <3>1, <3>2, SetEntry
  <2>2. Is(x, Null) = 0 /\ rc'[x] = rc[x] + Is(x, o) + Is(x, o) /\ rc[x] \in Nat
    BY NullAssumption DEF TypeOK, Taken, Is
  <2>3. /\ Cardinality(Holding(ref, x)) \in Nat /\ Cardinality(Holding(dict, x)) \in Nat
        /\ Is(x, o) \in Nat
    BY HoldingFinite DEF Is
  <2> QED
    BY <2>1, <2>2, <2>3
<1>2. rc' \in [Objects -> Int]
  BY DEF TypeOK, Taken
<1> QED
  BY <1>1, <1>2, Counted DEF TypeOK

(* An object takes the place of another.                                   *)
LEMMA ReplaceKeeps ==
  ASSUME TypeOK, Balanced, NEW m \in Modules, NEW f \in Fields, NEW o \in Objects,
         ref[m][f] \in Objects, Set(m, f, o), dict' = dict,
         rc' = [Taken(o, 1) EXCEPT ![ref[m][f]] = @ - 1]
  PROVE  Balanced' /\ rc' \in [Objects -> Nat]
<1>1. ASSUME NEW x \in Objects
      PROVE  rc'[x] = rc[x] + Cardinality(Holding(ref', x)) - Cardinality(Holding(ref, x))
                            + Cardinality(Holding(dict', x)) - Cardinality(Holding(dict, x))
  <2>1. Cardinality(Holding(ref', x)) = Cardinality(Holding(ref, x)) + Is(x, o) - Is(x, ref[m][f])
    <3>1. ref \in Table /\ ref' = Put(ref, m, f, o) /\ o \in Objects \cup {Null}
      BY Tables DEF Set, Put
    <3> QED
      BY <3>1, SetEntry
  <2>2. rc'[x] = rc[x] + Is(x, o) - Is(x, ref[m][f]) /\ rc[x] \in Nat
    BY DEF TypeOK, Taken, Is
  <2>3. /\ Cardinality(Holding(ref, x)) \in Nat /\ Cardinality(Holding(dict, x)) \in Nat
        /\ Is(x, o) \in Nat /\ Is(x, ref[m][f]) \in Nat
    BY HoldingFinite DEF Is
  <2> QED
    BY <2>1, <2>2, <2>3
<1>2. rc' \in [Objects -> Int]
  BY DEF TypeOK, Taken
<1> QED
  BY <1>1, <1>2, Counted DEF TypeOK

(* A name is deleted from a module dict, and its reference is dropped.     *)
LEMMA DeleteKeeps ==
  ASSUME TypeOK, Balanced, NEW m \in Modules, NEW f \in Fields, Delete(m, f)
  PROVE  Balanced' /\ rc' \in [Objects -> Nat]
<1>1. ASSUME NEW x \in Objects
      PROVE  rc'[x] = rc[x] + Cardinality(Holding(ref', x)) - Cardinality(Holding(ref, x))
                            + Cardinality(Holding(dict', x)) - Cardinality(Holding(dict, x))
  <2>1. Cardinality(Holding(dict', x)) =
          Cardinality(Holding(dict, x)) + Is(x, Null) - Is(x, dict[m][f])
    <3>1. dict \in Table /\ dict' = Put(dict, m, f, Null)
      BY Tables DEF Delete, Put
    <3> QED
      BY <3>1, SetEntry
  <2>2. /\ Is(x, Null) = 0 /\ rc'[x] = rc[x] - Is(x, dict[m][f]) /\ rc[x] \in Nat
        /\ ref' = ref
    BY NullAssumption DEF TypeOK, Delete, Is
  <2>3. /\ Cardinality(Holding(ref, x)) \in Nat /\ Cardinality(Holding(dict, x)) \in Nat
        /\ Is(x, dict[m][f]) \in Nat
    BY HoldingFinite DEF Is
  <2> QED
    BY <2>1, <2>2, <2>3
<1>2. rc' \in [Objects -> Int]
  BY DEF TypeOK, Delete
<1> QED
  BY <1>1, <1>2, Counted DEF TypeOK

(* A clear drops the references of what is registered, each once.          *)
LEMMA ClearKeeps ==
  ASSUME TypeOK, Balanced, NEW m \in Modules, Clear(m)
  PROVE  Balanced' /\ rc' \in [Objects -> Nat]
<1>1. ASSUME NEW x \in Objects
      PROVE  /\ rc'[x] = rc[x] + Cardinality(Holding(ref', x)) - Cardinality(Holding(ref, x))
                              + Cardinality(Holding(dict', x)) - Cardinality(Holding(dict, x))
             /\ rc'[x] \in Int
  <2>1. /\ Cardinality(Holding(ref', x)) =
              Cardinality(Holding(ref, x)) - Cardinality(Holding(ref, x) \cap Pointers(m))
        /\ Cardinality(Holding(dict', x)) =
              Cardinality(Holding(dict, x)) - Cardinality(Holding(dict, x) \cap Members(m))
    BY EmptyEntries, Tables DEF Clear, FreeVars, DropDict
  <2>2. rc'[x] = rc[x] - Cardinality(Holding(ref, x) \cap Pointers(m))
                       - Cardinality(Holding(dict, x) \cap Members(m))
    BY DEF Clear
  <2>3. rc[x] \in Nat
    BY DEF TypeOK
  <2>4. /\ Cardinality(Holding(ref, x)) \in Nat /\ Cardinality(Holding(dict, x)) \in Nat
        /\ Cardinality(Holding(ref, x) \cap Pointers(m)) \in Nat
        /\ Cardinality(Holding(dict, x) \cap Members(m)) \in Nat
    BY HoldingFinite
  <2> QED
    BY <2>1, <2>2, <2>3, <2>4
<1>2. rc' \in [Objects -> Int]
  BY <1>1 DEF Clear
<1> QED
  BY <1>1, <1>2, Counted DEF TypeOK

(* A module's death drops the references of its dict.                      *)
LEMMA DeallocKeeps ==
  ASSUME TypeOK, Balanced, NEW m \in Modules, Dealloc(m)
  PROVE  Balanced' /\ rc' \in [Objects -> Nat]
<1>1. ASSUME NEW x \in Objects
      PROVE  /\ rc'[x] = rc[x] + Cardinality(Holding(ref', x)) - Cardinality(Holding(ref, x))
                              + Cardinality(Holding(dict', x)) - Cardinality(Holding(dict, x))
             /\ rc'[x] \in Int
  <2>1. /\ Cardinality(Holding(dict', x)) =
              Cardinality(Holding(dict, x)) - Cardinality(Holding(dict, x) \cap Members(m))
        /\ ref' = ref
    BY EmptyEntries, Tables DEF Dealloc, DropDict
  <2>2. rc'[x] = rc[x] - Cardinality(Holding(dict, x) \cap Members(m))
    BY DEF Dealloc
  <2>3. rc[x] \in Nat
    BY DEF TypeOK
  <2>4. /\ Cardinality(Holding(ref, x)) \in Nat /\ Cardinality(Holding(dict, x)) \in Nat
        /\ Cardinality(Holding(dict, x) \cap Members(m)) \in Nat
    BY HoldingFinite
  <2> QED
    BY <2>1, <2>2, <2>3, <2>4
<1>2. rc' \in [Objects -> Int]
  BY <1>1 DEF Dealloc
<1> QED
  BY <1>1, <1>2, Counted DEF TypeOK

-----------------------------------------------------------------------------
(* What a module has registered, whatever the counts.                      *)
Shape ==
  /\ static \in Modules \cup {Null}
  /\ phase \in [Modules -> Phase]
  /\ vars \in [Modules -> Seq(Pointer)]
  /\ ref \in Table
  /\ pending \in Pointer \cup {Null}
  /\ unregistered \subseteq Pointer
  /\ functions \in BOOLEAN
  /\ TraverseExact
  /\ Registered
  /\ ClearDropsAll
  /\ InitIsStatic
  /\ UnbornIsEmpty
  /\ PendingIsUnregistered

(* The shape is part of the invariant.                                     *)
LEMMA InvShape == Inv => Shape
BY DEF Inv, Shape, TypeOK, Table

(* What is registered is a pointer of the module, and set.                 *)
LEMMA PointerFacts ==
  ASSUME Shape, NEW m \in Modules, NEW f \in Fields
  PROVE  /\ <<m, f>> \in Pointer /\ <<m, f>> # Null
         /\ \A p \in Pointers(m) : p \in Pointer /\ p[1] = m /\ ref[p[1]][p[2]] # Null
<1>1. <<m, f>> \in Pointer /\ <<m, f>> # Null
  BY NullAssumption DEF Pointer
<1>2. vars[m] \in Seq(Pointer)
  BY DEF Shape
<1> QED
  BY <1>1, <1>2 DEF Shape, TraverseExact, Pointers

(* Registering a field appends it to the list of its module.               *)
LEMMA Appended ==
  ASSUME vars \in [Modules -> Seq(Pointer)], NEW m \in Modules, NEW p \in Pointer,
         vars' = [vars EXCEPT ![m] = Append(@, p)]
  PROVE  /\ vars' \in [Modules -> Seq(Pointer)]
         /\ \A k \in Modules \ {m} : vars'[k] = vars[k] /\ Pointers(k)' = Pointers(k)
         /\ DOMAIN vars'[m] = DOMAIN vars[m] \cup {Len(vars[m]) + 1}
         /\ \A i \in DOMAIN vars[m] : vars'[m][i] = vars[m][i]
         /\ vars'[m][Len(vars[m]) + 1] = p
         /\ Pointers(m)' = Pointers(m) \cup {p}
<1>1. vars' \in [Modules -> Seq(Pointer)] /\ vars'[m] = Append(vars[m], p)
  OBVIOUS
<1>2. \A k \in Modules \ {m} : vars'[k] = vars[k] /\ Pointers(k)' = Pointers(k)
  BY DEF Pointers
<1>3. /\ DOMAIN vars'[m] = DOMAIN vars[m] \cup {Len(vars[m]) + 1}
      /\ \A i \in DOMAIN vars[m] : vars'[m][i] = vars[m][i]
      /\ vars'[m][Len(vars[m]) + 1] = p
  BY <1>1
<1>4. Pointers(m)' = Pointers(m) \cup {p}
  BY <1>3 DEF Pointers
<1> QED
  BY <1>1, <1>2, <1>3, <1>4

(* A field is set and registered.                                          *)
LEMMA RegisterKeeps ==
  ASSUME Shape, NEW m \in Modules, NEW f \in Fields, NEW o \in Objects,
         phase[m] = "init",
         (pending = Null /\ ref[m][f] = Null) \/ pending = <<m, f>>,
         Set(m, f, o), Register(m, f), phase' = phase \/ Throw(m),
         pending' = Null, UNCHANGED <<static, unregistered, functions>>
  PROVE  Shape'
<1> DEFINE p == <<m, f>>
<1>1. p \in Pointer /\ p # Null /\ o # Null
  BY PointerFacts, NullAssumption
<1>2. static = m
  BY DEF Shape, InitIsStatic
<1>3. /\ vars' = [vars EXCEPT ![m] = Append(@, p)] /\ vars \in [Modules -> Seq(Pointer)]
  BY <1>2 DEF Register, Shape
<1>4. /\ ref' \in Table
      /\ \A q \in Pointer : ref'[q[1]][q[2]] = IF q = p THEN o ELSE ref[q[1]][q[2]]
  BY DEF Set, Shape, Table, Pointer
<1>5. /\ phase' \in [Modules -> Phase]
      /\ \A k \in Modules \ {m} : phase'[k] = phase[k]
      /\ phase'[m] \in {"init", "failed"}
  BY DEF Shape, Throw, Enter, Phase
<1>6. p \notin Pointers(m)
  BY ZenonT(60), <1>1, PointerFacts DEF Shape, PendingIsUnregistered
<1>7. TraverseExact'
  <2>1. ASSUME NEW k \in Modules \ {m}, NEW i \in DOMAIN vars'[k]
        PROVE  /\ vars'[k][i][1] = k
               /\ ref'[k][vars'[k][i][2]] # Null
               /\ \A j \in DOMAIN vars'[k] : vars'[k][i] = vars'[k][j] => i = j
    <3>1. vars'[k] = vars[k] /\ vars[k] \in Seq(Pointer)
      BY <1>1, <1>3, Appended
    <3>2. vars[k][i] \in Pointer /\ vars[k][i][1] = k /\ ref[k][vars[k][i][2]] # Null
      BY <3>1 DEF Shape, TraverseExact
    <3>3. ref'[k][vars[k][i][2]] # Null
      BY <1>1, <1>4, <3>2
    <3> QED
      BY <3>1, <3>2, <3>3 DEF Shape, TraverseExact
  <2>2. ASSUME NEW i \in DOMAIN vars'[m]
        PROVE  /\ vars'[m][i][1] = m
               /\ ref'[m][vars'[m][i][2]] # Null
               /\ \A j \in DOMAIN vars'[m] : vars'[m][i] = vars'[m][j] => i = j
    <3>1. \A j \in DOMAIN vars[m] :
            vars'[m][j] = vars[m][j] /\ vars[m][j] \in Pointers(m) /\ vars[m][j] # p
      BY <1>1, <1>3, <1>6, Appended DEF Pointers
    <3>2. vars'[m][i] \in Pointer /\ vars'[m][i][1] = m /\ ref'[m][vars'[m][i][2]] # Null
      <4>1. CASE i \in DOMAIN vars[m]
        BY <1>1, <1>4, <3>1, <4>1, PointerFacts
      <4>2. CASE i = Len(vars[m]) + 1
        BY <1>1, <1>3, <1>4, <4>2, Appended
      <4> QED
        BY <1>1, <1>3, <4>1, <4>2, Appended
    <3>3. ASSUME NEW j \in DOMAIN vars'[m], vars'[m][i] = vars'[m][j] PROVE i = j
      <4>1. DOMAIN vars'[m] = DOMAIN vars[m] \cup {Len(vars[m]) + 1}
            /\ vars'[m][Len(vars[m]) + 1] = p
        BY <1>1, <1>3, Appended
      <4>2. CASE i \in DOMAIN vars[m] /\ j \in DOMAIN vars[m]
        BY <3>1, <3>3, <4>2 DEF Shape, TraverseExact
      <4> QED
        BY <3>1, <3>3, <4>1, <4>2
    <3> QED
      BY <3>2, <3>3
  <2> QED
    BY <2>1, <2>2 DEF TraverseExact
<1>8. Registered'
  <2>1. \A k \in Modules : Pointers(k) \subseteq Pointers(k)'
    BY ZenonT(60), <1>1, <1>3, Appended
  <2>2. Pointers(m)' = Pointers(m) \cup {p}
    BY <1>1, <1>3, Appended
  <2>3. ASSUME NEW q \in Pointer, phase'[q[1]] \in {"init", "ready", "failed"},
               ref'[q[1]][q[2]] # Null
        PROVE  q \in Pointers(q[1])' \cup unregistered'
    <3>1. CASE q = p
      BY <2>2, <3>1
    <3>2. CASE q # p
      <4>1. q[1] \in Modules /\ ref[q[1]][q[2]] # Null
        BY <1>4, <2>3, <3>2 DEF Pointer
      <4>2. phase[q[1]] \in {"init", "ready", "failed"}
        BY <1>5, <2>3, <4>1
      <4>3. q \in Pointers(q[1]) \cup unregistered \cup {pending}
        BY <4>1, <4>2 DEF Shape, Registered
      <4>4. pending # q
        BY <1>1, <3>2, NullAssumption DEF Pointer
      <4> QED
        BY <2>1, <4>1, <4>3, <4>4
    <3> QED
      BY <3>1, <3>2
  <2>4. \A q \in Pointer : pending' # q
    BY NullAssumption DEF Pointer
  <2> QED
    BY <2>3, <2>4 DEF Registered
<1>9. ClearDropsAll'
  <2>1. ASSUME NEW q \in Pointer, phase'[q[1]] \in {"cleared", "gone"}, functions',
               ref'[q[1]][q[2]] # Null
        PROVE  q \in unregistered'
    <3>1. q[1] \in Modules /\ q[1] # m /\ q # p
      BY <1>5, <2>1 DEF Pointer
    <3> QED
      BY <1>4, <1>5, <2>1, <3>1 DEF Shape, ClearDropsAll
  <2> QED
    BY <2>1 DEF ClearDropsAll
<1>10. InitIsStatic'
  BY <1>5 DEF Shape, InitIsStatic
<1>11. UnbornIsEmpty'
  <2>1. ASSUME NEW q \in Pointer, phase'[q[1]] \in {"absent", "created"}
        PROVE  vars'[q[1]] = <<>> /\ ref'[q[1]][q[2]] = Null
    <3>1. q[1] \in Modules \ {m} /\ q # p
      BY <1>5, <2>1 DEF Pointer
    <3>2. vars'[q[1]] = vars[q[1]]
      BY <1>1, <1>3, <3>1, Appended
    <3> QED
      BY <1>4, <1>5, <2>1, <3>1, <3>2 DEF Shape, UnbornIsEmpty
  <2> QED
    BY <2>1 DEF UnbornIsEmpty
<1>12. PendingIsUnregistered'
  BY DEF PendingIsUnregistered
<1> QED
  BY <1>1, <1>3, <1>4, <1>5, <1>7, <1>8, <1>9, <1>10, <1>11, <1>12, Appended DEF Shape

(* A field is set, and is not registered, or not yet.                      *)
LEMMA SetKeepsShape ==
  ASSUME Shape, NEW m \in Modules, NEW f \in Fields, NEW o \in Objects,
         phase[m] = "init", pending = Null, ref[m][f] = Null, Set(m, f, o),
         \/ pending' = <<m, f>> /\ unregistered' = unregistered
         \/ pending' = Null /\ unregistered' = unregistered \cup {<<m, f>>},
         UNCHANGED <<static, phase, vars, functions>>
  PROVE  Shape'
<1> DEFINE p == <<m, f>>
<1>1. p \in Pointer /\ p # Null /\ o # Null
  BY PointerFacts, NullAssumption
<1>2. /\ ref' \in Table
      /\ \A q \in Pointer : ref'[q[1]][q[2]] = IF q = p THEN o ELSE ref[q[1]][q[2]]
  BY DEF Set, Shape, Table, Pointer
<1>3. \A k \in Modules : Pointers(k)' = Pointers(k)
  BY DEF Pointers
<1>4. p \notin Pointers(m)
  BY PointerFacts
<1>5. TraverseExact'
  <2>1. ASSUME NEW k \in Modules, NEW i \in DOMAIN vars[k]
        PROVE  ref'[k][vars[k][i][2]] # Null
    <3>1. vars[k] \in Seq(Pointer)
      BY DEF Shape
    <3>2. vars[k][i] \in Pointer /\ vars[k][i][1] = k /\ ref[k][vars[k][i][2]] # Null
      BY <3>1 DEF Shape, TraverseExact
    <3> QED
      BY <1>1, <1>2, <3>2
  <2> QED
    BY <2>1 DEF Shape, TraverseExact
<1>6. Registered'
  <2>1. ASSUME NEW q \in Pointer, phase[q[1]] \in {"init", "ready", "failed"},
               ref'[q[1]][q[2]] # Null
        PROVE  q \in Pointers(q[1]) \cup unregistered' \cup {pending'}
    <3>1. CASE q = p
      BY <3>1
    <3>2. CASE q # p
      <4>1. q \in Pointers(q[1]) \cup unregistered \cup {pending}
        BY <1>2, <2>1, <3>2 DEF Shape, Registered
      <4>2. q # Null
        BY NullAssumption DEF Pointer
      <4> QED
        BY <4>1, <4>2
    <3> QED
      BY <3>1, <3>2
  <2>2. ASSUME NEW q \in Pointer, pending' = q PROVE phase[q[1]] = "init"
    BY <1>1, <2>2, NullAssumption DEF Pointer
  <2> QED
    BY <1>3, <2>1, <2>2 DEF Registered, Pointer
<1>7. ClearDropsAll'
  <2>1. ASSUME NEW q \in Pointer, phase[q[1]] \in {"cleared", "gone"}, functions,
               ref'[q[1]][q[2]] # Null
        PROVE  q \in unregistered
    <3>1. q # p
      BY <2>1
    <3> QED
      BY <1>2, <2>1, <3>1 DEF Shape, ClearDropsAll
  <2> QED
    BY <2>1 DEF ClearDropsAll
<1>8. UnbornIsEmpty'
  <2>1. ASSUME NEW q \in Pointer, phase[q[1]] \in {"absent", "created"}
        PROVE  vars[q[1]] = <<>> /\ ref'[q[1]][q[2]] = Null
    <3>1. q # p
      BY <2>1
    <3> QED
      BY <1>2, <2>1, <3>1 DEF Shape, UnbornIsEmpty
  <2> QED
    BY <2>1 DEF UnbornIsEmpty
<1>9. InitIsStatic'
  BY DEF Shape, InitIsStatic
<1>10. PendingIsUnregistered'
  <2>1. ASSUME pending' = p
        PROVE  ref'[m][f] # Null /\ p \notin Pointers(m)
    <3>1. ref'[m][f] = o
      BY <1>1, <1>2
    <3> QED
      BY <1>1, <1>4, <3>1
  <2> QED
    BY <1>3, <2>1 DEF PendingIsUnregistered
<1> QED
  BY <1>1, <1>2, <1>5, <1>6, <1>7, <1>8, <1>9, <1>10 DEF Shape

(* The module's life goes on, and its state is as before; a field that     *)
(* waits for its object may give up.                                       *)
LEMMA EnterKeeps ==
  ASSUME Shape, NEW m \in Modules, NEW after \in {"created", "ready", "failed", "gone"},
         Enter(m, after),
         \/ after = "created" /\ phase[m] = "absent"
         \/ after \in {"ready", "failed"} /\ phase[m] = "init"
         \/ after = "gone" /\ (phase[m] \in {"created", "cleared"} \/ ~functions),
         \/ UNCHANGED <<pending, unregistered>> /\ \A f \in Fields : pending # <<m, f>>
         \/ pending' = Null /\ unregistered' = unregistered \cup {pending} /\ pending # Null,
         UNCHANGED <<static, vars, ref, functions>>
  PROVE  Shape'
<1>1. /\ phase' \in [Modules -> Phase] /\ phase'[m] = after
      /\ \A k \in Modules \ {m} : phase'[k] = phase[k]
  BY DEF Shape, Enter, Phase
<1>2. \A k \in Modules : Pointers(k)' = Pointers(k)
  BY DEF Pointers
<1>3. pending' \in Pointer \cup {Null} /\ unregistered' \subseteq Pointer
  BY DEF Shape
<1>4. TraverseExact'
  BY DEF Shape, TraverseExact
<1>5. Registered'
  <2>1. ASSUME NEW q \in Pointer, phase'[q[1]] \in {"init", "ready", "failed"},
               ref[q[1]][q[2]] # Null
        PROVE  q \in Pointers(q[1]) \cup unregistered' \cup {pending'}
    <3>1. q[1] \in Modules
      BY DEF Pointer
    <3>2. q \in Pointers(q[1]) \cup unregistered \cup {pending}
      <4>1. CASE phase[q[1]] \in {"init", "ready", "failed"}
        BY <2>1, <4>1 DEF Shape, Registered
      <4>2. CASE phase[q[1]] \notin {"init", "ready", "failed"}
        BY <1>1, <2>1, <3>1, <4>2
      <4> QED
        BY <4>1, <4>2
    <3> QED
      BY <3>2
  <2>2. ASSUME NEW q \in Pointer, pending' = q PROVE phase'[q[1]] = "init"
    <3>1. pending = q /\ \A f \in Fields : pending # <<m, f>>
      BY <2>2, NullAssumption DEF Pointer
    <3>2. q[1] \in Modules \ {m} /\ phase[q[1]] = "init"
      BY <3>1 DEF Shape, Registered, Pointer
    <3> QED
      BY <1>1, <3>2
  <2> QED
    BY <1>2, <2>1, <2>2 DEF Registered, Pointer
<1>6. ClearDropsAll'
  <2>1. ASSUME NEW q \in Pointer, phase'[q[1]] \in {"cleared", "gone"}, functions,
               ref[q[1]][q[2]] # Null
        PROVE  q \in unregistered
    <3>1. q[1] \in Modules
      BY DEF Pointer
    <3>2. phase[q[1]] # "created"
      BY <2>1 DEF Shape, UnbornIsEmpty
    <3>3. phase[q[1]] \in {"cleared", "gone"}
      BY <1>1, <2>1, <3>1, <3>2
    <3> QED
      BY <2>1, <3>3 DEF Shape, ClearDropsAll
  <2> QED
    BY <2>1 DEF ClearDropsAll
<1>7. UnbornIsEmpty'
  <2>1. ASSUME NEW q \in Pointer, phase'[q[1]] \in {"absent", "created"}
        PROVE  phase[q[1]] \in {"absent", "created"}
    BY <1>1, <2>1 DEF Pointer
  <2> QED
    BY <2>1 DEF Shape, UnbornIsEmpty
<1>8. InitIsStatic'
  BY <1>1 DEF Shape, InitIsStatic
<1>9. PendingIsUnregistered'
  BY <1>2 DEF Shape, PendingIsUnregistered, Pointer
<1> QED
  BY <1>1, <1>3, <1>4, <1>5, <1>6, <1>7, <1>8, <1>9 DEF Shape

(* __exec__ begins on an empty state, to which the static pointer points   *)
(* then.                                                                   *)
LEMMA ExecKeeps ==
  ASSUME Shape, NEW m \in Modules, Exec(m)
  PROVE  Shape'
<1>1. /\ phase[m] = "created" /\ \A k \in Modules : phase[k] # "init"
      /\ phase' \in [Modules -> Phase] /\ phase'[m] = "init"
      /\ \A k \in Modules \ {m} : phase'[k] = phase[k]
      /\ static' = m
      /\ UNCHANGED <<ref, pending, unregistered, functions>>
  BY DEF Shape, Exec, Enter, Phase
<1>2. ASSUME NEW f \in Fields PROVE vars[m] = <<>> /\ ref[m][f] = Null
  <2>1. <<m, f>> \in Pointer /\ <<m, f>>[1] = m /\ <<m, f>>[2] = f
    BY DEF Pointer
  <2> QED
    BY <1>1, <2>1 DEF Shape, UnbornIsEmpty
<1>3. /\ vars' \in [Modules -> Seq(Pointer)] /\ vars'[m] = <<>>
      /\ \A k \in Modules \ {m} : vars'[k] = vars[k]
  BY DEF Shape, Exec
<1>4. \A k \in Modules \ {m} : Pointers(k)' = Pointers(k)
  BY <1>3 DEF Pointers
<1>5. TraverseExact'
  <2>1. ASSUME NEW k \in Modules, NEW i \in DOMAIN vars'[k]
        PROVE  k # m /\ vars'[k] = vars[k] /\ i \in DOMAIN vars[k]
    <3>1. DOMAIN vars'[m] = {}
      BY <1>3
    <3> QED
      BY <1>3, <2>1, <3>1
  <2>2. ref' = ref /\ TraverseExact
    BY <1>1 DEF Shape
  <2> QED
    BY <2>1, <2>2 DEF TraverseExact
<1>6. pending = Null
  BY <1>1 DEF Shape, Registered, Pointer
<1>7. Registered'
  <2>1. ASSUME NEW q \in Pointer, phase'[q[1]] \in {"init", "ready", "failed"},
               ref[q[1]][q[2]] # Null
        PROVE  q \in Pointers(q[1])' \cup unregistered
    <3>1. q[1] \in Modules \ {m}
      BY <1>2, <2>1 DEF Pointer
    <3>2. phase[q[1]] \in {"init", "ready", "failed"}
      BY <1>1, <2>1, <3>1
    <3>3. q \in Pointers(q[1]) \cup unregistered
      BY <1>6, <2>1, <3>2, NullAssumption DEF Shape, Registered, Pointer
    <3> QED
      BY <1>4, <3>1, <3>3
  <2> QED
    BY <1>1, <1>6, <2>1, NullAssumption DEF Registered, Pointer
<1>8. ClearDropsAll'
  BY <1>1 DEF Shape, ClearDropsAll, Pointer
<1>9. UnbornIsEmpty'
  BY <1>1, <1>3 DEF Shape, UnbornIsEmpty, Pointer
<1>10. InitIsStatic'
  BY <1>1 DEF InitIsStatic
<1>11. PendingIsUnregistered'
  BY <1>1, <1>6 DEF PendingIsUnregistered
<1> QED
  BY <1>1, <1>3, <1>5, <1>7, <1>8, <1>9, <1>10, <1>11 DEF Shape

(* __clear__ reaches its own module's fields only.                         *)
LEMMA ClearEffect ==
  ASSUME Shape, NEW m \in Modules, Clear(m)
  PROVE  /\ ref' \in Table
         /\ vars' \in [Modules -> Seq(Pointer)] /\ vars'[m] = <<>>
         /\ \A k \in Modules \ {m} :
              ref'[k] = ref[k] /\ vars'[k] = vars[k] /\ Pointers(k)' = Pointers(k)
         /\ \A f \in Fields :
              ref'[m][f] = IF <<m, f>> \in Pointers(m) THEN Null ELSE ref[m][f]
<1>1. /\ ref' = Emptied(ref, Pointers(m)) /\ vars' = [vars EXCEPT ![m] = <<>>]
      /\ ref \in Table /\ vars \in [Modules -> Seq(Pointer)]
  BY DEF Shape, Clear, FreeVars
<1>2. /\ ref' \in Table
      /\ \A k \in Modules, f \in Fields :
           ref'[k][f] = IF <<k, f>> \in Pointers(m) THEN Null ELSE ref[k][f]
  BY <1>1 DEF Emptied, Table
<1>3. ASSUME NEW k \in Modules \ {m} PROVE ref'[k] = ref[k]
  <2>1. \A f \in Fields : <<k, f>> \notin Pointers(m)
    BY PointerFacts
  <2>2. \A f \in Fields : ref'[k][f] = ref[k][f]
    BY <1>2, <2>1
  <2>3. ref'[k] \in [Fields -> Objects \cup {Null}] /\ ref[k] \in [Fields -> Objects \cup {Null}]
    BY <1>1, <1>2 DEF Table
  <2> QED
    BY <2>2, <2>3
<1>4. ASSUME NEW k \in Modules \ {m} PROVE vars'[k] = vars[k] /\ Pointers(k)' = Pointers(k)
  BY <1>1 DEF Pointers
<1> QED
  BY <1>1, <1>2, <1>3, <1>4

(* After a clear the module has nothing registered.                        *)
LEMMA ClearKeepsShape ==
  ASSUME Shape, NEW m \in Modules, Clear(m)
  PROVE  Shape'
<1>1. /\ phase[m] \in {"ready", "failed"}
      /\ phase' \in [Modules -> Phase] /\ phase'[m] = "cleared"
      /\ \A k \in Modules \ {m} : phase'[k] = phase[k]
      /\ UNCHANGED <<static, pending, unregistered, functions>>
  BY DEF Shape, Clear, Enter, Phase
<1>2. /\ ref' \in Table
      /\ vars' \in [Modules -> Seq(Pointer)] /\ vars'[m] = <<>>
      /\ \A k \in Modules \ {m} :
           ref'[k] = ref[k] /\ vars'[k] = vars[k] /\ Pointers(k)' = Pointers(k)
      /\ \A f \in Fields :
           ref'[m][f] = IF <<m, f>> \in Pointers(m) THEN Null ELSE ref[m][f]
  BY ClearEffect
<1>3. TraverseExact'
  <2>1. ASSUME NEW k \in Modules, NEW i \in DOMAIN vars'[k]
        PROVE  vars'[k] = vars[k] /\ i \in DOMAIN vars[k] /\ ref'[k] = ref[k]
    <3>1. DOMAIN vars'[m] = {}
      BY <1>2
    <3> QED
      BY <1>2, <2>1, <3>1
  <2>2. TraverseExact
    BY DEF Shape
  <2> QED
    BY <2>1, <2>2 DEF TraverseExact
<1>4. ASSUME NEW q \in Pointer, pending = q PROVE q[1] \in Modules \ {m} /\ phase[q[1]] = "init"
  BY <1>1, <1>4 DEF Shape, Registered, Pointer
<1>5. Registered'
  <2>1. ASSUME NEW q \in Pointer, phase'[q[1]] \in {"init", "ready", "failed"},
               ref'[q[1]][q[2]] # Null
        PROVE  q \in Pointers(q[1])' \cup unregistered \cup {pending}
    <3>1. q[1] \in Modules \ {m}
      BY <1>1, <2>1 DEF Pointer
    <3> QED
      BY <1>1, <1>2, <2>1, <3>1 DEF Shape, Registered
  <2> QED
    BY <1>1, <1>4, <2>1 DEF Registered
<1>6. ClearDropsAll'
  <2>1. ASSUME NEW q \in Pointer, phase'[q[1]] \in {"cleared", "gone"}, functions,
               ref'[q[1]][q[2]] # Null
        PROVE  q \in unregistered
    <3>1. CASE q[1] = m
      <4>1. q \notin Pointers(m) /\ ref[q[1]][q[2]] # Null
        BY <1>2, <2>1, <3>1 DEF Pointer
      <4>2. q \in Pointers(m) \cup unregistered \cup {pending}
        BY <1>1, <3>1, <4>1 DEF Shape, Registered
      <4> QED
        BY <1>4, <3>1, <4>1, <4>2
    <3>2. CASE q[1] # m
      <4>1. q[1] \in Modules \ {m}
        BY <3>2 DEF Pointer
      <4> QED
        BY <1>1, <1>2, <2>1, <4>1 DEF Shape, ClearDropsAll
    <3> QED
      BY <3>1, <3>2
  <2> QED
    BY <1>1, <2>1 DEF ClearDropsAll
<1>7. UnbornIsEmpty'
  BY ZenonT(60), <1>1, <1>2 DEF Shape, UnbornIsEmpty, Pointer
<1>8. InitIsStatic'
  BY <1>1 DEF Shape, InitIsStatic
<1>9. PendingIsUnregistered'
  <2>1. ASSUME pending # Null
        PROVE  ref'[pending[1]][pending[2]] # Null /\ pending \notin Pointers(pending[1])'
    <3>1. pending \in Pointer
      BY <2>1 DEF Shape
    <3>2. pending[1] \in Modules \ {m}
      BY <1>4, <3>1
    <3>3. ref[pending[1]][pending[2]] # Null /\ pending \notin Pointers(pending[1])
      BY <2>1 DEF Shape, PendingIsUnregistered
    <3>4. ref'[pending[1]] = ref[pending[1]] /\ vars'[pending[1]] = vars[pending[1]]
      BY <1>2, <3>2
    <3>5. Pointers(pending[1])' = Pointers(pending[1])
      BY <1>1, <3>4 DEF Pointers
    <3> QED
      BY <3>3, <3>4, <3>5
  <2> QED
    BY <1>1, <2>1 DEF PendingIsUnregistered
<1> QED
  BY <1>1, <1>2, <1>3, <1>5, <1>6, <1>7, <1>8, <1>9 DEF Shape

(* Steps that only touch what is exported.                                 *)
LEMMA SameShape ==
  ASSUME Shape, UNCHANGED <<static, phase, vars, ref, pending, unregistered, functions>>
  PROVE  Shape'
<1>1. \A k \in Modules : Pointers(k)' = Pointers(k)
  BY DEF Pointers
<1> QED
  BY <1>1 DEF Shape, TraverseExact, Registered, ClearDropsAll, InitIsStatic,
    UnbornIsEmpty, PendingIsUnregistered, Pointer

-----------------------------------------------------------------------------
(* No module exists at first.                                              *)
LEMMA InitInv == Init => Inv
<1> SUFFICES ASSUME Init PROVE Inv
  OBVIOUS
<1>1. TypeOK
  <2>1. vars \in [Modules -> Seq(Pointer)] /\ rc \in [Objects -> Nat]
    BY DEF Init
  <2>2. /\ ref \in [Modules -> [Fields -> Objects \cup {Null}]]
        /\ dict \in [Modules -> [Fields -> Objects \cup {Null}]]
    BY DEF Init
  <2>3. phase \in [Modules -> Phase]
    BY DEF Init, Phase
  <2> QED
    BY <2>1, <2>2, <2>3 DEF Init, TypeOK
<1>2. Balanced
  <2>1. ASSUME NEW o \in Objects
        PROVE  Holding(ref, o) = {} /\ Holding(dict, o) = {} /\ rc[o] = 0
    BY NullAssumption DEF Init, Holding, Pointer
  <2>2. Cardinality({}) = 0
    BY FS_EmptySet
  <2> QED
    BY <2>1, <2>2 DEF Balanced
<1>3. TraverseExact /\ Registered /\ ClearDropsAll
  BY NullAssumption DEF Init, TraverseExact, Registered, ClearDropsAll, Pointer
<1>4. InitIsStatic /\ UnbornIsEmpty /\ PendingIsUnregistered
  BY DEF Init, InitIsStatic, UnbornIsEmpty, PendingIsUnregistered, Pointer
<1> QED
  BY <1>1, <1>2, <1>3, <1>4 DEF Inv

(* What is left to show of a step.                                         *)
Kept == Shape' /\ Balanced' /\ rc' \in [Objects -> Nat] /\ dict' \in Table /\ nullRead' \in BOOLEAN

(* It is enough for the invariant.                                         *)
LEMMA KeptInv == Kept => Inv'
BY DEF Kept, Shape, Inv, TypeOK, Table

(* What holds while __init__ calls a member.                               *)
LEMMA InitialisesFacts ==
  ASSUME Inv, NEW m \in Modules, NEW f \in Fields, Initialises(m)
  PROVE  /\ Shape /\ TypeOK /\ Balanced /\ static = m /\ phase[m] = "init" /\ pending = Null
         /\ \A g \in Fields : pending # <<m, g>>
BY InvShape, PointerFacts DEF Inv, InitIsStatic, Initialises

(* The steps that are no calls of a member.                                *)
LEMMA StepKeeps ==
  ASSUME Inv, NEW m \in Modules
  PROVE  /\ Create(m) \/ Exec(m) \/ Return(m) => Kept
         /\ Clear(m) => Kept
         /\ Dealloc(m) => Kept
<1> USE InvShape DEF Kept
<1>1. ASSUME Create(m) \/ Exec(m) \/ Return(m) PROVE Kept
  <2>1. Balanced' /\ rc' \in [Objects -> Nat] /\ dict' \in Table /\ nullRead' \in BOOLEAN
    <3>1. UNCHANGED <<ref, dict, rc, nullRead>>
      BY <1>1 DEF Create, Exec, Return
    <3> QED
      BY <3>1, UncountedKeeps, Tables DEF Uncounted, Inv, TypeOK
  <2>2. CASE Create(m)
    <3>1. \A f \in Fields : pending # <<m, f>>
      BY <2>2, PointerFacts DEF Create, Inv, Registered
    <3> QED
      BY <2>1, <2>2, <3>1, EnterKeeps DEF Create
  <2>3. CASE Exec(m)
    BY <2>1, <2>3, ExecKeeps
  <2>4. CASE Return(m)
    <3>1. \A f \in Fields : pending # <<m, f>>
      BY <2>4, PointerFacts DEF Return, Initialises
    <3> QED
      BY <2>1, <2>4, <3>1, EnterKeeps DEF Return, Initialises
  <2> QED
    BY <1>1, <2>2, <2>3, <2>4
<1>2. ASSUME Clear(m) PROVE Kept
  <2>1. dict' \in Table /\ nullRead' \in BOOLEAN
    BY <1>2, Tables, EmptyEntries DEF Clear, DropDict, Inv, TypeOK, Emptied, Table
  <2> QED
    BY <1>2, <2>1, ClearKeeps, ClearKeepsShape DEF Inv
<1>3. ASSUME Dealloc(m) PROVE Kept
  <2>1. dict' \in Table /\ nullRead' \in BOOLEAN
    BY <1>3, Tables DEF Dealloc, DropDict, Inv, TypeOK, Emptied, Table
  <2>2. \A f \in Fields : pending # <<m, f>>
    BY <1>3, PointerFacts DEF Dealloc, Inv, Registered
  <2>3. Shape'
    BY <1>3, <2>2, EnterKeeps DEF Dealloc
  <2> QED
    BY <1>3, <2>1, <2>3, DeallocKeeps DEF Inv
<1> QED
  BY <1>1, <1>2, <1>3

(* The calls of members.                                                   *)
LEMMA CallKeeps ==
  ASSUME Inv, NEW m \in Modules, NEW f \in Fields
  PROVE  /\ Value(m, f) => Kept
         /\ Export(m, f) => Kept
         /\ Define(m, f) => Kept
         /\ ImportWhole(m, f) => Kept
         /\ \A names \in NameSets : Import(m, f, names) => Kept
<1>1. \A o \in Objects : o \in Objects \cup {Null} /\ o # Null
  BY NullAssumption
<1>2. dict \in Table /\ nullRead \in BOOLEAN
  BY Tables DEF Inv, TypeOK
<1>3. ASSUME NEW g \in Fields, NEW o \in Objects, static \in Modules, Exports(g, o)
      PROVE  dict' \in Table
  BY <1>2, <1>3 DEF Exports, Table
(* A call that throws has changed nothing, or has set a field.             *)
<1>4. ASSUME Initialises(m), Throw(m),
             UNCHANGED <<static, vars, ref, dict, rc, pending, unregistered, nullRead, functions>>
      PROVE  Kept
  <2>1. Shape'
    BY <1>4, InitialisesFacts, EnterKeeps DEF Throw
  <2> QED
    BY <1>2, <1>4, <2>1, InitialisesFacts, UncountedKeeps DEF Kept, Uncounted
<1>5. ASSUME Value(m, f) PROVE Kept
  <2>1. CASE Throw(m) /\ UNCHANGED <<ref, vars, rc>>
    BY <1>4, <1>5, <2>1 DEF Value, Settable
  <2>2. ASSUME NEW o \in Objects, Set(m, f, o), Register(m, f), rc' = Taken(o, 1), phase' = phase
        PROVE  Kept
    <3>1. Initialises(m) /\ ref[m][f] = Null
          /\ UNCHANGED <<static, dict, pending, unregistered, nullRead, functions>>
      BY <1>5 DEF Value, Settable
    <3>2. Shape'
      BY <2>2, <3>1, InitialisesFacts, RegisterKeeps
    <3> QED
      BY <1>2, <2>2, <3>1, <3>2, InitialisesFacts, SetKeeps DEF Kept
  <2> QED
    BY <1>5, <2>1, <2>2 DEF Value
<1>6. ASSUME Export(m, f) PROVE Kept
  <2>1. /\ Initialises(m) /\ ref[m][f] \in Objects
        /\ UNCHANGED <<static, vars, ref, pending, unregistered, nullRead, functions>>
    BY <1>6 DEF Export, Inv, TypeOK
  <2>2. CASE Throw(m) /\ UNCHANGED <<dict, rc>>
    BY <1>4, <2>1, <2>2
  <2>3. CASE Exports(f, ref[m][f]) /\ rc' = Taken(ref[m][f], 1) /\ phase' = phase
    <3>1. Shape'
      BY <2>1, <2>3, InitialisesFacts, SameShape
    <3> QED
      BY <1>2, <1>3, <2>1, <2>3, <3>1, InitialisesFacts, ExportsKeeps DEF Kept
  <2> QED
    BY <1>6, <2>2, <2>3 DEF Export
<1>7. ASSUME Define(m, f) PROVE Kept
  <2>1. /\ Initialises(m) /\ ref[m][f] = Null
        /\ UNCHANGED <<static, pending, unregistered, nullRead, functions>>
    BY <1>7 DEF Define, Settable
  <2>2. CASE Throw(m) /\ UNCHANGED <<ref, vars, dict, rc>>
    BY <1>4, <2>1, <2>2
  <2>3. ASSUME NEW o \in Objects, Set(m, f, o), Register(m, f),
               \/ Exports(f, o) /\ rc' = Taken(o, 2) /\ UNCHANGED phase
               \/ Throw(m) /\ rc' = Taken(o, 1) /\ UNCHANGED dict
        PROVE  Kept
    <3>1. Shape'
      BY <2>1, <2>3, InitialisesFacts, RegisterKeeps
    <3>2. CASE Exports(f, o) /\ rc' = Taken(o, 2)
      BY <1>2, <1>3, <2>1, <2>3, <3>1, <3>2, InitialisesFacts, DefineKeeps DEF Kept
    <3>3. CASE rc' = Taken(o, 1) /\ UNCHANGED dict
      BY <1>2, <2>1, <2>3, <3>1, <3>3, InitialisesFacts, SetKeeps DEF Kept
    <3> QED
      BY <2>3, <3>2, <3>3
  <2> QED
    BY <1>7, <2>2, <2>3 DEF Define
<1>8. ASSUME ImportWhole(m, f) PROVE Kept
  <2>1. /\ Initialises(m) /\ ref[m][f] = Null
        /\ UNCHANGED <<static, vars, dict, pending, nullRead, functions>>
    BY <1>8 DEF ImportWhole, Settable
  <2>2. CASE Throw(m) /\ UNCHANGED <<ref, rc, unregistered>>
    BY <1>4, <2>1, <2>2
  <2>3. ASSUME NEW o \in Objects, Set(m, f, o), rc' = Taken(o, 1), UNCHANGED phase,
               unregistered' = unregistered \cup {<<m, f>>}
        PROVE  Kept
    <3>1. Shape'
      BY <2>1, <2>3, InitialisesFacts, SetKeepsShape
    <3> QED
      BY <1>2, <2>1, <2>3, <3>1, InitialisesFacts, SetKeeps DEF Kept
  <2> QED
    BY <1>8, <2>2, <2>3 DEF ImportWhole
<1>9. ASSUME NEW names \in NameSets, Import(m, f, names) PROVE Kept
  <2>1. /\ Initialises(m) /\ ref[m][f] = Null
        /\ UNCHANGED <<static, dict, unregistered, functions>>
    BY <1>9 DEF Import, Settable
  <2>2. CASE Throw(m) /\ UNCHANGED <<vars, ref, rc, pending, nullRead>>
    BY <1>4, <2>1, <2>2
  <2>3. ASSUME NEW o \in Objects, Set(m, f, o), rc' = Taken(o, 1), UNCHANGED phase,
               nullRead' = (nullRead \/ Null \in Reads(o, names)),
               \/ pending' = <<m, f>> /\ UNCHANGED vars
               \/ Register(m, f) /\ UNCHANGED pending
        PROVE  Kept
    <3>1. CASE pending' = <<m, f>> /\ UNCHANGED vars
      <4>1. Shape'
        BY <2>1, <2>3, <3>1, InitialisesFacts, SetKeepsShape
      <4> QED
        BY <1>2, <2>1, <2>3, <4>1, InitialisesFacts, SetKeeps DEF Kept
    <3>2. CASE Register(m, f) /\ UNCHANGED pending
      <4>1. Shape'
        BY <2>1, <2>3, <3>2, InitialisesFacts, RegisterKeeps
      <4> QED
        BY <1>2, <2>1, <2>3, <4>1, InitialisesFacts, SetKeeps DEF Kept
    <3> QED
      BY <2>3, <3>1, <3>2
  <2> QED
    BY <1>9, <2>2, <2>3 DEF Import
<1> QED
  BY <1>5, <1>6, <1>7, <1>8, <1>9

(* The two halves of a call that are steps of their own.                   *)
LEMMA NameKeeps ==
  ASSUME Inv, NEW m \in Modules, NEW f \in Fields, GetName(m, f) \/ Delete(m, f)
  PROVE  Kept
<1> USE DEF Kept
<1>1. Shape /\ TypeOK /\ Balanced /\ dict \in Table /\ nullRead \in BOOLEAN
  BY InvShape, Tables DEF Inv, TypeOK
<1>2. CASE GetName(m, f)
  <2>1. /\ pending = <<m, f>> /\ pending # Null /\ phase[m] = "init"
        /\ ref[m][f] \in Objects
    <3>1. pending = <<m, f>> /\ <<m, f>> \in Pointer /\ pending # Null
      BY <1>1, <1>2, PointerFacts DEF GetName
    <3>2. phase[m] = "init" /\ ref[m][f] # Null
      BY <3>1 DEF Inv, Registered, PendingIsUnregistered
    <3> QED
      BY <1>1, <3>1, <3>2 DEF TypeOK
  <2>2. pending' = Null /\ UNCHANGED <<static, dict, nullRead, functions>>
    BY <1>2 DEF GetName
  <2>3. ASSUME NEW o \in Objects, Set(m, f, o), Register(m, f),
               rc' = [Taken(o, 1) EXCEPT ![ref[m][f]] = @ - 1],
               UNCHANGED <<phase, unregistered>>
        PROVE  Kept
    <3>1. Shape'
      BY <1>1, <2>1, <2>2, <2>3, RegisterKeeps
    <3> QED
      BY <1>1, <2>1, <2>2, <2>3, <3>1, ReplaceKeeps
  <2>4. CASE /\ Throw(m) /\ unregistered' = unregistered \cup {<<m, f>>}
             /\ UNCHANGED <<ref, rc, vars>>
    <3>1. Shape'
      BY <1>1, <2>1, <2>2, <2>4, EnterKeeps DEF Throw
    <3> QED
      BY <1>1, <2>2, <2>4, <3>1, UncountedKeeps DEF Uncounted
  <2> QED
    BY <1>2, <2>3, <2>4 DEF GetName
<1>3. CASE Delete(m, f)
  <2>1. Shape'
    BY <1>1, <1>3, SameShape DEF Delete
  <2>2. dict' \in Table /\ nullRead' \in BOOLEAN
    BY <1>1, <1>3 DEF Delete, Table
  <2> QED
    BY <1>1, <1>3, <2>1, <2>2, DeleteKeeps
<1> QED
  BY <1>2, <1>3

(* Every step keeps the invariant.                                         *)
LEMMA NextInv == Inv /\ [Next]_lifeVars => Inv'
<1> SUFFICES ASSUME Inv, [Next]_lifeVars PROVE Inv'
  OBVIOUS
<1>1. CASE UNCHANGED lifeVars
  <2>1. /\ UNCHANGED <<static, phase, vars, ref, pending, unregistered, functions>>
        /\ Uncounted /\ dict' = dict /\ nullRead' = nullRead
    BY <1>1 DEF lifeVars, Uncounted
  <2>2. Shape /\ TypeOK /\ Balanced /\ dict \in Table /\ nullRead \in BOOLEAN
    BY InvShape, Tables DEF Inv, TypeOK
  <2>3. Shape'
    BY <2>1, <2>2, SameShape
  <2> QED
    BY <2>1, <2>2, <2>3, UncountedKeeps, KeptInv DEF Kept
<1>2. CASE Next
  <2>1. ASSUME NEW m \in Modules, NEW f \in Fields,
               \/ Value(m, f) \/ Export(m, f) \/ Define(m, f) \/ ImportWhole(m, f)
               \/ \E names \in NameSets : Import(m, f, names)
               \/ GetName(m, f) \/ Delete(m, f)
        PROVE  Kept
    BY <2>1, CallKeeps, NameKeeps
  <2>2. ASSUME NEW m \in Modules, Create(m) \/ Exec(m) \/ Return(m) \/ Clear(m) \/ Dealloc(m)
        PROVE  Kept
    BY <2>2, StepKeeps
  <2> QED
    BY <1>2, <2>1, <2>2, KeptInv DEF Next
<1> QED
  BY <1>1, <1>2

(* The inductive invariant, for any number of modules, fields and objects. *)
THEOREM Invariance == Spec => []Inv
<1>1. Init => Inv
  BY InitInv
<1>2. Inv /\ [Next]_lifeVars => Inv'
  BY NextInv
<1> QED
  BY <1>1, <1>2, PTL DEF Spec

(* Types: in particular no count of references falls below zero.           *)
THEOREM TypeCorrect == Spec => []TypeOK
<1>1. Inv => TypeOK
  BY DEF Inv
<1> QED
  BY <1>1, Invariance, PTL

(* Every reference taken by Value, Export, Define and Import is that of a  *)
(* field or of a module's dict, and is dropped with it.                    *)
THEOREM CountsBalance == Spec => []Balanced
<1>1. Inv => Balanced
  BY DEF Inv
<1> QED
  BY <1>1, Invariance, PTL

(* __traverse__ reports a reference once and to its own module only.       *)
THEOREM TraversedOnce == Spec => []TraverseExact
<1>1. Inv => TraverseExact
  BY DEF Inv
<1> QED
  BY <1>1, Invariance, PTL

(* What __traverse__ does not report was set by an Import that does not    *)
(* register.                                                               *)
THEOREM SetIsRegistered == Spec => []Registered
<1>1. Inv => Registered
  BY DEF Inv
<1> QED
  BY <1>1, Invariance, PTL

(* After __clear__ a module refers to nothing but that.                    *)
THEOREM ClearIsComplete == Spec => []ClearDropsAll
<1>1. Inv => ClearDropsAll
  BY DEF Inv
<1> QED
  BY <1>1, Invariance, PTL

(* __clear__ of one module leaves the others' references alone, although   *)
(* all of them register through the same static pointer.                   *)
THEOREM ClearsItsOwn == Spec => ClearIsOwn
<1>1. Inv => [\A m, k \in Modules :
               Clear(m) /\ k # m => ref'[k] = ref[k] /\ vars'[k] = vars[k]]_lifeVars
  BY InvShape, ClearEffect
<1> QED
  BY <1>1, Invariance, PTL DEF ClearIsOwn
=============================================================================
