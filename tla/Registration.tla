---------------------------- MODULE Registration ----------------------------
(***************************************************************************)
(* Type::Register (type.hpp): an extension's `__init__` registers its      *)
(* classes one after the other, in an order its author chooses; the first *)
(* failure ends the import. A later import starts again, with a new       *)
(* module but with the same static type objects.                          *)
(***************************************************************************)
EXTENDS Classes, FiniteSets

ASSUME FinitelyMany == IsFiniteSet(Class)

VARIABLES
    order,      \* the order in which `__init__` registers
    done,       \* how many classes this import has registered
    ready,      \* the types with Py_TPFLAGS_READY
    base,       \* tp_base
    mro,        \* tp_mro, as far as it is classes of the extension
    refs        \* the references to a type that Register has taken

rvars == <<order, done, ready, base, mro, refs>>

Imported == done = Len(order)

RegistrationInit ==
    /\ order \in {o \in [1 .. Cardinality(Class) -> Class] :
                    \A c \in Class : \E i \in DOMAIN o : \A j \in DOMAIN o : o[j] = c <=> j = i}
    /\ done = 0
    /\ ready = {}
    /\ base = [c \in Class |-> Null]
    /\ mro = [c \in Class |-> <<>>]
    /\ refs = [c \in Class |-> 0]

(* PyType_Ready returns at once for a type that is ready, and makes the     *)
(* base ready before the type; the tp_base of a type whose Register has not *)
(* run is NULL, which means `object`.                                      *)
Unready(c) == IF c \in ready THEN {} ELSE {c, base'[c]} \ (ready \cup {Null})

LineOf(c) == CASE base'[c] = Null -> <<c>>
               [] base'[c] \in ready -> <<c>> \o mro[base'[c]]
               [] OTHER -> <<c, base'[c]>>

Ready(c, made) ==
    /\ ready' = ready \cup made
    /\ mro' = [d \in Class |-> IF d \notin made THEN mro[d]
                               ELSE IF d = c THEN LineOf(c) ELSE <<d>>]

(* The module of a failed import goes, and the references its dict holds.  *)
Abandon ==
    /\ done' = 0
    /\ refs' = [c \in Class |-> refs[c] - Cardinality({i \in 1 .. done : order[i] = c})]

(* A mutant: `object` while the super is not ready, in the branch of        *)
(* _BaseType that asks.                                                     *)
SetReadyBase(c) ==
    base' = [base EXCEPT ![c] = IF BaseType(c) \in ready THEN BaseType(c) ELSE Null]

(* type->tp_base = _BaseType(), whose branches give the same.               *)
SetBase(c) == base' = [base EXCEPT ![c] = BaseType(c)]

Current == order[done + 1]

(* PyType_Ready fails, when it has perhaps made the base ready.            *)
ReadyFails ==
    /\ ~Imported
    /\ SetBase(Current)
    /\ Current \notin ready
    /\ \E made \in SUBSET (Unready(Current) \ {Current}) : Ready(Current, made)
    /\ Abandon
    /\ UNCHANGED order

(* PyModule_AddObject fails: the reference taken for it is dropped.        *)
AddFails ==
    /\ ~Imported
    /\ SetBase(Current)
    /\ Ready(Current, Unready(Current))
    /\ Abandon
    /\ UNCHANGED order

Register ==
    /\ ~Imported
    /\ SetBase(Current)
    /\ Ready(Current, Unready(Current))
    /\ refs' = [refs EXCEPT ![Current] = @ + 1]
    /\ done' = done + 1
    /\ UNCHANGED order

(* Type::Check: whether an object of class c is an instance of d.          *)
Check(c, d) == d \in {mro[c][i] : i \in DOMAIN mro[c]}

-----------------------------------------------------------------------------
Position(c) == CHOOSE i \in DOMAIN order : order[i] = c

(* No class is registered before its super. *)
SupersFirst == \A c \in Class : Bases[c] # <<>> => Position(Head(Bases[c])) < Position(c)

(* A subclass, which makes its super ready, was registered before it.      *)
SubclassFirst(c) ==
    \E d \in Class : Bases[d] # <<>> /\ Head(Bases[d]) = c /\ Position(d) < Position(c)
=============================================================================
