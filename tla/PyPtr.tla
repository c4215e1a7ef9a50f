------------------------------- MODULE PyPtr -------------------------------
(***************************************************************************)
(* The owning pointer of pyptr.hpp: local variables of C++ functions and  *)
(* fields of the extension's objects. Dropping the last reference to an   *)
(* object runs its `__dealloc__` inside the operation that drops it, with *)
(* the pointer half assigned; that code may use other pointers.           *)
(***************************************************************************)
EXTENDS FreeList, FiniteSets

CONSTANTS
    Local,      \* PyPtr variables of C++ functions
    Hand,       \* the raw PyObject* of C++ code that owns a reference
    None,       \* Py_None
    Absent      \* a variable that is not constructed

ASSUME PointersOK ==
    /\ Hand \notin Local
    /\ \A p \in Local \cup {Hand} : p \notin Block \X Nat
    /\ None \notin Block
    /\ Null \notin Block \cup {None}
    /\ Absent \notin Block \cup {None, Null}

VARIABLES
    var,        \* the _var of variables, and the raw pointer
    rc,         \* ob_refcnt of objects and of None
    frames      \* the calls that wait for one another, the innermost first

pvars == <<type, room, field, list, var, rc, frames>>

Object == Block \cup {None}

FieldsOf(b) == {<<b, i>> : i \in 1 .. Fields[type[b]]}

Val(p) == IF p \in Local \cup {Hand} THEN var[p] ELSE field[p[1]][p[2]]

Only(p, v) == [x \in {p} |-> v]
Both(p, v, q, w) == [x \in {p, q} |-> IF x = p THEN v ELSE w]

(* `_var = ...` for the pointers in the domain of f.                       *)
Store(f) ==
    /\ var' = [p \in Local \cup {Hand} |-> IF p \in DOMAIN f THEN f[p] ELSE var[p]]
    /\ field' = [b \in Block |-> [i \in DOMAIN field[b] |->
                    IF <<b, i>> \in DOMAIN f THEN f[<<b, i>>] ELSE field[b][i]]]

-----------------------------------------------------------------------------
(* An assignment that has dropped the old object: dst still points to it.  *)
Assigning(op, dst, src) == [op |-> op, dst |-> dst, src |-> src]

(* A `__dealloc__`: its own code at 0, then it clears one field after the   *)
(* other.                                                                  *)
Destroying(b, next) == [op |-> "dealloc", obj |-> b, next |-> next]

Busy == {frames[i].dst : i \in {j \in DOMAIN frames : frames[j].op # "dealloc"}}

(* Py_XINCREF *)
Incref(v) == rc' = IF v = Null THEN rc ELSE [rc EXCEPT ![v] = @ + 1]

(* Py_XDECREF(v) by code that goes on with todo. *)
Decref(v, todo) ==
    /\ rc' = IF v = Null THEN rc ELSE [rc EXCEPT ![v] = @ - 1]
    /\ frames' = IF v \in Block /\ rc[v] = 1
                 THEN <<Destroying(v, 0)>> \o todo
                 ELSE todo

(* A function of the extension runs, or the code of a `__dealloc__` that    *)
(* has not cleared anything.                                               *)
InFunction == frames = <<>>
InDestructor == frames # <<>> /\ Head(frames).op = "dealloc" /\ Head(frames).next = 0

(* The frames below what such code calls: a `__dealloc__` calls once.       *)
Below == IF InFunction THEN <<>>
         ELSE <<Destroying(Head(frames).obj, 1)>> \o Tail(frames)

(* The extension has the object of a field it uses in a variable that the  *)
(* operation does not assign: what is dropped may have held it.            *)
Reaches(p, dst) ==
    /\ p \in UNION {FieldsOf(b) : b \in {o \in Block : InUse(o) /\ rc[o] > 0}}
    /\ \E l \in (Local \cup {Hand}) \ (Busy \cup {dst}) : var[l] = p[1]

Constructed(p) == p \in Local /\ var[p] # Absent

(* Which pointers an operation that assigns dst may use. A destructor has  *)
(* no access to the variables of the functions below, and leaves alone a   *)
(* pointer that is being assigned.                                         *)
Usable(p, dst) ==
    \/ InFunction /\ Constructed(p)
    \/ (InFunction \/ InDestructor) /\ p \notin Busy /\ Reaches(p, dst)
    \/ InDestructor /\ p # dst /\ p \in FieldsOf(Head(frames).obj)

Pointer == Local \cup UNION {FieldsOf(b) : b \in {o \in Block : InUse(o)}}

-----------------------------------------------------------------------------
(* Self::Alloc in a `__new__`: a new reference in the hands of C++ code.    *)
New(c) ==
    /\ InFunction
    /\ var[Hand] = Null
    /\ Maker(c) \notin Private
    /\ \E b \in Block :
        /\ Alloc(b, c)
        /\ rc' = [rc EXCEPT ![b] = 1]
        /\ var' = [var EXCEPT ![Hand] = b]
    /\ UNCHANGED frames

(* _PyPtr(): None. *)
Construct(l) ==
    /\ InFunction
    /\ var[l] = Absent
    /\ Store(Only(l, None))
    /\ Incref(None)
    /\ UNCHANGED <<type, room, list, frames>>

(* _PyPtr(O* var): takes the reference over, which is NULL when a call failed. *)
Adopt(l) ==
    /\ InFunction
    /\ var[l] = Absent
    /\ Store(Both(l, var[Hand], Hand, Null))
    /\ UNCHANGED <<type, room, list, rc, frames>>

(* _PyPtr(O* var) of a borrowed reference, and Incref at once. *)
Borrow(l, p) ==
    /\ InFunction
    /\ var[l] = Absent
    /\ Usable(p, l) /\ Val(p) # Null
    /\ Store(Only(l, Val(p)))
    /\ Incref(Val(p))
    /\ UNCHANGED <<type, room, list, frames>>

(* ~_PyPtr *)
Destruct(l) ==
    /\ InFunction
    /\ var[l] # Absent
    /\ Store(Only(l, Absent))
    /\ Decref(var[l], Below)
    /\ UNCHANGED <<type, room, list>>

(* operator=(const _PyPtr&) and operator=(_PyPtr&&), up to where the old   *)
(* object has been dropped.                                                *)
Assign(op, dst, src) ==
    /\ dst # src
    /\ Usable(dst, dst) /\ Usable(src, dst)
    /\ Decref(Val(dst), <<Assigning(op, dst, src)>> \o Below)
    /\ UNCHANGED <<type, room, field, list, var>>

(* operator=(const PyObject* other), which moves a raw reference in. *)
AssignRaw(dst) ==
    /\ InFunction
    /\ Usable(dst, dst)
    /\ Decref(Val(dst), <<Assigning("move", dst, Hand)>>)
    /\ UNCHANGED <<type, room, field, list, var>>

(* A mutant: the copy takes no reference. *)
CopyWithoutIncref ==
    /\ frames # <<>> /\ Head(frames).op = "copy"
    /\ Store(Only(Head(frames).dst, Val(Head(frames).src)))
    /\ frames' = Tail(frames)
    /\ UNCHANGED <<type, room, list, rc>>

(* Py_XINCREF(other._var); _var = other._var *)
FinishCopy ==
    /\ frames # <<>> /\ Head(frames).op = "copy"
    /\ Incref(Val(Head(frames).src))
    /\ Store(Only(Head(frames).dst, Val(Head(frames).src)))
    /\ frames' = Tail(frames)
    /\ UNCHANGED <<type, room, list>>

(* A mutant: the pointer moved from keeps its object, as in the move       *)
(* constructor.                                                            *)
MoveWithoutSteal ==
    /\ frames # <<>> /\ Head(frames).op = "move"
    /\ Store(Only(Head(frames).dst, Val(Head(frames).src)))
    /\ frames' = Tail(frames)
    /\ UNCHANGED <<type, room, list, rc>>

(* _var = other.Steal(), or NULL *)
FinishMove ==
    /\ frames # <<>> /\ Head(frames).op = "move"
    /\ Store(Both(Head(frames).dst, Val(Head(frames).src), Head(frames).src, Null))
    /\ frames' = Tail(frames)
    /\ UNCHANGED <<type, room, list, rc>>

(* Steal: the caller owns the reference. *)
Steal(p) ==
    /\ InFunction
    /\ var[Hand] = Null
    /\ Usable(p, p) /\ Val(p) # Null
    /\ Store(Both(p, Null, Hand, Val(p)))
    /\ UNCHANGED <<type, room, list, rc, frames>>

(* Incref: the raw copy of the pointer owns a reference of its own. *)
Share(p) ==
    /\ InFunction
    /\ var[Hand] = Null
    /\ Usable(p, p) /\ Val(p) # Null
    /\ Store(Only(Hand, Val(p)))
    /\ Incref(Val(p))
    /\ UNCHANGED <<type, room, list, frames>>

(* Clear: Py_CLEAR forgets the object before it drops it. *)
Clear(p) ==
    /\ Usable(p, p) /\ Val(p) # Null
    /\ Store(Only(p, Null))
    /\ Decref(Val(p), Below)
    /\ UNCHANGED <<type, room, list>>

(* Py_DECREF of a raw reference; Decref of a pointer with the same object   *)
(* takes it back as well.                                                  *)
Release ==
    /\ InFunction
    /\ var[Hand] # Null
    /\ Store(Only(Hand, Null))
    /\ Decref(var[Hand], Below)
    /\ UNCHANGED <<type, room, list>>

(* A mutant: a `__dealloc__` that dropped an object begins again. *)
DropFieldAgain ==
    /\ frames # <<>> /\ Head(frames).op = "dealloc"
    /\ LET b == Head(frames).obj
           i == IF Head(frames).next = 0 THEN 1 ELSE Head(frames).next
       IN  /\ i <= Fields[type[b]]
           /\ Store(Only(<<b, i>>, Null))
           /\ Decref(field[b][i], <<Destroying(b, i)>> \o Tail(frames))
    /\ UNCHANGED <<type, room, list>>

(* A `__dealloc__` clears its next field. *)
DropField ==
    /\ frames # <<>> /\ Head(frames).op = "dealloc"
    /\ LET b == Head(frames).obj
           i == IF Head(frames).next = 0 THEN 1 ELSE Head(frames).next
       IN  /\ i <= Fields[type[b]]
           /\ Store(Only(<<b, i>>, Null))
           /\ Decref(field[b][i], <<Destroying(b, i + 1)>> \o Tail(frames))
    /\ UNCHANGED <<type, room, list>>

(* Its last call. *)
Free ==
    /\ frames # <<>> /\ Head(frames).op = "dealloc"
    /\ LET b == Head(frames).obj
       IN  /\ Head(frames).next > Fields[type[b]] \/ Fields[type[b]] = 0
           /\ Dealloc(b)
    /\ frames' = Tail(frames)
    /\ UNCHANGED <<var, rc>>

PtrInit ==
    /\ FreeListInit
    /\ var = [p \in Local \cup {Hand} |-> IF p = Hand THEN Null ELSE Absent]
    /\ rc = [o \in Object |-> IF o = None THEN 1 ELSE 0]
    /\ frames = <<>>

(* What a function or a destructor does with its pointers. *)
Use ==
    \/ \E l \in Local : Construct(l) \/ Adopt(l) \/ Destruct(l)
    \/ \E p \in Pointer :
        \/ AssignRaw(p) \/ Steal(p) \/ Share(p) \/ Clear(p)
        \/ \E l \in Local : Borrow(l, p)
        \/ \E q \in Pointer, op \in {"copy", "move"} : Assign(op, p, q)
    \/ Release

(* What goes on by itself. *)
Unwind == FinishCopy \/ FinishMove \/ DropField \/ Free

-----------------------------------------------------------------------------
(* The pointers that own a reference: those that are not being assigned.   *)
Owners(o) ==
    {p \in Local \cup {Hand} : var[p] = o /\ p \notin Busy}
        \cup UNION {{<<b, i>> : i \in {j \in DOMAIN field[b] :
                        field[b][j] = o /\ <<b, j>> \notin Busy}} : b \in Block}
=============================================================================
