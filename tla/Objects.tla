------------------------------ MODULE Objects ------------------------------
(***************************************************************************)
(* An extension that registers its classes, then makes objects of them    *)
(* and holds them with PyPtr. One thread runs, under the GIL.             *)
(***************************************************************************)
EXTENDS PyPtr, Registration

vars == <<pvars, rvars>>

Init == PtrInit /\ RegistrationInit

Import == (Register \/ ReadyFails \/ AddFails) /\ UNCHANGED pvars

(* Objects are used when the import is over. TypeAllocator asserts that    *)
(* the type is ready.                                                      *)
UseObjects ==
    /\ Imported /\ SupersFirst
    /\ Use \/ \E c \in ready : New(c)
    /\ UNCHANGED rvars

GoOn == Unwind /\ UNCHANGED rvars

Next == Import \/ UseObjects \/ GoOn

(* A call that has begun runs to its end. *)
Spec == Init /\ [][Next]_vars /\ WF_vars(GoOn)

-----------------------------------------------------------------------------
(* Blocks are large enough for what they are used for, lists fit into      *)
(* their arrays and share no block (FreeList::Alloc, FreeList::Dealloc).   *)
TypeOK ==
    /\ type \in [Block -> Class \cup {Null}]
    /\ \A b \in Block : type[b] # Null =>
            room[b] >= Size[type[b]] /\ Len(field[b]) >= Fields[type[b]]
    /\ ListsOK
    /\ \A p \in Local \cup {Hand} : var[p] \in Object \cup {Null, Absent}

(* An object's count is the number of pointers to it, but for those that   *)
(* an assignment is about to overwrite: so no pointer is left to an object *)
(* that is gone, not even in a block that waits in a free list. A type has *)
(* one reference from the module that it was added to, none from the       *)
(* modules of failed imports (PyPtr, `__dealloc__`, Type::Register).       *)
CountsExact ==
    /\ \A b \in Block : rc[b] = Cardinality(Owners(b)) /\ (rc[b] > 0 => InUse(b))
    /\ rc[None] = 1 + Cardinality(Owners(None))
    /\ \A c \in Class : refs[c] = Cardinality({i \in 1 .. done : order[i] = c})

(* An object whose count has reached 0 is being destroyed, once, and no    *)
(* other object is, however destructors and assignments nest.              *)
DeadOnce ==
    \A b \in Block :
        Cardinality({i \in DOMAIN frames : frames[i].op = "dealloc" /\ frames[i].obj = b})
            = IF InUse(b) /\ rc[b] = 0 THEN 1 ELSE 0

(* The allocators implement the abstract heap: a block is given out while  *)
(* nobody uses it, and for a class it has room for (FreeList, Type::Alloc).*)
ImplementsHeap == H!Spec

(* An object that nobody refers to is given back in the end, and so are    *)
(* those that only it referred to (`__dealloc__`, ~_PyPtr).                *)
DeadIsFreed == \A b \in Block : InUse(b) /\ rc[b] = 0 ~> ~InUse(b)

(* The MRO of a type that is ready is its own type and the MRO of its      *)
(* super, whatever failed in earlier imports; only one with a subclass that *)
(* was registered before it may lack the super. With supers first, Check   *)
(* accepts the objects of the class and of what derives from it            *)
(* (Type::Register, Type::Check).                                          *)
MroRight ==
    /\ \A c \in ready :
        \/ Bases[c] = <<>> /\ mro[c] = <<c>>
        \/ Bases[c] # <<>> /\ Head(Bases[c]) \in ready /\ mro[c] = <<c>> \o mro[Head(Bases[c])]
        \/ SubclassFirst(c) /\ mro[c] = <<c>>
    /\ SupersFirst => \A c \in ready, d \in Class :
        Check(c, d) <=> d = c \/ d \in {Bases[c][i] : i \in DOMAIN Bases[c]}
=============================================================================
