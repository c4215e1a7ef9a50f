------------------------------ MODULE FreeList ------------------------------
(***************************************************************************)
(* The allocators of type.hpp. A class of an extension is a C++ class     *)
(* with one: TypeAllocator takes every block from Python and gives it     *)
(* back, FreeList keeps up to Pool[c] blocks of objects that have died.   *)
(* Of a block the model has the fields that are references, and its size. *)
(***************************************************************************)
EXTENDS Classes

CONSTANTS
    Block,      \* the pieces of memory Python may give
    Size,       \* tp_basicsize
    Fields,     \* how many fields are references
    Gives(_),   \* which of the blocks it has Python gives out
    Pool        \* the length of the class's FreeList, 0 for a TypeAllocator

ASSUME SizesOK ==
    /\ Size \in [Class -> Nat \ {0}]
    /\ Fields \in [Class -> Nat]
    /\ Pool \in [Class -> Nat]

ASSUME GivesOK == \A S \in (SUBSET Block) \ {{}} : Gives(S) \in S

(* What the extension must keep: a list only gets blocks with room for the *)
(* objects that are made from it. FreeList does not look at the type.      *)
ASSUME RoomForAll ==
    \A c, d \in Class :
        Maker(c) # Null /\ Freer(d) = Maker(c) /\ Pool[Freer(d)] > 0
            => Size[d] >= Size[c] /\ Fields[d] >= Fields[c]

VARIABLES
    type,       \* ob_type of the object last in a block, Null while Python has it
    room,       \* the size it was allocated with, 0 while Python has it
    field,      \* its fields, in their order
    list        \* FreeList<c>::_List, the first _Free of them

fvars == <<type, room, field, list>>

Pooled == UNION {{list[c][i] : i \in DOMAIN list[c]} : c \in Class}

InUse(b) == type[b] # Null /\ b \notin Pooled

FreeListInit ==
    /\ type = [b \in Block |-> Null]
    /\ room = [b \in Block |-> 0]
    /\ field = [b \in Block |-> <<>>]
    /\ list = [c \in Class |-> <<>>]

(* A mutant: the list that the object goes back to. *)
ReuseOther(b, c) ==
    LET l == Freer(c) IN
    /\ l # Null
    /\ list[l] # <<>>
    /\ b = list[l][Len(list[l])]
    /\ list' = [list EXCEPT ![l] = SubSeq(@, 1, Len(@) - 1)]
    /\ UNCHANGED <<room, field>>

(* FreeList::Alloc takes the last block of the list. PyObject_INIT sets    *)
(* its type and its count, the fields stay as they are.                    *)
Reuse(b, c) ==
    LET l == Maker(c) IN
    /\ l # Null
    /\ list[l] # <<>>
    /\ b = list[l][Len(list[l])]
    /\ list' = [list EXCEPT ![l] = SubSeq(@, 1, Len(@) - 1)]
    /\ UNCHANGED <<room, field>>

(* TypeAllocator::Alloc: tp_alloc, which clears the block.                 *)
Fresh(b, c) ==
    /\ Maker(c) = Null \/ list[Maker(c)] = <<>>
    /\ \E o \in Block : type[o] = Null
    /\ b = Gives({o \in Block : type[o] = Null})
    /\ room' = [room EXCEPT ![b] = Size[c]]
    /\ field' = [field EXCEPT ![b] = [i \in 1 .. Fields[c] |-> Null]]
    /\ UNCHANGED list

(* Type::Alloc for an object of class c. *)
Alloc(b, c) ==
    /\ Reuse(b, c) \/ Fresh(b, c)
    /\ type' = [type EXCEPT ![b] = c]

(* A mutant: one block too many. *)
KeepOneMore(b) ==
    LET l == Freer(type[b]) IN
    /\ l # Null
    /\ Len(list[l]) <= Pool[l]
    /\ list' = [list EXCEPT ![l] = Append(@, b)]
    /\ UNCHANGED <<type, room, field>>

(* FreeList::Dealloc: the block is kept while there is a place for it.     *)
Keep(b) ==
    LET l == Freer(type[b]) IN
    /\ l # Null
    /\ Len(list[l]) < Pool[l]
    /\ list' = [list EXCEPT ![l] = Append(@, b)]
    /\ UNCHANGED <<type, room, field>>

(* TypeAllocator::Dealloc: tp_free. *)
GiveBack(b) ==
    /\ LET l == Freer(type[b]) IN l = Null \/ Len(list[l]) >= Pool[l]
    /\ type' = [type EXCEPT ![b] = Null]
    /\ room' = [room EXCEPT ![b] = 0]
    /\ field' = [field EXCEPT ![b] = <<>>]
    /\ UNCHANGED list

Dealloc(b) == Keep(b) \/ GiveBack(b)

-----------------------------------------------------------------------------
(* A list is no longer than its array, and holds a block once, which no    *)
(* other list has.                                                         *)
ListsOK ==
    \A c \in Class :
        /\ Len(list[c]) <= Pool[c]
        /\ \A i \in DOMAIN list[c], d \in Class : \A j \in DOMAIN list[d] :
               list[c][i] = list[d][j] => c = d /\ i = j

(* The blocks as an abstract heap sees them. *)
H == INSTANCE Heap WITH
        user <- [b \in Block |-> IF InUse(b) THEN type[b] ELSE Null]
=============================================================================
