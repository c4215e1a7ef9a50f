-------------------------------- MODULE Heap --------------------------------
(***************************************************************************)
(* What an allocator of extension objects promises (type.hpp, the classes *)
(* TypeAllocator and FreeList): a block is given out while nobody uses    *)
(* it, for a class whose objects it has room for, until it is given back. *)
(***************************************************************************)
EXTENDS Integers

CONSTANTS
    Block,      \* the pieces of memory
    Class,      \* the classes objects are made of
    Null,       \* no class
    Size        \* how much room an object of a class needs

VARIABLES
    user,       \* the class whose object is in a block, Null when it is unused
    room        \* the size of a block

hvars == <<user, room>>

Init ==
    /\ user = [b \in Block |-> Null]
    /\ room = [b \in Block |-> 0]

(* An unused block is given out for an object of class c. *)
Obtain(b, c) ==
    /\ user[b] = Null
    /\ user' = [user EXCEPT ![b] = c]
    /\ room'[b] >= Size[c]
    /\ \A o \in Block \ {b} : room'[o] = room[o]

(* A block is given back; it may be kept for later, with the room it has. *)
Return(b) ==
    /\ user[b] # Null
    /\ user' = [user EXCEPT ![b] = Null]
    /\ room'[b] \in {0, room[b]}
    /\ \A o \in Block \ {b} : room'[o] = room[o]

Next == \E b \in Block : Return(b) \/ \E c \in Class : Obtain(b, c)

Spec == Init /\ [][Next]_hvars
=============================================================================
