----------------------------- MODULE Ownership -----------------------------
(***************************************************************************)
(* The inductive invariant of Objects, as far as it is about blocks and    *)
(* pointers: who refers to what while destructors and assignments nest.    *)
(***************************************************************************)
EXTENDS Objects

Variable == Local \cup {Hand}

(* Where a pointer may be.                                                 *)
Target == Variable \cup (Block \X Nat)

Frame == [op : {"copy", "move"}, dst : Target, src : Target]
           \cup [op : {"dealloc"}, obj : Block, next : Nat]

(* What is in a place, Null when no pointer is there.                      *)
Value(p) ==
    IF p \in Variable THEN var[p]
    ELSE IF p[2] \in DOMAIN field[p[1]] THEN field[p[1]][p[2]] ELSE Null

(* What a pointer owns a reference to.                                     *)
Owner(p) == IF p \in Busy THEN Null ELSE Value(p)

-----------------------------------------------------------------------------
(* A listed block waits in the list of the class that gave it back; what   *)
(* is not used refers to nothing, nor do fields that the class of the      *)
(* object does not have.                                                   *)
BlocksOK ==
    /\ type \in [Block -> Class \cup {Null}]
    /\ room \in [Block -> Nat]
    /\ field \in [Block -> Seq(Object \cup {Null})]
    /\ list \in [Class -> Seq(Block)]
    /\ \A b \in Block : type[b] # Null =>
            room[b] >= Size[type[b]] /\ Len(field[b]) >= Fields[type[b]]
    /\ ListsOK
    /\ \A c \in Class : \A i \in DOMAIN list[c] :
            type[list[c][i]] # Null /\ Freer(type[list[c][i]]) = c
    /\ \A b \in Block : \A i \in DOMAIN field[b] :
            field[b][i] # Null => InUse(b) /\ i <= Fields[type[b]]

VarsOK ==
    /\ var \in [Variable -> Object \cup {Null, Absent}]
    /\ var[Hand] # Absent

(* Each count is the number of owners, and one for None itself.            *)
CountsRight ==
    /\ rc \in [Object -> Nat]
    /\ \A o \in Object :
        /\ IsFiniteSet(Owners(o))
        /\ rc[o] = Cardinality(Owners(o)) + IF o = None THEN 1 ELSE 0

(* What is owned is in use.                                                *)
OwnedIsUsed == \A b \in Block : rc[b] > 0 => InUse(b)

(* Whether v may be stored in the pointer p.                               *)
MayHold(p, v) ==
    \/ p \in Variable /\ v \in Object \cup {Null, Absent} /\ (p = Hand => v # Absent)
    \/ /\ p \in Block \X Nat /\ v \in Object \cup {Null}
       /\ p[2] \in DOMAIN field[p[1]]
       /\ v # Null => InUse(p[1]) /\ p[2] <= Fields[type[p[1]]]

(* A field that the class of the object in its block has.                  *)
IsField(p) ==
    p \in Block \X Nat /\ InUse(p[1]) /\ p[2] \in 1 .. Fields[type[p[1]]]

-----------------------------------------------------------------------------
(* The rest is about a stack s of calls.                                   *)
BusyIn(s) == {s[i].dst : i \in {j \in DOMAIN s : s[j].op # "dealloc"}}

Dying(s) == {s[i].obj : i \in {j \in DOMAIN s : s[j].op = "dealloc"}}

(* A variable that nobody assigns keeps the object in b alive.             *)
Held(b, s) == \E l \in Variable \ BusyIn(s) : var[l] = b

(* So does its own `__dealloc__`, further down, that has called the code   *)
(* above and not cleared anything yet.                                     *)
Waiting(i, b, s) ==
    \E j \in DOMAIN s :
        i < j /\ s[j].op = "dealloc" /\ s[j].obj = b /\ s[j].next = 1

(* The pointer p stays where it is until call i ends.                      *)
Steady(i, p, s) ==
    \/ p \in Variable /\ i = Len(s) /\ var[p] # Absent
    \/ IsField(p) /\ (Held(p[1], s) \/ Waiting(i, p[1], s))

(* A `__dealloc__` is the only one of its object, which is still there.    *)
DeallocOK(i, s) ==
    /\ InUse(s[i].obj) /\ rc[s[i].obj] = 0
    /\ \A j \in DOMAIN field[s[i].obj] : j < s[i].next => field[s[i].obj][j] = Null
    /\ \A j \in DOMAIN s : s[j].op = "dealloc" /\ s[j].obj = s[i].obj => i = j

(* Nobody below assigns to the pointers of an assignment.                  *)
AssignOK(i, s) ==
    /\ s[i].dst # Hand
    /\ Steady(i, s[i].dst, s) /\ Steady(i, s[i].src, s)
    /\ \A j \in DOMAIN s : i <= j /\ s[j].op # "dealloc" =>
            s[i].src # s[j].dst /\ (s[i].dst = s[j].dst => i = j)

StackOK(s) ==
    \A i \in DOMAIN s : IF s[i].op = "dealloc" THEN DeallocOK(i, s) ELSE AssignOK(i, s)

(* Who is not referred to any more is being destroyed.                     *)
AllDying == \A b \in Block : InUse(b) /\ rc[b] = 0 => b \in Dying(frames)

Owned ==
    /\ BlocksOK
    /\ VarsOK
    /\ CountsRight
    /\ OwnedIsUsed
    /\ frames \in Seq(Frame)
    /\ StackOK(frames)
    /\ AllDying
=============================================================================
