------------------------------- MODULE Storage -------------------------------
(***************************************************************************)
(* What the two storage classes of yapic/string-builder.hpp, _Memory and   *)
(* _BytesMemory, have in common.  cells are the elements from Begin() to   *)
(* End(), of which the first used lie before the cursor.                   *)
(*                                                                         *)
(* EnsureSize runs as a caller sees it, with pc for where it is: its loop  *)
(* is taken step by step, so that its end is something to show.  In the    *)
(* build with NDEBUG it doubles the size; without, it asks for the exact   *)
(* number of elements.                                                     *)
(***************************************************************************)
EXTENDS Integers, Sequences

CONSTANTS
  MayFail,       (* whether an allocation may fail                           *)
  Careful,       (* whether callers ask only for what DoublingSuffices for   *)
  Junk           (* what an element holds before it is written               *)

ASSUME StorageAssumption == MayFail \in BOOLEAN /\ Careful \in BOOLEAN

VARIABLES
  release,   (* whether NDEBUG is defined; it never changes                  *)
  cells,     (* the elements from Begin() to End()                           *)
  used,      (* cursor - Begin()                                             *)
  place,     (* where the elements are                                       *)
  pc,        (* where a call is, "ready" outside calls                       *)
  need,      (* its parameter required                                       *)
  free       (* its local variable free                                      *)

storageVars == <<release, cells, used, place, pc, need, free>>

Size == Len(cells)
FreeSize == Size - used

(* The loop of the release build compares the new size with what is asked  *)
(* for, not with that and what is stored.  What it ends with is enough if  *)
(* nothing is stored or no more is asked for than the size was.            *)
DoublingSuffices(n) == release => used = 0 \/ n <= Size

(* So it is callers of the release build who must be careful.              *)
Obliging == release => Careful

Fresh(n) == [i \in 1..n |-> Junk]

(* Mutants of MakeRoom: one element too few is taken for enough; a while   *)
(* loop instead of do ... while; a swapped difference.                     *)
MakeRoomOffByOne(required) ==
  /\ pc' = IF FreeSize + 1 >= required THEN "ensured"
           ELSE IF release THEN "doubling" ELSE "resize"
  /\ free' = IF FreeSize + 1 >= required THEN FreeSize
             ELSE IF release THEN 2 * Size ELSE Size + (required - FreeSize)

MakeRoomByWhile(required) ==
  /\ pc' = IF FreeSize >= required THEN "ensured" ELSE "doubling"
  /\ free' = IF FreeSize >= required THEN FreeSize ELSE Size

MakeRoomSwapped(required) ==
  /\ pc' = IF FreeSize >= required THEN "ensured" ELSE "resize"
  /\ free' = IF FreeSize >= required THEN FreeSize ELSE Size + (FreeSize - required)

(* There is room, or a new size is computed; the first doubling is done    *)
(* before the loop's condition is looked at.                               *)
MakeRoom(required) ==
  \/ /\ FreeSize >= required
     /\ pc' = "ensured"
     /\ free' = FreeSize
  \/ /\ FreeSize < required
     /\ release
     /\ pc' = "doubling"
     /\ free' = 2 * Size
  \/ /\ FreeSize < required
     /\ ~release
     /\ pc' = "resize"
     /\ free' = Size + (required - FreeSize)

(* Mutant of Double: the size is doubled from the start in each round.     *)
DoubleAnew ==
  /\ pc = "doubling"
  /\ free' = 2 * Size
  /\ pc' = IF free < need THEN pc ELSE "resize"
  /\ UNCHANGED <<release, cells, used, place, need>>

(* while (free < required)                                                 *)
Double ==
  /\ pc = "doubling"
  /\ \/ /\ free < need
        /\ free' = 2 * free
        /\ pc' = pc
     \/ /\ free >= need
        /\ free' = free
        /\ pc' = "resize"
  /\ UNCHANGED <<release, cells, used, place, need>>

(* A new block of newSize elements keeps what is before the cursor.        *)
Moved(newSize) == [i \in 1..newSize |-> IF i <= used THEN cells[i] ELSE Junk]

(* Mutant of Written: the copy goes to the start of the storage.           *)
WrittenAtBegin(s) ==
  [i \in 1..Size |-> IF i \in DOMAIN s THEN s[i] ELSE cells[i]]

(* What a copy of s to the cursor leaves in the storage.  A copy that      *)
(* passes End() is undefined; the elements before End() are what is kept.  *)
Written(s) ==
  [i \in 1..Size |-> IF i \in used + 1..used + Len(s) THEN s[i - used] ELSE cells[i]]

(* The elements before the cursor.                                         *)
Stored == SubSeq(cells, 1, used)

StorageTypeOK(Units, Places) ==
  /\ release \in BOOLEAN
  /\ cells \in Seq(Units \cup {Junk})
  /\ used \in Nat
  /\ place \in Places
  /\ pc \in {"ready", "doubling", "resize", "ensured", "writing", "failed", "done"}
  /\ need \in Nat
  /\ free \in Nat
=============================================================================
