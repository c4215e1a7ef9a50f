------------------------------- MODULE Memory -------------------------------
(***************************************************************************)
(* class _Memory of yapic/string-builder.hpp: the storage of a string      *)
(* builder, an array inside the object until it grows, then on the heap.   *)
(***************************************************************************)
EXTENDS Storage

CONSTANT InitialSize   (* elements of the array inside the object            *)

ASSUME MemoryAssumption == InitialSize \in Nat \ {0}

(* _initial, _heap, or a block that _heap no longer points to.             *)
Places == {"initial", "heap", "lost"}

MemoryInit ==
  /\ release \in BOOLEAN
  /\ cells = Fresh(InitialSize)
  /\ used = 0
  /\ place = "initial"
  /\ pc = "ready"
  /\ need = 0
  /\ free = 0

EnsureSize(required) ==
  /\ pc = "ready"
  /\ need' = required
  /\ MakeRoom(required)
  /\ UNCHANGED <<release, cells, used, place>>

(* Resize: malloc and copy, or realloc.                                    *)
Resize ==
  /\ pc = "resize"
  /\ cells' = Moved(free)
  /\ place' = "heap"
  /\ pc' = "ensured"
  /\ UNCHANGED <<release, used, need, free>>

(* A failed malloc changes nothing.  A failed realloc leaves the old block *)
(* allocated, but _heap is NULL: cursor and _end point into a block that   *)
(* Begin() and the destructor do not know any more.                        *)
ResizeFails ==
  /\ MayFail
  /\ pc = "resize"
  /\ place' = IF place = "heap" THEN "lost" ELSE place
  /\ pc' = "failed"
  /\ UNCHANGED <<release, cells, used, need, free>>

MemoryTypeOK == StorageTypeOK(Nat, Places)
=============================================================================
