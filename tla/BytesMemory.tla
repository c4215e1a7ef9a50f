----------------------------- MODULE BytesMemory -----------------------------
(***************************************************************************)
(* class _BytesMemory of yapic/string-builder.hpp: the storage is the      *)
(* bytes object that will be the result.                                   *)
(***************************************************************************)
EXTENDS Storage

Byte == 0..255

(* _bytes is NULL, or not.                                                 *)
Places == {"none", "bytes"}

BytesMemoryInit ==
  /\ release \in BOOLEAN
  /\ cells = <<>>
  /\ used = 0
  /\ place = "none"
  /\ pc = "ready"
  /\ need = 0
  /\ free = 0

(* Without an object, one of exactly the required size is made.            *)
EnsureSize(required) ==
  /\ pc = "ready"
  /\ need' = required
  /\ \/ /\ place = "none"
        /\ pc' = "resize"
        /\ free' = required
     \/ place = "bytes" /\ MakeRoom(required)
  /\ UNCHANGED <<release, cells, used, place>>

(* Resize: PyBytes_FromStringAndSize, or _PyBytes_Resize.                  *)
Resize ==
  /\ pc = "resize"
  /\ cells' = Moved(free)
  /\ place' = "bytes"
  /\ pc' = "ensured"
  /\ UNCHANGED <<release, used, need, free>>

(* When it fails, _PyBytes_Resize has freed the object and set _bytes to   *)
(* NULL; cursor and _end still point into it.                              *)
ResizeFails ==
  /\ MayFail
  /\ pc = "resize"
  /\ place' = "none"
  /\ pc' = "failed"
  /\ UNCHANGED <<release, cells, used, need, free>>

(* Reset drops the object.                                                 *)
Reset ==
  /\ cells' = <<>>
  /\ used' = 0
  /\ place' = "none"

BytesMemoryTypeOK == StorageTypeOK(Byte, Places)
=============================================================================
