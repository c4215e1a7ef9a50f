----------------------------- MODULE Utf8Builder -----------------------------
(***************************************************************************)
(* Utf8BytesBuilder of yapic/string-builder.hpp, which is                  *)
(* _StringBuilder<_ByteTraits<_Utf8>, _BytesMemory>: it builds a Python    *)
(* bytes object.  The calls are those of UnicodeBuilder, and AppendBytes.  *)
(***************************************************************************)
EXTENDS BytesMemory, Utf8

CONSTANTS
  Pieces,       (* what the caller appends, see Piece                        *)
  Reserves,     (* the sizes the caller asks EnsureSize for                  *)
  MaxBytes,     (* bound: bytes appended to one builder, or reserved         *)
  Nothing       (* no bytes object has been made                             *)

VARIABLES
  task,         (* the piece to append                                       *)
  data,         (* how many of its code points are written                   *)
  room,         (* what is left of the room EnsureSize promised              *)
  made          (* the bytes that the last ToPython made                     *)

vars == <<storageVars, task, data, room, made>>

-----------------------------------------------------------------------------
(* A piece holds code points (AppendChar, AppendAscii, AppendString of a   *)
(* str) or bytes (AppendString of a const char*, AppendBytes).             *)
Encoded == {"char", "str"}
Copied  == {"ascii", "cstr", "bytes"}

Piece == [by : Encoded, points : Seq(CodePoints)] \cup [by : Copied, points : Seq(Byte)]

NoPiece == [by |-> "none", points |-> <<>>]

ASSUME Utf8BuilderAssumption ==
  /\ Pieces \subseteq Piece
  /\ \A p \in Pieces : p.by \in {"char", "ascii"} => Len(p.points) = 1
  /\ Reserves \subseteq Nat
  /\ MaxBytes \in Nat
  /\ Nothing \notin Seq(Byte)

(* Mutant of Required: one byte for each code point, whatever its kind.    *)
RequiredByLength(p) == Len(p.points)

(* EncodedCharSize, RequiredSizeForUnicode, RequiredSizeForBytes, strlen.  *)
Required(p) ==
  CASE p.by = "char" -> EncodedCharSize(p.points[1])
    [] p.by = "str" -> Len(p.points) * BytesPerPoint(p.points)
    [] OTHER -> Len(p.points)

(* The first request makes the object, of that size; doubling the size 0   *)
(* never ends.                                                             *)
Asks(n) ==
  Careful =>
    IF place = "none" THEN release => n > 0 ELSE DoublingSuffices(n)

(* What callers must keep besides: a str that has one byte for each code   *)
(* point is ASCII.                                                         *)
NoLatin1Str ==
  \A p \in Pieces : p.by = "str" /\ AtMost(p.points, 255) => AtMost(p.points, 127)

(* And for what it makes to read as what was appended: no U+0080; bytes    *)
(* do not begin within a code point.                                       *)
ReadsAlone ==
  \A p \in Pieces :
    IF p.by \in Encoded THEN \A i \in DOMAIN p.points : p.points[i] # 128
    ELSE p.points # <<>> => ~Continues(p.points[1])

-----------------------------------------------------------------------------
Init ==
  /\ BytesMemoryInit
  /\ task = NoPiece
  /\ data = 0
  /\ room = 0
  /\ made = Nothing

(* EnsureSize called by the program.                                       *)
Reserve(required) ==
  /\ Asks(required)
  /\ used + required <= MaxBytes
  /\ EnsureSize(required)
  /\ task' = NoPiece
  /\ UNCHANGED <<data, room, made>>

(* AppendCharSafe, AppendStringSafe and AppendBytesSafe.                   *)
AppendSafe(p) ==
  /\ p.by # "ascii"
  /\ Asks(Required(p))
  /\ used + Required(p) <= MaxBytes
  /\ EnsureSize(Required(p))
  /\ task' = p
  /\ UNCHANGED <<data, room, made>>

Grow == (Double \/ Resize \/ ResizeFails) /\ UNCHANGED <<task, data, room, made>>

(* AppendAscii, AppendBytes, and AppendString of a const char*.            *)
Copy(p) ==
  /\ p.by \in Copied
  /\ cells' = Written(p.points)
  /\ used' = used + Len(p.points)
  /\ task' = NoPiece
  /\ pc' = "ready"

(* AppendChar, and the loop of __AppendString.  (An ASCII str is copied as *)
(* it is, with the same result.)                                           *)
Encoding(p) ==
  /\ p.by \in Encoded
  /\ task' = p
  /\ pc' = "writing"
  /\ UNCHANGED <<cells, used>>

(* The append itself begins.                                               *)
Put(p) ==
  /\ room' = IF room >= Required(p) THEN room - Required(p) ELSE 0
  /\ Copy(p) \/ Encoding(p)
  /\ UNCHANGED <<release, place, data, made>>

(* EnsureSize has returned true; its local variables are gone.             *)
Ensured ==
  /\ pc = "ensured"
  /\ need' = 0
  /\ free' = 0
  /\ \/ /\ task = NoPiece
        /\ room' = IF room >= need THEN room ELSE need
        /\ pc' = "ready"
        /\ UNCHANGED <<release, cells, used, place, task, data, made>>
     \/ task # NoPiece /\ Put(task)

(* One code point.                                                         *)
AppendChar3 ==
  /\ pc = "writing"
  /\ data < Len(task.points)
  /\ cells' = Written(Encode(task.points[data + 1]))
  /\ used' = used + Len(Encode(task.points[data + 1]))
  /\ data' = data + 1
  /\ UNCHANGED <<release, place, pc, need, free, task, room, made>>

(* while (data < end) ends.                                                *)
Appended ==
  /\ pc = "writing"
  /\ data = Len(task.points)
  /\ data' = 0
  /\ task' = NoPiece
  /\ pc' = "ready"
  /\ UNCHANGED <<release, cells, used, place, need, free, room, made>>

(* AppendAscii, AppendChar, AppendString and AppendBytes: no check, the    *)
(* caller made room before.                                                *)
AppendFast(p) ==
  /\ pc = "ready"
  /\ place = "bytes"
  /\ Required(p) <= room
  /\ used + Required(p) <= MaxBytes
  /\ Put(p)
  /\ UNCHANGED <<need, free>>

(* ToPython: the object is cut to what is before the cursor and handed     *)
(* out, then Reset.  When the object cannot be made or cut, NULL is        *)
(* returned, and Reset comes all the same.                                 *)
ToPython ==
  /\ pc = "ready"
  /\ made' \in {Stored} \cup IF MayFail THEN {Nothing} ELSE {}
  /\ Reset
  /\ room' = 0
  /\ UNCHANGED <<release, pc, need, free, task, data>>

(* The builder goes out of scope, at the latest when a call has failed;    *)
(* another one is constructed.                                             *)
Discard ==
  /\ pc \in {"ready", "failed"}
  /\ release' = release
  /\ Reset
  /\ pc' = "ready"
  /\ need' = 0
  /\ free' = 0
  /\ task' = NoPiece
  /\ data' = 0
  /\ room' = 0
  /\ made' = Nothing

Next ==
  \/ \E n \in Reserves : Reserve(n)
  \/ \E p \in Pieces : AppendSafe(p) \/ AppendFast(p)
  \/ Grow
  \/ Ensured
  \/ AppendChar3
  \/ Appended
  \/ ToPython
  \/ Discard

Spec == Init /\ [][Next]_vars

(* A call that has begun runs to its end.                                  *)
FairSpec ==
  Spec /\ WF_vars(Grow) /\ WF_vars(Ensured) /\ WF_vars(AppendChar3) /\ WF_vars(Appended)

-----------------------------------------------------------------------------
TypeOK ==
  /\ BytesMemoryTypeOK
  /\ task \in Pieces \cup {NoPiece}
  /\ data \in Nat
  /\ room \in Nat
  /\ made = Nothing \/ made \in Seq(Byte)

(* assert(_memory.cursor <= _memory.End()) of ToPython, at any time: no    *)
(* append writes behind the storage.                                       *)
InBounds == used <= Size

(* After EnsureSize has returned true the room is there, and stays there   *)
(* while the caller uses it up by the sizes the builder itself reckons.    *)
RoomIsKept == pc = "ready" => room <= FreeSize

(* What must hold besides while a call runs: the size that EnsureSize      *)
(* reckons is enough for what is asked and for what is stored, and what is *)
(* asked is enough for the piece; the storage has room for the code points *)
(* not written yet, and for what the caller may append after them.         *)
Growing == {"doubling", "resize", "ensured"}

PerPoint(p) ==
  IF p.by = "char" THEN EncodedCharSize(p.points[1]) ELSE BytesPerPoint(p.points)

SizeSuffices ==
  /\ place = "none" /\ pc # "failed" => used = 0 /\ Size = 0
  /\ pc = "doubling" => (used = 0 \/ used + need <= free) /\ Size <= free
  /\ pc = "resize" => used + need <= free /\ Size <= free
  /\ pc = "ensured" => need <= FreeSize
  /\ pc \in {"doubling", "ensured", "writing"} => place = "bytes"
  /\ pc \in Growing /\ task # NoPiece => need = Required(task)
  /\ pc = "writing" =>
       /\ task \in Pieces /\ task.by \in Encoded
       /\ data <= Len(task.points)
       /\ room + (Len(task.points) - data) * PerPoint(task) <= FreeSize
  /\ pc # "writing" => data = 0

(* No byte is before the cursor that nobody has written.                   *)
AllWritten == \A i \in 1..used : cells[i] \in Byte

(* The inductive invariant, for careful callers.                           *)
Inv ==
  /\ TypeOK
  /\ InBounds
  /\ room <= FreeSize
  /\ SizeSuffices
  /\ AllWritten

(* A step that does not empty the builder leaves what is stored as it was, *)
(* and what the encoder puts behind it is the UTF-8 form of the code       *)
(* point, U+0080 excepted.                                                 *)
AddsUtf8 ==
  [][/\ ~(ToPython \/ Discard) => SubSeq(cells', 1, used) = Stored
     /\ AppendChar3 /\ task.points[data + 1] # 128 =>
          Decodes(SubSeq(cells', used + 1, used'), task.points[data + 1])]_vars

(* What is in the storage, and what is made of it, reads as the text that  *)
(* was appended; a piece counts when all of it is written.                 *)
TextOf(p) == IF p.by \in Encoded THEN p.points ELSE Text(p.points)

Shown == SubSeq(Text(Stored), 1, Len(Text(Stored)) - data)

Builder == INSTANCE TextBuilder WITH
  Contents <- {TextOf(p) : p \in Pieces},
  text <- Shown,
  made <- IF made = Nothing THEN Nothing ELSE Text(made)

(* While a piece is written, its first data code points are read last.     *)
PartlyWritten ==
  pc = "writing" =>
    data <= Len(Text(Stored)) /\ Text(Stored) = Shown \o SubSeq(task.points, 1, data)

ImplementsText == Builder!Spec

(* A call that makes room or appends returns.                              *)
EnsureSizeReturns == pc # "ready" ~> pc \in {"ready", "failed"}
=============================================================================
