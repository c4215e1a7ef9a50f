--------------------------- MODULE UnicodeBuilder ---------------------------
(***************************************************************************)
(* _StringBuilder<_StringTraits, _Memory> of yapic/string-builder.hpp:     *)
(* UnicodeBuilder (wide: elements are Py_UCS4) and AsciiBuilder (elements  *)
(* are char).  It builds a Python str.                                     *)
(*                                                                         *)
(* A caller either appends with a ...Safe method, or makes room with       *)
(* EnsureSize and appends without a check as long as that room lasts.      *)
(* room is what the caller may still rely on.                              *)
(***************************************************************************)
EXTENDS Memory

CONSTANTS
  Pieces,       (* what the caller appends, see Piece                        *)
  Reserves,     (* the sizes the caller asks EnsureSize for                  *)
  Reuse,        (* whether a builder is used again after ToPython            *)
  MaxText,      (* bound: code points appended to one builder, or reserved   *)
  Nothing       (* no str has been made                                      *)

VARIABLES
  wide,         (* whether an element is a Py_UCS4; it never changes         *)
  maxchar,      (* _maxchar, as the set of its bits                          *)
  task,         (* the piece to append when EnsureSize returns true          *)
  room,         (* what is left of the room EnsureSize promised              *)
  made          (* the str that the last ToPython made                       *)

vars == <<storageVars, wide, maxchar, task, room, made>>

-----------------------------------------------------------------------------
(* A piece is a call's argument: a code point for AppendChar ("char") or   *)
(* AppendAscii ("ascii"), a const char* ("cstr"), a Python str ("str") or  *)
(* Python bytes ("bytes"), whose points are the bytes.                     *)
Piece == [by : {"char", "ascii", "cstr", "str", "bytes"}, points : Seq(Nat)]

NoPiece == [by |-> "none", points |-> <<>>]

ASSUME UnicodeBuilderAssumption ==
  /\ Pieces \subseteq Piece
  /\ \A p \in Pieces : p.by \in {"char", "ascii"} => Len(p.points) = 1
  /\ Reserves \subseteq Nat
  /\ Reuse \in BOOLEAN
  /\ MaxText \in Nat
  /\ Nothing \notin [points : Seq(Nat \cup {Junk}),
                     kind : {"ascii", "latin1", "ucs2", "ucs4", "error"}]

(* The bits of a code point.                                               *)
Bits(point) == {b \in 0..20 : (point \div (2^b)) % 2 = 1}

AsciiBits == 0..6
LatinBits == 0..7
Ucs2Bits  == 0..15
MaxBits   == Ucs2Bits \cup {20}        (* 0x10FFFF *)

(* PyUnicode_MAX_CHAR_VALUE of a str that holds these code points.         *)
MaxCharValue(points) ==
  LET bits == UNION {Bits(points[i]) : i \in DOMAIN points}
  IN  CASE bits \subseteq AsciiBits -> AsciiBits
        [] bits \subseteq LatinBits /\ ~(bits \subseteq AsciiBits) -> LatinBits
        [] bits \subseteq Ucs2Bits /\ ~(bits \subseteq LatinBits) -> Ucs2Bits
        [] OTHER -> MaxBits

(* PyUnicode_New: the representation it chooses for a maximal character,   *)
(* none when that is above 0x10FFFF.                                       *)
IsCodePoint(bits) == 20 \in bits => bits \cap 16..19 = {}

KindFor(bits) ==
  CASE bits \subseteq AsciiBits -> "ascii"
    [] bits \subseteq LatinBits /\ ~(bits \subseteq AsciiBits) -> "latin1"
    [] bits \subseteq Ucs2Bits /\ ~(bits \subseteq LatinBits) -> "ucs2"
    [] ~(bits \subseteq Ucs2Bits) /\ IsCodePoint(bits) -> "ucs4"
    [] OTHER -> "error"

(* What a piece adds to _maxchar, by UpdateMaxchar or AppendString's |=:   *)
(* const char*, ASCII and bytes add nothing.                               *)
MaxcharOf(p) ==
  CASE p.by = "char" -> Bits(p.points[1])
    [] p.by = "str" -> MaxCharValue(p.points)
    [] OTHER -> {}

(* Mutant of MaxcharAfter: a str's maximal character is not taken over.    *)
MaxcharOfChars(p) == maxchar \cup (IF p.by = "str" THEN {} ELSE MaxcharOf(p))

MaxcharAfter(p) == maxchar \cup MaxcharOf(p)

(* A char builder takes only str objects of one byte per code point, and   *)
(* neither builder takes bytes.                                            *)
Accepts(p) ==
  /\ p.by # "bytes"
  /\ p.by = "str" /\ ~wide => MaxCharValue(p.points) \subseteq LatinBits

(* AppendChar of a char builder keeps the low byte only: the caller passes *)
(* code points that have no other.                                         *)
Fits(p) == p.by = "char" /\ ~wide => MaxcharOf(p) \subseteq LatinBits

(* What callers must keep for a canonical str: what AppendAscii and a      *)
(* const char* bring is ASCII; all maximal characters or-ed are a code     *)
(* point.                                                                  *)
WellAsked ==
  /\ \A p \in Pieces : p.by \in {"ascii", "cstr"} =>
       \A i \in DOMAIN p.points : Bits(p.points[i]) \subseteq AsciiBits
  /\ IsCodePoint(UNION {MaxcharOf(p) : p \in Pieces})

-----------------------------------------------------------------------------
Init ==
  /\ MemoryInit
  /\ wide \in BOOLEAN
  /\ maxchar = AsciiBits
  /\ task = NoPiece
  /\ room = 0
  /\ made = Nothing

Asks(n) == Careful => DoublingSuffices(n)

(* EnsureSize called by the program.                                       *)
Reserve(required) ==
  /\ Asks(required)
  /\ used + required <= MaxText
  /\ EnsureSize(required)
  /\ task' = NoPiece
  /\ UNCHANGED <<wide, maxchar, room, made>>

(* AppendCharSafe, AppendStringSafe and AppendBytesSafe: EnsureSize, then  *)
(* the append.                                                             *)
(* AppendAscii has no such form.                                           *)
AppendSafe(p) ==
  /\ p.by # "ascii"
  /\ Fits(p)
  /\ Asks(Len(p.points))
  /\ used + Len(p.points) <= MaxText
  /\ EnsureSize(Len(p.points))
  /\ task' = p
  /\ UNCHANGED <<wide, maxchar, room, made>>

Grow == (Double \/ Resize \/ ResizeFails) /\ UNCHANGED <<wide, maxchar, task, room, made>>

(* The append itself.                                                      *)
Put(p) ==
  /\ cells' = Written(p.points)
  /\ used' = used + Len(p.points)
  /\ maxchar' = MaxcharAfter(p)
  /\ room' = IF room >= Len(p.points) THEN room - Len(p.points) ELSE 0
  /\ pc' = "ready"
  /\ UNCHANGED <<release, wide, place, made>>

(* AppendString raises UnicodeError; it has updated _maxchar already.      *)
(* AppendBytes returns false, and raises nothing.                          *)
Reject(p) ==
  /\ maxchar' = MaxcharAfter(p)
  /\ pc' = "failed"
  /\ UNCHANGED <<release, wide, cells, used, place, room, made>>

(* EnsureSize has returned true; its local variables are gone.             *)
Ensured ==
  /\ pc = "ensured"
  /\ task' = NoPiece
  /\ need' = 0
  /\ free' = 0
  /\ \/ /\ task = NoPiece
        /\ room' = IF room >= need THEN room ELSE need
        /\ pc' = "ready"
        /\ UNCHANGED <<release, wide, cells, used, place, maxchar, made>>
     \/ task # NoPiece /\ Accepts(task) /\ Put(task)
     \/ task # NoPiece /\ ~Accepts(task) /\ Reject(task)

(* AppendAscii, AppendChar, AppendString and AppendBytes: no check, the    *)
(* caller made room before.                                                *)
AppendFast(p) ==
  /\ pc = "ready"
  /\ Fits(p)
  /\ Len(p.points) <= room
  /\ used + Len(p.points) <= MaxText
  /\ UNCHANGED <<need, free, task>>
  /\ \/ Accepts(p) /\ Put(p)
     \/ ~Accepts(p) /\ Reject(p)

(* NewFromSizeAndData: PyUnicode_New knows one empty str, and makes no     *)
(* object when the maximal character is not a code point.                  *)
NewStr ==
  IF used = 0 THEN [points |-> <<>>, kind |-> "ascii"]
  ELSE IF KindFor(maxchar) = "error" THEN [points |-> <<>>, kind |-> "error"]
  ELSE [points |-> Stored, kind |-> KindFor(maxchar)]

(* ToPython: a str of the elements before the cursor, then Reset, which    *)
(* does not touch _maxchar and keeps the storage.  The str may not be had, *)
(* unless it is the empty one, and Reset comes all the same.               *)
ToPython ==
  /\ pc = "ready"
  /\ made' \in {NewStr} \cup IF MayFail /\ used # 0 THEN {Nothing} ELSE {}
  /\ used' = 0
  /\ room' = 0
  /\ pc' = IF Reuse THEN "ready" ELSE "done"
  /\ UNCHANGED <<release, wide, cells, place, need, free, maxchar, task>>

(* The builder goes out of scope, at the latest when a call has failed;    *)
(* another one is constructed.                                             *)
Discard ==
  /\ pc \in {"ready", "failed", "done"}
  /\ UNCHANGED <<release, wide>>
  /\ cells' = Fresh(InitialSize)
  /\ used' = 0
  /\ place' = "initial"
  /\ pc' = "ready"
  /\ need' = 0
  /\ free' = 0
  /\ maxchar' = AsciiBits
  /\ task' = NoPiece
  /\ room' = 0
  /\ made' = Nothing

Next ==
  \/ \E n \in Reserves : Reserve(n)
  \/ \E p \in Pieces : AppendSafe(p) \/ AppendFast(p)
  \/ Grow
  \/ Ensured
  \/ ToPython
  \/ Discard

Spec == Init /\ [][Next]_vars

-----------------------------------------------------------------------------
TypeOK ==
  /\ MemoryTypeOK
  /\ wide \in BOOLEAN
  /\ maxchar \subseteq 0..20
  /\ task \in Pieces \cup {NoPiece}
  /\ room \in Nat
  /\ made = Nothing \/ made.kind \in {"ascii", "latin1", "ucs2", "ucs4", "error"}

(* assert(_memory.cursor <= _memory.End()) of ToPython, at any time: no    *)
(* append writes behind the storage.                                       *)
InBounds == used <= Size

(* What EnsureSize is for: after it has returned true the room is there,   *)
(* and stays there while the caller uses it up, whatever else is appended. *)
RoomIsKept == pc = "ready" => room <= FreeSize

(* While EnsureSize runs, the size it has computed is enough for what is   *)
(* asked and for what is stored, and what is asked is enough for the piece.*)
Growing == {"doubling", "resize"}

SizeSuffices ==
  /\ InitialSize <= Size
  /\ pc = "doubling" => (used = 0 \/ used + need <= free) /\ Size <= free
  /\ pc = "resize" => used + need <= free /\ Size <= free
  /\ pc = "ensured" => need <= FreeSize
  /\ pc \in Growing \cup {"ensured"} /\ task # NoPiece => need = Len(task.points)

(* The inductive invariant, for careful callers.                           *)
Inv ==
  /\ TypeOK
  /\ InBounds
  /\ room <= FreeSize
  /\ SizeSuffices

(* A str is in canonical form, the narrowest that holds its code points    *)
(* (a comparison of two str objects relies on it), and it is made at all.  *)
Canonical == made # Nothing => made.kind = KindFor(MaxCharValue(made.points))

(* What is in the storage, and what is made of it, is what was appended.   *)
Text == INSTANCE TextBuilder WITH
  Contents <- {p.points : p \in Pieces},
  text <- Stored,
  made <- IF made = Nothing THEN Nothing ELSE made.points

ImplementsText == Text!Spec

(* EnsureSize returns.                                                     *)
EnsureSizeReturns == pc # "ready" ~> pc \in {"ready", "failed", "done"}
=============================================================================
