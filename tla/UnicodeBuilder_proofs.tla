----------------------- MODULE UnicodeBuilder_proofs -----------------------
(***************************************************************************)
(* Proofs that a UnicodeBuilder or AsciiBuilder never writes behind its    *)
(* storage, if in the release build it asks, when something is stored, for *)
(* no more than the size the storage has.                                  *)
(***************************************************************************)
EXTENDS UnicodeBuilder, SequenceTheorems, TLAPS

USE StorageAssumption, MemoryAssumption, UnicodeBuilderAssumption

(* The pieces are told from "no piece".                                    *)
LEMMA PieceFacts ==
  ASSUME NEW p \in Pieces
  PROVE  p # NoPiece /\ p.points \in Seq(Nat) /\ Len(p.points) \in Nat
<1>1. p \in Piece
  OBVIOUS
<1>2. p.by # "none" /\ p.points \in Seq(Nat)
  BY <1>1 DEF Piece
<1> QED
  BY <1>2 DEF NoPiece

(* The bits stay bits.                                                     *)
LEMMA MaxcharType ==
  ASSUME maxchar \subseteq 0..20, NEW p
  PROVE  MaxcharAfter(p) \subseteq 0..20
<1>1. \A n : Bits(n) \subseteq 0..20
  BY DEF Bits
<1>2. \A points : MaxCharValue(points) \subseteq 0..20
  <2> SUFFICES ASSUME NEW points PROVE MaxCharValue(points) \subseteq 0..20
    OBVIOUS
  <2>1. AsciiBits \subseteq 0..20 /\ LatinBits \subseteq 0..20 /\ Ucs2Bits \subseteq 0..20
        /\ MaxBits \subseteq 0..20
    BY DEF AsciiBits, LatinBits, Ucs2Bits, MaxBits
  <2>2. MaxCharValue(points) \in {AsciiBits, LatinBits, Ucs2Bits, MaxBits}
    BY DEF MaxCharValue
  <2> QED
    BY <2>1, <2>2
<1> QED
  BY <1>1, <1>2 DEF MaxcharAfter, MaxcharOf

(* The representations are the five.                                       *)
LEMMA KindType == \A b : KindFor(b) \in {"ascii", "latin1", "ucs2", "ucs4", "error"}
BY DEF KindFor

(* Storage operations: how long the storage is after them.                 *)
LEMMA FreshStorage ==
  ASSUME NEW n \in Nat
  PROVE  Fresh(n) \in Seq(Nat \cup {Junk}) /\ Len(Fresh(n)) = n
BY DEF Fresh

(* An append does not change the length.                                   *)
LEMMA WrittenStorage ==
  ASSUME cells \in Seq(Nat \cup {Junk}), used \in Nat, NEW s \in Seq(Nat)
  PROVE  Written(s) \in Seq(Nat \cup {Junk}) /\ Len(Written(s)) = Size
<1>1. Size \in Nat
  BY DEF Size
<1>2. \A i \in 1..Size :
        (IF i \in used + 1..used + Len(s) THEN s[i - used] ELSE cells[i]) \in Nat \cup {Junk}
  <2> SUFFICES ASSUME NEW i \in 1..Size
               PROVE (IF i \in used + 1..used + Len(s) THEN s[i - used] ELSE cells[i])
                        \in Nat \cup {Junk}
    OBVIOUS
  <2>1. CASE i \in used + 1..used + Len(s)
    <3>1. i - used \in 1..Len(s)
      BY <2>1
    <3> QED
      BY <2>1, <3>1
  <2>2. CASE i \notin used + 1..used + Len(s)
    BY <2>2 DEF Size
  <2> QED
    BY <2>1, <2>2
<1> QED
  BY <1>1, <1>2 DEF Written

(* The new storage is as long as was asked for.                            *)
LEMMA MovedStorage ==
  ASSUME cells \in Seq(Nat \cup {Junk}), used \in Nat, used <= Size, NEW n \in Nat
  PROVE  Moved(n) \in Seq(Nat \cup {Junk}) /\ Len(Moved(n)) = n
<1>1. \A i \in 1..n : (IF i <= used THEN cells[i] ELSE Junk) \in Nat \cup {Junk}
  BY DEF Size
<1> QED
  BY <1>1 DEF Moved

-----------------------------------------------------------------------------
(* A new builder has its initial storage.                                  *)
LEMMA InitInv == Init => Inv
<1> SUFFICES ASSUME Init PROVE Inv
  OBVIOUS
<1>1. cells \in Seq(Nat \cup {Junk}) /\ Size = InitialSize
  BY FreshStorage DEF Init, MemoryInit, Size
<1>2. TypeOK
  BY <1>1 DEF Init, MemoryInit, TypeOK, MemoryTypeOK, StorageTypeOK, Places, AsciiBits
<1> QED
  BY <1>1, <1>2 DEF Init, MemoryInit, Inv, InBounds, FreeSize, SizeSuffices, Growing

(* EnsureSize begins, for the program or for a piece.                      *)
LEMMA EnsureSizeInv ==
  ASSUME Inv, NEW n \in Nat, DoublingSuffices(n),
         EnsureSize(n), task' \in Pieces \cup {NoPiece},
         task' # NoPiece => n = Len(task'.points),
         UNCHANGED <<wide, maxchar, room, made>>
  PROVE  Inv'
<1>1. /\ cells' = cells /\ used' = used /\ place' = place /\ need' = n
      /\ Size' = Size /\ FreeSize' = FreeSize /\ release' = release
  BY DEF EnsureSize, Size, FreeSize
<1>2. Size \in Nat /\ used \in Nat /\ used <= Size /\ InitialSize <= Size
      /\ FreeSize = Size - used /\ InitialSize \in Nat
  BY DEF Inv, InBounds, SizeSuffices, TypeOK, MemoryTypeOK, StorageTypeOK, Places, Size, FreeSize
<1>3. /\ pc' \in {"ensured", "doubling", "resize"}
      /\ free' \in Nat
      /\ pc' = "ensured" => n <= FreeSize
      /\ pc' = "doubling" => (used = 0 \/ used + n <= free') /\ Size <= free'
      /\ pc' = "resize" => used + n <= free' /\ Size <= free'
  <2>1. CASE FreeSize >= n /\ pc' = "ensured" /\ free' = FreeSize
    BY <1>2, <2>1
  <2>2. CASE FreeSize < n /\ release /\ pc' = "doubling" /\ free' = 2 * Size
    <3>1. used = 0 \/ n <= Size
      BY <2>2 DEF DoublingSuffices
    <3> QED
      BY <1>2, <2>2, <3>1
  <2>3. CASE FreeSize < n /\ pc' = "resize" /\ free' = Size + (n - FreeSize)
    BY <1>2, <2>3
  <2> QED
    BY <2>1, <2>2, <2>3 DEF EnsureSize, MakeRoom
<1>5. TypeOK'
  BY <1>1, <1>3 DEF Inv, TypeOK, MemoryTypeOK, StorageTypeOK, Places
<1>6. InBounds' /\ room' <= FreeSize'
  BY <1>1 DEF Inv, InBounds
<1>7. SizeSuffices'
  BY <1>1, <1>2, <1>3 DEF SizeSuffices, Growing
<1> QED
  BY <1>5, <1>6, <1>7 DEF Inv

(* A step of EnsureSize.                                                   *)
LEMMA GrowInv ==
  ASSUME Inv, Grow
  PROVE  Inv'
<1>1. /\ Size \in Nat /\ used \in Nat /\ need \in Nat /\ free \in Nat /\ room \in Nat
      /\ InitialSize \in Nat
      /\ used <= Size /\ InitialSize <= Size /\ FreeSize = Size - used /\ room <= FreeSize
      /\ maxchar' = maxchar /\ task' = task /\ room' = room /\ made' = made /\ wide' = wide
  BY DEF Grow, Inv, InBounds, SizeSuffices, TypeOK, MemoryTypeOK, StorageTypeOK, Places, Size, FreeSize
<1>2. CASE Double
  <2>1. /\ cells' = cells /\ used' = used /\ place' = place /\ need' = need
        /\ Size' = Size /\ FreeSize' = FreeSize /\ release' = release
        /\ pc = "doubling" /\ pc' \in Growing /\ free' \in Nat /\ free <= free'
        /\ pc' = "resize" => need <= free'
    BY <1>1, <1>2 DEF Double, Size, FreeSize, Growing
  <2>2. used = 0 \/ used + need <= free'
    BY <1>1, <2>1 DEF Inv, SizeSuffices
  <2>3. Size <= free'
    BY <1>1, <2>1 DEF Inv, SizeSuffices
  <2>4. pc' = "resize" => used + need <= free'
    BY <1>1, <2>1, <2>2
  <2>5. SizeSuffices'
    BY <1>1, <2>1, <2>2, <2>3, <2>4 DEF Inv, SizeSuffices, Growing
  <2>6. TypeOK'
    BY <1>1, <2>1 DEF Inv, TypeOK, MemoryTypeOK, StorageTypeOK, Places, Growing
  <2> QED
    BY <1>1, <2>1, <2>5, <2>6 DEF Inv, InBounds
<1>3. CASE Resize
  <2>1. /\ used' = used /\ need' = need /\ free' = free /\ release' = release
        /\ place' = "heap" /\ pc' = "ensured"
        /\ used + need <= free /\ Size <= free
        /\ task # NoPiece => need = Len(task.points)
    BY <1>3 DEF Resize, Inv, SizeSuffices, Growing
  <2>2. cells' \in Seq(Nat \cup {Junk}) /\ Size' = free
    BY <1>1, <1>3, MovedStorage DEF Resize, Inv, TypeOK, MemoryTypeOK, StorageTypeOK, Places, Size
  <2>3. FreeSize' = free - used
    BY <2>1, <2>2 DEF FreeSize
  <2>4. SizeSuffices'
    BY <1>1, <2>1, <2>2, <2>3 DEF SizeSuffices, Growing
  <2>5. TypeOK'
    BY <1>1, <2>1, <2>2 DEF Inv, TypeOK, MemoryTypeOK, StorageTypeOK, Places
  <2>6. InBounds' /\ room' <= FreeSize'
    BY <1>1, <2>1, <2>2, <2>3 DEF InBounds
  <2> QED
    BY <2>4, <2>5, <2>6 DEF Inv
<1>4. CASE ResizeFails
  <2>1. /\ cells' = cells /\ used' = used /\ need' = need /\ free' = free
        /\ place' \in {"initial", "heap", "lost"} /\ pc' = "failed" /\ release' = release
        /\ Size' = Size /\ FreeSize' = FreeSize
    BY <1>4 DEF ResizeFails, Size, FreeSize, Inv, TypeOK, MemoryTypeOK, StorageTypeOK, Places
  <2>2. SizeSuffices'
    BY <1>1, <2>1 DEF SizeSuffices, Growing
  <2>3. TypeOK'
    BY <1>1, <2>1 DEF Inv, TypeOK, MemoryTypeOK, StorageTypeOK, Places
  <2> QED
    BY <1>1, <2>1, <2>2, <2>3 DEF Inv, InBounds
<1> QED
  BY <1>2, <1>3, <1>4 DEF Grow

(* A piece is written: there was room for it.                              *)
LEMMA PutInv ==
  ASSUME Inv, NEW p \in Pieces, Len(p.points) <= FreeSize, Put(p),
         need' \in Nat, free' \in Nat, task' \in Pieces \cup {NoPiece}
  PROVE  Inv'
<1> DEFINE n == Len(p.points)
<1>1. n \in Nat /\ p.points \in Seq(Nat)
  BY PieceFacts
<1>2. /\ Size \in Nat /\ used \in Nat /\ room \in Nat
      /\ used <= Size /\ FreeSize = Size - used /\ room <= FreeSize
      /\ InitialSize <= Size
  BY DEF Inv, InBounds, SizeSuffices, TypeOK, MemoryTypeOK, StorageTypeOK, Places, Size, FreeSize
<1>3. cells' \in Seq(Nat \cup {Junk}) /\ Size' = Size
  BY <1>1, WrittenStorage DEF Put, Inv, TypeOK, MemoryTypeOK, StorageTypeOK, Places, Size
<1>4. /\ used' = used + n /\ pc' = "ready" /\ place' = place /\ made' = made
      /\ release' = release /\ wide' = wide
      /\ room' = IF room >= n THEN room - n ELSE 0
  BY DEF Put
<1>5. FreeSize' = Size - (used + n)
  BY <1>3, <1>4 DEF FreeSize
<1>6. /\ used' \in Nat /\ room' \in Nat /\ used' <= Size' /\ room' <= FreeSize'
  <2>1. n <= Size - used
    BY <1>2
  <2> HIDE DEF n
  <2>2. used' \in Nat /\ used' <= Size'
    BY <1>1, <1>2, <1>3, <1>4, <2>1
  <2>3. CASE room >= n
    <3>1. room' = room - n
      BY <1>4, <2>3
    <3> QED
      BY <1>1, <1>2, <1>5, <2>2, <2>3, <3>1
  <2>4. CASE ~(room >= n)
    <3>1. room' = 0
      BY <1>4, <2>4
    <3> QED
      BY <1>1, <1>2, <1>5, <2>1, <2>2, <3>1
  <2> QED
    BY <2>3, <2>4
<1>7. maxchar' \subseteq 0..20
  BY MaxcharType DEF Put, Inv, TypeOK
<1>8. TypeOK'
  BY <1>3, <1>4, <1>6, <1>7 DEF Inv, TypeOK, MemoryTypeOK, StorageTypeOK, Places
<1>9. SizeSuffices'
  BY <1>2, <1>3, <1>4 DEF SizeSuffices, Growing
<1> QED
  BY <1>6, <1>8, <1>9 DEF Inv, InBounds

(* A piece is rejected, or a call ends, and nothing is written.            *)
LEMMA NothingWritten ==
  ASSUME Inv, UNCHANGED <<release, wide, cells, used, place>>, pc' \in {"ready", "failed", "done"},
         need' \in Nat, free' \in Nat, task' \in Pieces \cup {NoPiece},
         maxchar' \subseteq 0..20, room' \in Nat, room' <= FreeSize, made' = made
  PROVE  Inv'
<1>1. /\ Size' = Size /\ FreeSize' = FreeSize /\ cells' = cells /\ used' = used
      /\ release' = release /\ wide' = wide
  BY DEF Size, FreeSize
<1>2. TypeOK'
  BY <1>1 DEF Inv, TypeOK, MemoryTypeOK, StorageTypeOK, Places
<1>3. SizeSuffices'
  BY <1>1 DEF Inv, SizeSuffices, Growing
<1> QED
  BY <1>1, <1>2, <1>3 DEF Inv, InBounds

(* EnsureSize has returned, and the append, if any, has its room.          *)
LEMMA EnsuredInv ==
  ASSUME Inv, Ensured
  PROVE  Inv'
<1>1. /\ pc = "ensured" /\ need' \in Nat /\ free' \in Nat /\ task' = NoPiece
      /\ need \in Nat /\ room \in Nat /\ need <= FreeSize /\ room <= FreeSize
      /\ maxchar \subseteq 0..20 /\ task \in Pieces \cup {NoPiece}
  BY DEF Ensured, Inv, TypeOK, MemoryTypeOK, StorageTypeOK, Places, SizeSuffices
<1>2. CASE /\ room' = IF room >= need THEN room ELSE need
           /\ pc' = "ready"
           /\ UNCHANGED <<release, wide, cells, used, place, maxchar, made>>
  BY <1>1, <1>2, NothingWritten
<1>3. CASE task # NoPiece /\ Put(task)
  <2>1. task \in Pieces /\ Len(task.points) <= FreeSize
    BY <1>1, <1>3 DEF Inv, SizeSuffices
  <2> QED
    BY <1>1, <1>3, <2>1, PutInv
<1>4. CASE Reject(task)
  BY <1>1, <1>4, NothingWritten, MaxcharType DEF Reject
<1> QED
  BY <1>2, <1>3, <1>4 DEF Ensured

(* An append without a check uses room that was promised.                  *)
LEMMA AppendFastInv ==
  ASSUME Inv, NEW p \in Pieces, AppendFast(p)
  PROVE  Inv'
<1>1. /\ need' \in Nat /\ free' \in Nat /\ task' \in Pieces \cup {NoPiece}
      /\ room \in Nat /\ room <= FreeSize /\ maxchar \subseteq 0..20
      /\ Len(p.points) <= room
  BY DEF AppendFast, Inv, TypeOK, MemoryTypeOK, StorageTypeOK, Places
<1>2. CASE Put(p)
  <2>1. Len(p.points) <= FreeSize
    BY <1>1, PieceFacts DEF Inv, TypeOK, MemoryTypeOK, StorageTypeOK, Places, FreeSize, Size
  <2> QED
    BY <1>1, <1>2, <2>1, PutInv
<1>3. CASE Reject(p)
  BY <1>1, <1>3, NothingWritten, MaxcharType DEF Reject
<1> QED
  BY <1>2, <1>3 DEF AppendFast

(* ToPython empties the builder and keeps its storage.                     *)
LEMMA ToPythonInv ==
  ASSUME Inv, ToPython
  PROVE  Inv'
<1>1. /\ cells' = cells /\ used' = 0 /\ room' = 0 /\ place' = place
      /\ pc' \in {"ready", "done"} /\ need' = need /\ free' = free
      /\ maxchar' = maxchar /\ task' = task /\ Size' = Size
      /\ release' = release /\ wide' = wide
  BY DEF ToPython, Size
<1>2. Size \in Nat /\ FreeSize' = Size
  BY <1>1 DEF Inv, TypeOK, MemoryTypeOK, StorageTypeOK, Places, Size, FreeSize
<1>3. made' = Nothing \/ made'.kind \in {"ascii", "latin1", "ucs2", "ucs4", "error"}
  BY KindType DEF ToPython, NewStr
<1>4. TypeOK'
  BY <1>1, <1>3 DEF Inv, TypeOK, MemoryTypeOK, StorageTypeOK, Places
<1>5. SizeSuffices'
  BY <1>1 DEF Inv, SizeSuffices, Growing
<1> QED
  BY <1>1, <1>2, <1>4, <1>5 DEF Inv, InBounds

(* Another builder is a new one.                                           *)
LEMMA DiscardInv ==
  ASSUME Inv, Discard
  PROVE  Inv'
<1>1. cells' \in Seq(Nat \cup {Junk}) /\ Size' = InitialSize
  BY FreshStorage DEF Discard, Size
<1>2. TypeOK'
  BY <1>1 DEF Discard, Inv, TypeOK, MemoryTypeOK, StorageTypeOK, Places, AsciiBits
<1> QED
  BY <1>1, <1>2 DEF Discard, Inv, InBounds, FreeSize, SizeSuffices, Growing

-----------------------------------------------------------------------------
(* A builder stays what it is in the build that it is in.                  *)
LEMMA SameBuild == [Next]_vars => release' = release
BY DEF Next, vars, storageVars, Reserve, AppendSafe, AppendFast, Grow, Ensured, ToPython, Discard,
       EnsureSize, Put, Reject, Double, Resize, ResizeFails

(* Every step of careful callers keeps the invariant; in the other build,  *)
(* of any callers.                                                         *)
LEMMA NextInv == Obliging /\ Inv /\ [Next]_vars => Inv'
<1> SUFFICES ASSUME Obliging, Inv, [Next]_vars PROVE Inv'
  OBVIOUS
<1>1. CASE UNCHANGED vars
  BY <1>1 DEF vars, storageVars, Inv, TypeOK, MemoryTypeOK, StorageTypeOK, Places, InBounds, SizeSuffices,
              Size, FreeSize
<1>2. ASSUME NEW n \in Reserves, Reserve(n) PROVE Inv'
  BY <1>2, EnsureSizeInv DEF Reserve, Asks, Obliging, DoublingSuffices
<1>3. ASSUME NEW p \in Pieces, AppendSafe(p) PROVE Inv'
  BY <1>3, EnsureSizeInv, PieceFacts DEF AppendSafe, Asks, Obliging, DoublingSuffices
<1>4. ASSUME NEW p \in Pieces, AppendFast(p) PROVE Inv'
  BY <1>4, AppendFastInv
<1>5. CASE Grow
  BY <1>5, GrowInv
<1>6. CASE Ensured
  BY <1>6, EnsuredInv
<1>7. CASE ToPython
  BY <1>7, ToPythonInv
<1>8. CASE Discard
  BY <1>8, DiscardInv
<1> QED
  BY <1>1, <1>2, <1>3, <1>4, <1>5, <1>6, <1>7, <1>8 DEF Next

(* With careful callers every reachable state satisfies the inductive      *)
(* invariant.                                                              *)
THEOREM Invariance == ASSUME Careful PROVE Spec => []Inv
<1>1. Inv /\ [Next]_vars => Inv'
  BY NextInv DEF Obliging
<1> QED
  BY InitInv, <1>1, PTL DEF Spec

(* Without NDEBUG the size is computed from what is stored and what is     *)
(* asked for: then callers need not be careful.                            *)
THEOREM DebugInvariance == Spec /\ ~release => [](Inv /\ ~release)
<1>1. Inv /\ ~release /\ [Next]_vars => Inv' /\ ~release'
  BY NextInv, SameBuild DEF Obliging
<1> QED
  BY InitInv, <1>1, PTL DEF Spec

(* Then the cursor never passes the end of the storage: the assertion of   *)
(* ToPython, and with it every write of an append.                         *)
THEOREM CursorInBounds == ASSUME Careful PROVE Spec => []InBounds
<1>1. Inv => InBounds
  BY DEF Inv
<1> QED
  BY <1>1, Invariance, PTL

(* Then EnsureSize keeps its promise until the caller has used the room.   *)
THEOREM PromiseKept == ASSUME Careful PROVE Spec => []RoomIsKept
<1>1. Inv => RoomIsKept
  BY DEF Inv, RoomIsKept
<1> QED
  BY <1>1, Invariance, PTL

(* Type correctness of the builder.                                        *)
THEOREM TypeCorrect == ASSUME Careful PROVE Spec => []TypeOK
<1>1. Inv => TypeOK
  BY DEF Inv
<1> QED
  BY <1>1, Invariance, PTL

-----------------------------------------------------------------------------
(* The str that is made.                                                   *)

Narrow == {AsciiBits, LatinBits, Ucs2Bits}

Within(points, bits) == \A i \in DOMAIN points : Bits(points[i]) \subseteq bits

StoredWithin(bits) == \A i \in 1..used : Bits(cells[i]) \subseteq bits

(* The or-ed maximal characters are a code point, used again or not.       *)
MaxcharBound == maxchar \subseteq AsciiBits \cup UNION {MaxcharOf(p) : p \in Pieces}

(* _maxchar is as narrow as what is stored, until the str is made.         *)
MaxcharNarrow ==
  pc \notin {"failed", "done"} =>
    \A bits \in Narrow : maxchar \subseteq bits <=> StoredWithin(bits)

(* Each class of code points has a bit that the narrower ones lack.        *)
LEMMA BitClasses ==
  /\ AsciiBits \subseteq LatinBits /\ LatinBits \subseteq Ucs2Bits
  /\ ~(LatinBits \subseteq AsciiBits) /\ ~(Ucs2Bits \subseteq LatinBits)
  /\ ~(Ucs2Bits \subseteq AsciiBits)
  /\ \A bits \in Narrow : ~(MaxBits \subseteq bits) /\ AsciiBits \subseteq bits
  /\ IsCodePoint(MaxBits)
<1>1. AsciiBits \subseteq LatinBits /\ LatinBits \subseteq Ucs2Bits
  BY DEF AsciiBits, LatinBits, Ucs2Bits
<1>2. 7 \in LatinBits /\ 7 \notin AsciiBits /\ 8 \in Ucs2Bits /\ 8 \notin LatinBits
      /\ 20 \in MaxBits /\ 20 \notin Ucs2Bits
  BY DEF AsciiBits, LatinBits, Ucs2Bits, MaxBits
<1>3. IsCodePoint(MaxBits)
  BY DEF IsCodePoint, MaxBits, Ucs2Bits
<1> QED
  BY <1>1, <1>2, <1>3 DEF Narrow

(* The maximal character of a str is as narrow as its code points.         *)
LEMMA StrIsNarrow ==
  ASSUME NEW points, NEW bits \in Narrow
  PROVE  MaxCharValue(points) \subseteq bits <=> Within(points, bits)
<1> DEFINE all == UNION {Bits(points[i]) : i \in DOMAIN points}
<1>1. \A b : all \subseteq b <=> Within(points, b)
  BY DEF Within
<1>2. CASE all \subseteq AsciiBits
  <2>1. MaxCharValue(points) = AsciiBits
    BY <1>2, BitClasses DEF MaxCharValue
  <2> QED
    BY <1>1, <1>2, <2>1, BitClasses
<1>3. CASE all \subseteq LatinBits /\ ~(all \subseteq AsciiBits)
  <2>1. MaxCharValue(points) = LatinBits
    BY <1>3, BitClasses DEF MaxCharValue
  <2> QED
    BY <1>1, <1>3, <2>1, BitClasses DEF Narrow
<1>4. CASE all \subseteq Ucs2Bits /\ ~(all \subseteq LatinBits)
  <2>1. MaxCharValue(points) = Ucs2Bits
    BY <1>4, BitClasses DEF MaxCharValue
  <2> QED
    BY <1>1, <1>4, <2>1, BitClasses DEF Narrow
<1>5. CASE ~(all \subseteq Ucs2Bits)
  <2>1. MaxCharValue(points) = MaxBits
    BY <1>5, BitClasses DEF MaxCharValue
  <2> QED
    BY <1>1, <1>5, <2>1, BitClasses DEF Narrow
<1> QED
  BY <1>2, <1>3, <1>4, <1>5

(* What is as narrow as a text is good for a str of that text.             *)
LEMMA SameKind ==
  ASSUME NEW b, IsCodePoint(b), NEW points,
         \A bits \in Narrow : b \subseteq bits <=> Within(points, bits)
  PROVE  KindFor(b) = KindFor(MaxCharValue(points))
<1> DEFINE m == MaxCharValue(points)
<1>1. \A bits \in Narrow : b \subseteq bits <=> m \subseteq bits
  BY StrIsNarrow
<1>2. b \subseteq AsciiBits <=> m \subseteq AsciiBits
  BY <1>1 DEF Narrow
<1>3. b \subseteq LatinBits <=> m \subseteq LatinBits
  BY <1>1 DEF Narrow
<1>4. b \subseteq Ucs2Bits <=> m \subseteq Ucs2Bits
  BY <1>1 DEF Narrow
<1>5. ~(m \subseteq Ucs2Bits) => m = MaxBits
  BY BitClasses DEF MaxCharValue
<1>6. ~(m \subseteq Ucs2Bits) => IsCodePoint(m)
  BY <1>5, BitClasses
<1> HIDE DEF m
<1>7. KindFor(b) = KindFor(m)
  BY <1>2, <1>3, <1>4, <1>6 DEF KindFor
<1> QED
  BY <1>7 DEF m

(* What a call adds to _maxchar is as narrow as what it appends: bytes are  *)
(* not appended.                                                           *)
LEMMA PieceIsNarrow ==
  ASSUME WellAsked, NEW p \in Pieces, p.by # "bytes", NEW bits \in Narrow
  PROVE  MaxcharOf(p) \subseteq bits <=> Within(p.points, bits)
<1>1. p \in Piece
  OBVIOUS
<1>2. p.by \in {"char", "ascii", "cstr", "str"} /\ p.points \in Seq(Nat)
  BY <1>1 DEF Piece
<1>3. CASE p.by = "char"
  <2>1. DOMAIN p.points = {1}
    BY <1>2, <1>3
  <2>2. MaxcharOf(p) = Bits(p.points[1])
    BY <1>3 DEF MaxcharOf
  <2> QED
    BY <2>1, <2>2 DEF Within
<1>4. CASE p.by = "str"
  BY <1>4, StrIsNarrow DEF MaxcharOf
<1>5. CASE p.by \in {"ascii", "cstr"}
  <2>1. MaxcharOf(p) = {}
    BY <1>5 DEF MaxcharOf
  <2>2. Within(p.points, AsciiBits)
    BY <1>5 DEF Within, WellAsked
  <2> QED
    BY <2>1, <2>2, BitClasses DEF Within
<1> QED
  BY <1>2, <1>3, <1>4, <1>5

(* The storage as a text.                                                  *)
LEMMA StoredText ==
  ASSUME Inv
  PROVE  /\ Stored \in Seq(Nat \cup {Junk}) /\ Len(Stored) = used
         /\ \A i \in 1..used : Stored[i] = cells[i]
BY DEF Inv, InBounds, TypeOK, MemoryTypeOK, StorageTypeOK, Stored, Size

(* An append puts the piece behind the text.                               *)
LEMMA WrittenText ==
  ASSUME Inv, NEW p \in Pieces, Len(p.points) <= FreeSize, Put(p)
  PROVE  /\ used' = used + Len(p.points)
         /\ \A i \in 1..used : cells'[i] = cells[i]
         /\ \A i \in 1..Len(p.points) : cells'[used + i] = p.points[i]
         /\ Stored' = Stored \o p.points
<1> DEFINE n == Len(p.points)
<1>1. n \in Nat /\ p.points \in Seq(Nat) /\ used \in Nat /\ Size \in Nat /\ used + n <= Size
      /\ cells \in Seq(Nat \cup {Junk})
  BY PieceFacts DEF Inv, InBounds, TypeOK, MemoryTypeOK, StorageTypeOK, Size, FreeSize
<1>2. cells' = Written(p.points) /\ used' = used + n
  BY DEF Put
<1>3. cells' \in Seq(Nat \cup {Junk}) /\ Len(cells') = Size
  BY <1>1, <1>2, WrittenStorage
<1>4. ASSUME NEW i \in 1..used PROVE cells'[i] = cells[i]
  BY <1>1, <1>2, <1>4 DEF Written
<1>5. ASSUME NEW i \in 1..n PROVE cells'[used + i] = p.points[i]
  <2>1. used + i \in 1..Size /\ used + i \in used + 1..used + n /\ (used + i) - used = i
    BY <1>1, <1>5
  <2> QED
    BY <1>2, <2>1 DEF Written
<1>6. Stored' = SubSeq(cells', 1, used + n)
  BY <1>2 DEF Stored
<1>7. /\ Stored' \in Seq(Nat \cup {Junk}) /\ Len(Stored') = used + n
      /\ \A i \in 1..used + n : Stored'[i] = cells'[i]
  BY <1>1, <1>3, <1>6
<1>8. /\ Stored \o p.points \in Seq(Nat \cup {Junk}) /\ Len(Stored \o p.points) = used + n
      /\ \A i \in 1..used + n :
           (Stored \o p.points)[i] = IF i <= used THEN cells[i] ELSE p.points[i - used]
  <2>1. p.points \in Seq(Nat \cup {Junk}) /\ Stored \in Seq(Nat \cup {Junk})
    <3>1. p.points \in Seq(Nat)
      BY <1>1
    <3>2. p.points \in Seq(Nat \cup {Junk})
      BY ONLY <3>1
    <3> QED
      BY <3>2, StoredText
  <2>2. /\ Stored \o p.points \in Seq(Nat \cup {Junk}) /\ Len(Stored \o p.points) = used + n
        /\ \A i \in 1..used + n :
             (Stored \o p.points)[i] = IF i <= used THEN Stored[i] ELSE p.points[i - used]
    <3>1. /\ Stored \o p.points \in Seq(Nat \cup {Junk})
          /\ Len(Stored \o p.points) = Len(Stored) + Len(p.points)
          /\ \A i \in 1..Len(Stored) + Len(p.points) :
               (Stored \o p.points)[i] =
                 IF i <= Len(Stored) THEN Stored[i] ELSE p.points[i - Len(Stored)]
      BY <2>1, ConcatProperties
    <3>2. Len(Stored) = used
      BY StoredText
    <3> QED
      BY <3>1, <3>2
  <2>3. \A i \in 1..used + n : i <= used => Stored[i] = cells[i]
    BY <1>1, StoredText
  <2> QED
    BY <2>2, <2>3
<1>9. ASSUME NEW i \in 1..used + n PROVE Stored'[i] = (Stored \o p.points)[i]
  <2>1. CASE i <= used
    <3>1. i \in 1..used
      BY <1>1, <1>9, <2>1
    <3> QED
      BY <1>4, <1>7, <1>8, <2>1, <3>1
  <2>2. CASE ~(i <= used)
    <3>1. i - used \in 1..n /\ used + (i - used) = i
      BY <1>1, <1>9, <2>2
    <3> QED
      BY <1>5, <1>7, <1>8, <2>2, <3>1
  <2> QED
    BY <2>1, <2>2
<1>10. Stored' = Stored \o p.points
  BY <1>7, <1>8, <1>9, SeqEqual
<1> QED
  BY <1>2, <1>4, <1>5, <1>10

(* A step of EnsureSize keeps the text, also when the storage moves.       *)
LEMMA GrowText ==
  ASSUME Inv, Grow
  PROVE  /\ used' = used /\ \A i \in 1..used : cells'[i] = cells[i]
         /\ Stored' = Stored
<1>1. used \in Nat /\ Size \in Nat /\ used <= Size /\ cells \in Seq(Nat \cup {Junk}) /\ free \in Nat
  BY DEF Inv, InBounds, TypeOK, MemoryTypeOK, StorageTypeOK, Size
<1>2. CASE Double \/ ResizeFails
  BY <1>2 DEF Double, ResizeFails, Stored
<1>3. CASE Resize
  <2>1. used' = used /\ cells' = Moved(free) /\ Size <= free
    BY <1>3 DEF Resize, Inv, SizeSuffices
  <2>2. cells' \in Seq(Nat \cup {Junk}) /\ Len(cells') = free
    BY <1>1, <2>1, MovedStorage
  <2>3. \A i \in 1..used : cells'[i] = cells[i]
    BY <1>1, <2>1 DEF Moved
  <2>4. /\ Stored' \in Seq(Nat \cup {Junk}) /\ Len(Stored') = used
        /\ \A i \in 1..used : Stored'[i] = cells'[i]
    BY <1>1, <2>1, <2>2 DEF Stored
  <2>5. Stored' = Stored
    BY <2>3, <2>4, StoredText
  <2> QED
    BY <2>1, <2>3, <2>5
<1> QED
  BY <1>2, <1>3 DEF Grow

(* The five kinds of steps, by what they do to the text and to _maxchar.   *)
LEMMA StepsOfText ==
  ASSUME Inv, Next
  PROVE  \/ /\ UNCHANGED <<maxchar, made, used, Stored>>
            /\ \A i \in 1..used : cells'[i] = cells[i]
            /\ pc \notin {"failed", "done"}
         \/ \E p \in Pieces :
              /\ p.by # "bytes"
              /\ Len(p.points) <= FreeSize /\ Put(p) /\ pc \notin {"failed", "done"}
         \/ \E p \in Pieces : Reject(p)
         \/ ToPython
         \/ Discard
<1>1. ASSUME NEW n, EnsureSize(n), UNCHANGED <<maxchar, made>>
      PROVE  /\ UNCHANGED <<maxchar, made, used, Stored>>
             /\ \A i \in 1..used : cells'[i] = cells[i]
             /\ pc \notin {"failed", "done"}
  BY <1>1 DEF EnsureSize, Stored
<1>2. CASE \E n \in Reserves : Reserve(n)
  BY <1>1, <1>2 DEF Reserve
<1>3. ASSUME NEW p \in Pieces, AppendSafe(p)
      PROVE  /\ UNCHANGED <<maxchar, made, used, Stored>>
             /\ \A i \in 1..used : cells'[i] = cells[i]
             /\ pc \notin {"failed", "done"}
  BY <1>1, <1>3 DEF AppendSafe
<1>4. CASE Grow
  <2>1. pc \notin {"failed", "done"} /\ UNCHANGED <<maxchar, made>>
    BY <1>4 DEF Grow, Double, Resize, ResizeFails
  <2> QED
    BY <1>4, <2>1, GrowText
<1>5. CASE Ensured
  <2>1. CASE UNCHANGED <<release, wide, cells, used, place, maxchar, made>> /\ pc = "ensured"
    BY <2>1 DEF Stored
  <2>2. CASE /\ task # NoPiece /\ pc = "ensured"
             /\ (task.by # "bytes" /\ Put(task)) \/ Reject(task)
    <3>1. task \in Pieces /\ Len(task.points) <= FreeSize
      BY <2>2 DEF Inv, TypeOK, SizeSuffices
    <3> QED
      BY <2>2, <3>1
  <2> QED
    BY <1>5, <2>1, <2>2 DEF Ensured, Accepts
<1>6. ASSUME NEW p \in Pieces, AppendFast(p)
      PROVE  \/ Reject(p)
             \/ /\ p.by # "bytes"
                /\ Len(p.points) <= FreeSize /\ Put(p) /\ pc \notin {"failed", "done"}
  <2>1. /\ Len(p.points) <= room /\ room <= FreeSize /\ pc = "ready"
        /\ (p.by # "bytes" /\ Put(p)) \/ Reject(p)
    BY <1>6 DEF AppendFast, Inv, Accepts
  <2>2. Len(p.points) \in Nat /\ room \in Nat /\ FreeSize \in Int
    BY PieceFacts DEF Inv, TypeOK, MemoryTypeOK, StorageTypeOK, Size, FreeSize
  <2> QED
    BY <2>1, <2>2
<1> QED
  BY <1>2, <1>3, <1>4, <1>5, <1>6 DEF Next

(* The three properties of _maxchar hold of a new builder.                 *)
LEMMA InitMaxchar == Init => MaxcharBound /\ MaxcharNarrow /\ Canonical
BY BitClasses DEF Init, MemoryInit, MaxcharBound, MaxcharNarrow, StoredWithin, Canonical

(* Whatever is or-ed to _maxchar comes from a piece.                       *)
LEMMA BoundKept == Inv /\ MaxcharBound /\ [Next]_vars => MaxcharBound'
<1> SUFFICES ASSUME Inv, MaxcharBound, [Next]_vars PROVE MaxcharBound'
  OBVIOUS
<1>1. CASE UNCHANGED vars
  BY <1>1 DEF vars, MaxcharBound
<1>2. CASE maxchar' = maxchar \/ maxchar' = AsciiBits
  BY <1>2 DEF MaxcharBound
<1>3. ASSUME NEW p \in Pieces, maxchar' = MaxcharAfter(p) PROVE MaxcharBound'
  BY <1>3 DEF MaxcharBound, MaxcharAfter
<1> QED
  BY <1>1, <1>2, <1>3, StepsOfText DEF Put, Reject, ToPython, Discard

(* So for well asked pieces it is the maximal character of some str.       *)
LEMMA BoundIsCodePoint == WellAsked /\ MaxcharBound => IsCodePoint(maxchar)
<1>1. AsciiBits \cap 16..20 = {}
  BY DEF AsciiBits
<1> QED
  BY <1>1 DEF WellAsked, MaxcharBound, IsCodePoint

(* _maxchar and the text grow alike, and a rejected piece ends the text.   *)
LEMMA NarrowKept ==
  ASSUME WellAsked, ~Reuse, Inv, MaxcharNarrow, [Next]_vars
  PROVE  MaxcharNarrow'
<1>1. CASE UNCHANGED vars
  BY <1>1 DEF vars, storageVars, MaxcharNarrow, StoredWithin
<1>2. CASE /\ UNCHANGED <<maxchar, used>>
           /\ \A i \in 1..used : cells'[i] = cells[i]
           /\ pc \notin {"failed", "done"}
  BY <1>2 DEF MaxcharNarrow, StoredWithin
<1>3. ASSUME NEW p \in Pieces, p.by # "bytes",
             Len(p.points) <= FreeSize, Put(p), pc \notin {"failed", "done"}
      PROVE  MaxcharNarrow'
  <2> DEFINE n == Len(p.points)
  <2>1. n \in Nat /\ p.points \in Seq(Nat) /\ used \in Nat
    BY PieceFacts DEF Inv, TypeOK, MemoryTypeOK, StorageTypeOK
  <2>2. /\ used' = used + n
        /\ \A i \in 1..used : cells'[i] = cells[i]
        /\ \A i \in 1..n : cells'[used + i] = p.points[i]
    BY <1>3, WrittenText
  <2>3. maxchar' = maxchar \cup MaxcharOf(p)
    BY <1>3 DEF Put, MaxcharAfter
  <2> SUFFICES ASSUME NEW bits \in Narrow
               PROVE  maxchar' \subseteq bits <=> StoredWithin(bits)'
    BY DEF MaxcharNarrow
  <2>4. maxchar' \subseteq bits <=> StoredWithin(bits) /\ Within(p.points, bits)
    BY <1>3, <2>3, PieceIsNarrow DEF MaxcharNarrow
  <2>5. StoredWithin(bits)' <=> \A i \in 1..used + n : Bits(cells'[i]) \subseteq bits
    BY <2>2 DEF StoredWithin
  <2>6. DOMAIN p.points = 1..n
    BY <2>1
  <2> HIDE DEF n
  <2>7. ASSUME StoredWithin(bits), Within(p.points, bits), NEW i \in 1..used + n
        PROVE  Bits(cells'[i]) \subseteq bits
    <3>1. CASE i \in 1..used
      BY <2>2, <2>7, <3>1 DEF StoredWithin
    <3>2. CASE i \notin 1..used
      <4>1. i - used \in 1..n /\ used + (i - used) = i
        BY <2>1, <2>7, <3>2
      <4>2. cells'[i] = p.points[i - used]
        BY <2>2, <4>1
      <4> QED
        BY <2>6, <2>7, <4>1, <4>2 DEF Within
    <3> QED
      BY <3>1, <3>2
  <2>8. ASSUME \A i \in 1..used + n : Bits(cells'[i]) \subseteq bits
        PROVE  StoredWithin(bits) /\ Within(p.points, bits)
    <3>1. ASSUME NEW i \in 1..used PROVE Bits(cells[i]) \subseteq bits
      <4>1. i \in 1..used + n
        BY <2>1, <3>1
      <4> QED
        BY <2>2, <2>8, <4>1
    <3>2. ASSUME NEW i \in 1..n PROVE Bits(p.points[i]) \subseteq bits
      <4>1. used + i \in 1..used + n
        BY <2>1, <3>2
      <4>2. cells'[used + i] = p.points[i]
        BY <2>2
      <4> QED
        BY <2>8, <4>1, <4>2
    <3> QED
      BY <2>6, <3>1, <3>2 DEF StoredWithin, Within
  <2> QED
    BY <2>4, <2>5, <2>7, <2>8
<1>4. CASE pc' \in {"failed", "done"}
  BY <1>4 DEF MaxcharNarrow
<1>5. CASE Discard
  BY <1>5, BitClasses DEF Discard, MaxcharNarrow, StoredWithin
<1> QED
  BY <1>1, <1>2, <1>3, <1>4, <1>5, StepsOfText DEF Reject, ToPython

(* ToPython makes the str from _maxchar and the text.                      *)
LEMMA CanonicalKept ==
  ASSUME WellAsked, ~Reuse, Inv, MaxcharBound, MaxcharNarrow, Canonical, [Next]_vars
  PROVE  Canonical'
<1>1. CASE made' = made \/ made' = Nothing
  BY <1>1 DEF Canonical
<1>2. CASE ToPython /\ made' # Nothing
  <2>1. pc = "ready" /\ made' = NewStr
    BY <1>2 DEF ToPython
  <2>2. CASE used = 0
    <3>1. NewStr.points = <<>> /\ NewStr.kind = "ascii"
      BY <2>2 DEF NewStr
    <3>2. MaxCharValue(<<>>) = AsciiBits
      BY BitClasses DEF MaxCharValue
    <3>3. KindFor(AsciiBits) = "ascii"
      BY DEF KindFor, AsciiBits, LatinBits, Ucs2Bits
    <3> QED
      BY <2>1, <3>1, <3>2, <3>3 DEF Canonical
  <2>3. CASE used # 0
    <3>1. \A bits \in Narrow : maxchar \subseteq bits <=> Within(Stored, bits)
      BY <2>1, StoredText DEF MaxcharNarrow, StoredWithin, Within
    <3>2. IsCodePoint(maxchar)
      BY BoundIsCodePoint
    <3>3. KindFor(maxchar) = KindFor(MaxCharValue(Stored))
      BY <3>1, <3>2, SameKind
    <3>4. KindFor(maxchar) # "error"
      BY <3>2 DEF KindFor
    <3>5. NewStr.points = Stored /\ NewStr.kind = KindFor(maxchar)
      BY <2>3, <3>4 DEF NewStr
    <3> QED
      BY <2>1, <3>3, <3>5 DEF Canonical
  <2> QED
    BY <2>2, <2>3
<1>3. CASE UNCHANGED vars
  BY <1>1, <1>3 DEF vars
<1> QED
  BY <1>1, <1>2, <1>3, StepsOfText DEF Put, Reject, Discard

(* A str made of well asked pieces, by a builder that is used once, is as  *)
(* narrow as its code points allow.                                        *)
THEOREM CanonicalStr ==
  ASSUME Careful, WellAsked, ~Reuse
  PROVE  Spec => []Canonical
<1>1. Inv /\ MaxcharBound /\ MaxcharNarrow /\ Canonical /\ [Next]_vars
        => MaxcharBound' /\ MaxcharNarrow' /\ Canonical'
  BY BoundKept, NarrowKept, CanonicalKept
<1> QED
  BY InitMaxchar, Invariance, <1>1, PTL DEF Spec

-----------------------------------------------------------------------------
(* The refinement of TextBuilder.                                          *)

(* A str that is made is told from none.                                   *)
LEMMA MadeIsStr == ASSUME Inv PROVE NewStr # Nothing
<1>1. NewStr.points \in Seq(Nat \cup {Junk}) /\ NewStr = [points |-> NewStr.points, kind |-> NewStr.kind]
  BY StoredText DEF NewStr
<1>2. NewStr.kind \in {"ascii", "latin1", "ucs2", "ucs4", "error"}
  BY KindType DEF NewStr
<1> QED
  BY <1>1, <1>2

(* Each step is a step of the abstract builder, or leaves the text alone.  *)
LEMMA TextStep ==
  ASSUME WellAsked, Inv, MaxcharBound, [Next]_vars
  PROVE  [Text!Next]_Text!vars
<1>1. CASE UNCHANGED <<made, Stored>>
  BY <1>1 DEF Text!vars
<1>2. ASSUME NEW p \in Pieces, Len(p.points) <= FreeSize, Put(p)
      PROVE  Text!Next
  <2>1. Stored' = Stored \o p.points /\ made' = made
    BY <1>2, WrittenText DEF Put
  <2>2. p.points \in {q.points : q \in Pieces}
    OBVIOUS
  <2> QED
    BY <2>1, <2>2 DEF Text!Next, Text!Extend
<1>3. CASE ToPython
  <2>1. made' \in {NewStr, Nothing} /\ used' = 0 /\ cells' = cells
    BY <1>3 DEF ToPython
  <2>2. Stored' = <<>>
    BY <2>1 DEF Stored, Inv, TypeOK, MemoryTypeOK, StorageTypeOK
  <2>3. NewStr.points = Stored
    <3>1. CASE used = 0
      BY <3>1, StoredText DEF NewStr
    <3>2. CASE used # 0
      <4>1. KindFor(maxchar) # "error"
        BY BoundIsCodePoint DEF KindFor
      <4> QED
        BY <3>2, <4>1 DEF NewStr
    <3> QED
      BY <3>1, <3>2
  <2> QED
    BY <2>1, <2>2, <2>3, MadeIsStr DEF Text!Next, Text!Finish, Text!GiveUp
<1>4. CASE Discard
  <2>1. cells' = Fresh(InitialSize) /\ used' = 0 /\ made' = Nothing
    BY <1>4 DEF Discard
  <2>2. cells' \in Seq(Nat \cup {Junk})
    BY <2>1, FreshStorage
  <2>3. Stored' = <<>>
    BY <2>1, <2>2 DEF Stored
  <2> QED
    BY <2>1, <2>3 DEF Text!Next, Text!GiveUp
<1>5. ASSUME NEW p \in Pieces, Reject(p) PROVE UNCHANGED <<made, Stored>>
  BY <1>5 DEF Reject, Stored
<1>6. CASE UNCHANGED vars
  BY <1>1, <1>6 DEF vars, storageVars, Stored
<1> QED
  BY <1>1, <1>2, <1>3, <1>4, <1>5, <1>6, StepsOfText

(* Text that is well asked is never lost, doubled or mixed up, and the str *)
(* made holds exactly what was appended.                                   *)
THEOREM Refinement ==
  ASSUME Careful, WellAsked
  PROVE  Spec => ImplementsText
<1>1. Init => Text!Init
  BY DEF Init, MemoryInit, Text!Init, Stored, Fresh
<1>2. Inv /\ MaxcharBound /\ [Next]_vars => MaxcharBound' /\ [Text!Next]_Text!vars
  BY BoundKept, TextStep
<1> QED
  BY InitMaxchar, Invariance, <1>1, <1>2, PTL DEF Spec, ImplementsText, Text!Spec

(* So do builders of the other build, whatever room their callers ask for: *)
(* nothing is written behind the storage, and the text is what was         *)
(* appended.                                                               *)
THEOREM DebugBuild ==
  ASSUME WellAsked
  PROVE  Spec /\ ~release => [](InBounds /\ RoomIsKept) /\ ImplementsText
<1>1. Init => Text!Init
  BY DEF Init, MemoryInit, Text!Init, Stored, Fresh
<1>2. Inv /\ MaxcharBound /\ [Next]_vars => MaxcharBound' /\ [Text!Next]_Text!vars
  BY BoundKept, TextStep
<1>3. Inv => InBounds /\ RoomIsKept
  BY DEF Inv, RoomIsKept
<1> QED
  BY InitMaxchar, DebugInvariance, <1>1, <1>2, <1>3, PTL DEF Spec, ImplementsText, Text!Spec
=============================================================================
