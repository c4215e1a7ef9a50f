------------------------- MODULE Utf8Builder_proofs -------------------------
(***************************************************************************)
(* Proofs that the encoder of yapic/string-builder.hpp is right for every  *)
(* code point but U+0080, that its size function never promises too        *)
(* little, and that a Utf8BytesBuilder never writes behind its storage, if *)
(* its callers ask as those of the str builders must, and append no str    *)
(* that has one byte for each code point and is not ASCII; and that it     *)
(* implements TextBuilder, when what is appended can be read piece by      *)
(* piece.                                                                  *)
(***************************************************************************)
EXTENDS Utf8Builder, SequenceTheorems, WellFoundedInduction, TLAPS

(* The lowest digit of a number in base 64, and the rest of it.            *)
LEMMA Digit ==
  ASSUME NEW n \in Nat
  PROVE  /\ n \div 64 \in Nat
         /\ Continues(Continuation(n))
         /\ n = Shifted(n \div 64, Continuation(n))
<1>1. n \div 64 \in Nat /\ n % 64 \in 0..63 /\ n = (n \div 64) * 64 + (n % 64)
  BY SMT
<1> QED
  BY SMT, <1>1 DEF Continuation, Continues, Shifted

(* Shifting by 12 and by 18 bits is shifting by 6 bits again.              *)
LEMMA Shifts ==
  ASSUME NEW n \in Nat
  PROVE  /\ n \div 4096 = (n \div 64) \div 64
         /\ n \div 262144 = (n \div 4096) \div 64
BY SMT

(* A code point is a number below 2 ^ 21.                                  *)
LEMMA PointBound ==
  ASSUME NEW ch \in CodePoints
  PROVE  ch \in Nat /\ ch < 32 * 65536
<1>1. MaxCodePoint \in Int
  BY SMT DEF MaxCodePoint
<1>2. ch \in Nat /\ ch <= MaxCodePoint
  BY SMT, <1>1 DEF CodePoints
<1> QED
  BY SMT, <1>2 DEF MaxCodePoint

(* Every code point but U+0080 is written as its UTF-8 form.               *)
THEOREM EncodesUtf8 ==
  ASSUME NEW ch \in CodePoints, ch # 128
  PROVE  EncodedRight(ch)
<1> DEFINE a == ch \div 64
           b == ch \div 4096
           c == ch \div 262144
<1>1. ch \in Nat /\ ch < 32 * 65536
  BY SMT, PointBound
<1>2. /\ a \in Nat
      /\ Continues(Continuation(ch))
      /\ ch = Shifted(a, Continuation(ch))
  BY SMT, <1>1, Digit
<1>3. /\ b = a \div 64
      /\ c = b \div 64
  BY SMT, <1>1, Shifts
<1> HIDE DEF a, b, c
<1>4. /\ b \in Nat
      /\ Continues(Continuation(a))
      /\ a = Shifted(b, Continuation(a))
  BY SMT, <1>2, <1>3, Digit
<1>5. /\ c \in Nat
      /\ Continues(Continuation(b))
      /\ b = Shifted(c, Continuation(b))
  BY SMT, <1>3, <1>4, Digit
<1>6. CASE ch < 128
  <2>1. Encode(ch) = <<ch>>
    BY SMT, <1>1, <1>6 DEF Encode
  <2> QED
    BY SMT, <1>1, <1>6, <2>1 DEF EncodedRight, Decodes
<1>7. CASE ch > 128 /\ ch < 2048
  <2>1. Encode(ch) = <<192 + a, Continuation(ch)>>
    BY SMT, <1>1, <1>7 DEF Encode, a
  <2>2. a < 32
    BY SMT, <1>1, <1>7 DEF a
  <2>3. 192 + a \in 192..223 /\ (192 + a) - 192 = a
    BY SMT, <1>2, <2>2
  <2>4. Len(Encode(ch)) = 2 /\ Encode(ch)[1] = 192 + a /\ Encode(ch)[2] = Continuation(ch)
    BY SMT, <2>1
  <2> QED
    BY SMT, <1>1, <1>2, <1>7, <2>3, <2>4 DEF EncodedRight, Decodes
<1>8. CASE ch >= 2048 /\ ch < 65536
  <2>1. Encode(ch) = <<224 + b, Continuation(a), Continuation(ch)>>
    BY SMT, <1>1, <1>8 DEF Encode, a, b
  <2>2. b < 16
    BY SMT, <1>1, <1>8 DEF b
  <2>3. 224 + b \in 224..239 /\ (224 + b) - 224 = b
    BY SMT, <1>4, <2>2
  <2>4. /\ Len(Encode(ch)) = 3
        /\ Encode(ch)[1] = 224 + b
        /\ Encode(ch)[2] = Continuation(a)
        /\ Encode(ch)[3] = Continuation(ch)
    BY SMT, <2>1
  <2> QED
    BY SMT, <1>1, <1>2, <1>4, <1>8, <2>3, <2>4 DEF EncodedRight, Decodes
<1>9. CASE ch >= 65536
  <2>1. Encode(ch) = <<240 + c, Continuation(b), Continuation(a), Continuation(ch)>>
    BY SMT, <1>1, <1>9 DEF Encode, a, b, c
  <2>2. c < 8
    BY SMT, <1>1 DEF c
  <2>3. 240 + c \in 240..247 /\ (240 + c) - 240 = c
    BY SMT, <1>5, <2>2
  <2>4. /\ Len(Encode(ch)) = 4
        /\ Encode(ch)[1] = 240 + c
        /\ Encode(ch)[2] = Continuation(b)
        /\ Encode(ch)[3] = Continuation(a)
        /\ Encode(ch)[4] = Continuation(ch)
    BY SMT, <2>1
  <2> QED
    BY SMT, <1>1, <1>2, <1>4, <1>5, <1>9, <2>3, <2>4 DEF EncodedRight, Decodes
<1> QED
  BY SMT, <1>1, <1>6, <1>7, <1>8, <1>9

(* EncodedCharSize covers what is written, U+0080 included.                *)
THEOREM SizeIsEnough ==
  ASSUME NEW ch \in CodePoints
  PROVE  SizeCovers(ch)
<1>1. ch \in Nat
  BY SMT, PointBound
<1> QED
  BY SMT, <1>1 DEF SizeCovers, Encode, EncodedCharSize
-----------------------------------------------------------------------------
(* What is written for a code point are one to four bytes.                 *)
LEMMA EncodedBytes ==
  ASSUME NEW ch \in CodePoints
  PROVE  Encode(ch) \in Seq(Byte) /\ Len(Encode(ch)) \in 1..4
<1>1. ch \in Nat /\ ch < 32 * 65536
  BY PointBound
<1>2. /\ Continuation(ch) \in Byte /\ Continuation(ch \div 64) \in Byte
      /\ Continuation(ch \div 4096) \in Byte
  BY <1>1 DEF Continuation, Byte
<1>3. CASE ch <= 128
  <2>1. ch \in Byte
    BY <1>1, <1>3 DEF Byte
  <2> QED
    BY <1>1, <1>3, <2>1 DEF Encode
<1>4. CASE ch > 128 /\ ch < 2048
  <2>1. 192 + (ch \div 64) \in Byte
    BY <1>1, <1>4 DEF Byte
  <2> QED
    BY <1>1, <1>2, <1>4, <2>1 DEF Encode
<1>5. CASE ch >= 2048 /\ ch < 65536
  <2>1. 224 + (ch \div 4096) \in Byte
    BY <1>1, <1>5 DEF Byte
  <2> QED
    BY <1>1, <1>2, <1>5, <2>1 DEF Encode
<1>6. CASE ch >= 65536
  <2>1. 240 + (ch \div 262144) \in Byte
    BY <1>1, <1>6 DEF Byte
  <2> QED
    BY <1>1, <1>2, <1>6, <2>1 DEF Encode
<1> QED
  BY <1>1, <1>3, <1>4, <1>5, <1>6

(* What a piece consists of, and what its size is reckoned to be.          *)
LEMMA PieceFacts ==
  ASSUME NEW p \in Pieces
  PROVE  /\ p # NoPiece
         /\ p.by \in Encoded =>
              /\ p.points \in Seq(CodePoints)
              /\ PerPoint(p) \in 1..4
              /\ Required(p) = Len(p.points) * PerPoint(p)
         /\ p.by \in Copied =>
              p.points \in Seq(Byte) /\ Required(p) = Len(p.points)
         /\ Len(p.points) \in Nat /\ Required(p) \in Nat
<1>1. p \in Piece
  BY Utf8BuilderAssumption
<1>2. \/ p.by \in Encoded /\ p.points \in Seq(CodePoints)
      \/ p.by \in Copied /\ p.points \in Seq(Byte)
  BY <1>1 DEF Piece
<1>3. Len(p.points) \in Nat
  BY <1>2
<1>4. p # NoPiece
  BY <1>2 DEF NoPiece, Encoded, Copied
<1>5. CASE p.by \in Encoded
  <2>1. PerPoint(p) \in 1..4
    BY DEF PerPoint, EncodedCharSize, BytesPerPoint
  <2>2. CASE p.by = "char"
    <3>1. Len(p.points) = 1
      BY <2>2, Utf8BuilderAssumption
    <3> QED
      BY <1>2, <1>3, <1>4, <1>5, <2>1, <2>2, <3>1 DEF Required, PerPoint, Encoded, Copied
  <2>3. CASE p.by = "str"
    <3>1. Required(p) = Len(p.points) * PerPoint(p)
      BY <2>3 DEF Required, PerPoint
    <3>2. p.points \in Seq(CodePoints)
      BY <1>2, <2>3 DEF Copied
    <3>3. Len(p.points) * PerPoint(p) \in Nat
      BY <1>3, <2>1
    <3> QED
      BY <1>3, <1>4, <1>5, <2>1, <2>3, <3>1, <3>2, <3>3 DEF Copied
  <2> QED
    BY <1>5, <2>2, <2>3 DEF Encoded
<1>6. CASE p.by \in Copied
  <2>1. Required(p) = Len(p.points)
    BY <1>6 DEF Required, Copied
  <2> QED
    BY <1>2, <1>3, <1>4, <1>6, <2>1 DEF Encoded, Copied
<1> QED
  BY <1>2, <1>5, <1>6

(* No code point takes more than was reckoned for each.                    *)
LEMMA PointFits ==
  ASSUME NoLatin1Str, NEW p \in Pieces, p.by \in Encoded, NEW i \in 1..Len(p.points)
  PROVE  /\ p.points[i] \in CodePoints
         /\ Len(Encode(p.points[i])) <= PerPoint(p)
<1>1. p.points \in Seq(CodePoints)
  BY PieceFacts
<1>2. DOMAIN p.points = 1..Len(p.points) /\ p.points[i] \in CodePoints /\ p.points[i] \in Nat
  BY <1>1, PointBound
<1> DEFINE ch == p.points[i]
<1>3. Len(Encode(ch)) = IF ch <= 128 THEN 1 ELSE IF ch < 2048 THEN 2 ELSE IF ch < 65536 THEN 3 ELSE 4
  BY <1>2 DEF Encode
<1>4. CASE p.by = "char"
  <2>1. Len(p.points) = 1
    BY <1>4, Utf8BuilderAssumption
  <2>2. i = 1
    BY <2>1
  <2>3. SizeCovers(ch)
    BY <1>2, SizeIsEnough
  <2> QED
    BY <1>2, <1>4, <2>2, <2>3 DEF PerPoint, SizeCovers
<1>5. CASE p.by = "str"
  <2>1. PerPoint(p) = BytesPerPoint(p.points)
    BY <1>5 DEF PerPoint
  <2>2. AtMost(p.points, 255) => ch <= 127
    BY <1>2, <1>5 DEF NoLatin1Str, AtMost
  <2>3. AtMost(p.points, 65535) => ch <= 65535
    BY <1>2 DEF AtMost
  <2> QED
    BY <1>2, <1>3, <2>1, <2>2, <2>3 DEF BytesPerPoint
<1> QED
  BY <1>4, <1>5 DEF Encoded

(* Storage operations: how long the storage is after them.                 *)
LEMMA WrittenStorage ==
  ASSUME cells \in Seq(Byte \cup {Junk}), used \in Nat, NEW s \in Seq(Byte)
  PROVE  Written(s) \in Seq(Byte \cup {Junk}) /\ Len(Written(s)) = Size
<1>1. Size \in Nat
  BY DEF Size
<1>2. ASSUME NEW i \in 1..Size
      PROVE  (IF i \in used + 1..used + Len(s) THEN s[i - used] ELSE cells[i])
                \in Byte \cup {Junk}
  <2>1. CASE i \in used + 1..used + Len(s)
    <3>1. i - used \in 1..Len(s)
      BY <2>1
    <3> QED
      BY <2>1, <3>1
  <2>2. CASE i \notin used + 1..used + Len(s)
    BY <1>2, <2>2 DEF Size
  <2> QED
    BY <2>1, <2>2
<1> QED
  BY <1>1, <1>2 DEF Written

(* The new object is as long as was asked for.                             *)
LEMMA MovedStorage ==
  ASSUME cells \in Seq(Byte \cup {Junk}), used \in Nat, used <= Size, NEW n \in Nat
  PROVE  Moved(n) \in Seq(Byte \cup {Junk}) /\ Len(Moved(n)) = n
<1>1. \A i \in 1..n : (IF i <= used THEN cells[i] ELSE Junk) \in Byte \cup {Junk}
  BY DEF Size
<1> QED
  BY <1>1 DEF Moved

-----------------------------------------------------------------------------
(* A new builder has no object.                                            *)
LEMMA InitInv == Init => Inv
<1> SUFFICES ASSUME Init PROVE Inv
  OBVIOUS
<1>1. cells = <<>> /\ Size = 0 /\ FreeSize = 0
  BY DEF Init, BytesMemoryInit, Size, FreeSize
<1>2. TypeOK
  BY <1>1 DEF Init, BytesMemoryInit, TypeOK, BytesMemoryTypeOK, StorageTypeOK, Places
<1>3. AllWritten
  BY DEF Init, BytesMemoryInit, AllWritten
<1> QED
  BY <1>1, <1>2, <1>3 DEF Init, BytesMemoryInit, Inv, InBounds, SizeSuffices, Growing

(* The numbers, and what the invariant says of them.                       *)
LEMMA Numbers ==
  ASSUME Inv
  PROVE  /\ Size \in Nat /\ used \in Nat /\ need \in Nat /\ free \in Nat /\ room \in Nat
         /\ data \in Nat
         /\ used <= Size /\ FreeSize = Size - used /\ FreeSize \in Nat /\ room <= FreeSize
BY DEF Inv, InBounds, TypeOK, BytesMemoryTypeOK, StorageTypeOK, Size, FreeSize

(* What is before the cursor stays written.                                *)
LEMMA SameWritten ==
  ASSUME Inv, used' = used, \A i \in 1..used : cells'[i] = cells[i]
  PROVE  AllWritten'
BY DEF Inv, AllWritten

(* And what is written behind it is written.                               *)
LEMMA MoreWritten ==
  ASSUME Inv, NEW s \in Seq(Byte), cells' = Written(s), used' = used + Len(s), used' <= Size
  PROVE  AllWritten'
<1> SUFFICES ASSUME NEW i \in 1..used + Len(s) PROVE cells'[i] \in Byte
  BY DEF AllWritten
<1>1. used \in Nat /\ Len(s) \in Nat /\ Size \in Nat
  BY Numbers
<1>2. i \in 1..Size
  BY <1>1
<1>3. CASE i \in 1..used
  <2>1. i \notin used + 1..used + Len(s)
    BY <1>1, <1>3
  <2> QED
    BY <1>2, <1>3, <2>1 DEF Written, Inv, AllWritten
<1>4. CASE i \notin 1..used
  <2>1. i \in used + 1..used + Len(s) /\ i - used \in 1..Len(s)
    BY <1>1, <1>4
  <2>2. cells'[i] = s[i - used]
    BY <1>2, <2>1 DEF Written
  <2> QED
    BY <2>1, <2>2
<1> QED
  BY <1>3, <1>4

(* What is not a number.                                                   *)
LEMMA Types ==
  ASSUME Inv
  PROVE  /\ cells \in Seq(Byte \cup {Junk}) /\ place \in Places
         /\ task \in Pieces \cup {NoPiece}
         /\ release \in BOOLEAN
         /\ made = Nothing \/ made \in Seq(Byte)
BY DEF Inv, TypeOK, BytesMemoryTypeOK, StorageTypeOK

(* EnsureSize begins, for the program or for a piece.                      *)
LEMMA EnsureSizeInv ==
  ASSUME Obliging, Inv, NEW n \in Nat, Asks(n),
         EnsureSize(n), task' \in Pieces \cup {NoPiece},
         task' # NoPiece => n = Required(task'),
         UNCHANGED <<data, room, made>>
  PROVE  Inv'
<1>1. /\ cells' = cells /\ used' = used /\ place' = place /\ need' = n
      /\ Size' = Size /\ FreeSize' = FreeSize /\ release' = release /\ pc = "ready"
  BY DEF EnsureSize, Size, FreeSize
<1>2. place = "none" => used = 0 /\ Size = 0
  BY <1>1 DEF Inv, SizeSuffices
<1>3. /\ pc' \in Growing
      /\ free' \in Nat
      /\ pc' = "ensured" => n <= FreeSize
      /\ pc' = "doubling" => (used = 0 \/ used + n <= free') /\ Size <= free'
      /\ pc' = "resize" => used + n <= free' /\ Size <= free'
      /\ pc' # "resize" => place = "bytes"
  <2>1. CASE place = "none" /\ pc' = "resize" /\ free' = n
    BY <1>2, <2>1 DEF Growing
  <2>2. CASE place = "bytes" /\ FreeSize >= n /\ pc' = "ensured" /\ free' = FreeSize
    BY <2>2, Numbers DEF Growing
  <2>3. CASE place = "bytes" /\ FreeSize < n /\ release /\ pc' = "doubling" /\ free' = 2 * Size
    <3>1. used = 0 \/ n <= Size
      BY <2>3 DEF Asks, DoublingSuffices, Obliging
    <3> QED
      BY <2>3, <3>1, Numbers DEF Growing
  <2>4. CASE FreeSize < n /\ pc' = "resize" /\ free' = Size + (n - FreeSize)
    BY <2>4, Numbers DEF Growing
  <2> QED
    BY <2>1, <2>2, <2>3, <2>4 DEF EnsureSize, MakeRoom
<1>4. TypeOK'
  BY <1>1, <1>3 DEF Inv, TypeOK, BytesMemoryTypeOK, StorageTypeOK, Places, Growing
<1>5. data = 0
  BY <1>1 DEF Inv, SizeSuffices
<1>6. SizeSuffices'
  BY <1>1, <1>2, <1>3, <1>5 DEF SizeSuffices, Growing
<1> QED
  BY <1>1, <1>4, <1>6, Numbers, SameWritten DEF Inv, InBounds

(* A step of EnsureSize.                                                   *)
LEMMA GrowInv ==
  ASSUME Inv, Grow
  PROVE  Inv'
<1>1. UNCHANGED <<task, data, room, made, release>>
  BY DEF Grow, Double, Resize, ResizeFails
<1>2. CASE Double
  <2>1. /\ cells' = cells /\ used' = used /\ place' = place /\ need' = need
        /\ Size' = Size /\ FreeSize' = FreeSize
        /\ pc = "doubling" /\ pc' \in {"doubling", "resize"} /\ free' \in Nat /\ free <= free'
        /\ pc' = "resize" => need <= free'
    BY <1>2, Numbers DEF Double, Size, FreeSize
  <2>2. (used = 0 \/ used + need <= free) /\ Size <= free /\ data = 0
        /\ (task # NoPiece => need = Required(task))
        /\ place = "bytes"
    BY <2>1 DEF Inv, SizeSuffices, Growing
  <2>3. (used = 0 \/ used + need <= free') /\ Size <= free'
    BY <2>1, <2>2, Numbers
  <2>4. pc' = "resize" => used + need <= free'
    BY <2>1, <2>3, Numbers
  <2>5. SizeSuffices'
    BY <1>1, <2>1, <2>2, <2>3, <2>4 DEF SizeSuffices, Growing
  <2>6. TypeOK'
    BY <1>1, <2>1 DEF Inv, TypeOK, BytesMemoryTypeOK, StorageTypeOK, Places
  <2> QED
    BY <1>1, <2>1, <2>5, <2>6, Numbers, SameWritten DEF Inv, InBounds
<1>3. CASE Resize
  <2>1. /\ used' = used /\ need' = need /\ free' = free
        /\ place' = "bytes" /\ pc' = "ensured" /\ data = 0
        /\ used + need <= free /\ Size <= free
        /\ task # NoPiece => need = Required(task)
    BY <1>3 DEF Resize, Inv, SizeSuffices, Growing
  <2>2. cells' \in Seq(Byte \cup {Junk}) /\ Size' = free
    BY <1>3, Numbers, Types, MovedStorage DEF Resize, Size
  <2>3. FreeSize' = free - used
    BY <2>1, <2>2 DEF FreeSize
  <2>4. SizeSuffices'
    BY <1>1, <2>1, <2>2, <2>3, Numbers DEF SizeSuffices, Growing
  <2>5. TypeOK'
    BY <1>1, <2>1, <2>2 DEF Inv, TypeOK, BytesMemoryTypeOK, StorageTypeOK, Places
  <2>6. AllWritten'
    <3>1. \A i \in 1..used : cells'[i] = cells[i]
      BY <1>3, <2>1, Numbers DEF Resize, Moved
    <3> QED
      BY <2>1, <3>1, SameWritten
  <2> QED
    BY <1>1, <2>1, <2>2, <2>3, <2>4, <2>5, <2>6, Numbers DEF Inv, InBounds
<1>4. CASE ResizeFails
  <2>1. /\ cells' = cells /\ used' = used /\ need' = need /\ free' = free
        /\ place' = "none" /\ pc' = "failed" /\ data = 0
        /\ Size' = Size /\ FreeSize' = FreeSize
    BY <1>4 DEF ResizeFails, Size, FreeSize, Inv, SizeSuffices
  <2>2. SizeSuffices'
    BY <1>1, <2>1 DEF SizeSuffices, Growing
  <2>3. TypeOK'
    BY <1>1, <2>1 DEF Inv, TypeOK, BytesMemoryTypeOK, StorageTypeOK, Places
  <2> QED
    BY <1>1, <2>1, <2>2, <2>3, Numbers, SameWritten DEF Inv, InBounds
<1> QED
  BY <1>2, <1>3, <1>4 DEF Grow

(* An append begins, in room that is enough for it.                        *)
LEMMA PutInv ==
  ASSUME Inv, NEW p \in Pieces, Required(p) <= FreeSize, Put(p), place = "bytes", data = 0,
         need' \in Nat, free' \in Nat
  PROVE  Inv'
<1> DEFINE n == Required(p)
<1>1. n \in Nat /\ Len(p.points) \in Nat /\ p # NoPiece
  BY PieceFacts
<1>2. /\ room' = IF room >= n THEN room - n ELSE 0
      /\ place' = "bytes" /\ made' = made /\ release' = release /\ data' = 0
  BY DEF Put
<1> HIDE DEF n
<1>3. room' \in Nat /\ room' + n <= FreeSize
  <2>1. CASE room >= n
    <3>1. room' = room - n
      BY <1>2, <2>1
    <3> QED
      BY <1>1, <2>1, <3>1, Numbers
  <2>2. CASE ~(room >= n)
    <3>1. room' = 0
      BY <1>2, <2>2
    <3> QED
      BY <1>1, <3>1, Numbers DEF n
  <2> QED
    BY <2>1, <2>2
<1>4. CASE Copy(p)
  <2>1. p.points \in Seq(Byte) /\ n = Len(p.points)
    BY <1>4, PieceFacts DEF Copy, n
  <2>2. cells' \in Seq(Byte \cup {Junk}) /\ Size' = Size
    BY <1>4, <2>1, Numbers, Types, WrittenStorage DEF Copy, Size
  <2>3. used' = used + n /\ task' = NoPiece /\ pc' = "ready"
    BY <1>4, <2>1 DEF Copy
  <2>4. FreeSize' = FreeSize - n
    BY <1>1, <2>2, <2>3, Numbers DEF FreeSize
  <2>5. used' \in Nat /\ used' <= Size' /\ room' <= FreeSize'
    <3>1. n <= Size - used
      BY <1>1, <1>3, Numbers
    <3>2. used' \in Nat /\ used' <= Size'
      BY <1>1, <2>2, <2>3, <3>1, Numbers
    <3>3. room' <= FreeSize'
      BY <1>1, <1>3, <2>4, Numbers
    <3> QED
      BY <3>2, <3>3
  <2>6. TypeOK'
    BY <1>2, <1>3, <2>2, <2>3, <2>5, Types DEF TypeOK, BytesMemoryTypeOK, StorageTypeOK, Places
  <2>7. SizeSuffices'
    BY <1>2, <2>3 DEF SizeSuffices, Growing
  <2>8. AllWritten'
    BY <1>4, <2>1, <2>2, <2>5, MoreWritten DEF Copy
  <2> QED
    BY <2>5, <2>6, <2>7, <2>8 DEF Inv, InBounds
<1>5. CASE Encoding(p)
  <2>1. /\ p.by \in Encoded /\ task' = p /\ pc' = "writing" /\ cells' = cells /\ used' = used
        /\ Size' = Size /\ FreeSize' = FreeSize
    BY <1>5 DEF Encoding, Size, FreeSize
  <2>2. n = Len(p.points) * PerPoint(p)
    BY <2>1, PieceFacts DEF n
  <2>3. PerPoint(task') = PerPoint(p) /\ Len(p.points) - 0 = Len(p.points)
    BY <1>1, <2>1
  <2>4. TypeOK'
    BY <1>2, <1>3, <2>1, Numbers, Types DEF TypeOK, BytesMemoryTypeOK, StorageTypeOK, Places
  <2>5. room' + (Len(task'.points) - data') * PerPoint(p) <= FreeSize'
    BY <1>2, <1>3, <2>1, <2>2, <2>3
  <2>6. PerPoint(task)' = PerPoint(p)
    BY <2>1
  <2>7. SizeSuffices'
    BY <1>1, <1>2, <2>1, <2>5, <2>6, Numbers DEF SizeSuffices, Growing
  <2>8. room' <= FreeSize'
    BY <1>1, <1>3, <2>1, Numbers
  <2> QED
    BY <2>1, <2>4, <2>7, <2>8, Numbers, SameWritten DEF Inv, InBounds
<1> QED
  BY <1>4, <1>5 DEF Put

(* EnsureSize has returned, and the append, if any, has its room.          *)
LEMMA EnsuredInv ==
  ASSUME Inv, Ensured
  PROVE  Inv'
<1>1. /\ pc = "ensured" /\ need' = 0 /\ free' = 0 /\ data = 0 /\ need <= FreeSize
      /\ task # NoPiece => need = Required(task)
  BY DEF Ensured, Inv, SizeSuffices, Growing
<1>2. CASE /\ task = NoPiece
           /\ room' = IF room >= need THEN room ELSE need
           /\ pc' = "ready"
           /\ UNCHANGED <<release, cells, used, place, task, data, made>>
  <2>1. Size' = Size /\ FreeSize' = FreeSize /\ room' \in Nat /\ room' <= FreeSize
    BY <1>1, <1>2, Numbers DEF Size, FreeSize
  <2>2. TypeOK'
    BY <1>1, <1>2, <2>1 DEF Inv, TypeOK, BytesMemoryTypeOK, StorageTypeOK, Places
  <2>3. SizeSuffices'
    BY <1>1, <1>2, <2>1 DEF Inv, SizeSuffices, Growing
  <2> QED
    BY <1>2, <2>1, <2>2, <2>3, Numbers, SameWritten DEF Inv, InBounds
<1>3. CASE task # NoPiece /\ Put(task)
  <2>1. task \in Pieces
    BY <1>3, Types
  <2>2. place = "bytes"
    BY <1>1 DEF Inv, SizeSuffices
  <2> QED
    BY <1>1, <1>3, <2>1, <2>2, PutInv
<1> QED
  BY <1>2, <1>3 DEF Ensured

(* An append without a check uses room that was promised.                  *)
LEMMA AppendFastInv ==
  ASSUME Inv, NEW p \in Pieces, AppendFast(p)
  PROVE  Inv'
<1>1. /\ pc = "ready" /\ place = "bytes" /\ Required(p) <= room /\ Put(p)
      /\ need' = need /\ free' = free
  BY DEF AppendFast
<1>2. data = 0
  BY <1>1 DEF Inv, SizeSuffices
<1>3. Required(p) <= FreeSize
  BY <1>1, PieceFacts, Numbers
<1> QED
  BY <1>1, <1>2, <1>3, PutInv, Numbers

(* A code point is written: there was room for it.                         *)
LEMMA AppendCharInv ==
  ASSUME NoLatin1Str, Inv, AppendChar3
  PROVE  Inv'
<1> DEFINE bytes == Encode(task.points[data + 1])
           n == Len(bytes)
           left == Len(task.points) - data
           w == PerPoint(task)
<1>1. /\ pc = "writing" /\ task \in Pieces /\ task.by \in Encoded
      /\ room + left * w <= FreeSize /\ data < Len(task.points)
      /\ place = "bytes"
  BY DEF AppendChar3, Inv, SizeSuffices
<1>2. Len(task.points) \in Nat /\ left \in Nat /\ left >= 1 /\ w \in 1..4
  <2>1. Len(task.points) \in Nat /\ w \in 1..4
    BY <1>1, PieceFacts
  <2> QED
    BY <1>1, <2>1, Numbers
<1>3. data + 1 \in 1..Len(task.points)
  BY <1>1, <1>2, Numbers
<1>4. task.points[data + 1] \in CodePoints /\ n <= w
  BY <1>1, <1>3, PointFits
<1>5. bytes \in Seq(Byte) /\ n \in 1..4
  BY <1>4, EncodedBytes
<1>6. /\ cells' = Written(bytes) /\ used' = used + n /\ data' = data + 1
      /\ UNCHANGED <<release, place, pc, need, free, task, room, made>>
  BY DEF AppendChar3
<1>7. w' = w
  BY <1>6
<1>19. left = Len(task.points) - data
  OBVIOUS
<1> HIDE DEF bytes, n, left, w
<1>8. cells' \in Seq(Byte \cup {Junk}) /\ Size' = Size
  BY <1>5, <1>6, Numbers, Types, WrittenStorage DEF Size
<1>9. FreeSize' = FreeSize - n
  BY <1>5, <1>6, <1>8, Numbers DEF FreeSize
<1>10. left * w = (left - 1) * w + w /\ (left - 1) * w \in Nat
  <2>1. w = 1 \/ w = 2 \/ w = 3 \/ w = 4
    BY <1>2
  <2> QED
    BY <1>2, <2>1
<1>11. room + (left - 1) * w <= FreeSize'
  BY SMTT(30), <1>1, <1>2, <1>4, <1>5, <1>9, <1>10, Numbers
<1>12. Len(task'.points) - data' = left - 1
  <2>1. Len(task'.points) = Len(task.points) /\ data' = data + 1
    BY <1>6
  <2>2. Len(task.points) \in Int /\ data \in Int
    BY <1>2, Numbers
  <2>3. Len(task.points) - (data + 1) = (Len(task.points) - data) - 1
    BY ONLY <2>2
  <2> QED
    BY ONLY <1>19, <2>1, <2>3
<1>13. /\ used' \in Nat /\ used' <= Size' /\ room' <= FreeSize' /\ room' = room
       /\ data' \in Nat /\ data' <= Len(task'.points)
  <2>1. room <= FreeSize'
    BY <1>10, <1>11, Numbers, <1>9, <1>5
  <2>2. n <= FreeSize
    BY <1>1, <1>2, <1>4, <1>5, <1>10, Numbers
  <2>3. used' \in Nat /\ used' <= Size'
    BY SMTT(30), <1>5, <1>6, <1>8, <2>2, Numbers
  <2>4. data' \in Nat /\ data' <= Len(task'.points)
    BY <1>3, <1>6, Numbers
  <2> QED
    BY <1>6, <2>1, <2>3, <2>4
<1>14. TypeOK'
  BY <1>6, <1>8, <1>13 DEF Inv, TypeOK, BytesMemoryTypeOK, StorageTypeOK, Places
<1>15. PerPoint(task)' = w
  BY <1>7 DEF w
<1>16. room' + (Len(task'.points) - data') * PerPoint(task)' <= FreeSize'
  BY <1>11, <1>12, <1>13, <1>15
<1>17. place' = "bytes"
  BY <1>1, <1>6
<1>18. SizeSuffices'
  BY <1>1, <1>6, <1>13, <1>16, <1>17 DEF SizeSuffices, Growing
<1>20. AllWritten'
  BY <1>5, <1>6, <1>8, <1>13, MoreWritten DEF n
<1> QED
  BY <1>13, <1>14, <1>18, <1>20 DEF Inv, InBounds

(* All code points are written.                                            *)
LEMMA AppendedInv ==
  ASSUME Inv, Appended
  PROVE  Inv'
<1>1. /\ UNCHANGED <<release, cells, used, place, need, free, room, made>>
      /\ data' = 0 /\ task' = NoPiece /\ pc' = "ready" /\ pc = "writing"
      /\ Size' = Size /\ FreeSize' = FreeSize
  BY DEF Appended, Size, FreeSize
<1>2. TypeOK'
  BY <1>1 DEF Inv, TypeOK, BytesMemoryTypeOK, StorageTypeOK, Places
<1>3. SizeSuffices'
  BY <1>1 DEF Inv, SizeSuffices, Growing
<1> QED
  BY <1>1, <1>2, <1>3, SameWritten DEF Inv, InBounds

(* The builder is empty again.                                             *)
LEMMA ResetInv ==
  ASSUME Inv, Reset, pc' = "ready", need' \in Nat, free' \in Nat, release' = release,
         task' \in Pieces \cup {NoPiece}, data' = 0, room' = 0,
         made' = Nothing \/ made' \in Seq(Byte)
  PROVE  Inv'
<1>1. cells' = <<>> /\ used' = 0 /\ place' = "none" /\ Size' = 0 /\ FreeSize' = 0
  BY DEF Reset, Size, FreeSize
<1>2. TypeOK'
  BY <1>1, Types DEF TypeOK, BytesMemoryTypeOK, StorageTypeOK, Places
<1>3. SizeSuffices'
  BY <1>1 DEF SizeSuffices, Growing
<1>4. AllWritten'
  BY <1>1 DEF AllWritten
<1> QED
  BY <1>1, <1>2, <1>3, <1>4 DEF Inv, InBounds

(* The object is handed out, as far as it is written.                      *)
LEMMA ToPythonInv ==
  ASSUME Inv, ToPython
  PROVE  Inv'
<1>1. Stored \in Seq(Byte)
  <2>1. Stored = [i \in 1..used |-> cells[i]]
    BY Numbers, Types DEF Stored, Size
  <2> QED
    BY <2>1, Numbers DEF Inv, AllWritten
<1>2. data = 0
  BY DEF ToPython, Inv, SizeSuffices
<1>3. made' = Nothing \/ made' \in Seq(Byte)
  BY <1>1 DEF ToPython
<1> QED
  BY <1>2, <1>3, ResetInv, Numbers, Types DEF ToPython

-----------------------------------------------------------------------------
(* A builder stays what it is in the build that it is in.                  *)
LEMMA SameBuild == [Next]_vars => release' = release
BY DEF Next, vars, storageVars, Reserve, AppendSafe, AppendFast, Grow, Ensured, AppendChar3,
       Appended, ToPython, Discard, EnsureSize, Put, Double, Resize, ResizeFails

(* Every step of careful callers keeps the invariant; in the other build,  *)
(* of any callers.                                                         *)
LEMMA NextInv == Obliging /\ NoLatin1Str /\ Inv /\ [Next]_vars => Inv'
<1> SUFFICES ASSUME Obliging, NoLatin1Str, Inv, [Next]_vars PROVE Inv'
  OBVIOUS
<1>1. CASE UNCHANGED vars
  BY <1>1 DEF vars, storageVars, Inv, TypeOK, BytesMemoryTypeOK, StorageTypeOK, InBounds,
              SizeSuffices, AllWritten, Size, FreeSize
<1>2. ASSUME NEW n \in Reserves, Reserve(n) PROVE Inv'
  <2>1. n \in Nat
    BY Utf8BuilderAssumption
  <2> QED
    BY <1>2, <2>1, EnsureSizeInv DEF Reserve
<1>3. ASSUME NEW p \in Pieces, AppendSafe(p) PROVE Inv'
  BY <1>3, EnsureSizeInv, PieceFacts DEF AppendSafe
<1>4. ASSUME NEW p \in Pieces, AppendFast(p) PROVE Inv'
  BY <1>4, AppendFastInv
<1>5. CASE Grow
  BY <1>5, GrowInv
<1>6. CASE Ensured
  BY <1>6, EnsuredInv
<1>7. CASE AppendChar3
  BY <1>7, AppendCharInv
<1>8. CASE Appended
  BY <1>8, AppendedInv
<1>9. CASE ToPython
  BY <1>9, ToPythonInv
<1>10. CASE Discard
  BY <1>10, ResetInv DEF Discard
<1> QED
  BY <1>1, <1>2, <1>3, <1>4, <1>5, <1>6, <1>7, <1>8, <1>9, <1>10 DEF Next

(* With careful callers every reachable state satisfies the inductive      *)
(* invariant.                                                              *)
THEOREM Invariance == ASSUME Careful, NoLatin1Str PROVE Spec => []Inv
<1>1. Inv /\ [Next]_vars => Inv'
  BY NextInv DEF Obliging
<1> QED
  BY InitInv, <1>1, PTL DEF Spec

(* Without NDEBUG the size is computed from what is stored and what is     *)
(* asked for: then callers need not be careful, but for Latin-1.           *)
THEOREM DebugInvariance == ASSUME NoLatin1Str PROVE Spec /\ ~release => [](Inv /\ ~release)
<1>1. Inv /\ ~release /\ [Next]_vars => Inv' /\ ~release'
  BY NextInv, SameBuild DEF Obliging
<1> QED
  BY InitInv, <1>1, PTL DEF Spec

(* Then the cursor never passes the end of the bytes object.               *)
THEOREM CursorInBounds == ASSUME Careful, NoLatin1Str PROVE Spec => []InBounds
<1>1. Inv => InBounds
  BY DEF Inv
<1> QED
  BY <1>1, Invariance, PTL

(* Then the room that EnsureSize promised lasts, by the sizes that the     *)
(* builder itself reckons.                                                 *)
THEOREM PromiseKept == ASSUME Careful, NoLatin1Str PROVE Spec => []RoomIsKept
<1>1. Inv => RoomIsKept
  BY DEF Inv, RoomIsKept
<1> QED
  BY <1>1, Invariance, PTL

(* And what is made is made of bytes that were written.                    *)
THEOREM TypeCorrect == ASSUME Careful, NoLatin1Str PROVE Spec => []TypeOK
<1>1. Inv => TypeOK
  BY DEF Inv
<1> QED
  BY <1>1, Invariance, PTL

-----------------------------------------------------------------------------
(* What is written behind the text, and what that leaves of the text.      *)
LEMMA WrittenBytes ==
  ASSUME Inv, NEW s \in Seq(Byte), cells' = Written(s), used + Len(s) <= Size
  PROVE  /\ SubSeq(cells', 1, used) = Stored
         /\ SubSeq(cells', used + 1, used + Len(s)) = s
<1> DEFINE n == Len(s)
<1>1. /\ used \in Nat /\ n \in Nat /\ Size \in Nat /\ used + n <= Size
      /\ cells \in Seq(Byte \cup {Junk}) /\ cells' \in Seq(Byte \cup {Junk}) /\ Len(cells') = Size
  BY Numbers, Types, WrittenStorage
<1>2. SubSeq(cells', 1, used) = Stored
  <2>1. \A i \in 1..used : cells'[i] = cells[i]
    BY <1>1 DEF Written
  <2>2. /\ Stored \in Seq(Byte \cup {Junk}) /\ Len(Stored) = used
        /\ \A i \in 1..used : Stored[i] = cells[i]
    BY <1>1, Numbers DEF Stored, Size
  <2>3. /\ SubSeq(cells', 1, used) \in Seq(Byte \cup {Junk}) /\ Len(SubSeq(cells', 1, used)) = used
        /\ \A i \in 1..used : SubSeq(cells', 1, used)[i] = cells'[i]
    BY <1>1
  <2> QED
    BY <2>1, <2>2, <2>3, SeqEqual
<1>3. SubSeq(cells', used + 1, used + n) = s
  <2> DEFINE t == SubSeq(cells', used + 1, used + n)
  <2>1. t \in Seq(Byte \cup {Junk}) /\ Len(t) = n /\ \A i \in 1..n : t[i] = cells'[used + i]
    BY <1>1
  <2>2. ASSUME NEW i \in 1..n PROVE cells'[used + i] = s[i]
    <3>1. used + i \in 1..Size /\ used + i \in used + 1..used + n /\ (used + i) - used = i
      BY <1>1
    <3> QED
      BY <3>1 DEF Written
  <2>3. s \in Seq(Byte \cup {Junk})
    OBVIOUS
  <2> QED
    BY <2>1, <2>2, <2>3, SeqEqual
<1> QED
  BY <1>2, <1>3

(* A move of the storage keeps the text.                                   *)
LEMMA MovedBytes ==
  ASSUME Inv, Resize
  PROVE  SubSeq(cells', 1, used) = Stored
<1>1. Size <= free /\ cells' = Moved(free)
  BY DEF Resize, Inv, SizeSuffices
<1>2. /\ used \in Nat /\ used <= Size /\ free \in Nat /\ cells \in Seq(Byte \cup {Junk})
      /\ cells' \in Seq(Byte \cup {Junk}) /\ Len(cells') = free
  BY <1>1, Numbers, Types, MovedStorage
<1>3. \A i \in 1..used : cells'[i] = cells[i]
  BY <1>1, <1>2, Numbers DEF Moved
<1>4. /\ Stored \in Seq(Byte \cup {Junk}) /\ Len(Stored) = used
      /\ \A i \in 1..used : Stored[i] = cells[i]
  BY <1>2 DEF Stored, Size
<1>5. /\ SubSeq(cells', 1, used) \in Seq(Byte \cup {Junk}) /\ Len(SubSeq(cells', 1, used)) = used
      /\ \A i \in 1..used : SubSeq(cells', 1, used)[i] = cells'[i]
  BY <1>1, <1>2, Numbers
<1> QED
  BY <1>3, <1>4, <1>5, SeqEqual

(* The code point that is written next has room, and is a code point.      *)
LEMMA NextPoint ==
  ASSUME NoLatin1Str, Inv, AppendChar3
  PROVE  /\ task.points[data + 1] \in CodePoints
         /\ used' <= Size
<1>1. InBounds' /\ Size' = Size
  <2>1. cells' = Written(Encode(task.points[data + 1]))
    BY DEF AppendChar3
  <2> QED
    BY <2>1, AppendCharInv, Numbers DEF Inv, Written, Size
<1>2. /\ task \in Pieces /\ task.by \in Encoded /\ data < Len(task.points)
  BY DEF AppendChar3, Inv, SizeSuffices
<1>3. data + 1 \in 1..Len(task.points)
  BY <1>2, PieceFacts, Numbers
<1> QED
  BY <1>1, <1>2, <1>3, PointFits DEF InBounds

(* Bytes are only added, and those of a code point are its UTF-8 form.     *)
THEOREM StoredIsUtf8 == ASSUME Careful, NoLatin1Str PROVE Spec => AddsUtf8
<1> DEFINE P == /\ ~(ToPython \/ Discard) => SubSeq(cells', 1, used) = Stored
                /\ AppendChar3 /\ task.points[data + 1] # 128 =>
                     Decodes(SubSeq(cells', used + 1, used'), task.points[data + 1])
<1>1. ASSUME Inv, Next PROVE P
  <2>1. ASSUME cells' = cells PROVE SubSeq(cells', 1, used) = Stored
    BY <2>1 DEF Stored
  <2>2. ASSUME NEW p \in Pieces, Required(p) <= FreeSize, Put(p)
        PROVE  SubSeq(cells', 1, used) = Stored
    <3>1. CASE Copy(p)
      <4>1. p.points \in Seq(Byte) /\ Len(p.points) <= FreeSize /\ Len(p.points) \in Nat
        BY <2>2, <3>1, PieceFacts DEF Copy
      <4>2. used + Len(p.points) <= Size
        <5>1. used \in Nat /\ Size \in Nat /\ FreeSize = Size - used
          BY <1>1, Numbers
        <5> QED
          BY ONLY <4>1, <5>1
      <4> QED
        BY <1>1, <3>1, <4>1, <4>2, WrittenBytes DEF Copy
    <3> QED
      BY <2>1, <2>2, <3>1 DEF Put, Encoding
  <2>3. ASSUME AppendChar3
        PROVE  /\ SubSeq(cells', 1, used) = Stored
               /\ task.points[data + 1] # 128 =>
                    Decodes(SubSeq(cells', used + 1, used'), task.points[data + 1])
    <3> DEFINE ch == task.points[data + 1]
    <3>1. ch \in CodePoints /\ used' <= Size
      BY <1>1, <2>3, NextPoint
    <3>2. cells' = Written(Encode(ch)) /\ used' = used + Len(Encode(ch))
      BY <2>3 DEF AppendChar3
    <3> HIDE DEF ch
    <3>3. Encode(ch) \in Seq(Byte)
      BY <3>1, EncodedBytes
    <3>4. /\ SubSeq(cells', 1, used) = Stored
          /\ SubSeq(cells', used + 1, used') = Encode(ch)
      BY <1>1, <3>1, <3>2, <3>3, WrittenBytes
    <3>5. ch # 128 => Decodes(Encode(ch), ch)
      BY <3>1, EncodesUtf8 DEF EncodedRight
    <3> QED
      BY <3>4, <3>5 DEF ch
  <2>4. ASSUME NEW n \in Reserves, Reserve(n) PROVE cells' = cells
    BY <2>4 DEF Reserve, EnsureSize
  <2>5. ASSUME NEW p \in Pieces, AppendSafe(p) PROVE cells' = cells
    BY <2>5 DEF AppendSafe, EnsureSize
  <2>6. ASSUME NEW p \in Pieces, AppendFast(p) PROVE SubSeq(cells', 1, used) = Stored
    <3>1. Required(p) <= FreeSize
      BY <1>1, <2>6, PieceFacts, Numbers DEF AppendFast
    <3> QED
      BY <2>2, <2>6, <3>1 DEF AppendFast
  <2>7. ASSUME Grow PROVE SubSeq(cells', 1, used) = Stored
    BY <1>1, <2>1, <2>7, MovedBytes DEF Grow, Double, ResizeFails
  <2>8. ASSUME Ensured PROVE SubSeq(cells', 1, used) = Stored
    <3>1. CASE task # NoPiece /\ Put(task)
      <4>1. task \in Pieces /\ Required(task) <= FreeSize
        BY <1>1, <2>8, <3>1, Types DEF Ensured, Inv, SizeSuffices, Growing
      <4> QED
        BY <2>2, <3>1, <4>1
    <3> QED
      BY <2>1, <2>8, <3>1 DEF Ensured
  <2>9. ASSUME Appended PROVE cells' = cells
    BY <2>9 DEF Appended
  <2> QED
    BY <1>1, <2>1, <2>3, <2>4, <2>5, <2>6, <2>7, <2>8, <2>9 DEF Next
<1>2. Inv /\ [Next]_vars => [P]_vars
  BY <1>1
<1> QED
  BY <1>2, Invariance, PTL DEF Spec, AddsUtf8

-----------------------------------------------------------------------------
(* What bytes read as.  Text is a recursive function; what it returns is   *)
(* shown by induction over the number of bytes, stated for a set of        *)
(* numbers.                                                                *)

(* Induction over the numbers, for a set of them.                          *)
LEMMA Induction ==
  ASSUME NEW S \in SUBSET Nat, 0 \in S, \A n \in S : n + 1 \in S
  PROVE  S = Nat
<1> DEFINE R == {p \in Nat \X Nat : p[1] < p[2]}
           T == Nat \ S
<1>1. IsWellFoundedOn(R, Nat)
  BY NatLessThanWellFounded DEF OpToRel
<1>2. \A i, j \in Nat : j < i => <<j, i>> \in R
  OBVIOUS
<1> HIDE DEF R
<1>3. SUFFICES ASSUME T # {} PROVE FALSE
  OBVIOUS
<1>4. T \subseteq Nat
  OBVIOUS
<1> HIDE DEF T
<1>5. PICK i \in T : \A j \in T : <<j, i>> \notin R
  BY ONLY <1>1, WFMin, <1>3, <1>4
<1>6. i \in Nat /\ i \notin S
  BY <1>5 DEF T
<1>7. i # 0 /\ i - 1 \in Nat
  BY <1>6
<1>8. i - 1 \notin T
  <2>1. i - 1 < i
    BY <1>6
  <2>2. <<i - 1, i>> \in R
    BY <1>2, <1>6, <1>7, <2>1
  <2> QED
    BY <1>5, <2>2
<1>9. (i - 1) + 1 \in S
  BY <1>7, <1>8 DEF T
<1> QED
  BY <1>6, <1>9

(* What the recursive function in Text is: text[n] is what the first n     *)
(* bytes read as.                                                          *)
ReadFirst(text, bytes, m) ==
  text = [n \in 0..m |-> IF n = 0 THEN <<>> ELSE Read(text[n - 1], bytes[n])]

(* There is such a function: it is built up byte by byte.                  *)
LEMMA ReadFirstExists ==
  ASSUME NEW bytes, NEW m \in Nat
  PROVE  \E text : ReadFirst(text, bytes, m)
<1> DEFINE S == {k \in Nat : \E text : ReadFirst(text, bytes, k)}
<1>1. 0 \in S
  <2> DEFINE t == [n \in 0..0 |-> <<>>]
  <2>1. ReadFirst(t, bytes, 0)
    BY DEF ReadFirst
  <2> QED
    BY <2>1
<1>2. ASSUME NEW k \in S PROVE k + 1 \in S
  <2>1. PICK t : ReadFirst(t, bytes, k)
    OBVIOUS
  <2>2. k \in Nat /\ DOMAIN t = 0..k
    BY <2>1 DEF ReadFirst
  <2> DEFINE u == [n \in 0..(k + 1) |-> IF n = k + 1 THEN Read(t[k], bytes[k + 1]) ELSE t[n]]
  <2>3. \A n \in 0..(k + 1) : u[n] = IF n = 0 THEN <<>> ELSE Read(u[n - 1], bytes[n])
    <3> TAKE n \in 0..(k + 1)
    <3>1. CASE n = k + 1
      BY <2>2, <3>1
    <3>2. CASE n # k + 1
      <4>1. /\ n \in 0..k /\ u[n] = t[n]
            /\ n # 0 => n - 1 \in 0..(k + 1) /\ n - 1 # k + 1 /\ u[n - 1] = t[n - 1]
        BY <2>2, <3>2
      <4>2. t[n] = IF n = 0 THEN <<>> ELSE Read(t[n - 1], bytes[n])
        BY <2>1, <4>1 DEF ReadFirst
      <4> QED
        BY <4>1, <4>2
    <3> QED
      BY <3>1, <3>2
  <2>4. u = [n \in 0..(k + 1) |-> u[n]]
    OBVIOUS
  <2> HIDE DEF u
  <2>5. ReadFirst(u, bytes, k + 1)
    BY <2>3, <2>4, Zenon DEF ReadFirst
  <2> QED
    BY <2>2, <2>5
<1>3. S = Nat
  <2>1. S \in SUBSET Nat
    OBVIOUS
  <2> HIDE DEF S
  <2> QED
    BY <1>1, <1>2, <2>1, Induction
<1> QED
  BY <1>3

(* And Text is its last value.                                             *)
LEMMA ReadFirstText ==
  ASSUME NEW bytes, Len(bytes) \in Nat
  PROVE  \E text : ReadFirst(text, bytes, Len(bytes)) /\ Text(bytes) = text[Len(bytes)]
<1> DEFINE t == CHOOSE text : ReadFirst(text, bytes, Len(bytes))
<1>1. ReadFirst(t, bytes, Len(bytes))
  BY ReadFirstExists
<1>2. Text(bytes) = t[Len(bytes)]
  BY DEF Text, ReadFirst
<1> QED
  BY <1>1, <1>2

(* What it says, value by value.                                           *)
LEMMA ReadFirstIs ==
  ASSUME NEW bytes, NEW m \in Nat, NEW text, ReadFirst(text, bytes, m)
  PROVE  /\ text[0] = <<>>
         /\ \A n \in 1..m : text[n] = Read(text[n - 1], bytes[n])
<1>1. \A n \in 0..m : text[n] = IF n = 0 THEN <<>> ELSE Read(text[n - 1], bytes[n])
  BY Zenon DEF ReadFirst
<1> QED
  BY <1>1

(* The empty sequence reads as no text.                                    *)
LEMMA TextEmpty == Text(<<>>) = <<>>
<1>1. Len(<<>>) = 0
  OBVIOUS
<1>2. PICK t : ReadFirst(t, <<>>, 0) /\ Text(<<>>) = t[0]
  BY <1>1, ReadFirstText
<1> QED
  BY <1>2, ReadFirstIs

(* One more byte is read behind what is read already.                      *)
LEMMA TextAppend ==
  ASSUME NEW bytes \in Seq(Byte), NEW b \in Byte
  PROVE  Text(Append(bytes, b)) = Read(Text(bytes), b)
<1> DEFINE more == Append(bytes, b)
           m == Len(bytes)
<1>1. /\ m \in Nat /\ Len(more) = m + 1 /\ more[m + 1] = b
      /\ \A i \in 1..m : more[i] = bytes[i]
  BY AppendProperties, LenProperties
<1>2. PICK t : ReadFirst(t, bytes, m) /\ Text(bytes) = t[m]
  BY <1>1, ReadFirstText
<1>3. PICK u : ReadFirst(u, more, m + 1) /\ Text(more) = u[m + 1]
  <2>1. Len(more) \in Nat
    BY <1>1
  <2> HIDE DEF more
  <2>2. PICK u : ReadFirst(u, more, Len(more)) /\ Text(more) = u[Len(more)]
    BY <2>1, ReadFirstText
  <2> QED
    BY <1>1, <2>2
<1> HIDE DEF more, m
<1>4. /\ t[0] = <<>>
      /\ \A n \in 1..m : t[n] = Read(t[n - 1], bytes[n])
  BY <1>1, <1>2, ReadFirstIs
<1>5. /\ u[0] = <<>>
      /\ \A n \in 1..(m + 1) : u[n] = Read(u[n - 1], more[n])
  BY <1>1, <1>3, ReadFirstIs
<1> DEFINE S == {n \in Nat : n <= m => t[n] = u[n]}
<1>6. 0 \in S
  BY <1>4, <1>5
<1>7. ASSUME NEW n \in S PROVE n + 1 \in S
  <2> SUFFICES ASSUME n + 1 <= m PROVE t[n + 1] = u[n + 1]
    OBVIOUS
  <2>1. n \in Nat /\ n + 1 \in 1..m /\ n + 1 \in 1..(m + 1) /\ (n + 1) - 1 = n /\ n <= m
    BY <1>1
  <2>2. t[n + 1] = Read(t[n], bytes[n + 1])
    BY <2>1, <1>4
  <2>3. u[n + 1] = Read(u[n], more[n + 1])
    BY <2>1, <1>5
  <2> QED
    BY <2>1, <2>2, <2>3, <1>1
<1>8. S = Nat
  <2>1. S \in SUBSET Nat
    OBVIOUS
  <2> HIDE DEF S
  <2> QED
    BY <1>6, <1>7, <2>1, Induction
<1>9. t[m] = u[m]
  BY <1>1, <1>8
<1>10. u[m + 1] = Read(u[m], b)
  BY <1>1, <1>5
<1> QED
  BY <1>2, <1>3, <1>9, <1>10 DEF more

(* A non-empty sequence has a length of at least one.                      *)
LEMMA ShortSequence ==
  ASSUME NEW S, NEW e \in Seq(S), Len(e) \in 1..4
  PROVE  /\ e # <<>> /\ \A i \in 1..Len(e) : e[i] \in S
         /\ Len(e) = 1 \/ Len(e) = 2 \/ Len(e) = 3 \/ Len(e) = 4
         /\ SubSeq(e, 1, Len(e)) = e
         /\ SubSeq(e, 1, 0) = <<>>
<1>1. e # <<>>
  BY LenProperties, EmptySeq
<1>2. \A i \in 1..Len(e) : e[i] \in S
  OBVIOUS
<1>3. SubSeq(e, 1, Len(e)) = e
  OBVIOUS
<1>4. SubSeq(e, 1, 0) = <<>>
  OBVIOUS
<1>5. Len(e) = 1 \/ Len(e) = 2 \/ Len(e) = 3 \/ Len(e) = 4
  OBVIOUS
<1> QED
  BY <1>1, <1>2, <1>3, <1>4, <1>5

(* The first elements, and one more.                                       *)
LEMMA FirstMore ==
  ASSUME NEW S, NEW e \in Seq(S), NEW n \in Nat, n < Len(e)
  PROVE  /\ SubSeq(e, 1, n) \in Seq(S) /\ e[n + 1] \in S
         /\ Len(SubSeq(e, 1, n)) = n
         /\ SubSeq(e, 1, n + 1) = Append(SubSeq(e, 1, n), e[n + 1])
OBVIOUS

(* A lead byte of each form, and the number it leaves: one byte.           *)
LEMMA OneByte ==
  ASSUME NEW e \in Seq(Byte), NEW ch, Decodes(e, ch), Len(e) = 1
  PROVE  /\ ~Continues(e[1]) /\ Marker(e[1]) = 0
         /\ ch = e[1]
<1>1. /\ e[1] \in 0..127
      /\ ch = e[1]
  BY DEF Decodes
<1>2. PICK b : b = e[1]
  OBVIOUS
<1>3. b \in 0..127
  BY <1>1, <1>2
<1>4. ~Continues(b) /\ Marker(b) = 0
  BY ONLY <1>3 DEF Continues, Marker
<1> QED
  BY <1>1, <1>2, <1>4

(* Two bytes.                                                              *)
LEMMA TwoBytes ==
  ASSUME NEW e \in Seq(Byte), NEW ch, Decodes(e, ch), Len(e) = 2
  PROVE  /\ ~Continues(e[1]) /\ Marker(e[1]) = 192
         /\ Continues(e[2])
         /\ ch = Shifted(e[1] - 192, e[2])
<1>1. /\ e[1] \in 192..223
      /\ Continues(e[2])
      /\ ch = Shifted(e[1] - 192, e[2])
  BY DEF Decodes
<1>2. PICK b : b = e[1]
  OBVIOUS
<1>3. b \in 192..223
  BY <1>1, <1>2
<1>4. ~Continues(b) /\ Marker(b) = 192
  BY ONLY <1>3 DEF Continues, Marker
<1> QED
  BY <1>1, <1>2, <1>4

(* Three bytes.                                                            *)
LEMMA ThreeBytes ==
  ASSUME NEW e \in Seq(Byte), NEW ch, Decodes(e, ch), Len(e) = 3
  PROVE  /\ ~Continues(e[1]) /\ Marker(e[1]) = 224
         /\ Continues(e[2]) /\ Continues(e[3])
         /\ ch = Shifted(Shifted(e[1] - 224, e[2]), e[3])
<1>1. /\ e[1] \in 224..239
      /\ Continues(e[2]) /\ Continues(e[3])
      /\ ch = Shifted(Shifted(e[1] - 224, e[2]), e[3])
  BY DEF Decodes
<1>2. PICK b : b = e[1]
  OBVIOUS
<1>3. b \in 224..239
  BY <1>1, <1>2
<1>4. ~Continues(b) /\ Marker(b) = 224
  BY ONLY <1>3 DEF Continues, Marker
<1> QED
  BY <1>1, <1>2, <1>4

(* Four bytes.                                                             *)
LEMMA FourBytes ==
  ASSUME NEW e \in Seq(Byte), NEW ch, Decodes(e, ch), Len(e) = 4
  PROVE  /\ ~Continues(e[1]) /\ Marker(e[1]) = 240
         /\ Continues(e[2]) /\ Continues(e[3]) /\ Continues(e[4])
         /\ ch = Shifted(Shifted(Shifted(e[1] - 240, e[2]), e[3]), e[4])
<1>1. /\ e[1] \in 240..247
      /\ Continues(e[2]) /\ Continues(e[3]) /\ Continues(e[4])
      /\ ch = Shifted(Shifted(Shifted(e[1] - 240, e[2]), e[3]), e[4])
  BY DEF Decodes
<1>2. PICK b : b = e[1]
  OBVIOUS
<1>3. b \in 240..247
  BY <1>1, <1>2
<1>4. ~Continues(b) /\ Marker(b) = 240
  BY ONLY <1>3 DEF Continues, Marker
<1> QED
  BY <1>1, <1>2, <1>4

(* An element behind two sequences is one behind the second.               *)
LEMMA AppendJoined ==
  ASSUME NEW s \in Seq(Nat), NEW t \in Seq(Nat), NEW n \in Nat
  PROVE  Append(s \o t, n) = s \o Append(t, n)
<1>1. PICK w : w = s \o t
  OBVIOUS
<1>2. PICK r : r = Append(t, n)
  OBVIOUS
<1>3. PICK u : u = Append(w, n)
  OBVIOUS
<1>4. /\ r \in Seq(Nat) /\ Len(r) = Len(t) + 1 /\ Len(t) \in Nat /\ r[Len(t) + 1] = n
      /\ \A i \in 1..Len(t) : r[i] = t[i]
  BY <1>2
<1>5. PICK v : v = s \o r
  OBVIOUS
<1>6. /\ v \in Seq(Nat) /\ Len(v) = Len(s) + Len(r)
      /\ \A i \in 1..Len(v) : v[i] = IF i <= Len(s) THEN s[i] ELSE r[i - Len(s)]
  <2>1. r \in Seq(Nat) /\ s \in Seq(Nat)
    BY <1>4
  <2>2. /\ s \o r \in Seq(Nat) /\ Len(s \o r) = Len(s) + Len(r)
        /\ \A i \in 1..Len(s) + Len(r) : (s \o r)[i] = IF i <= Len(s) THEN s[i] ELSE r[i - Len(s)]
    BY <2>1, ConcatProperties
  <2> QED
    BY <1>5, <2>2
<1>7. /\ w \in Seq(Nat) /\ Len(w) = Len(s) + Len(t) /\ Len(s) \in Nat
      /\ \A i \in 1..Len(w) : w[i] = IF i <= Len(s) THEN s[i] ELSE t[i - Len(s)]
  BY <1>1, ConcatProperties
<1>8. /\ u \in Seq(Nat) /\ Len(u) = Len(w) + 1 /\ u[Len(w) + 1] = n
      /\ \A i \in 1..Len(w) : u[i] = w[i]
  BY <1>3, <1>7, AppendProperties
<1>9. ASSUME NEW i \in 1..Len(u) PROVE u[i] = v[i]
  <2>1. CASE i <= Len(s)
    <3>1. Len(u) = Len(s) + Len(t) + 1 /\ Len(v) = Len(u) /\ Len(w) = Len(s) + Len(t)
      BY <1>4, <1>6, <1>7, <1>8
    <3>2. i \in 1..Len(w) /\ i \in 1..Len(v)
      BY <1>4, <1>7, <2>1, <3>1
    <3>3. u[i] = s[i]
      BY <1>7, <1>8, <2>1, <3>2
    <3>4. v[i] = s[i]
      BY <1>6, <2>1, <3>2
    <3> QED
      BY <3>3, <3>4
  <2>2. CASE i > Len(s) /\ i <= Len(w)
    <3>1. i - Len(s) \in 1..Len(t) /\ i \in 1..Len(w) /\ i \in 1..Len(v) /\ ~(i <= Len(s))
      BY <1>4, <1>6, <1>7, <1>8, <2>2
    <3>2. u[i] = t[i - Len(s)]
      BY <1>7, <1>8, <3>1
    <3>3. v[i] = r[i - Len(s)]
      BY <1>6, <3>1
    <3> QED
      BY <1>4, <3>1, <3>2, <3>3
  <2>3. CASE i = Len(w) + 1
    <3>1. i \in 1..Len(v) /\ ~(i <= Len(s)) /\ i - Len(s) = Len(t) + 1
      BY <1>4, <1>6, <1>7, <1>8, <2>3
    <3>2. v[i] = r[i - Len(s)]
      BY <1>6, <3>1
    <3> QED
      BY <1>4, <1>8, <2>3, <3>1, <3>2
  <2> QED
    <3>1. Len(u) = Len(w) + 1 /\ Len(w) \in Nat /\ Len(s) \in Nat /\ i \in Nat /\ i <= Len(u)
      BY <1>7, <1>8
    <3>2. i <= Len(s) \/ (i > Len(s) /\ i <= Len(w)) \/ i = Len(w) + 1
      BY ONLY <3>1
    <3> QED
      BY <2>1, <2>2, <2>3, <3>2
<1>10. Len(u) = Len(v)
  BY <1>4, <1>6, <1>7, <1>8
<1>11. u = v
  BY <1>6, <1>8, <1>9, <1>10, SeqEqual
<1> QED
  BY <1>1, <1>2, <1>5, <1>3, <1>11

(* A byte that begins a code point gives it a number.                      *)
LEMMA MarkerBelow ==
  ASSUME NEW b \in Byte
  PROVE  b \in Nat /\ b - Marker(b) \in Nat
BY DEF Byte, Marker

(* A text whose last code point is another number.                         *)
LEMMA LastChanged ==
  ASSUME NEW points \in Seq(Nat), points # <<>>, NEW n \in Nat
  PROVE  /\ Len(points) \in Nat \ {0} /\ Len(points) \in 1..Len(points)
         /\ [points EXCEPT ![Len(points)] = n] \in Seq(Nat)
         /\ Len([points EXCEPT ![Len(points)] = n]) = Len(points)
         /\ [points EXCEPT ![Len(points)] = n][Len(points)] = n
         /\ \A i \in 1..Len(points) - 1 : [points EXCEPT ![Len(points)] = n][i] = points[i]
<1>1. Len(points) \in Nat \ {0} /\ Len(points) \in 1..Len(points)
  OBVIOUS
<1>2. PICK k : k = Len(points)
  OBVIOUS
<1>3. k \in 1..Len(points)
  BY <1>1, <1>2
<1>4. /\ [points EXCEPT ![k] = n] \in Seq(Nat)
      /\ Len([points EXCEPT ![k] = n]) = Len(points)
      /\ \A j \in 1..Len(points) : [points EXCEPT ![k] = n][j] = IF j = k THEN n ELSE points[j]
  BY <1>3, ExceptSeq
<1>5. PICK r : r = [points EXCEPT ![k] = n]
  OBVIOUS
<1>6. r[k] = n /\ \A j \in 1..k - 1 : r[j] = points[j]
  <2>1. \A j \in 1..k : r[j] = IF j = k THEN n ELSE points[j]
    BY <1>2, <1>4, <1>5
  <2> QED
    BY <2>1, <1>1, <1>2
<1> QED
  BY <1>1, <1>2, <1>4, <1>5, <1>6

(* What is read is a text, and not an empty one.                           *)
LEMMA ReadType ==
  ASSUME NEW points \in Seq(Nat), NEW b \in Byte
  PROVE  /\ Read(points, b) \in Seq(Nat)
         /\ Len(Read(points, b)) \in Nat /\ Len(Read(points, b)) > 0
<1>1. CASE Continues(b) /\ points # <<>>
  <2>1. Read(points, b) = [points EXCEPT ![Len(points)] = Shifted(points[Len(points)], b)]
    BY <1>1 DEF Read
  <2>2. Len(points) \in 1..Len(points)
    BY <1>1
  <2>3. Shifted(points[Len(points)], b) \in Nat
    BY <1>1, <2>2 DEF Shifted, Continues
  <2> QED
    BY <1>1, <2>1, <2>3, LastChanged
<1>2. CASE ~(Continues(b) /\ points # <<>>)
  <2>1. Read(points, b) = Append(points, b - Marker(b))
    BY <1>2 DEF Read
  <2> QED
    BY <2>1, MarkerBelow
<1> QED
  BY <1>1, <1>2

(* A continuation byte changes the last code point.                        *)
WithLast(points, n) == [points EXCEPT ![Len(points)] = n]

(* The last element of two sequences is that of the second.                *)
LEMMA LastJoined ==
  ASSUME NEW s \in Seq(Nat), NEW t \in Seq(Nat), t # <<>>, NEW n \in Nat
  PROVE  /\ s \o t # <<>> /\ (s \o t)[Len(s \o t)] = t[Len(t)]
         /\ WithLast(s \o t, n) = s \o WithLast(t, n)
<1>1. PICK w : w = s \o t
  OBVIOUS
<1>2. Len(t) \in 1..Len(t) /\ Len(t) \in Nat /\ Len(s) \in Nat
  OBVIOUS
<1>3. /\ w \in Seq(Nat) /\ Len(w) = Len(s) + Len(t)
      /\ \A i \in 1..Len(w) : w[i] = IF i <= Len(s) THEN s[i] ELSE t[i - Len(s)]
  BY <1>1, ConcatProperties
<1>4. Len(w) \in 1..Len(w) /\ ~(Len(w) <= Len(s)) /\ Len(w) - Len(s) = Len(t) /\ w # <<>>
  BY <1>2, <1>3
<1>5. w[Len(w)] = t[Len(t)]
  BY <1>3, <1>4
<1>6. PICK r : r = WithLast(t, n)
  OBVIOUS
<1>7. /\ r \in Seq(Nat) /\ Len(r) = Len(t) /\ r[Len(t)] = n
      /\ \A i \in 1..Len(t) - 1 : r[i] = t[i]
  BY <1>6, LastChanged DEF WithLast
<1>8. PICK u : u = WithLast(w, n)
  OBVIOUS
<1>9. /\ u \in Seq(Nat) /\ Len(u) = Len(w) /\ u[Len(w)] = n
      /\ \A i \in 1..Len(w) - 1 : u[i] = w[i]
  BY <1>3, <1>4, <1>8, LastChanged DEF WithLast
<1>10. PICK v : v = s \o r
  OBVIOUS
<1>11. /\ v \in Seq(Nat) /\ Len(v) = Len(s) + Len(r)
       /\ \A i \in 1..Len(v) : v[i] = IF i <= Len(s) THEN s[i] ELSE r[i - Len(s)]
  <2>1. r \in Seq(Nat)
    BY <1>7
  <2> QED
    BY <1>10, <2>1, ConcatProperties
<1>12. ASSUME NEW i \in 1..Len(u) PROVE u[i] = v[i]
  <2>1. CASE i <= Len(s)
    <3>1. i \in 1..Len(w) - 1 /\ i \in 1..Len(w) /\ i \in 1..Len(v)
      <4>1. Len(u) = Len(w) /\ Len(w) = Len(s) + Len(t) /\ Len(v) = Len(s) + Len(t)
        BY <1>3, <1>7, <1>9, <1>11
      <4> QED
        BY <1>2, <2>1, <4>1
    <3> QED
      BY <1>3, <1>9, <1>11, <2>1, <3>1
  <2>2. CASE i > Len(s) /\ i < Len(w)
    <3>1. /\ i \in 1..Len(w) - 1 /\ i \in 1..Len(w) /\ i \in 1..Len(v) /\ ~(i <= Len(s))
          /\ i - Len(s) \in 1..Len(t) - 1
      <4>1. Len(u) = Len(w) /\ Len(w) = Len(s) + Len(t) /\ Len(v) = Len(s) + Len(t)
        BY <1>3, <1>7, <1>9, <1>11
      <4> QED
        BY <1>2, <2>2, <4>1
    <3>2. u[i] = t[i - Len(s)]
      BY <1>3, <1>9, <3>1
    <3>3. r[i - Len(s)] = t[i - Len(s)]
      BY <1>7, <3>1
    <3>4. v[i] = r[i - Len(s)]
      BY <1>11, <3>1
    <3> QED
      BY <3>2, <3>3, <3>4
  <2>3. CASE i = Len(w)
    <3>1. i \in 1..Len(v) /\ ~(i <= Len(s)) /\ i - Len(s) = Len(t)
      <4>1. Len(u) = Len(w) /\ Len(w) = Len(s) + Len(t) /\ Len(v) = Len(s) + Len(t)
        BY <1>3, <1>7, <1>9, <1>11
      <4> QED
        BY <1>2, <2>3, <4>1
    <3>2. v[i] = r[i - Len(s)]
      BY <1>11, <3>1
    <3> QED
      BY <1>7, <1>9, <2>3, <3>1, <3>2
  <2>4. i \in Nat /\ Len(s) \in Nat /\ Len(w) \in Nat /\ i <= Len(w)
    BY <1>2, <1>3, <1>9
  <2>5. i <= Len(s) \/ (i > Len(s) /\ i < Len(w)) \/ i = Len(w)
    BY ONLY <2>4
  <2> QED
    BY <2>1, <2>2, <2>3, <2>5
<1>13. u = v
  <2>1. Len(u) = Len(v)
    BY <1>3, <1>7, <1>9, <1>11
  <2> QED
    BY <1>9, <1>11, <1>12, <2>1, SeqEqual
<1> QED
  BY <1>1, <1>4, <1>5, <1>6, <1>8, <1>10, <1>13

(* Reading behind a text that is no part of it leaves that text alone.     *)
LEMMA ReadBehind ==
  ASSUME NEW points \in Seq(Nat), NEW more \in Seq(Nat), NEW b \in Byte,
         more # <<>> \/ ~Continues(b)
  PROVE  Read(points \o more, b) = points \o Read(more, b)
<1>1. CASE Continues(b)
  <2>1. more # <<>> /\ Len(more) \in 1..Len(more)
    BY <1>1
  <2>2. PICK n : n = Shifted(more[Len(more)], b)
    OBVIOUS
  <2>3. n \in Nat
    BY <1>1, <2>1, <2>2 DEF Shifted, Continues
  <2>4. /\ points \o more # <<>> /\ (points \o more)[Len(points \o more)] = more[Len(more)]
        /\ WithLast(points \o more, n) = points \o WithLast(more, n)
    BY <2>1, <2>3, LastJoined, Zenon
  <2>5. Read(points \o more, b) = WithLast(points \o more, n)
    BY <1>1, <2>2, <2>4, Zenon DEF Read, WithLast
  <2>6. Read(more, b) = WithLast(more, n)
    BY <1>1, <2>1, <2>2, Zenon DEF Read, WithLast
  <2> QED
    BY <2>4, <2>5, <2>6
<1>2. CASE ~Continues(b)
  <2>1. PICK n : n = b - Marker(b)
    OBVIOUS
  <2>2. n \in Nat
    BY <2>1, MarkerBelow
  <2>3. Append(points \o more, n) = points \o Append(more, n)
    BY <2>2, AppendJoined, Zenon
  <2>4. Read(more, b) = Append(more, n) /\ Read(points \o more, b) = Append(points \o more, n)
    BY <1>2, <2>1, Zenon DEF Read
  <2> QED
    BY <2>3, <2>4
<1> QED
  BY <1>1, <1>2

(* A text consists of numbers; some bytes make some text.                  *)
LEMMA TextType ==
  ASSUME NEW bytes \in Seq(Byte)
  PROVE  /\ Text(bytes) \in Seq(Nat) /\ Len(Text(bytes)) \in Nat
         /\ bytes # <<>> => Len(Text(bytes)) > 0
<1> DEFINE m == Len(bytes)
<1>1. m \in Nat /\ \A i \in 1..m : bytes[i] \in Byte
  OBVIOUS
<1>2. PICK t : ReadFirst(t, bytes, m) /\ Text(bytes) = t[m]
  BY <1>1, ReadFirstText
<1> HIDE DEF m
<1>3. /\ t[0] = <<>>
      /\ \A n \in 1..m : t[n] = Read(t[n - 1], bytes[n])
  BY <1>1, <1>2, ReadFirstIs
<1> DEFINE S == {n \in Nat : n <= m => t[n] \in Seq(Nat) /\ (n > 0 => Len(t[n]) > 0)}
<1>4. 0 \in S
  <2>1. t[0] \in Seq(Nat)
    BY <1>3
  <2> QED
    BY <2>1
<1>5. ASSUME NEW n \in S PROVE n + 1 \in S
  <2> SUFFICES ASSUME n + 1 <= m PROVE t[n + 1] \in Seq(Nat) /\ Len(t[n + 1]) > 0
    OBVIOUS
  <2>1. n \in Nat /\ n + 1 \in 1..m /\ (n + 1) - 1 = n /\ n <= m
    BY <1>1
  <2>2. t[n + 1] = Read(t[n], bytes[n + 1])
    BY <2>1, <1>3
  <2>3. t[n] \in Seq(Nat) /\ bytes[n + 1] \in Byte
    BY <2>1, <1>1
  <2> QED
    BY <2>2, <2>3, ReadType
<1>6. S = Nat
  <2>1. S \in SUBSET Nat
    OBVIOUS
  <2> HIDE DEF S
  <2> QED
    BY <1>4, <1>5, <2>1, Induction
<1>7. t[m] \in Seq(Nat) /\ (m > 0 => Len(t[m]) > 0)
  BY <1>1, <1>6
<1>8. bytes # <<>> => m > 0
  BY <1>1 DEF m
<1> QED
  BY <1>2, <1>7, <1>8

(* Bytes that do not begin within a code point read alone: their text      *)
(* follows the text before them.                                           *)
LEMMA TextConcat ==
  ASSUME NEW bytes \in Seq(Byte), NEW more \in Seq(Byte),
         more # <<>> => ~Continues(more[1])
  PROVE  Text(bytes \o more) = Text(bytes) \o Text(more)
<1> DEFINE first(n) == SubSeq(more, 1, n)
           S == {n \in Nat : n <= Len(more) =>
                   Text(bytes \o first(n)) = Text(bytes) \o Text(first(n))}
<1>1. Text(bytes) \in Seq(Nat) /\ Len(more) \in Nat
  BY TextType
<1>2. 0 \in S
  <2>1. first(0) = <<>>
    OBVIOUS
  <2>2. bytes \o <<>> = bytes /\ Text(bytes) \o <<>> = Text(bytes)
    BY <1>1, ConcatEmptySeq
  <2> HIDE DEF first
  <2>3. Text(bytes \o first(0)) = Text(bytes) \o Text(first(0))
    BY <2>1, <2>2, TextEmpty
  <2> QED
    BY <2>3
<1>3. ASSUME NEW n \in S PROVE n + 1 \in S
  <2> SUFFICES ASSUME n + 1 <= Len(more)
               PROVE  Text(bytes \o first(n + 1)) = Text(bytes) \o Text(first(n + 1))
    OBVIOUS
  <2>1. n \in Nat /\ n + 1 \in 1..Len(more) /\ n <= Len(more)
    BY <1>1
  <2> DEFINE f == first(n)
             b == more[n + 1]
  <2>2. f \in Seq(Byte) /\ Len(f) = n /\ b \in Byte
    BY <2>1
  <2>3. first(n + 1) = Append(f, b)
    BY <2>1
  <2>4. bytes \o first(n + 1) = Append(bytes \o f, b) /\ bytes \o f \in Seq(Byte)
    BY <2>2, <2>3
  <2>5. Text(bytes \o f) = Text(bytes) \o Text(f)
    BY <2>1
  <2>6. n = 0 => ~Continues(b)
    BY <2>1
  <2> HIDE DEF f, b
  <2>7. Text(bytes \o first(n + 1)) = Read(Text(bytes) \o Text(f), b)
    BY <2>2, <2>4, <2>5, TextAppend
  <2>8. Text(first(n + 1)) = Read(Text(f), b)
    BY <2>2, <2>3, TextAppend
  <2>9. Text(f) \in Seq(Nat) /\ (Len(Text(f)) > 0 \/ ~Continues(b))
    <3>1. n # 0 => f # <<>>
      BY <2>2
    <3> QED
      BY <2>2, <2>6, <3>1, TextType
  <2> QED
    BY <1>1, <2>2, <2>7, <2>8, <2>9, ReadBehind
<1>4. S = Nat
  <2>1. S \in SUBSET Nat
    OBVIOUS
  <2> HIDE DEF S
  <2> QED
    BY <1>2, <1>3, <2>1, Induction
<1>5. first(Len(more)) = more
  BY <1>1
<1>6. Text(bytes \o first(Len(more))) = Text(bytes) \o Text(first(Len(more)))
  BY <1>1, <1>4
<1> HIDE DEF first
<1> QED
  BY <1>5, <1>6

(* What is written for a code point, U+0080 excepted, reads as that code   *)
(* point behind what was there.                                            *)
LEMMA TextEncode ==
  ASSUME NEW bytes \in Seq(Byte), NEW ch \in CodePoints, ch # 128
  PROVE  Text(bytes \o Encode(ch)) = Append(Text(bytes), ch)
<1>1. PICK e : e = Encode(ch)
  OBVIOUS
<1>2. e \in Seq(Byte) /\ Len(e) \in 1..4
  BY <1>1, EncodedBytes
<1>3. Decodes(e, ch)
  BY <1>1, EncodesUtf8 DEF EncodedRight
<1>4. Text(bytes) \in Seq(Nat) /\ ch \in Nat
  BY TextType, PointBound
<1> DEFINE lead == e[1] - Marker(e[1])
           first(n) == SubSeq(e, 1, n)
<1>5. e # <<>> /\ e[1] \in Byte /\ first(Len(e)) = e
  BY <1>2, ShortSequence
<1>6. Text(first(1)) = <<lead>> /\ lead \in Nat
  <2>1. first(0) = <<>>
    BY ONLY <1>2, ShortSequence
  <2>2. 0 < Len(e)
    BY <1>2, ShortSequence
  <2>3. first(0 + 1) = Append(first(0), e[0 + 1])
    BY <1>2, <2>2, FirstMore
  <2>4. first(1) = Append(<<>>, e[1])
    <3> HIDE DEF first
    <3>1. first(1) = Append(first(0), e[1])
      BY <2>3
    <3> QED
      BY <2>1, <3>1
  <2> HIDE DEF first
  <2>5. <<>> \in Seq(Byte)
    OBVIOUS
  <2>6. Text(Append(<<>>, e[1])) = Read(Text(<<>>), e[1])
    BY ONLY <1>5, <2>5, TextAppend
  <2>7. Read(<<>>, e[1]) = Append(<<>>, lead)
    BY DEF Read
  <2>8. lead \in Nat
    BY <1>5, MarkerBelow
  <2> HIDE DEF lead
  <2>9. Append(<<>>, lead) = <<lead>>
    BY <2>8
  <2> QED
    BY <2>4, <2>6, <2>7, <2>8, <2>9, TextEmpty
<1>7. ASSUME NEW n \in 1..3, n < Len(e), NEW p \in Nat, Text(first(n)) = <<p>>,
             Continues(e[n + 1])
      PROVE  Text(first(n + 1)) = <<Shifted(p, e[n + 1])>> /\ Shifted(p, e[n + 1]) \in Nat
  <2>1. PICK b : b = e[n + 1]
    OBVIOUS
  <2>2. b \in Byte /\ first(n) \in Seq(Byte) /\ first(n + 1) = Append(first(n), b)
    BY <1>2, <1>7, <2>1, FirstMore
  <2>3. Text(first(n + 1)) = Read(<<p>>, b)
    BY <1>7, <2>2, TextAppend
  <2>4. PICK q : q = Shifted(p, b)
    OBVIOUS
  <2>5. q \in Nat
    <3>1. Continues(b) /\ p \in Nat
      BY <1>7, <2>1
    <3> QED
      BY <2>4, <3>1 DEF Continues, Shifted
  <2>6. Read(<<p>>, b) = [<<p>> EXCEPT ![1] = q]
    BY <1>7, <2>1, <2>4 DEF Read
  <2>7. [<<p>> EXCEPT ![1] = q] = <<q>>
    BY <2>5
  <2> QED
    BY <2>1, <2>3, <2>4, <2>5, <2>6, <2>7
<1> HIDE DEF first, lead
<1>8. Text(e) = <<ch>>
  <2>1. CASE Len(e) = 1
    <3>1. Marker(e[1]) = 0 /\ ch = e[1]
      BY <1>2, <1>3, <2>1, OneByte
    <3>2. lead = ch
      BY <1>4, <3>1 DEF lead
    <3> QED
      BY <1>5, <1>6, <2>1, <3>2
  <2>2. CASE Len(e) = 2
    <3>1. Marker(e[1]) = 192 /\ Continues(e[2]) /\ ch = Shifted(e[1] - 192, e[2])
      BY <1>2, <1>3, <2>2, TwoBytes
    <3>2. Text(first(2)) = <<Shifted(lead, e[2])>>
      BY <1>6, <1>7, <2>2, <3>1
    <3> QED
      BY <1>5, <2>2, <3>1, <3>2 DEF lead
  <2>3. CASE Len(e) = 3
    <3>1. /\ Marker(e[1]) = 224 /\ Continues(e[2]) /\ Continues(e[3])
          /\ ch = Shifted(Shifted(e[1] - 224, e[2]), e[3])
      BY <1>2, <1>3, <2>3, ThreeBytes
    <3>2. Text(first(2)) = <<Shifted(lead, e[2])>> /\ Shifted(lead, e[2]) \in Nat
      BY <1>6, <1>7, <2>3, <3>1
    <3>3. Text(first(3)) = <<Shifted(Shifted(lead, e[2]), e[3])>>
      BY <1>7, <2>3, <3>1, <3>2
    <3> QED
      BY <1>5, <2>3, <3>1, <3>3 DEF lead
  <2>4. CASE Len(e) = 4
    <3>1. /\ Marker(e[1]) = 240 /\ Continues(e[2]) /\ Continues(e[3]) /\ Continues(e[4])
          /\ ch = Shifted(Shifted(Shifted(e[1] - 240, e[2]), e[3]), e[4])
      BY <1>2, <1>3, <2>4, FourBytes
    <3>2. Text(first(2)) = <<Shifted(lead, e[2])>> /\ Shifted(lead, e[2]) \in Nat
      BY <1>6, <1>7, <2>4, <3>1
    <3>3. /\ Text(first(3)) = <<Shifted(Shifted(lead, e[2]), e[3])>>
          /\ Shifted(Shifted(lead, e[2]), e[3]) \in Nat
      BY <1>7, <2>4, <3>1, <3>2
    <3>4. Text(first(4)) = <<Shifted(Shifted(Shifted(lead, e[2]), e[3]), e[4])>>
      BY <1>7, <2>4, <3>1, <3>3
    <3> QED
      BY <1>5, <2>4, <3>1, <3>4 DEF lead
  <2> QED
    BY <1>2, <2>1, <2>2, <2>3, <2>4, ShortSequence
<1>9. ~Continues(e[1])
  <2>1. Len(e) = 1 \/ Len(e) = 2 \/ Len(e) = 3 \/ Len(e) = 4
    BY <1>2, ShortSequence
  <2> QED
    BY <1>2, <1>3, <2>1, OneByte, TwoBytes, ThreeBytes, FourBytes
<1>10. Text(bytes \o e) = Text(bytes) \o Text(e)
  BY <1>2, <1>9, TextConcat
<1>11. Text(bytes) \o <<ch>> = Append(Text(bytes), ch)
  BY <1>4
<1> QED
  BY <1>1, <1>8, <1>10, <1>11

-----------------------------------------------------------------------------
(* The refinement of TextBuilder.                                          *)

(* What is before the cursor are bytes.                                    *)
LEMMA StoredBytes == ASSUME Inv PROVE Stored \in Seq(Byte) /\ Len(Stored) = used
<1>1. /\ cells \in Seq(Byte \cup {Junk}) /\ used \in Nat /\ used <= Len(cells)
      /\ \A i \in 1..used : cells[i] \in Byte
  BY Types, Numbers DEF Inv, AllWritten, Size
<1>2. /\ Stored \in Seq(Byte \cup {Junk}) /\ Len(Stored) = used
      /\ \A i \in 1..used : Stored[i] = cells[i]
  BY <1>1 DEF Stored
<1>3. \A i \in 1..Len(Stored) : Stored[i] \in Byte
  BY <1>1, <1>2
<1>4. Stored = [i \in 1..Len(Stored) |-> Stored[i]]
  BY <1>2
<1> HIDE DEF Stored
<1> QED
  BY <1>1, <1>2, <1>3, <1>4

(* The cursor does not pass the end.                                       *)
LEMMA CursorInside == Inv => used <= Len(cells)
BY Numbers DEF Size

(* A sequence whose parts are two others is one behind the other.          *)
LEMMA JoinedIs ==
  ASSUME NEW S, NEW v \in Seq(S), NEW s \in Seq(S), NEW t \in Seq(S),
         Len(v) = Len(s) + Len(t), \A i \in 1..Len(s) : v[i] = s[i],
         \A i \in 1..Len(t) : v[Len(s) + i] = t[i]
  PROVE  v = s \o t
<1>1. PICK w : w = s \o t
  OBVIOUS
<1>2. /\ w \in Seq(S) /\ Len(w) = Len(s) + Len(t) /\ Len(s) \in Nat /\ Len(t) \in Nat
      /\ \A i \in 1..Len(w) : w[i] = IF i <= Len(s) THEN s[i] ELSE t[i - Len(s)]
  BY <1>1, ConcatProperties
<1>3. ASSUME NEW i \in 1..Len(v) PROVE v[i] = w[i]
  <2>1. CASE i <= Len(s)
    BY <1>2, <2>1
  <2>2. CASE ~(i <= Len(s))
    <3>1. i - Len(s) \in 1..Len(t) /\ Len(s) + (i - Len(s)) = i
      BY <1>2, <2>2
    <3>2. v[Len(s) + (i - Len(s))] = t[i - Len(s)]
      BY <3>1
    <3> QED
      BY <1>2, <2>2, <3>1, <3>2
  <2> QED
    BY <2>1, <2>2
<1> QED
  BY <1>1, <1>2, <1>3, SeqEqual

(* Bytes written at the cursor follow those stored.                        *)
LEMMA StoredJoined ==
  ASSUME Inv, Inv', NEW s \in Seq(Byte), cells' = Written(s), used' = used + Len(s)
  PROVE  Stored' = Stored \o s
<1>1. Stored \in Seq(Byte) /\ Len(Stored) = used
  BY StoredBytes
<1>2. Stored' \in Seq(Byte) /\ Len(Stored') = used'
  <2>1. (Inv => Stored \in Seq(Byte) /\ Len(Stored) = used)'
    BY StoredBytes, PTL
  <2> QED
    BY <2>1
<1>3. used \in Nat /\ Size \in Nat /\ Len(s) \in Nat /\ used' <= Len(cells')
  <2>1. (Inv => used <= Len(cells))'
    BY CursorInside, PTL
  <2> QED
    BY <2>1, Numbers
<1>4. used + Len(s) <= Size
  BY <1>3 DEF Written, Size
<1>5. SubSeq(cells', 1, used) = Stored /\ SubSeq(cells', used + 1, used + Len(s)) = s
  BY <1>4, WrittenBytes
<1>6. cells' \in Seq(Byte \cup {Junk}) /\ Stored' = SubSeq(cells', 1, used')
  BY Types, WrittenStorage, Numbers DEF Stored
<1>7. /\ \A i \in 1..used' : Stored'[i] = cells'[i]
      /\ \A i \in 1..used : SubSeq(cells', 1, used)[i] = cells'[i]
      /\ \A i \in 1..Len(s) : SubSeq(cells', used + 1, used + Len(s))[i] = cells'[used + i]
  BY <1>3, <1>6
<1> QED
  <2>1. PICK v : v = Stored'
    OBVIOUS
  <2>2. /\ v \in Seq(Byte) /\ Len(v) = Len(Stored) + Len(s)
        /\ \A i \in 1..Len(Stored) : v[i] = Stored[i]
    BY <1>1, <1>2, <1>3, <1>5, <1>7, <2>1
  <2>3. ASSUME NEW i \in 1..Len(s) PROVE v[Len(Stored) + i] = s[i]
    <3>1. used + i \in 1..used'
      BY <1>3
    <3> QED
      BY <1>1, <1>5, <1>7, <2>1, <3>1
  <2> QED
    BY <1>1, <2>1, <2>2, <2>3, JoinedIs, Zenon

(* The text shown while nothing is half written is all of it.              *)
LEMMA AllShown == Inv /\ data = 0 => Shown = Text(Stored) /\ Text(Stored) \in Seq(Nat)
<1> SUFFICES ASSUME Inv, data = 0 PROVE Shown = Text(Stored) /\ Text(Stored) \in Seq(Nat)
  OBVIOUS
<1>1. PICK points : points = Text(Stored)
  OBVIOUS
<1>2. points \in Seq(Nat)
  BY <1>1, StoredBytes, TextType
<1>3. SubSeq(points, 1, Len(points) - 0) = points
  BY <1>2
<1> QED
  BY <1>1, <1>2, <1>3 DEF Shown

(* A step that leaves what is stored alone.                                *)
LEMMA SameText ==
  ASSUME Inv, Inv', data = 0, data' = 0, Stored' = Stored
  PROVE  Shown' = Shown /\ Shown = Text(Stored) /\ Text(Stored) \in Seq(Nat) /\ PartlyWritten'
<1>1. Shown = Text(Stored) /\ Text(Stored) \in Seq(Nat)
  BY AllShown
<1>2. Shown' = Text(Stored')
  <2>1. (Inv /\ data = 0 => Shown = Text(Stored) /\ Text(Stored) \in Seq(Nat))'
    BY AllShown, PTL
  <2> QED
    BY <2>1
<1>3. PICK points : points = Text(Stored)
  OBVIOUS
<1>4. points \in Seq(Nat) /\ Len(points) \in Nat /\ points \o <<>> = points
  BY <1>1, <1>3
<1>5. SubSeq(task'.points, 1, 0) = <<>>
  OBVIOUS
<1>6. Text(Stored)' = points /\ Shown' = points
  BY <1>2, <1>3
<1>7. 0 <= Len(points) /\ points = points \o SubSeq(task'.points, 1, 0)
  BY <1>4, <1>5
<1>8. PartlyWritten'
  BY <1>6, <1>7 DEF PartlyWritten
<1> QED
  BY <1>1, <1>2, <1>8

(* Code points are numbers.                                                *)
LEMMA PointsAreNumbers ==
  ASSUME NEW s \in Seq(CodePoints)
  PROVE  s \in Seq(Nat)
<1>1. \A i \in 1..Len(s) : s[i] \in Nat
  BY PointBound
<1>2. s = [i \in 1..Len(s) |-> s[i]] /\ Len(s) \in Nat
  OBVIOUS
<1> QED
  BY <1>1, <1>2
(* Bytes that are copied are one more text.                                *)
LEMMA CopyText ==
  ASSUME Inv, Inv', ReadsAlone, data = 0, data' = 0, NEW p \in Pieces, Copy(p)
  PROVE  Shown' = Shown \o TextOf(p) /\ PartlyWritten'
<1>1. PICK s : s = p.points
  OBVIOUS
<1>2. s \in Seq(Byte) /\ p.by \in Copied
  BY <1>1, PieceFacts DEF Copy
<1>3. cells' = Written(s) /\ used' = used + Len(s)
  BY <1>1 DEF Copy
<1>4. Stored' = Stored \o s
  BY <1>2, <1>3, StoredJoined
<1>5. s # <<>> => ~Continues(s[1])
  BY <1>1, <1>2 DEF ReadsAlone, Encoded, Copied
<1>6. Stored \in Seq(Byte)
  BY StoredBytes
<1>7. Text(Stored \o s) = Text(Stored) \o Text(s)
  BY <1>2, <1>5, <1>6, TextConcat
<1>8. TextOf(p) = Text(s)
  BY <1>1, <1>2 DEF TextOf, Encoded, Copied
<1>9. Shown = Text(Stored)
  BY AllShown
<1>10. Shown' = Text(Stored') /\ Text(Stored') \in Seq(Nat)
  <2>1. (Inv /\ data = 0 => Shown = Text(Stored) /\ Text(Stored) \in Seq(Nat))'
    BY AllShown, PTL
  <2> QED
    BY <2>1
<1>11. PartlyWritten'
  BY DEF Copy, PartlyWritten
<1> QED
  BY <1>4, <1>7, <1>8, <1>9, <1>10, <1>11

(* One more code point of the piece is read last.                          *)
LEMMA LastHidden ==
  ASSUME NEW points \in Seq(Nat), NEW d \in Nat, d <= Len(points), NEW ch \in Nat,
         NEW more, more = Append(points, ch)
  PROVE  SubSeq(more, 1, Len(more) - (d + 1)) = SubSeq(points, 1, Len(points) - d)
<1>1. /\ more \in Seq(Nat) /\ Len(more) = Len(points) + 1 /\ Len(points) \in Nat
      /\ \A i \in 1..Len(points) : more[i] = points[i]
  BY AppendProperties
<1>2. PICK k : k = Len(points) - d
  OBVIOUS
<1>3. k \in Nat /\ k <= Len(points) /\ Len(more) - (d + 1) = k
  BY <1>1, <1>2
<1>4. PICK u : u = SubSeq(points, 1, k)
  OBVIOUS
<1>5. PICK v : v = SubSeq(more, 1, k)
  OBVIOUS
<1>6. u \in Seq(Nat) /\ Len(u) = k /\ \A i \in 1..k : u[i] = points[i]
  BY <1>3, <1>4
<1>7. v \in Seq(Nat) /\ Len(v) = k /\ \A i \in 1..k : v[i] = more[i]
  BY <1>1, <1>3, <1>5
<1>8. ASSUME NEW i \in 1..Len(u) PROVE u[i] = v[i]
  <2>1. i \in 1..k /\ i \in 1..Len(points)
    BY <1>1, <1>3, <1>6
  <2> QED
    BY <1>1, <1>6, <1>7, <2>1
<1>9. u = v
  BY <1>6, <1>7, <1>8, SeqEqual
<1> QED
  BY <1>2, <1>3, <1>4, <1>5, <1>9

(* A code point of the piece is read, and not shown yet.                   *)
LEMMA PointText ==
  ASSUME Inv, Inv', NoLatin1Str, ReadsAlone, PartlyWritten, AppendChar3
  PROVE  Shown' = Shown /\ PartlyWritten'
<1>1. PICK ch : ch = task.points[data + 1]
  OBVIOUS
<1>2. PICK points : points = Text(Stored)
  OBVIOUS
<1>3. PICK piece : piece = task.points
  OBVIOUS
<1>4. /\ task \in Pieces /\ task.by \in Encoded /\ data \in Nat /\ data < Len(piece)
      /\ pc = "writing"
  BY <1>3, Numbers DEF AppendChar3, Inv, SizeSuffices
<1>5. piece \in Seq(CodePoints) /\ Len(piece) \in Nat
  BY <1>3, <1>4, PieceFacts
<1>6. ch \in CodePoints
  BY <1>1, NextPoint
<1>7. ch # 128
  <2>1. data + 1 \in DOMAIN piece
    BY <1>4, <1>5
  <2>2. \A i \in DOMAIN piece : piece[i] # 128
    BY <1>3, <1>4 DEF ReadsAlone
  <2> QED
    BY <1>1, <1>3, <2>1, <2>2
<1>8. Stored \in Seq(Byte)
  BY StoredBytes
<1>9. points \in Seq(Nat) /\ ch \in Nat
  BY <1>2, <1>6, <1>8, TextType, PointBound
<1>10. PICK e : e = Encode(ch)
  OBVIOUS
<1>11. e \in Seq(Byte)
  BY <1>6, <1>10, EncodedBytes
<1>12. /\ cells' = Written(e) /\ used' = used + Len(e) /\ data' = data + 1
       /\ task' = task /\ pc' = pc
  BY <1>1, <1>10 DEF AppendChar3
<1>13. Stored' = Stored \o e
  BY <1>11, <1>12, StoredJoined
<1>14. Text(Stored') = Append(points, ch)
  BY <1>2, <1>6, <1>7, <1>8, <1>10, <1>13, TextEncode
<1>15. data <= Len(points) /\ points = Shown \o SubSeq(piece, 1, data)
  BY <1>2, <1>3, <1>4 DEF PartlyWritten
<1>16. PICK more : more = Append(points, ch)
  OBVIOUS
<1>17. Shown' = SubSeq(more, 1, Len(more) - (data + 1))
  BY <1>12, <1>14, <1>16 DEF Shown
<1>18. Shown = SubSeq(points, 1, Len(points) - data)
  BY <1>2 DEF Shown
<1>19. Shown' = Shown
  BY <1>4, <1>9, <1>15, <1>16, <1>17, <1>18, LastHidden
<1>20. PICK half : half = SubSeq(piece, 1, data)
  OBVIOUS
<1>21. SubSeq(piece, 1, data + 1) = Append(half, ch) /\ half \in Seq(CodePoints)
  <2>1. SubSeq(piece, 1, data + 1) = Append(SubSeq(piece, 1, data), piece[data + 1])
    BY <1>4, <1>5, FirstMore
  <2>2. SubSeq(piece, 1, data) \in Seq(CodePoints)
    BY <1>4, <1>5, FirstMore
  <2> QED
    BY <1>1, <1>3, <1>20, <2>1, <2>2
<1>22. half \in Seq(Nat)
  BY <1>21, PointsAreNumbers
<1>23. PICK before : before = Shown
  OBVIOUS
<1>24. before \in Seq(Nat)
  BY <1>9, <1>15, <1>18, <1>23, <1>4
<1>25. more = before \o Append(half, ch)
  <2>1. Append(before \o half, ch) = before \o Append(half, ch)
    BY <1>9, <1>22, <1>24, AppendJoined, Zenon
  <2> QED
    BY <1>15, <1>16, <1>20, <1>23, <2>1
<1>26. PartlyWritten'
  <2>1. data + 1 <= Len(more)
    BY <1>4, <1>9, <1>15, <1>16
  <2>2. more = Shown' \o SubSeq(task'.points, 1, data')
    BY <1>3, <1>12, <1>19, <1>21, <1>23, <1>25
  <2>3. Text(Stored)' = more
    BY <1>14, <1>16
  <2> QED
    BY <1>12, <2>1, <2>2, <2>3 DEF PartlyWritten
<1> QED
  BY <1>19, <1>26

(* The piece is written to its end.                                        *)
LEMMA AppendedText ==
  ASSUME Inv, Inv', PartlyWritten, Appended
  PROVE  task \in Pieces /\ Shown' = Shown \o TextOf(task) /\ PartlyWritten'
<1>1. /\ task \in Pieces /\ task.by \in Encoded /\ data = Len(task.points) /\ pc = "writing"
      /\ data' = 0 /\ pc' = "ready" /\ cells' = cells /\ used' = used
  BY DEF Appended, Inv, SizeSuffices
<1>2. SubSeq(task.points, 1, data) = task.points
  <2>1. task.points \in Seq(CodePoints)
    BY <1>1, PieceFacts
  <2>2. SubSeq(task.points, 1, Len(task.points)) = task.points
    BY <2>1
  <2> QED
    BY <1>1, <2>2
<1>3. Text(Stored) = Shown \o task.points
  BY <1>1, <1>2 DEF PartlyWritten
<1>4. Shown' = Text(Stored')
  <2>1. (Inv /\ data = 0 => Shown = Text(Stored) /\ Text(Stored) \in Seq(Nat))'
    BY AllShown, PTL
  <2> QED
    BY <1>1, <2>1
<1>5. Stored' = Stored
  BY <1>1 DEF Stored
<1> QED
  BY <1>1, <1>3, <1>4, <1>5 DEF TextOf, PartlyWritten

(* When the builder is emptied nothing is shown.                           *)
LEMMA EmptiedText ==
  ASSUME cells' = <<>>, used' = 0
  PROVE  Stored' = <<>> /\ Shown' = <<>> /\ (pc' # "writing" => PartlyWritten')
<1>1. Stored' = <<>>
  BY DEF Stored
<1>2. Text(Stored') = <<>>
  BY <1>1, TextEmpty
<1>3. Shown' = SubSeq(<<>>, 1, 0 - data')
  BY <1>2 DEF Shown
<1> QED
  BY <1>1, <1>3 DEF PartlyWritten

(* Each step is a step of the abstract builder, or leaves the text alone.  *)
LEMMA TextStep ==
  ASSUME NoLatin1Str, ReadsAlone, Inv, Inv', PartlyWritten, [Next]_vars
  PROVE  PartlyWritten' /\ [Builder!Next]_Builder!vars
<1>1. Inv'
  OBVIOUS
<1>2. pc # "writing" => data = 0
  BY DEF Inv, SizeSuffices
<1>3. ASSUME Shown' = Shown, made' = made PROVE [Builder!Next]_Builder!vars
  BY <1>3 DEF Builder!vars
<1>4. ASSUME NEW p \in Pieces, Shown' = Shown \o TextOf(p), made' = made
      PROVE  [Builder!Next]_Builder!vars
  <2>1. Builder!Extend(TextOf(p))
    BY <1>4 DEF Builder!Extend
  <2> QED
    BY <2>1 DEF Builder!Next
<1>5. ASSUME pc # "writing", data' = data, Stored' = Stored, made' = made
      PROVE  PartlyWritten' /\ [Builder!Next]_Builder!vars
  BY <1>1, <1>2, <1>3, <1>5, SameText
<1>6. ASSUME pc # "writing", NEW p \in Pieces, Put(p)
      PROVE  PartlyWritten' /\ [Builder!Next]_Builder!vars
  <2>1. data = 0 /\ data' = 0 /\ made' = made
    BY <1>2, <1>6 DEF Put
  <2>2. CASE Copy(p)
    BY <1>1, <1>4, <2>1, <2>2, CopyText
  <2>3. CASE Encoding(p)
    BY <1>5, <1>6, <2>1, <2>3 DEF Encoding, Stored
  <2> QED
    BY <1>6, <2>2, <2>3 DEF Put
<1>7. ASSUME NEW n \in Reserves, Reserve(n)
      PROVE  PartlyWritten' /\ [Builder!Next]_Builder!vars
  BY <1>5, <1>7 DEF Reserve, EnsureSize, Stored
<1>8. ASSUME NEW p \in Pieces, AppendSafe(p)
      PROVE  PartlyWritten' /\ [Builder!Next]_Builder!vars
  BY <1>5, <1>8 DEF AppendSafe, EnsureSize, Stored
<1>9. ASSUME NEW p \in Pieces, AppendFast(p)
      PROVE  PartlyWritten' /\ [Builder!Next]_Builder!vars
  BY <1>6, <1>9 DEF AppendFast
<1>10. CASE Grow
  <2>1. pc # "writing" /\ data' = data /\ made' = made /\ used' = used
    BY <1>10 DEF Grow, Double, Resize, ResizeFails
  <2>2. Stored' = Stored
    <3>1. CASE Resize
      BY <2>1, <3>1, MovedBytes DEF Stored
    <3>2. CASE Double \/ ResizeFails
      BY <2>1, <3>2 DEF Stored, Double, ResizeFails
    <3> QED
      BY <1>10, <3>1, <3>2 DEF Grow
  <2> QED
    BY <1>5, <2>1, <2>2
<1>11. CASE Ensured
  <2>1. CASE task = NoPiece /\ cells' = cells /\ used' = used /\ data' = data /\ made' = made
    BY <1>5, <1>11, <2>1 DEF Ensured, Stored
  <2>2. CASE task # NoPiece /\ Put(task)
    BY <1>6, <1>11, <2>2, Types DEF Ensured
  <2> QED
    BY <1>11, <2>1, <2>2 DEF Ensured
<1>12. CASE AppendChar3
  BY <1>1, <1>3, <1>12, PointText DEF AppendChar3
<1>13. CASE Appended
  <2>1. made' = made
    BY <1>13 DEF Appended
  <2> QED
    BY <1>1, <1>4, <1>13, <2>1, AppendedText
<1>14. CASE ToPython
  <2>1. pc = "ready" /\ pc' = pc /\ cells' = <<>> /\ used' = 0
    BY <1>14 DEF ToPython, Reset
  <2>2. Shown' = <<>> /\ PartlyWritten'
    BY <2>1, EmptiedText
  <2>3. Shown = Text(Stored)
    BY <1>2, <2>1, AllShown
  <2>4. CASE made' = Nothing
    BY <2>2, <2>4 DEF Builder!Next, Builder!GiveUp
  <2>5. CASE made' = Stored
    <3>1. made' # Nothing
      BY <2>5, StoredBytes, Utf8BuilderAssumption
    <3> QED
      BY <2>2, <2>3, <2>5, <3>1 DEF Builder!Next, Builder!Finish
  <2> QED
    BY <1>14, <2>4, <2>5 DEF ToPython
<1>15. CASE Discard
  <2>1. pc' # "writing" /\ cells' = <<>> /\ used' = 0 /\ made' = Nothing
    BY <1>15 DEF Discard, Reset
  <2>2. Shown' = <<>> /\ PartlyWritten'
    BY <2>1, EmptiedText
  <2> QED
    BY <2>1, <2>2 DEF Builder!Next, Builder!GiveUp
<1>16. CASE UNCHANGED vars
  <2>1. Stored' = Stored /\ data' = data /\ task' = task /\ pc' = pc /\ made' = made
    BY <1>16 DEF vars, storageVars, Stored
  <2>2. Shown' = Shown
    BY <2>1 DEF Shown
  <2> QED
    BY <1>3, <2>1, <2>2 DEF PartlyWritten
<1> QED
  BY <1>7, <1>8, <1>9, <1>10, <1>11, <1>12, <1>13, <1>14, <1>15, <1>16 DEF Next

(* A new builder shows no text.                                            *)
LEMMA InitText == Init => PartlyWritten /\ Builder!Init
<1> SUFFICES ASSUME Init PROVE PartlyWritten /\ Builder!Init
  OBVIOUS
<1>1. data = 0 /\ pc = "ready" /\ made = Nothing /\ Stored = <<>>
  BY DEF Init, BytesMemoryInit, Stored
<1>2. Shown = <<>>
  BY <1>1, TextEmpty DEF Shown
<1> QED
  BY <1>1, <1>2 DEF PartlyWritten, Builder!Init

(* What is stored reads as what was appended, piece by piece, and the      *)
(* bytes object that is made reads as exactly that: nothing is lost,       *)
(* doubled or mixed up, whatever fails.                                    *)
THEOREM Refinement ==
  ASSUME Careful, NoLatin1Str, ReadsAlone
  PROVE  Spec => ImplementsText
<1>1. Inv /\ Inv' /\ PartlyWritten /\ [Next]_vars
        => PartlyWritten' /\ [Builder!Next]_Builder!vars
  BY TextStep
<1> QED
  BY InitText, Invariance, <1>1, PTL DEF Spec, ImplementsText, Builder!Spec

(* So does a builder of the other build, whatever room its callers ask     *)
(* for, and it does not write behind its storage.                          *)
THEOREM DebugBuild ==
  ASSUME NoLatin1Str, ReadsAlone
  PROVE  Spec /\ ~release => [](InBounds /\ RoomIsKept) /\ ImplementsText
<1>1. Inv /\ Inv' /\ PartlyWritten /\ [Next]_vars
        => PartlyWritten' /\ [Builder!Next]_Builder!vars
  BY TextStep
<1>2. Inv => InBounds /\ RoomIsKept
  BY DEF Inv, RoomIsKept
<1> QED
  BY InitText, DebugInvariance, <1>1, <1>2, PTL DEF Spec, ImplementsText, Builder!Spec
=============================================================================
