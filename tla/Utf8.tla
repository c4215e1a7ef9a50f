-------------------------------- MODULE Utf8 --------------------------------
(***************************************************************************)
(* _Encoding::_Utf8 of yapic/string-builder.hpp: what it writes for a code *)
(* point and how many bytes it says that takes, and what UTF-8 is.         *)
(* Shifts and masks are written as \div and %.                             *)
(***************************************************************************)
EXTENDS Integers, Sequences

(* The code points of Unicode: 17 planes.                                  *)
MaxCodePoint == 17 * 65536 - 1

CodePoints == 0..MaxCodePoint

(* The byte 0x80 | (bits & 0x3F).                                          *)
Continuation(bits) == 128 + (bits % 64)

(* Mutant of Encode: two bytes of the three byte form are swapped.         *)
EncodeSwapped(ch) ==
  IF ch <= 128 THEN <<ch>>
  ELSE IF ch < 2048 THEN <<192 + (ch \div 64), Continuation(ch)>>
  ELSE IF ch < 65536 THEN
    <<224 + (ch \div 4096), Continuation(ch), Continuation(ch \div 64)>>
  ELSE
    <<240 + (ch \div 262144), Continuation(ch \div 4096), Continuation(ch \div 64),
      Continuation(ch)>>

(* AppendChar, in any of its four forms: one to four bytes.                *)
Encode(ch) ==
  IF ch <= 128 THEN <<ch>>
  ELSE IF ch < 2048 THEN <<192 + (ch \div 64), Continuation(ch)>>
  ELSE IF ch < 65536 THEN
    <<224 + (ch \div 4096), Continuation(ch \div 64), Continuation(ch)>>
  ELSE
    <<240 + (ch \div 262144), Continuation(ch \div 4096), Continuation(ch \div 64),
      Continuation(ch)>>

(* Mutant of EncodedCharSize: Latin-1 is taken for one byte.               *)
CharSizeLatin1(ch) ==
  IF ch <= 255 THEN 1 ELSE IF ch <= 2047 THEN 2 ELSE IF ch <= 65535 THEN 3 ELSE 4

(* EncodedCharSize.                                                        *)
EncodedCharSize(ch) ==
  IF ch <= 127 THEN 1 ELSE IF ch <= 2047 THEN 2 ELSE IF ch <= 65535 THEN 3 ELSE 4

AtMost(points, max) == \A i \in DOMAIN points : points[i] <= max

(* RequiredSizeForUnicode: the bytes it reckons for each code point of a   *)
(* str, by PyUnicode_KIND.                                                 *)
BytesPerPoint(points) ==
  IF AtMost(points, 255) THEN 1 ELSE IF AtMost(points, 65535) THEN 3 ELSE 4

-----------------------------------------------------------------------------
(* UTF-8 itself, from the reader's side: a lead byte, continuation bytes   *)
(* of six bits each, and no longer form than the code point needs.         *)
Continues(b) == b \in 128..191

Shifted(high, b) == high * 64 + (b - 128)

Decodes(bytes, ch) ==
  \/ /\ Len(bytes) = 1
     /\ bytes[1] \in 0..127
     /\ ch = bytes[1]
  \/ /\ Len(bytes) = 2
     /\ bytes[1] \in 192..223 /\ Continues(bytes[2])
     /\ ch = Shifted(bytes[1] - 192, bytes[2])
     /\ ch >= 128
  \/ /\ Len(bytes) = 3
     /\ bytes[1] \in 224..239 /\ Continues(bytes[2]) /\ Continues(bytes[3])
     /\ ch = Shifted(Shifted(bytes[1] - 224, bytes[2]), bytes[3])
     /\ ch >= 2048
  \/ /\ Len(bytes) = 4
     /\ bytes[1] \in 240..247
     /\ Continues(bytes[2]) /\ Continues(bytes[3]) /\ Continues(bytes[4])
     /\ ch = Shifted(Shifted(Shifted(bytes[1] - 240, bytes[2]), bytes[3]), bytes[4])
     /\ ch >= 65536

(* A reader: a lead byte begins a code point with the bits behind its      *)
(* marker, a continuation byte extends the last one.                       *)
Marker(b) ==
  IF b \in 240..247 THEN 240 ELSE IF b \in 224..239 THEN 224 ELSE IF b \in 192..223 THEN 192 ELSE 0

Read(points, b) ==
  IF Continues(b) /\ points # <<>>
  THEN [points EXCEPT ![Len(points)] = Shifted(@, b)]
  ELSE Append(points, b - Marker(b))

(* What bytes read as, text[n] the first n of them.                        *)
Text(bytes) ==
  LET text[n \in 0..Len(bytes)] == IF n = 0 THEN <<>> ELSE Read(text[n - 1], bytes[n])
  IN  text[Len(bytes)]

(* What is written for a code point is its UTF-8 form.                     *)
EncodedRight(ch) == Decodes(Encode(ch), ch)

(* The room that AppendCharSafe makes is what AppendChar takes, no less.   *)
SizeCovers(ch) == Len(Encode(ch)) <= EncodedCharSize(ch)
=============================================================================
