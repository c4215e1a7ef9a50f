---------------------------- MODULE MCUtf8Builder ----------------------------
(* Pieces for Utf8Builder, of each way to append and each length of the    *)
(* encoding.                                                               *)
EXTENDS Utf8Builder

Char(point) == [by |-> "char", points |-> <<point>>]
Ascii(point) == [by |-> "ascii", points |-> <<point>>]
Cstr(bytes) == [by |-> "cstr", points |-> bytes]
Object(bytes) == [by |-> "bytes", points |-> bytes]
Str(points) == [by |-> "str", points |-> points]

(* The size reckoned is sometimes more than what is written, never less.   *)
MixedPieces ==
  {Char(233), Ascii(64), Object(<<195, 169>>), Str(<<66, 9786>>), Str(<<128512>>), Cstr(<<>>)}

(* As in bytes_builder of the test extension, on b"Hello World": three     *)
(* ASCII characters after EnsureSize(6), then eleven bytes.                *)
HelloPieces == {Ascii(64), Object([i \in 1..11 |-> 65])}

(* These pieces are ones that careful callers may append.                  *)
ASSUME PiecesReadAlone == NoLatin1Str /\ ReadsAlone
=============================================================================
