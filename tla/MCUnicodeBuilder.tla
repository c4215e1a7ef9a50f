-------------------------- MODULE MCUnicodeBuilder --------------------------
(* Pieces for UnicodeBuilder: code points of each class that matters, an   *)
(* ASCII letter (65), a Latin-1 letter (233), one of the basic plane (9786)*)
(* and one above it (128512).                                              *)
EXTENDS UnicodeBuilder

Char(point) == [by |-> "char", points |-> <<point>>]
Ascii(point) == [by |-> "ascii", points |-> <<point>>]
Cstr(points) == [by |-> "cstr", points |-> points]
Str(points) == [by |-> "str", points |-> points]
Bytes(points) == [by |-> "bytes", points |-> points]

(* All classes of code points, strs that a char builder rejects, and bytes *)
(* that both do.  A code point above the basic plane comes in a str only:  *)
(* see WellAsked.                                                          *)
MixedPieces ==
  {Char(233), Char(9786), Ascii(65), Cstr(<<65, 66>>), Str(<<66, 9786>>), Str(<<128512>>),
   Str(<<65, 66, 65>>), Str(<<>>),
   Bytes(<<65, 200, 65>>)}

ASSUME PiecesWellAsked == WellAsked
=============================================================================
