----------------------------- MODULE TextBuilder -----------------------------
(***************************************************************************)
(* What the string builders of yapic/string-builder.hpp promise: appended  *)
(* pieces follow each other, and the object that is made at the end is     *)
(* made of exactly these.                                                  *)
(***************************************************************************)
EXTENDS Sequences

CONSTANTS
  Contents,     (* what may be appended in one call: sequences of units      *)
  Nothing       (* no object has been made yet                               *)

VARIABLES
  text,         (* what has been appended to the builder                     *)
  made          (* the units of the last object made                         *)

vars == <<text, made>>

Init ==
  /\ text = <<>>
  /\ made = Nothing

Extend(c) ==
  /\ text' = text \o c
  /\ made' = made

Finish ==
  /\ made' = text
  /\ text' = <<>>

(* The builder is destroyed, or an operation fails and it is given up.     *)
GiveUp ==
  /\ text' = <<>>
  /\ made' = Nothing

Next == (\E c \in Contents : Extend(c)) \/ Finish \/ GiveUp

Spec == Init /\ [][Next]_vars
=============================================================================
