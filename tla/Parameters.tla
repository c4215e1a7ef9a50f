------------------------------ MODULE Parameters ------------------------------
(***************************************************************************)
(* The lists of parameters that Typing::ResolveArguments of                *)
(* yapic/typing.hpp makes of a function: [pos, defaults, kwonly,           *)
(* kwdefaults], as in its code object, __defaults__ and __kwdefaults__.    *)
(***************************************************************************)
EXTENDS Integers, Sequences

(* A parameter without a default has an entry of two items.                *)
NoDefault == <<>>

(* Mutant of Positional: the defaults are those of the first parameters.   *)
PositionalFirst(func, offset, types) ==
  [i \in 1..(Len(func.pos) - offset) |->
     [name |-> func.pos[i + offset],
      type |-> types[func.pos[i + offset]],
      default |-> IF i <= Len(func.defaults) THEN <<func.defaults[i]>> ELSE NoDefault]]

(* The first offset parameters are left out; the defaults are handed out in *)
(* order to the parameters from co_argcount - defcount on.                  *)
Positional(func, offset, types) ==
  LET first == Len(func.pos) - Len(func.defaults)
      start == IF first > offset THEN first ELSE offset
  IN  [i \in 1..(Len(func.pos) - offset) |->
         [name |-> func.pos[i + offset],
          type |-> types[func.pos[i + offset]],
          default |-> IF i + offset > first THEN <<func.defaults[i + offset - start]>>
                      ELSE NoDefault]]

KeywordOnly(func, types) ==
  [i \in DOMAIN func.kwonly |->
     [name |-> func.kwonly[i],
      type |-> types[func.kwonly[i]],
      default |-> IF func.kwonly[i] \in DOMAIN func.kwdefaults
                  THEN <<func.kwdefaults[func.kwonly[i]]>> ELSE NoDefault]]

Listed(func, offset, types) ==
  [pos |-> Positional(func, offset, types), kw |-> KeywordOnly(func, types)]

-----------------------------------------------------------------------------
(* What a call may pass by position: all, or all but what it is bound to.  *)
Taken(f, bound) == IF bound THEN SubSeq(f.pos, 2, Len(f.pos)) ELSE f.pos

(* A parameter's default is Python's: the defaults are those of the last   *)
(* positional parameters, whether or not the first one is bound.           *)
DefaultOf(f, i) ==
  LET fromEnd == Len(f.pos) - i
  IN  IF fromEnd < Len(f.defaults) THEN <<f.defaults[Len(f.defaults) - fromEnd]>> ELSE NoDefault

(* The parameters are those of f, in its order and with its defaults.      *)
AreParameters(list, f, bound) ==
  /\ [i \in DOMAIN list.pos |-> list.pos[i].name] = Taken(f, bound)
  /\ \A i \in DOMAIN list.pos : list.pos[i].default = DefaultOf(f, IF bound THEN i + 1 ELSE i)
  /\ [i \in DOMAIN list.kw |-> list.kw[i].name] = f.kwonly
  /\ \A i \in DOMAIN list.kw :
       list.kw[i].default =
         IF f.kwonly[i] \in DOMAIN f.kwdefaults THEN <<f.kwdefaults[f.kwonly[i]]>> ELSE NoDefault

(* What callers keep: a parameter that is bound has no default.            *)
FreeSelf(f, bound) == bound => f.pos = <<>> \/ Len(f.defaults) < Len(f.pos)
=============================================================================
