-------------------------------- MODULE Types --------------------------------
(***************************************************************************)
(* Types as Python's typing module and yapic/typing.hpp represent them,    *)
(* and what they denote.  A name in the text of a forward reference stands *)
(* for the type it will have when it is evaluated, so a text is given by   *)
(* the type it spells; all texts are evaluated in one module's globals.    *)
(***************************************************************************)
EXTENDS Naturals, Sequences, TLC

LOCAL INSTANCE Functions

Class(c) == [k |-> "class", of |-> c]                  (* a class             *)
Alias(c, args) == [k |-> "alias", of |-> c, args |-> args]  (* c[args]        *)
TypeVar(v) == [k |-> "var", of |-> v]
ForwardRef(t) == [k |-> "ref", to |-> t]               (* "t" among arguments *)
Text(t) == [k |-> "text", to |-> t]                    (* "t" as annotation   *)
Name(n) == [k |-> "name", of |-> n]   (* a name in a text that no global has  *)
Unreadable == [k |-> "unreadable"]    (* a text that is no expression in ASCII *)

(* yapic's ForwardDecl: a code object with its locals, or a type some of   *)
(* whose arguments are ForwardDecls.                                       *)
CodeDecl(t, locals) == [k |-> "code", expr |-> t, locals |-> locals]
GenericDecl(t) == [k |-> "generic", decl |-> t]

Generic == "Generic"                                   (* typing.Generic      *)
Object == "object"
NoType == [k |-> "none"]
Origin(t) == t.of
IsForwardDecl(t) == t.k \in {"code", "generic"}
NoVars == [v \in {} |-> NoType]

-----------------------------------------------------------------------------
(* What a type denotes when the type variables have the given values: each *)
(* variable is replaced once, and each reference by what it spells, where  *)
(* some names may have extra values.                                       *)
RECURSIVE Denotes(_, _, _)
Denotes(t, values, extra) ==
  CASE t.k = "var" -> IF t.of \in DOMAIN values THEN values[t.of] ELSE t
    [] t.k = "alias" -> Alias(t.of, [i \in DOMAIN t.args |-> Denotes(t.args[i], values, extra)])
    [] t.k \in {"ref", "text"} -> Denotes(t.to, extra @@ values, extra)
    [] OTHER -> t

(* What it denotes to someone who supplies some of the names it leaves     *)
(* open: nothing when one is missing.                                      *)
RECURSIVE Filled(_, _)
Filled(t, extra) ==
  CASE t.k = "name" -> extra[t.of]
    [] t.k = "alias" -> Alias(t.of, [i \in DOMAIN t.args |-> Filled(t.args[i], extra)])
    [] OTHER -> t

(* The values that an instance t of a generic class gives to its           *)
(* parameters, where t is written in a scope with the given values.        *)
ValuesOf(t, params, values) ==
  IF t.k # "alias" THEN NoVars
  ELSE [v \in Range(params[t.of]) |->
          Denotes(t.args[CHOOSE i \in DOMAIN params[t.of] : params[t.of][i] = v], values, NoVars)]

(* A class and the values of its parameters, for the type t and for each   *)
(* class it inherits from, along each path.                                *)
RECURSIVE Bindings(_, _, _, _)
Bindings(t, params, bases, values) ==
  LET own == ValuesOf(t, params, values)
  IN  {<<Origin(t), own>>} \cup
        UNION {Bindings(b, params, bases, own) : b \in Range(bases[Origin(t)])}

(* The types a type is made of, itself included, but not what references   *)
(* in it spell; and the variables in it, those that they spell included.   *)
RECURSIVE Parts(_)
Parts(t) ==
  {t} \cup IF t.k = "alias" THEN UNION {Parts(t.args[i]) : i \in DOMAIN t.args} ELSE {}

Spelt(t) == {p.to : p \in {q \in Parts(t) : q.k \in {"ref", "text"}}}

NamesIn(t) == {p.of : p \in {q \in Parts(t) : q.k = "name"}}

VarsIn(t) ==
  {p.of : p \in {q \in Parts(t) \cup UNION {Parts(s) : s \in Spelt(t)} : q.k = "var"}}
=============================================================================
