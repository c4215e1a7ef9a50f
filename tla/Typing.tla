-------------------------------- MODULE Typing --------------------------------
(***************************************************************************)
(* class Typing and class ForwardDecl of yapic/typing.hpp: type variables  *)
(* resolved along the bases of a class, hints of classes and callables,    *)
(* forward declarations and their evaluation.  The functions keep nothing  *)
(* between calls, so the state is a program, what was asked about it and   *)
(* the answer, whose forward declarations can be called or unpacked.       *)
(***************************************************************************)
EXTENDS Types, Parameters, FiniteSets

LOCAL INSTANCE SequencesExt

CONSTANTS
  Programs,    (* what Python code defines, see WellFormed                 *)
  Extras       (* locals that Resolve is given on top of a hint's own      *)

VARIABLES
  program,     (* [params, bases, mro, annots, inits], functions of classes, *)
               (* and what it asks about: [queries, callables]             *)
  asked,       (* the call that was made, and its arguments                *)
  answer       (* what it returned                                         *)

typingVars == <<program, asked, answer>>

(* A call returns NULL, recurs without end, dereferences NULL, or leaves   *)
(* its caller an exception that it raised on the way and never cleared.    *)
Null == [k |-> "null"]
Diverges == [k |-> "diverges"]
Crashes == [k |-> "crashes"]
Stale == [k |-> "stale"]
Failed(r) == "k" \in DOMAIN r /\ r.k \in {"null", "diverges", "crashes", "stale"}
FailureIn(s) == s[CHOOSE i \in DOMAIN s : Failed(s[i]) /\ \A j \in 1..(i - 1) : ~Failed(s[j])]
AnyFailed(s) == \E i \in DOMAIN s : Failed(s[i])

-----------------------------------------------------------------------------
(* Some ForwardDecl is in a type: *hasFwd at the end of _SubstType.        *)
RECURSIVE HasFwd(_)
HasFwd(t) ==
  IsForwardDecl(t) \/ (t.k = "alias" /\ \E i \in DOMAIN t.args : HasFwd(t.args[i]))

(* copy_with, if none of the arguments failed.                             *)
WithArgs(t, args) == IF AnyFailed(args) THEN FailureIn(args) ELSE Alias(t.of, args)

(* _SubstType.  What replaces a variable is itself substituted, with the   *)
(* same values, so that a variable among whose replacements it is itself   *)
(* never comes to an end (open has those being replaced).  An alias with   *)
(* no arguments makes it return NULL.  A reference is evaluated in the     *)
(* module of the type that t was found in: where there is none, NoType,    *)
(* the code asks NULL for its __module__.                                  *)
RECURSIVE Substituted(_, _, _, _, _)
Substituted(t, type, vars, locals, open) ==
  CASE t.k = "var" /\ t.of \in DOMAIN vars /\ vars[t.of] # t ->
         IF t.of \in open THEN Diverges
         ELSE Substituted(vars[t.of], type, vars, locals, open \cup {t.of})
    [] t.k = "ref" -> IF type = NoType THEN Crashes ELSE CodeDecl(t.to, locals)
    [] t.k = "alias" /\ t.args = <<>> -> Null
    [] t.k = "alias" /\ t.args # <<>> ->
         WithArgs(t, [i \in DOMAIN t.args |-> Substituted(t.args[i], type, vars, locals, open)])
    [] OTHER -> t

(* Mutant of SubstType: a type with ForwardDecls in it is not made one.     *)
SubstTypeBare(t, type, vars, locals) == Substituted(t, type, vars, locals, {})

SubstType(t, type, vars, locals) ==
  LET r == Substituted(t, type, vars, locals, {})
  IN  IF ~Failed(r) /\ HasFwd(r) /\ ~IsForwardDecl(r) THEN GenericDecl(r) ELSE r

(* Mutant of ResolveTypeVars: the arguments are taken as they stand.       *)
ResolveTypeVarsRaw(type, vars) ==
  IF type.k # "alias" THEN NoVars
  ELSE [v \in Range(program.params[type.of]) |->
          type.args[CHOOSE i \in DOMAIN type.args : program.params[type.of][i] = v]]

(* ResolveTypeVars: what a type's arguments make of its parameters.        *)
ResolveTypeVars(type, vars) ==
  IF type.k # "alias" THEN NoVars
  ELSE LET params == program.params[type.of]
           args == [i \in DOMAIN params |-> SubstType(type.args[i], type, vars, NoVars)]
       IN  IF AnyFailed(args) THEN FailureIn(args)
           ELSE [v \in {params[i] : i \in DOMAIN params} |->
                   args[CHOOSE i \in DOMAIN params : params[i] = v]]

(* __orig_bases__ of a class exists if a base is not a class, and is found *)
(* by attribute lookup: a class without one has that of the first class in *)
(* its MRO with one.                                                       *)
Owners(p, c) ==
  SelectSeq(p.mro[c], LAMBDA d : \E i \in DOMAIN p.bases[d] : p.bases[d][i].k = "alias")
OrigBases(c) ==
  IF Owners(program, c) = <<>> THEN <<>> ELSE program.bases[Head(Owners(program, c))]

(* The recursive ResolveMro, with ReplaceMro: for each base, the base's    *)
(* entries and then the class's own are put in place.  A class that is not *)
(* in the MRO has none.  Nothing checks whether the values of the class     *)
(* could be made, and with none the first base ends in a dereferenced NULL. *)
Entry(type, vars) == [type |-> type, vars |-> vars]

RECURSIVE Entries(_, _, _)
Entries(type, vars, resolved) ==
  LET own == ResolveTypeVars(type, vars)
      AfterBase(r, base) ==
        IF Failed(r) THEN r
        ELSE IF Failed(own) THEN (IF own = Diverges THEN Diverges ELSE Crashes)
        ELSE LET below == Entries(base, own, r)
             IN  IF Failed(below) \/ Origin(type) \notin DOMAIN below THEN below
                 ELSE [below EXCEPT ![Origin(type)] = Entry(type, own)]
  IN  FoldLeft(AfterBase, resolved, OrigBases(Origin(type)))

(* ResolveMro with FillMroHoles: who is not found has no values.           *)
Hole == Entry(NoType, NoVars)
Mro(type) == program.mro[Origin(type)]
ResolveMro(type, vars) ==
  Entries(type, vars, [c \in ToSet(Mro(type)) |-> Hole])

-----------------------------------------------------------------------------
(* Mutant of Hint: what is in a text is evaluated without the variables.   *)
HintGlobal(t, type, vars) ==
  CASE t = Unreadable -> Null
    [] t.k = "text" -> CodeDecl(t.to, NoVars)
    [] OTHER -> SubstType(t, type, vars, vars)

(* VarsToLocals names each value by its variable's name, which here is the *)
(* variable.  An annotation or an argument: a text becomes a ForwardDecl,  *)
(* if it can be compiled, in the globals of the class or of the function.  *)
Hint(t, type, vars) ==
  CASE t = Unreadable -> Null
    [] t.k = "text" -> CodeDecl(t.to, vars)
    [] OTHER -> SubstType(t, type, vars, vars)

(* ResolveArgumentType.                                                    *)
ArgType(func, name, type, vars) ==
  IF name \in DOMAIN func.annots THEN Hint(func.annots[name], type, vars) ELSE NoType

(* ResolveArguments fails at the first parameter whose hint cannot be made. *)
ResolveArguments(func, offset, type, vars) ==
  LET types == [n \in ToSet(func.pos) \cup ToSet(func.kwonly) |-> ArgType(func, n, type, vars)]
      hints == Listed(func, offset, types)
      made == [i \in DOMAIN hints.pos |-> hints.pos[i].type]
              \o [i \in DOMAIN hints.kw |-> hints.kw[i].type]
  IN  IF AnyFailed(made) THEN FailureIn(made) ELSE hints

-----------------------------------------------------------------------------
(* Callables: a function; a method bound to an instance; a slot wrapper; or *)
(* an object, with what the classes of its type's MRO define as __call__.  *)
(* orig is the __orig_class__ of the instance or of the object, or NoType. *)
Nothing == [k |-> "nothing"]
Function(f) == [k |-> "function", func |-> f]
Method(f, orig) == [k |-> "method", func |-> f, orig |-> orig]
Wrapper == [k |-> "wrapper"]
Instance(calls, orig) == [k |-> "object", calls |-> calls, orig |-> orig]

(* CallableInfo: the function to look at, and what it is bound to; a       *)
(* wrapper has none, which is an error unless it is optional.  A class     *)
(* without __call__ in front of the one that has it leaves its KeyError    *)
(* pending: whoever raises another exception replaces it.                  *)
Unbound == [k |-> "unbound"]
BoundTo(orig) == [k |-> "bound", orig |-> orig]

RECURSIVE CallableInfo(_, _)
CallableInfo(callable, bound) ==
  CASE callable.k = "function" -> [func |-> callable.func, bound |-> bound, pending |-> FALSE]
    [] callable.k = "method" ->
         [func |-> callable.func, bound |-> BoundTo(callable.orig), pending |-> FALSE]
    [] callable.k = "object" ->
         LET found == SelectSeq(callable.calls, LAMBDA c : c # Nothing)
             info == CallableInfo(Head(found), BoundTo(callable.orig))
         IN  IF found = <<>> THEN Null
             ELSE IF info \in {Null, Wrapper} THEN info
             ELSE [info EXCEPT !.pending = @ \/ Head(callable.calls) = Nothing]
    [] OTHER -> Wrapper

(* CallableHints of a callable alone: an instance of a generic class knows *)
(* the values of that class's variables, and is the type that references   *)
(* are evaluated for; without one there is no type, and no module.  An     *)
(* exception that is pending is gone before the hints are made: PyErr_Clear *)
(* follows a missing __orig_class__, and the end of ResolveTypeVars, which  *)
(* before it substitutes in an alias or a reference looks it up in the      *)
(* values, a lookup that clears what it raises.                             *)
HintsOfCallable(callable, vars) ==
  LET info == CallableInfo(callable, Unbound)
  IN  IF info \in {Null, Wrapper} THEN Null
      ELSE IF info.bound = Unbound THEN ResolveArguments(info.func, 0, NoType, vars)
      ELSE LET orig == info.bound.orig
               own == IF orig = NoType THEN vars ELSE ResolveTypeVars(orig, vars)
           IN  IF Failed(own) THEN own ELSE ResolveArguments(info.func, 1, orig, own)

(* CallableHints of a callable and the type it belongs to: one of a set of *)
(* answers.  Nothing here clears an exception that is pending.  It makes   *)
(* calls into Python fail, and is set when the hints are returned, unless  *)
(* the interpreter drops it in a lookup or an import of its own, which     *)
(* depends on its caches.                                                  *)
HintsWithType(callable, type, vars) ==
  LET info == CallableInfo(callable, BoundTo(type))
  IN  IF info \in {Null, Wrapper} THEN {Null}
      ELSE {ResolveArguments(info.func, 1, type, vars)} \cup (IF info.pending THEN {Stale} ELSE {})

-----------------------------------------------------------------------------
(* TypeHints: the attributes of the classes of the MRO but the last, the   *)
(* first one's first; and the arguments of the first __init__ that is not  *)
(* a wrapper.                                                              *)
AddAnnots(attrs, c, vars) ==
  LET annots == program.annots[c]
      new == [a \in DOMAIN annots \ DOMAIN attrs |-> Hint(annots[a], Class(c), vars)]
      failed == {a \in DOMAIN new : Failed(new[a])}
  IN  IF failed # {} THEN new[CHOOSE a \in failed : TRUE] ELSE attrs @@ new

InitHints(init, c, vars) ==
  IF init \in {Nothing, Wrapper} THEN NoType
  ELSE ResolveArguments(CallableInfo(init, BoundTo(Class(c))).func, 1, Class(c), vars)

TypeHints(type) ==
  LET mro == ResolveMro(type, NoVars)
      AfterClass(r, c) ==
        IF Failed(r) THEN r
        ELSE LET attrs == AddAnnots(r.attrs, c, mro[c].vars)
                 init == IF r.init # NoType THEN r.init
                         ELSE InitHints(program.inits[c], c, mro[c].vars)
             IN  IF Failed(attrs) THEN attrs ELSE IF Failed(init) THEN init
                 ELSE [attrs |-> attrs, init |-> init]
  IN  IF Failed(mro) THEN mro
      ELSE FoldLeft(AfterClass, [attrs |-> NoVars, init |-> NoType], Front(Mro(type)))

-----------------------------------------------------------------------------
(* Evaluating a text puts the locals' values in the place of all variables *)
(* at once, and leaves references in it as they are. It fails at a name    *)
(* that neither they nor the globals have.                                 *)
RECURSIVE Eval(_, _)
Eval(t, locals) ==
  CASE t.k \in {"var", "name"} /\ t.of \in DOMAIN locals -> locals[t.of]
    [] t.k = "name" /\ t.of \notin DOMAIN locals -> Null
    [] t.k = "alias" -> WithArgs(t, [i \in DOMAIN t.args |-> Eval(t.args[i], locals)])
    [] OTHER -> t

(* ForwardDecl::Resolve: what is evaluated, or the arguments of a type, may *)
(* be or hold further ForwardDecls.                                        *)
RECURSIVE Resolve(_, _)
Resolve(t, extra) ==
  CASE t.k = "code" -> Resolve(Eval(t.expr, extra @@ t.locals), extra)
    [] t.k = "generic" -> Resolve(t.decl, extra)
    [] t.k = "alias" -> WithArgs(t, [i \in DOMAIN t.args |-> Resolve(t.args[i], extra)])
    [] OTHER -> t

(* UnpackForwardDecl: the class, and a ForwardDecl for each argument.      *)
AsForwardDecl(t) == IF IsForwardDecl(t) THEN t ELSE GenericDecl(t)

(* Mutant of Unpacked: an argument that is a ForwardDecl is wrapped only in *)
(* what it stands for, without its locals.                                  *)
UnpackedGlobal(fwd) ==
  IF fwd.k # "generic" \/ fwd.decl.k # "alias" THEN Null
  ELSE [of |-> fwd.decl.of,
        args |-> [i \in DOMAIN fwd.decl.args |->
                    IF fwd.decl.args[i].k = "code" THEN CodeDecl(fwd.decl.args[i].expr, NoVars)
                    ELSE AsForwardDecl(fwd.decl.args[i])]]

Unpacked(fwd) ==
  IF fwd.k # "generic" \/ fwd.decl.k # "alias" THEN Null
  ELSE [of |-> fwd.decl.of, args |-> [i \in DOMAIN fwd.decl.args |-> AsForwardDecl(fwd.decl.args[i])]]

-----------------------------------------------------------------------------
(* The function that a call of a callable runs, if that is in Python.      *)
RECURSIVE Runs(_)
Runs(callable) ==
  IF callable.k # "object" THEN callable
  ELSE LET defined == {i \in DOMAIN callable.calls : callable.calls[i] # Nothing}
           first == callable.calls[CHOOSE i \in defined : \A j \in defined : i <= j]
       IN  IF defined = {} THEN Nothing
           ELSE IF first.k = "function" THEN Method(first.func, callable.orig) ELSE Runs(first)

(* What callers must keep.  References spell no further references, and in *)
(* the bases of a class no variables.  A class that inherits               *)
(* __orig_bases__ has at most one base with any; a generic class is not    *)
(* used bare.  Only texts have names that are not defined yet.  What a     *)
(* class defines as __init__ is a function.  Functions have no default for *)
(* what they are bound to.                                                 *)
IsType(p, t) ==
  /\ NamesIn(t) = {}
  /\ \A s \in Parts(t) \cup UNION {Parts(u) : u \in Spelt(t)} :
       /\ s.k = "alias" => Len(s.args) > 0 /\ (s.of = Generic \/ Len(s.args) = Len(p.params[s.of]))
       /\ s.k = "class" => p.params[s.of] = <<>>

WellFormed(p) ==
  /\ \A c \in DOMAIN p.inits : p.inits[c].k \in {"nothing", "wrapper", "function"}
  /\ \A f \in p.callables \cup {p.inits[c] : c \in DOMAIN p.inits} :
       Runs(f) \notin {Nothing, Wrapper} => FreeSelf(Runs(f).func, TRUE)
  /\ \A c \in DOMAIN p.bases :
      /\ \A i \in DOMAIN p.bases[c] :
           /\ IsType(p, p.bases[c][i])
           /\ \A s \in Spelt(p.bases[c][i]) : Spelt(s) = {} /\ VarsIn(s) = {}
      /\ \A a \in DOMAIN p.annots[c] :
           IsType(p, p.annots[c][a]) /\ \A s \in Spelt(p.annots[c][a]) : Spelt(s) = {}
      /\ (\A i \in DOMAIN p.bases[c] : p.bases[c][i].k = "class") =>
           Cardinality({i \in DOMAIN p.bases[c] : Owners(p, p.bases[c][i].of) # <<>>}) <= 1

-----------------------------------------------------------------------------
Asked(call, args) == asked' = [by |-> call, args |-> args]

Init ==
  /\ program \in Programs
  /\ asked = [by |-> "nothing", args |-> <<>>]
  /\ answer = NoType

(* A type that a ForwardDecl was resolved to may be asked about in turn.   *)
Askable == program.queries \cup (IF asked.by = "Call" /\ ~Failed(answer) THEN {answer} ELSE {})

AskVars(t) ==
  /\ Asked("ResolveTypeVars", <<t>>)
  /\ answer' = ResolveTypeVars(t, NoVars)
  /\ UNCHANGED program

AskMro(t) ==
  /\ Asked("ResolveMro", <<t>>)
  /\ answer' = ResolveMro(t, NoVars)
  /\ UNCHANGED program

AskHints(t) ==
  /\ Asked("TypeHints", <<t>>)
  /\ answer' = TypeHints(t)
  /\ UNCHANGED program

AskCallable(c) ==
  /\ Asked("CallableHints", <<c>>)
  /\ answer' = HintsOfCallable(c, NoVars)
  /\ UNCHANGED program

AskMethod(c, t) ==
  /\ Asked("CallableHints", <<c, t>>)
  /\ LET vars == ResolveTypeVars(t, NoVars)
     IN  answer' \in IF Failed(vars) THEN {vars} ELSE HintsWithType(c, t, vars)
  /\ UNCHANGED program

(* A hint is called, or unpacked, which callers do to generic ones.        *)
Call(fwd, extra) ==
  /\ Asked("Call", <<fwd, extra>>)
  /\ answer' = Resolve(fwd, extra)
  /\ UNCHANGED program

Unpack(fwd) ==
  /\ Asked("UnpackForwardDecl", <<fwd>>)
  /\ answer' = Unpacked(fwd)
  /\ UNCHANGED program

-----------------------------------------------------------------------------
(* The types in an answer.                                                 *)
Image(f) == {f[x] : x \in DOMAIN f}
ArgumentTypes(hints) ==
  {hints.pos[i].type : i \in DOMAIN hints.pos} \cup {hints.kw[i].type : i \in DOMAIN hints.kw}

Hints ==
  CASE Failed(answer) \/ asked.by \in {"nothing", "Call"} -> {}
    [] asked.by = "ResolveTypeVars" -> Image(answer)
    [] asked.by = "ResolveMro" -> UNION {Image(answer[c].vars) : c \in DOMAIN answer}
    [] asked.by = "TypeHints" -> Image(answer.attrs) \cup
         (IF answer.init = NoType THEN {} ELSE ArgumentTypes(answer.init))
    [] asked.by = "CallableHints" -> ArgumentTypes(answer)
    [] asked.by = "UnpackForwardDecl" -> Image(answer.args)

Next ==
  \/ \E t \in Askable : AskVars(t) \/ AskMro(t) \/ AskHints(t)
  \/ \E c \in program.callables : AskCallable(c) \/ \E t \in Askable : AskMethod(c, t)
  \/ \E fwd \in {h \in Hints : IsForwardDecl(h)} : Unpack(fwd) \/ \E extra \in Extras : Call(fwd, extra)

Spec == Init /\ [][Next]_typingVars

-----------------------------------------------------------------------------
(* A hint that holds a ForwardDecl is one, so that whoever gets it sees    *)
(* that it must be called; and it holds no reference that is not in one.   *)
IsHint(h) ==
  /\ HasFwd(h) => IsForwardDecl(h)
  /\ \A p \in Parts(IF h.k = "generic" THEN h.decl ELSE h) : p.k \notin {"ref", "text"}

TypeOK == program \in Programs /\ \A h \in Hints : IsHint(h)

(* Which of a callable's annotations are asked about, and where in the MRO *)
(* something is found.                                                     *)
Readable(f, bound) ==
  \A n \in ToSet(Taken(f, bound)) \cup ToSet(f.kwonly) :
    n \in DOMAIN f.annots => f.annots[n] # Unreadable

MroOf(t) == program.mro[Origin(t)]
FirstIn(mro, P(_)) == mro[CHOOSE i \in DOMAIN mro : P(mro[i]) /\ \A j \in 1..(i - 1) : ~P(mro[j])]
Initialises(c) == program.inits[c] \notin {Nothing, Wrapper}

(* The hints of the callable c are asked for with no type to look up a     *)
(* module in, and one of them has a reference in it: not a text as a whole. *)
HasRef(t) == \E p \in Parts(t) : p.k = "ref"
NoModule(c) ==
  /\ c.k = "function" \/ (c.k = "method" /\ c.orig = NoType)
  /\ \E n \in ToSet(Taken(c.func, c.k = "method")) \cup ToSet(c.func.kwonly) :
       n \in DOMAIN c.func.annots /\ HasRef(c.func.annots[n])

(* The class of c, or that of what is found as its __call__, inherits it.  *)
RECURSIVE Inherited(_)
Inherited(c) ==
  c.k = "object" /\ (Head(c.calls) = Nothing \/ Inherited(Head(c.calls)))

(* Every question about closed types has an answer, but those about        *)
(* callables without a Python function, and unpacking what is no generic   *)
(* type: no substitution recurs for ever, and NULL is dereferenced only    *)
(* for a reference in the hints of a callable asked for without a type.    *)
(* An annotation that cannot be compiled fails the hints that it is one    *)
(* of, but not those of a class whose MRO has another annotation, or       *)
(* another __init__, in front.  Only the hints of an object that inherits  *)
(* its __call__, asked for with a type, may come with an exception.        *)
Answered ==
  /\ Failed(answer) => answer \in {Null, Crashes, Stale}
  /\ answer = Crashes => asked.by = "CallableHints" /\ NoModule(Runs(asked.args[1]))
  /\ answer = Stale =>
       asked.by = "CallableHints" /\ Len(asked.args) = 2 /\ Inherited(asked.args[1])
  /\ asked.by # "Call" /\ answer # Stale =>
       (Failed(answer) <=>
         \/ /\ asked.by = "CallableHints"
            /\ LET runs == Runs(asked.args[1])
               IN  \/ runs \in {Nothing, Wrapper}
                   \/ ~Readable(runs.func, Len(asked.args) = 2 \/ runs.k = "method")
                   \/ Len(asked.args) = 1 /\ NoModule(runs)
         \/ /\ asked.by = "TypeHints"
            /\ LET mro == MroOf(asked.args[1])
               IN  \/ \E c \in ToSet(mro) : \E a \in DOMAIN program.annots[c] :
                        /\ program.annots[c][a] = Unreadable
                        /\ c = FirstIn(mro, LAMBDA d : a \in DOMAIN program.annots[d])
                   \/ /\ \E c \in ToSet(mro) : Initialises(c)
                      /\ ~Readable(Runs(program.inits[FirstIn(mro, Initialises)]).func, TRUE)
         \/ /\ asked.by = "UnpackForwardDecl"
            /\ asked.args[1].k = "code" \/ asked.args[1].decl.k # "alias")

(* A hint, called with any extra locals, gives the type it denotes; it     *)
(* fails when a name in that type has no definition.                       *)
Gives(hint, t, values) ==
  \A extra \in Extras :
    Resolve(hint, extra) =
      LET type == Denotes(t, values, extra)
      IN  IF NamesIn(type) \subseteq DOMAIN extra THEN Filled(type, extra) ELSE Null

(* Values of type variables, resolved, are what they denote along some     *)
(* path of bases, for the type itself and each class it inherits from.     *)
Mean(vars, values) ==
  DOMAIN vars = DOMAIN values /\ \A v \in DOMAIN vars : Gives(vars[v], values[v], NoVars)
BindingsOf(t) == Bindings(t, program.params, program.bases, NoVars)

ValuesRight ==
  ~Failed(answer) =>
    /\ asked.by = "ResolveTypeVars" =>
         Mean(answer, ValuesOf(asked.args[1], program.params, NoVars))
    /\ asked.by = "ResolveMro" =>
         \A c \in DOMAIN answer \ {Object} :
           \E b \in BindingsOf(asked.args[1]) : b[1] = c /\ Mean(answer[c].vars, b[2])

TypeIs(type, annots, name, values) ==
  IF name \in DOMAIN annots THEN Gives(type, annots[name], values) ELSE type = NoType

ArgumentsAre(hints, f, bound, values) ==
  /\ AreParameters(hints, f, bound)
  /\ \A i \in DOMAIN hints.pos :
       TypeIs(hints.pos[i].type, f.annots, hints.pos[i].name, values)
  /\ \A i \in DOMAIN hints.kw :
       TypeIs(hints.kw[i].type, f.annots, hints.kw[i].name, values)

(* The hints of a callable are those of the function that a call would     *)
(* run, where the variables of its class have the values that the given    *)
(* type, or the class the instance was made from, gives them; Answered     *)
(* says when there are none.                                               *)
ArgumentsRight ==
  asked.by = "CallableHints" /\ ~Failed(answer) =>
    LET runs == Runs(asked.args[1])
        of == IF Len(asked.args) = 2 THEN asked.args[2]
              ELSE IF runs.k = "method" THEN runs.orig ELSE NoType
    IN  ArgumentsAre(answer, runs.func, Len(asked.args) = 2 \/ runs.k = "method",
          ValuesOf(of, program.params, NoVars))

(* The hint of an attribute is its annotation in the first class of the    *)
(* MRO that has one, with the values that class has; and the hints of      *)
(* __init__ are those of the first class that defines it in Python.        *)
HintsRight ==
  asked.by = "TypeHints" /\ ~Failed(answer) =>
    LET mro == MroOf(asked.args[1])
        With(c, P(_)) == \E b \in BindingsOf(asked.args[1]) : b[1] = c /\ P(b[2])
    IN  /\ DOMAIN answer.attrs = UNION {DOMAIN program.annots[c] : c \in ToSet(mro)}
        /\ \A a \in DOMAIN answer.attrs :
             LET c == FirstIn(mro, LAMBDA d : a \in DOMAIN program.annots[d])
             IN  With(c, LAMBDA values : TypeIs(answer.attrs[a], program.annots[c], a, values))
        /\ IF \E c \in ToSet(mro) : Initialises(c)
           THEN LET c == FirstIn(mro, Initialises)
                IN  With(c, LAMBDA values :
                      ArgumentsAre(answer.init, Runs(program.inits[c]).func, TRUE, values))
           ELSE answer.init = NoType

(* The parts of an unpacked ForwardDecl resolve to the arguments of what   *)
(* it resolves to itself.                                                  *)
UnpackRight ==
  asked.by = "UnpackForwardDecl" /\ ~Failed(answer) =>
    \A extra \in Extras :
      Resolve(asked.args[1], extra) =
        LET parts == [i \in DOMAIN answer.args |-> Resolve(answer.args[i], extra)]
        IN  IF AnyFailed(parts) THEN Null ELSE Alias(answer.of, parts)
=============================================================================
