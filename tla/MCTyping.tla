------------------------------- MODULE MCTyping -------------------------------
(* Small programs for Typing: chains of generic classes that share names of   *)
(* type variables, a diamond, and classes that are not generic themselves.    *)
EXTENDS Typing

T == TypeVar("T")
U == TypeVar("U")
Node == Class("Node")
Leaf == Class("Leaf")
N == Name("N")
Box(t) == Alias("Box", <<t>>)
Pair(t, u) == Alias("Pair", <<t, u>>)
GenericBase(vars) == Alias(Generic, vars)

NoAnnots == NoVars
NoDefaults == [n \in {} |-> "d"]
Func(pos, defaults, kwonly, kwdefaults, annots) ==
  [pos |-> pos, defaults |-> defaults, kwonly |-> kwonly, kwdefaults |-> kwdefaults, annots |-> annots]

(* def __init__(self, a: T, b: Box["T"] = "d1", *, kw: "Box[T]" = "d2")       *)
Init3 ==
  Function(Func(<<"self", "a", "b">>, <<"d1">>, <<"kw", "kx">>, [n \in {"kw"} |-> "d2"],
    ("a" :> T) @@ ("b" :> Box(ForwardRef(T))) @@ ("kw" :> Text(Box(T)))))

(* The classes that every program has: Node, Leaf, Box[T] and Pair[K, V].     *)
Common == [
  params |-> (Object :> <<>>) @@ (Generic :> <<>>) @@ ("Node" :> <<>>) @@ ("Leaf" :> <<>>)
             @@ ("dict" :> <<>>) @@ ("Box" :> <<"T">>) @@ ("Pair" :> <<"K", "V">>),
  bases  |-> (Object :> <<>>) @@ (Generic :> <<>>) @@ ("Node" :> <<>>) @@ ("Leaf" :> <<Class("dict")>>)
             @@ ("dict" :> <<>>) @@ ("Box" :> <<GenericBase(<<T>>)>>)
             @@ ("Pair" :> <<GenericBase(<<TypeVar("K"), TypeVar("V")>>)>>),
  mro    |-> (Object :> <<Object>>) @@ (Generic :> <<Generic, Object>>) @@ ("Node" :> <<"Node", Object>>)
             @@ ("Leaf" :> <<"Leaf", "dict", Object>>) @@ ("dict" :> <<"dict", Object>>)
             @@ ("Box" :> <<"Box", Generic, Object>>) @@ ("Pair" :> <<"Pair", Generic, Object>>),
  annots |-> (Object :> NoAnnots) @@ (Generic :> NoAnnots) @@ ("dict" :> NoAnnots)
             @@ ("Node" :> ("next" :> Text(Node)))
             @@ ("Leaf" :> ("of" :> Text(Box(Node)))) @@ ("Box" :> ("item" :> T)) @@ ("Pair" :> NoAnnots),
  inits  |-> (Object :> Wrapper) @@ (Generic :> Nothing) @@ ("dict" :> Wrapper)
             @@ ("Node" :> Nothing) @@ ("Leaf" :> Nothing) @@ ("Box" :> Nothing) @@ ("Pair" :> Nothing)]

With(classes, queries, callables) == [
  params |-> [c \in DOMAIN classes |-> classes[c].params] @@ Common.params,
  bases  |-> [c \in DOMAIN classes |-> classes[c].bases] @@ Common.bases,
  mro    |-> [c \in DOMAIN classes |-> classes[c].mro] @@ Common.mro,
  annots |-> [c \in DOMAIN classes |-> classes[c].annots] @@ Common.annots,
  inits  |-> [c \in DOMAIN classes |-> classes[c].init] @@ Common.inits,
  queries |-> queries, callables |-> callables]

A == [params |-> <<"T">>, bases |-> <<GenericBase(<<T>>)>>, mro |-> <<"A", Generic, Object>>,
      annots |-> ("a" :> T) @@ ("r" :> Box(ForwardRef(T))) @@ ("t" :> Text(Pair(T, Box(T)))) @@ ("b" :> Box(Box(T)))
             @@ ("p" :> Pair(Box(ForwardRef(T)), Leaf)) @@ ("n" :> Text(Pair(N, Box(T)))),
      init |-> Init3]

(* class B(A[x], Generic[params]); class C(B[y], Generic[T]); class S(C[..]), *)
(* plain, and its plain subclass SS.                                          *)
B(params, x) ==
  [params |-> params, bases |-> <<Alias("A", <<x>>), GenericBase([i \in 1..2 |-> TypeVar(params[i])])>>,
   mro |-> <<"B", "A", Generic, Object>>,
   annots |-> ("b" :> Text(T)) @@ ("u" :> ForwardRef(Box(U))), init |-> Nothing]
C(y) ==
  [params |-> <<"T">>, bases |-> <<Alias("B", y), GenericBase(<<T>>)>>,
   mro |-> <<"C", "B", "A", Generic, Object>>, annots |-> ("c" :> Box(T)), init |-> Wrapper]
S == [params |-> <<>>, bases |-> <<Alias("C", <<Node>>), Class("Leaf")>>,
      mro |-> <<"S", "C", "B", "A", Generic, "Leaf", "dict", Object>>, annots |-> NoAnnots, init |-> Nothing]
SS == [params |-> <<>>, bases |-> <<Class("S")>>,
       mro |-> <<"SS", "S", "C", "B", "A", Generic, "Leaf", "dict", Object>>,
       annots |-> ("s" :> Text(Node)), init |-> Nothing]

Arguments == {Node, Box(Node), ForwardRef(Node), Box(ForwardRef(Pair(Leaf, N)))}

Chains ==
  {With(("A" :> A) @@ ("B" :> B(params, x)) @@ ("C" :> C(y)) @@ ("S" :> S) @@ ("SS" :> SS),
        {Alias("C", <<t>>) : t \in {Node, ForwardRef(N), Box(ForwardRef(Leaf))}} \cup {Class("SS"), Class("Node")},
        {}) :
     params \in {<<"T", "U">>, <<"U", "T">>}, x \in {T, Box(U), ForwardRef(N), Pair(Box(ForwardRef(Node)), T)},
     y \in {<<T, Box(T)>>, <<Box(ForwardRef(Node)), T>>}}

(* class D(E[x], F[y]), where class E(A[Box[T]]) and class F(A[U]).           *)
Diamond(x, y) ==
  With(("A" :> A)
    @@ ("E" :> [params |-> <<"T">>, bases |-> <<Alias("A", <<Box(T)>>)>>,
                mro |-> <<"E", "A", Generic, Object>>, annots |-> ("e" :> T), init |-> Nothing])
    @@ ("F" :> [params |-> <<"U">>, bases |-> <<Alias("A", <<U>>)>>,
                mro |-> <<"F", "A", Generic, Object>>, annots |-> ("e" :> U) @@ ("f" :> Text(U)), init |-> Nothing])
    @@ ("D" :> [params |-> <<"T", "U">>, bases |-> <<Alias("E", <<x>>), Alias("F", <<y>>)>>,
                mro |-> <<"D", "E", "F", "A", Generic, Object>>, annots |-> ("a" :> Box(U)), init |-> Nothing]),
    {Alias("D", <<s, t>>) : s \in {Leaf, ForwardRef(Node)}, t \in Arguments}, {})

(* Callables of a program with A alone.                                       *)
CallT == Func(<<"self", "a", "b">>, <<"d1", "d2">>, <<>>, NoDefaults, ("a" :> T) @@ ("b" :> Text(Box(T))))
Plain == Func(<<"a", "b">>, <<"d1">>, <<"kw">>, NoDefaults, ("b" :> Box(ForwardRef(Node))))
Closed == Func(<<"self", "b">>, <<"d1">>, <<"kw">>, NoDefaults, ("b" :> Box(Node)) @@ ("kw" :> Text(Box(N))))
NoArgs == Func(<<"self">>, <<>>, <<>>, NoDefaults, NoAnnots)
Variadic == Func(<<>>, <<>>, <<"kw">>, [n \in {"kw"} |-> "d"], ("kw" :> Text(Node)))

Calls ==
  With(("A" :> A), {Alias("A", <<t>>) : t \in Arguments},
    {Function(CallT), Function(Closed), Method(Closed, NoType), Function(Plain), Method(Plain, NoType),
     Method(Func(<<"b">>, <<>>, <<>>, NoDefaults, ("b" :> Box(ForwardRef(Node)))), NoType),
     Method(Plain, Alias("A", <<Node>>)), Method(Variadic, NoType), Method(CallT, Alias("A", <<ForwardRef(Node)>>)), Wrapper,
     Instance(<<Nothing, Function(CallT)>>, Alias("A", <<Box(Node)>>)),
     Instance(<<Function(Plain)>>, NoType), Instance(<<Nothing, Function(Plain)>>, Alias("A", <<ForwardRef(Node)>>)),
     Instance(<<Nothing, Function(Closed), Nothing>>, NoType), Instance(<<Nothing, Wrapper>>, NoType),
     Instance(<<Instance(<<Nothing, Function(CallT)>>, Alias("A", <<Leaf>>)), Nothing>>, NoType),
     Instance(<<Instance(<<Function(NoArgs)>>, NoType)>>, NoType), Instance(<<Nothing>>, NoType)})

(* class G(Generic[T]) has texts that cannot be compiled, class H(G[Box[T]])  *)
(* annotates the same attribute, with or without an __init__ of its own.      *)
Odd(bound, arg) == Func(<<"self", "a">>, <<>>, <<>>, NoDefaults, ("self" :> bound) @@ ("a" :> arg))

Oddities(annot, init) ==
  With(("G" :> [params |-> <<"T">>, bases |-> <<GenericBase(<<T>>)>>, mro |-> <<"G", Generic, Object>>,
                annots |-> ("g" :> annot) @@ ("h" :> T), init |-> Function(Odd(T, Unreadable))])
    @@ ("H" :> [params |-> <<"T">>, bases |-> <<Alias("G", <<Box(T)>>)>>, mro |-> <<"H", "G", Generic, Object>>,
                annots |-> ("g" :> Text(T)), init |-> init]),
    {Alias(c, <<t>>) : c \in {"G", "H"}, t \in {Node, ForwardRef(N)}},
    {Function(Odd(Unreadable, T)), Method(Odd(Unreadable, Text(N)), NoType), Function(Odd(T, Unreadable))})

ThePrograms ==
  {Oddities(annot, init) : annot \in {Unreadable, Text(N)},
                           init \in {Nothing, Wrapper, Function(Odd(Unreadable, T))}} \cup
  Chains \cup {Diamond(x, y) : x \in {T, Box(U)}, y \in {T, U}} \cup {Calls}

TheExtras == {NoVars, ("T" :> Leaf), ("N" :> Node) @@ ("T" :> Box(Leaf))}

ASSUME ProgramsAreWellFormed == \A p \in ThePrograms : WellFormed(p)
=============================================================================
