------------------------------ MODULE Classes ------------------------------
(***************************************************************************)
(* The classes of an extension: C++ classes derived from Yapic::Type      *)
(* (type.hpp), each of which stands for a static Python type.             *)
(***************************************************************************)
EXTENDS Integers, Sequences

CONSTANTS
    Class,
    Null,       \* no class; as a base, `object`
    Bases,      \* the classes of the extension that a class derives from, nearest first
    Makers,     \* the classes with a `__new__` that calls Self::Alloc
    Private,    \* the classes with Yapic_PrivateNew
    Freers      \* the classes whose `__dealloc__` ends in their own Dealloc

ASSUME ClassesOK ==
    /\ Null \notin Class
    /\ Bases \in [Class -> Seq(Class)]
    /\ \A c \in Class : Bases[c] # <<>> => Tail(Bases[c]) = Bases[Head(Bases[c])]
    /\ Makers \subseteq Class /\ Private \subseteq Class /\ Freers \subseteq Class

(* Yapic_GetTypeMethod(Self, m) finds the m of the nearest class that has  *)
(* one, among those in S; the Self in its body is that class.              *)
Nearest(c, S) ==
    LET line == <<c>> \o Bases[c]
        at == {i \in DOMAIN line : line[i] \in S}
    IN  IF at = {} THEN Null
        ELSE line[CHOOSE i \in at : \A j \in at : i <= j]

(* Whose allocator makes the objects of c: PyType_GenericNew asks Python    *)
(* when no class has a `__new__`.                                          *)
Maker(c) == Nearest(c, Makers \cup Private)

(* Whose allocator takes them back: a `__dealloc__` ends in its class's    *)
(* Dealloc or in that of its super; without any, object_dealloc.           *)
Freer(c) == Nearest(c, Freers)

(* _BaseType: the type of the super, ready or not. *)
BaseType(c) == IF Bases[c] = <<>> THEN Null ELSE Head(Bases[c])
=============================================================================
