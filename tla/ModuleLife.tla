------------------------------ MODULE ModuleLife ------------------------------
(***************************************************************************)
(* The life of an extension module written with yapic/module.hpp: its      *)
(* import, the calls its __init__ makes on the members of its state, and   *)
(* its end.  The interpreter is that of Python 3.9 and later, which makes  *)
(* a module object, then runs Self::__exec__ on it (multi-phase            *)
(* initialisation), and may import the extension again: then there is a    *)
(* second module object with a second state, but still one _Instance() and *)
(* one _State().                                                           *)
(*                                                                         *)
(* Between the calls of __init__, and inside an import, the interpreter    *)
(* runs other code, so the calls are actions of their own.  The assertions *)
(* of __exec__ are compiled out, those of the members are kept by callers. *)
(***************************************************************************)
EXTENDS Naturals, Sequences, FiniteSets

CONSTANTS
  Modules,    (* module objects of this extension, one for each import     *)
  Fields,     (* members of Self: ModuleVar, ModuleExc and ModuleRef       *)
  Objects,    (* what fields refer to                                      *)
  Packages,   (* those objects that are modules with a __path__            *)
  NameSets,   (* sets of names that Import is asked for                    *)
  Null

ASSUME FiniteAssumption == IsFiniteSet(Modules) /\ IsFiniteSet(Fields)

ASSUME NullAssumption ==
  /\ Null \notin Modules \cup Objects \cup (Modules \X Fields)
  /\ Packages \subseteq Objects
  /\ \A names \in NameSets : IsFiniteSet(names) /\ names # {} /\ Null \notin names

VARIABLES
  static,        (* _Instance() and _State(), which __exec__ sets at once  *)
  phase,         (* how far each module object is                          *)
  vars,          (* __vars of each state: pointers to fields               *)
  ref,           (* each state's fields; a freed state's are never dropped *)
  dict,          (* what is exported in each module, by field              *)
  rc,            (* references to an object taken here and not dropped     *)
  pending,       (* the field whose Import runs the interpreter, or Null   *)
  unregistered,  (* fields set on a path that does not register them       *)
  nullRead,      (* the import read an item of fromList that is not set    *)
  functions      (* whether Self::__methods__ lists any                    *)

lifeVars == <<static, phase, vars, ref, dict, rc, pending, unregistered,
              nullRead, functions>>

(* "init" is while __exec__ runs.  A module that is "ready" or "failed"    *)
(* lives until nothing refers to it; "cleared" by the collector, it goes.  *)
Phase == {"absent", "created", "init", "ready", "failed", "cleared", "gone"}

Pointer == Modules \X Fields
Members(m) == {m} \X Fields

Init ==
  /\ static = Null
  /\ phase = [m \in Modules |-> "absent"]
  /\ vars = [m \in Modules |-> <<>>]
  /\ ref = [m \in Modules |-> [f \in Fields |-> Null]]
  /\ dict = [m \in Modules |-> [f \in Fields |-> Null]]
  /\ rc = [o \in Objects |-> 0]
  /\ pending = Null
  /\ unregistered = {}
  /\ nullRead = FALSE
  /\ functions \in BOOLEAN

-----------------------------------------------------------------------------
Enter(m, p) == phase' = [phase EXCEPT ![m] = p]
Set(m, f, o) == ref' = [ref EXCEPT ![m][f] = o]
Taken(o, n) == [rc EXCEPT ![o] = @ + n]

(* _register, which finds the list through the static pointer.             *)
Register(m, f) == vars' = [vars EXCEPT ![static] = Append(@, <<m, f>>)]

(* The import machinery makes a module object from the definition.         *)
Create(m) ==
  /\ phase[m] = "absent"
  /\ Enter(m, "created")
  /\ UNCHANGED <<static, vars, ref, dict, rc, pending, unregistered, nullRead, functions>>

(* Mutant of Exec: the static pointer is set by the first import only.     *)
ExecOnce(m) ==
  /\ phase[m] = "created"
  /\ \A k \in Modules : phase[k] # "init"
  /\ Enter(m, "init")
  /\ static' = IF static = Null THEN m ELSE static
  /\ vars' = [vars EXCEPT ![m] = <<>>]
  /\ UNCHANGED <<ref, dict, rc, pending, unregistered, nullRead, functions>>

(* __exec__ begins, on a zeroed state; one import runs at a time.          *)
Exec(m) ==
  /\ phase[m] = "created"
  /\ \A k \in Modules : phase[k] # "init"
  /\ Enter(m, "init")
  /\ static' = m
  /\ vars' = [vars EXCEPT ![m] = <<>>]
  /\ UNCHANGED <<ref, dict, rc, pending, unregistered, nullRead, functions>>

(* __init__ may call a member of the state that is not set yet.            *)
Initialises(m) == phase[m] = "init" /\ pending = Null
Settable(m, f) == Initialises(m) /\ ref[m][f] = Null

(* A call throws Error, which __exec__ turns into a failed import.         *)
Throw(m) == Enter(m, "failed")

(* ModuleVar::Value, of an object or of NULL.                              *)
Value(m, f) ==
  /\ Settable(m, f)
  /\ \/ \E o \in Objects :
          /\ Set(m, f, o)
          /\ Register(m, f)
          /\ rc' = Taken(o, 1)
          /\ UNCHANGED phase
     \/ Throw(m) /\ UNCHANGED <<ref, vars, rc>>
  /\ UNCHANGED <<static, dict, pending, unregistered, nullRead, functions>>

(* PyModule_AddObject of what a field refers to, into the static instance, *)
(* under a name that is not used yet: the reference it steals is made good *)
(* by an INCREF.                                                           *)
Exports(f, o) ==
  /\ dict[static][f] = Null
  /\ dict' = [dict EXCEPT ![static][f] = o]

(* Mutant of Export: no INCREF after PyModule_AddObject.                   *)
ExportStolen(m, f) ==
  /\ Initialises(m)
  /\ ref[m][f] # Null
  /\ Exports(f, ref[m][f])
  /\ UNCHANGED <<static, phase, vars, ref, rc, pending, unregistered, nullRead, functions>>

(* ModuleVar::Export.                                                      *)
Export(m, f) ==
  /\ Initialises(m)
  /\ ref[m][f] # Null
  /\ \/ /\ Exports(f, ref[m][f])
        /\ rc' = Taken(ref[m][f], 1)
        /\ UNCHANGED phase
     \/ Throw(m) /\ UNCHANGED <<dict, rc>>
  /\ UNCHANGED <<static, vars, ref, pending, unregistered, nullRead, functions>>

(* ModuleExc::Define: a new exception is kept, registered and exported.    *)
Define(m, f) ==
  /\ Settable(m, f)
  /\ \/ \E o \in Objects :
          /\ Set(m, f, o)
          /\ Register(m, f)
          /\ \/ Exports(f, o) /\ rc' = Taken(o, 2) /\ UNCHANGED phase
             \/ Throw(m) /\ rc' = Taken(o, 1) /\ UNCHANGED dict
     \/ Throw(m) /\ UNCHANGED <<ref, vars, dict, rc>>
  /\ UNCHANGED <<static, pending, unregistered, nullRead, functions>>

(* ModuleRef::Import(moduleName): the module is kept but not registered.   *)
ImportWhole(m, f) ==
  /\ Settable(m, f)
  /\ \/ \E o \in Objects :
          /\ Set(m, f, o)
          /\ rc' = Taken(o, 1)
          /\ unregistered' = unregistered \cup {<<m, f>>}
          /\ UNCHANGED phase
     \/ Throw(m) /\ UNCHANGED <<ref, rc, unregistered>>
  /\ UNCHANGED <<static, vars, dict, pending, nullRead, functions>>

(* ModuleRef::Import(moduleName, objNames...): fromList has one item more  *)
(* than there are names, and the last is never set.  The import reads the  *)
(* items when the module is a package.                                     *)
FromList(names) == names \cup {Null}
Reads(o, names) == IF o \in Packages THEN FromList(names) ELSE {}

(* With several names the module itself is kept; with one, the interpreter *)
(* is asked for what the module has under that name.                       *)
Import(m, f, names) ==
  /\ Settable(m, f)
  /\ \/ \E o \in Objects :
          /\ Set(m, f, o)
          /\ rc' = Taken(o, 1)
          /\ nullRead' = (nullRead \/ Null \in Reads(o, names))
          /\ \/ Cardinality(names) = 1 /\ pending' = <<m, f>> /\ UNCHANGED vars
             \/ Cardinality(names) > 1 /\ Register(m, f) /\ UNCHANGED pending
          /\ UNCHANGED phase
     \/ Throw(m) /\ UNCHANGED <<vars, ref, rc, pending, nullRead>>
  /\ UNCHANGED <<static, dict, unregistered, functions>>

(* Mutant of GetName: what replaces the module is not registered.          *)
GetNameOnly(m, f) ==
  /\ pending = <<m, f>>
  /\ \E o \in Objects :
       /\ Set(m, f, o)
       /\ rc' = [Taken(o, 1) EXCEPT ![ref[m][f]] = @ - 1]
  /\ pending' = Null
  /\ UNCHANGED <<static, phase, vars, dict, unregistered, nullRead, functions>>

(* PyObject_GetAttr returns: the object takes the module's place, or the   *)
(* call throws and the field keeps the module, unregistered.               *)
GetName(m, f) ==
  /\ pending = <<m, f>>
  /\ pending' = Null
  /\ \/ \E o \in Objects :
          /\ Set(m, f, o)
          /\ rc' = [Taken(o, 1) EXCEPT ![ref[m][f]] = @ - 1]
          /\ Register(m, f)
          /\ UNCHANGED <<phase, unregistered>>
     \/ /\ Throw(m)
        /\ unregistered' = unregistered \cup {<<m, f>>}
        /\ UNCHANGED <<ref, rc, vars>>
  /\ UNCHANGED <<static, dict, nullRead, functions>>

(* __init__ returns 0 or not.                                              *)
Return(m) ==
  /\ Initialises(m)
  /\ Enter(m, "ready") \/ Enter(m, "failed")
  /\ UNCHANGED <<static, vars, ref, dict, rc, pending, unregistered, nullRead, functions>>

(* Python code deletes what a module exports.                              *)
Delete(m, f) ==
  /\ phase[m] \in {"init", "ready", "failed"}
  /\ dict[m][f] # Null
  /\ dict' = [dict EXCEPT ![m][f] = Null]
  /\ rc' = [rc EXCEPT ![dict[m][f]] = @ - 1]
  /\ UNCHANGED <<static, phase, vars, ref, pending, unregistered, nullRead, functions>>

-----------------------------------------------------------------------------
(* What a table of fields refers an object by, and a table that lets go.   *)
Holding(table, o) == {p \in Pointer : table[p[1]][p[2]] = o}

Emptied(table, ps) ==
  [k \in Modules |-> [f \in Fields |-> IF <<k, f>> \in ps THEN Null ELSE table[k][f]]]

(* __clear__ frees what the given state's __vars points to, and empties it.*)
Pointers(m) == {vars[m][i] : i \in DOMAIN vars[m]}

FreeVars(m) ==
  /\ ref' = Emptied(ref, Pointers(m))
  /\ vars' = [vars EXCEPT ![m] = <<>>]

DropDict(m) == dict' = Emptied(dict, Members(m))

(* Mutant of Clear: it clears the static state instead of the module's.    *)
ClearStatic(m) ==
  /\ phase[m] \in {"ready", "failed"}
  /\ Enter(m, "cleared")
  /\ FreeVars(static)
  /\ DropDict(m)
  /\ rc' = [o \in Objects |->
       rc[o] - Cardinality(Holding(ref, o) \cap Pointers(static))
             - Cardinality(Holding(dict, o) \cap Members(m))]
  /\ UNCHANGED <<static, pending, unregistered, nullRead, functions>>

(* The collector finds a module in an unreachable cycle and clears it: its *)
(* state with __clear__, then its dict.  The static pointer stays.         *)
Clear(m) ==
  /\ phase[m] \in {"ready", "failed"}
  /\ Enter(m, "cleared")
  /\ FreeVars(m)
  /\ DropDict(m)
  /\ rc' = [o \in Objects |->
       rc[o] - Cardinality(Holding(ref, o) \cap Pointers(m))
             - Cardinality(Holding(dict, o) \cap Members(m))]
  /\ UNCHANGED <<static, pending, unregistered, nullRead, functions>>

(* The last reference to a module goes.  Its functions refer to it, so one *)
(* that has any is in a cycle and was cleared; another one is not cleared, *)
(* because there is no __free__ that would.                                *)
Dealloc(m) ==
  /\ \/ phase[m] \in {"created", "cleared"}
     \/ phase[m] \in {"ready", "failed"} /\ ~functions
  /\ Enter(m, "gone")
  /\ DropDict(m)
  /\ rc' = [o \in Objects |-> rc[o] - Cardinality(Holding(dict, o) \cap Members(m))]
  /\ UNCHANGED <<static, vars, ref, pending, unregistered, nullRead, functions>>

Next ==
  \E m \in Modules :
    \/ Create(m)
    \/ Exec(m)
    \/ \E f \in Fields :
         \/ Value(m, f)
         \/ Export(m, f)
         \/ Define(m, f)
         \/ ImportWhole(m, f)
         \/ \E names \in NameSets : Import(m, f, names)
         \/ GetName(m, f)
         \/ Delete(m, f)
    \/ Return(m)
    \/ Clear(m)
    \/ Dealloc(m)

Spec == Init /\ [][Next]_lifeVars

-----------------------------------------------------------------------------
TypeOK ==
  /\ static \in Modules \cup {Null}
  /\ phase \in [Modules -> Phase]
  /\ vars \in [Modules -> Seq(Pointer)]
  /\ ref \in [Modules -> [Fields -> Objects \cup {Null}]]
  /\ dict \in [Modules -> [Fields -> Objects \cup {Null}]]
  /\ rc \in [Objects -> Nat]
  /\ pending \in Pointer \cup {Null}
  /\ unregistered \subseteq Pointer
  /\ nullRead \in BOOLEAN
  /\ functions \in BOOLEAN

(* Every reference that was taken is the reference of one field or of one  *)
(* entry of a module's dict: whoever drops one leaves the others theirs,   *)
(* and an object that a field names is alive.                              *)
Balanced ==
  \A o \in Objects : rc[o] = Cardinality(Holding(ref, o)) + Cardinality(Holding(dict, o))

(* __traverse__ tells the collector of a reference once, and only of its   *)
(* own module's: the collector subtracts what it is told from the count.   *)
TraverseExact ==
  \A m \in Modules : \A i \in DOMAIN vars[m] :
    /\ vars[m][i][1] = m
    /\ ref[m][vars[m][i][2]] # Null
    /\ \A j \in DOMAIN vars[m] : vars[m][i] = vars[m][j] => i = j

(* A cleared module has let go of everything but what was set on the two   *)
(* paths that do not register: Import of a whole module, and Import of a   *)
(* name that the module does not have.                                     *)
ClearDropsAll ==
  \A p \in Pointer :
    phase[p[1]] \in {"cleared", "gone"} /\ functions /\ ref[p[1]][p[2]] # Null
      => p \in unregistered

(* Clearing one module does not touch what another one, imported before    *)
(* or after it, refers to.                                                 *)
ClearIsOwn ==
  [][\A m, k \in Modules : Clear(m) /\ k # m => ref'[k] = ref[k] /\ vars'[k] = vars[k]]_lifeVars

(* What __traverse__ cannot know: a reference is registered unless it was  *)
(* set on one of those paths, or its Import is not finished.               *)
Registered ==
  \A p \in Pointer :
    /\ phase[p[1]] \in {"init", "ready", "failed"} /\ ref[p[1]][p[2]] # Null
         => p \in Pointers(p[1]) \cup unregistered \cup {pending}
    /\ pending = p => phase[p[1]] = "init"

(* from module import name works for every module (the comment on Import). *)
ImportReadsNames == ~nullRead

(* The inductive invariant.  The static pointer is that of the module that *)
(* is being initialised, an unborn module has nothing, and the module that *)
(* a field names while the name's object is asked for is not registered.   *)
InitIsStatic == \A m \in Modules : phase[m] = "init" => static = m

UnbornIsEmpty ==
  \A p \in Pointer :
    phase[p[1]] \in {"absent", "created"} => vars[p[1]] = <<>> /\ ref[p[1]][p[2]] = Null

PendingIsUnregistered ==
  pending # Null =>
    /\ ref[pending[1]][pending[2]] # Null
    /\ pending \notin Pointers(pending[1])

Inv ==
  /\ TypeOK
  /\ Balanced
  /\ TraverseExact
  /\ Registered
  /\ ClearDropsAll
  /\ InitIsStatic
  /\ UnbornIsEmpty
  /\ PendingIsUnregistered
=============================================================================
