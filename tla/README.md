# Verification of yapic.core

yapic.core is a C++ header library for writing Python extension modules
(`src/src/yapic/core/include/yapic/`). This directory holds TLA+ models of its
parts, the TLC configurations that check them, and proofs for TLAPS.

## Inventory

| part | source | state | operations | what makes it correct |
|---|---|---|---|---|
| locks | `thread.hpp` | the PyThread lock; `_count`, `_tid` of an `RLock`; the guards on each thread's stack | `AcquireTimed`, `Lock::Acquire/Release`, `RLock::Acquire/Release`, guard constructor and destructor | exclusion; only the holder releases; the fields describe who holds; nobody is left waiting |
| str builders | `string-builder.hpp` (`_Memory`, `_StringTraits`, `_StringBuilder`) | storage, cursor, end, `_maxchar` | `Append*`, `Append*Safe`, `EnsureSize`, `ToPython` | no write behind the end; nothing lost in growing; a canonical str; the growing loop ends |
| bytes builders | `string-builder.hpp` (`_BytesMemory`, `_Encoding`, `_ByteTraits`) | a bytes object, cursor, end | as above, `AppendBytes` | as above; the bytes are UTF-8 |
| module life cycle | `module.hpp` | `_Instance`, `_State`, `__vars`, the references of `ModuleVar/Exc/Ref` | `Create`, `__exec__`, `Value`, `Export`, `Define`, `Import`, `__traverse__`, `__clear__` | every reference is dropped once; nothing is used before it exists or after it is gone |
| types, free list | `type.hpp` | the free list's blocks, the type object | `Alloc`, `Dealloc`, `Register`, `Check` | a block has one owner, and fits the type it is used for; the MRO is that of the C++ classes |
| smart pointer | `pyptr.hpp` | `_var` | constructors, assignments, `Incref`, `Decref`, `Steal`, `Clear`, destructor | one owner for each reference; a dead object is destroyed once |
| typing | `typing.hpp` | forward declarations; the tables a resolution builds | `ForwardDecl::Resolve`, `ResolveTypeVars`, `ResolveMro`, `SubstType`, `TypeHints`, `CallableHints` | type variables are replaced by what the MRO says; resolution ends |
| build, docs, tests | `setup.py`, `docs/`, `tests/`, `test/*.cpp` | none of their own | | |

The parts meet in the extension that uses them: a module's `__init__` registers
types and references, its functions use builders, pointers and locks. The
locks are shared by threads; everything else is used by one thread at a time,
under the GIL, but may be re-entered: by a signal handler that runs inside
`AcquireTimed`, by the garbage collector in any allocation, by a destructor in
any decref. What is hard: the points where the GIL changes hands inside an
acquisition, timeouts and interrupts, calls of the Python API that fail halfway,
sizes at their limits, and callers that combine calls nobody tested together.
`PROJECT.json` lists these hazards at their lines.

## Modules

**Locks.** `TimedLock` models `AcquireTimed`, the GIL and the signals; `Lock` and
`RLock` extend it with the two classes; `Mutex` is what both promise. Each C++
statement of `thread.hpp` runs with the GIL, except the blocking wait, so an
action is what a thread does between two points where the GIL can change hands.
A thread's control state is the stack of its guards (`frames`): guards are
destroyed in the reverse order of construction, and both the code in a guard's
scope and a signal handler called by `AcquireTimed` may construct more. `sem`
is the PyThread lock, which the platform makes a counting semaphore or a flag
(`Counting`). A timeout is known by its sign only.

**Builders.** `Storage` has what the two storage classes share: the elements,
the cursor (`used`), and `EnsureSize` taken step by step with `pc`, the doubling
loop one round at a time. `Memory` (`_Memory`) and `BytesMemory`
(`_BytesMemory`) add where the elements live and how they are moved, failures
included. `UnicodeBuilder` models `UnicodeBuilder` (`wide`) and `AsciiBuilder`, which refuse bytes,
`Utf8Builder` models `Utf8BytesBuilder`, both with all their calls; the build
(`release`: NDEBUG is defined) is drawn in the initial state and never changes.
`room` is no field of the code: it is what a caller may still append without a
check after `EnsureSize` has returned true. `Utf8` has the encoder, its size
functions, and UTF-8 as a reader sees it; `Utf8Builder` writes a piece one code point
at a time (`AppendChar3`), and `data` is how many of its points are written, as
the loop over `data` in `AppendString` has it. `TextBuilder` is what both builders
promise: pieces follow each other, and the object made is made of them.

**Module life cycle.** `ModuleLife` models an extension's modules on a Python that
creates and executes them in two steps (3.9 and later), several of them alive at a
time. A module's `__init__` is user code that calls the members of its fields
(`Value`, `Export`, `Define`, `Import`) in an order of its own, each an action, and
may throw at any point. A field is what a `ModuleVar`, `ModuleExc` or
`ModuleRef` is: a pointer, `Null` until it is set, in the state of one module;
`registered` is that state's `__vars`, and the static pointer `__vars` through which
members find it is a variable of its own, set by each `__exec__`. An object is
known by how many references the members took to it. `Import` can fail between the
module and the name, and its state in between is `pending`. `__traverse__`
changes nothing and is no action: it reports what `__vars` names, and `TraverseExact`
says of `__vars` what makes that report right. `__clear__` and the module's death are
actions that the garbage collector may take at any time the interpreter allows.

**Objects.** `Objects` composes the two remaining headers into an extension that
registers its classes and then makes, links and drops objects of them.
`Classes` has the C++ classes: who derives from whom (`Bases`), and which
have a `__new__` (`Makers`; `Private` for `Yapic_PrivateNew`) or a `__dealloc__`
(`Freers`) of their own. `Registration` models `Type::Register`: an import registers the
classes one by one in the order its author chose, a failure abandons the module,
and a later import meets the static type objects as they were left (`ready`, `base`,
`mro`). `FreeList` models `TypeAllocator` and `FreeList`: `type`, `room` and `field` say what is
in a block of memory, `list[c]` is the filled part of the array of class `c`. `Heap` is
what an allocator promises: an unused block with enough room; `FreeList` refines
it, with a block that waits in a list counted as unused (`H`). `PyPtr` models
`pyptr.hpp`. A pointer is a local variable of a C++ function (`var`) or a reference
field of an object (`<<block, number>>`); one raw `PyObject*` (`Hand`) stands for what
`New` returns, `Steal` gives, `Incref` gives a reference of its own (`Share`; `Decref`
takes it back, in `Release`) and `Adopt` takes. `Py_DECREF` of the last reference runs
the object's `__dealloc__` before the operation that did it goes on, so `frames` is
the C++ stack: destructors (`Destroying`), and assignments that have dropped the old
object but not stored the new one (`Assigning`, ended by `FinishCopy` or `FinishMove`).
A destructor first does something with pointers it can reach, then clears its
fields one after the other, then gives its block back: this is what the model takes
for the `__dealloc__` of an extension's class, which `type.hpp` leaves to its author.
`Ownership` states what holds
of blocks, pointers, counts and that stack in every state.

**Typing.** The functions of `typing.hpp` keep nothing between two calls, so the
state of `Typing` is a Python program, the call that was made and its answer;
the forward declarations in an answer can be called or unpacked, and the type
that one stands for can be asked about. The functions are operators of the same
names; `Parameters` has the part of `ResolveArguments` that lists a function's parameters,
given the hint of each name. `Types` has the terms: types as Python's `typing` represents them, yapic's
forward declarations, and, independent of the code, what a type denotes
(`Denotes`) and what a class's bases make of its type variables along each path
(`Bindings`). The properties compare the two. The text of a forward reference is
the type it spells; evaluating it puts the locals in the place of its names. A
`Name` is one that the globals do not have: unless the locals that `Resolve` is given
(`Extras`) define it, the evaluation fails, and everything around it. A text that is no
expression, or not in ASCII, is `Unreadable`, and makes no forward declaration at all. In
the locals a type variable stands for its name: no two variables of a program
have the same name and differ.

Hints of a callable may be asked for without the type it belongs to. The functions then
pass NULL for the type (`NoType`), which only a reference reads: `NewForwardDecl` asks it
for its module, and the program `Crashes`. An object that is called goes through
`__call__` of its type, looked up along the MRO, and the KeyError of a class without it
stays pending. With a type given it depends on what Python code runs next whether it is
cleared (an import does), makes a call fail, or is still there at the end; so
`HintsWithType` answers the hints or `Stale`, an exception in place of hints or along with
them. Without a type `ResolveTypeVars` clears it before any hint is made.

`MCRLock`, `MCUnicodeBuilder`, `MCUtf8Builder`, `MCModuleLife`, `MCObjects` and
`MCTyping` give model values, pieces, classes and programs to TLC. `*_lemmas` and
`*_proofs` hold the proofs. A definition said to be a mutant is a plausible mistake in the definition after it; no specification uses it.

## Runs

| run | configuration | shows |
|---|---|---|
| rlock_safety | `MCRLock.cfg`: 3 threads, depth 3, every timeout, 1 signal, handlers may raise, symmetric threads | `RLock`: no two threads hold (`OwnerExclusion`), the assertion `_count == 0` (`FreshOwnership`), `_count` and `_tid` name exactly the guards that hold (`CountsHeldGuards`), the PyThread lock is neither lost nor doubled (`Conserved`), and it implements `Mutex` |
| rlock_live | `RLockLive.cfg`: 2 threads, depth 2, every timeout | `AcquisitionEnds`, and `BlockedGetsLock`: waiting for ever ends with the lock or with a raising handler |
| lock | `Lock.cfg`: 2 threads, depth 2, guards that wait for ever, no handler that raises | `Lock`: exclusion, release by the holder only, refinement of `Mutex`, and that nothing but nesting blocks a thread for ever |
| lock_timeouts | `LockTimeouts.cfg`: the same with every timeout and handlers that raise; the PyThread lock is a flag | `Lock` does not exclude any more, but the lock is never lost (`NeverLost`) and every acquisition ends, unless a thread waits for itself (`AcquisitionEnds`) |
| lock_default_timeout | `LockDefaultTimeout.cfg` | finding, below |
| str_builder | `StrBuilder.cfg`: both widths, both builds, initial size 2, texts of up to 6 code points, allocations may fail | no write behind the end, `EnsureSize` keeps its promise, strs are canonical, text is never lost or mixed up |
| bytes_builder | `BytesBuilder.cfg`: both builds, up to 6 bytes, every length of the encoding but those that need more room | the same but for strs, the bytes made read as the text appended, and `EnsureSize` returns: the loop is the one both storages have, for every size but 0 |
| bytes_overrun | `BytesOverrun.cfg` | finding, below |
| module_life | `ModuleLife.cfg`: 2 modules, 2 fields, 2 objects, symmetric fields and objects, imports of one name or two | the references counted are those the fields and module dicts hold (`Balanced`); the collector is told of each once, and to its own module (`TraverseExact`); what is set is registered (`Registered`), so a cleared module holds nothing (`ClearDropsAll`); a clear never touches another module (`ClearIsOwn`) |
| import_package | `ImportPackage.cfg` | finding, below |
| objects | `Objects.cfg`: 2 blocks, a line of 4 classes, one with a list of one block and two that Python cannot instantiate, one variable and one raw pointer, every order of registration, failures | counts are the number of pointers, so no pointer to a dead object is left, in a listed block neither, and failed imports leave no reference to a type (`CountsExact`); an object whose count is 0 is being destroyed, once (`DeadOnce`), and its block is given back in the end (`DeadIsFreed`); lists fit their arrays and share no block (`TypeOK`); the allocators implement `Heap`; MROs are those of the C++ classes unless a class was registered before its super (`MroRight`) |
| typing | `Typing.cfg`: chains of four classes that share and swap variables, a diamond, plain subclasses, callables of each kind, references inside arguments and in bases, names without a definition, texts that do not compile, callables with a type and without | no substitution runs for ever, and hints fail only for callables not in Python, when a text among them does not compile, when a callable without a type has a reference in its hints, which crashes, and where a KeyError may be pending (`Answered`); type variables have the values that the bases give them (`ValuesRight`); hints of attributes and arguments resolve to what the annotations denote, with Python's defaults (`HintsRight`, `ArgumentsRight`); a hint with a forward declaration in it is one (`TypeOK`), and its parts resolve to the parts of what it resolves to (`UnpackRight`) |

Bounds. Three threads are enough for one to hold, one to wait and one to
interfere; depth 3 for a guard over a failed guard and a re-entry over both; one
signal interrupts a wait at every point, and each further one finds the same
states. An initial size of 2 makes pieces that fit, that need one doubling and
that need several. `Lock` deadlocks in a nested acquisition, so that run does not
check for deadlock, and states instead that nothing else blocks
(`BlockedGetsLock`, `AcquisitionEnds`); nor does `module_life`, where modules die. A failed guard of a `Lock` releases what
nobody acquired, so a counting semaphore would grow without end: `lock_timeouts`
takes the flag. Two modules are enough for one to overwrite the static pointer
the other was made with, two fields for an order between them and for one that
was set when the other fails, two objects for one that two fields share. In
`typing` the chains are deep enough for a value to be substituted three times,
for a plain class to inherit its bases from a class that inherits them itself,
and for a variable to be known under another name in the class below. In
`objects` two blocks are enough for an object to be destroyed by the destructor of
another, for two that refer to each other, and for a block to be in the list
while the other is in use; the larger class has a base with a list and an
allocator of its own, so its blocks come from Python but go to that list. A
`__dealloc__` does one thing with pointers before it clears its fields. Which unused block
Python gives (`Gives`) makes no difference to the code. Objects are used when the
import is over and no class was registered before its super: the other orders
stop there, so the run does not check for deadlock.

Fairness. The operating system runs every thread; the interpreter makes a thread
that runs bytecode give the GIL up when another asks (strong fairness of
`TakeGil` and `DropGil`); a semaphore that is posted again and again serves each
waiter in the end (`WaitAcquire`); user code leaves each scope, the outermost
included (`Release`). Nothing makes a signal arrive or a handler raise, so
`WaitInterrupt` and `HandlerRaises` have no fairness. In the builders a call that has
begun runs to its end; nothing makes a caller begin one. The same holds for
assignments and destructors of objects (`GoOn`).

### What callers must keep

The passing runs assume the following of callers; the code does not check it.

* `Lock`: a timeout below 0, and no signal handler that raises. Otherwise the scope
  runs without the lock (`Settle`) and its end releases the lock of another
  thread (`Release`). `RLock` needs neither: a scope whose acquisition failed runs
  without the lock too, but releases nothing.
* Builders, release build (`Careful`): when something is stored, a call asks for no
  more than the size there is, and the first call to a bytes builder asks for
  more than 0 bytes. The doubling loop compares the new size with what is asked
  for, not with that and what is stored; and it never ends when the size is 0. In the
  build without `NDEBUG` callers need not be careful to stay in bounds (`DebugBuild`).
* Bytes builder: no str of the Latin-1 kind that is not ASCII is appended (`NoLatin1Str`), for
  `RequiredSizeForUnicode` counts one byte for each of its code points; and not
  U+0080, which is written as the single byte 0x80. Bytes that are copied do not begin
  inside a character (`ReadsAlone`), or they would change what is in front of them. TLC
  evaluates both for the pieces of its runs (`PiecesReadAlone`).
* Str builder: a builder is not used after `ToPython` (`Reuse`), because `_maxchar`
  is not reset and the next str would be wider than its code points need. The
  maximal characters of all that is appended, or-ed, are a code point (`WellAsked`): a
  piece above U+FFFF that `AppendChar` brings and another that `AppendString` brings
  can make `_maxchar` a number above 0x10FFFF, which `PyUnicode_New` refuses. What
  `AppendAscii` and a `const char*` bring is ASCII, for they leave `_maxchar` alone; and
  `AppendChar` of an `AsciiBuilder` gets code points up to U+00FF (`Fits`).
* A builder is given up when one of its calls has failed.
* Modules: a field is set once, in `__init__`, while only one import runs, for
  `Define` and the others overwrite what is there and all register through the
  static pointer, which dangles when its module is gone; a name is exported once. An
  `Import` of a whole module, and an `Import` of a name that fails after the module
  was found, leave a reference that nobody drops (`Registered` and `ClearDropsAll` say
  exactly which).
* Types: supers are registered first. `PyType_Ready` makes an unregistered super
  ready with the base it has at that time, `object`, and the super's own `Register`
  changes `tp_base` without effect on its MRO; `MroRight` says which classes this hits.
* Free lists (`RoomForAll`): `FreeList` does not look at the type of a block, so a
  list may only get blocks with room for whatever is made from it. `Type` does not
  wire `Dealloc` to `tp_dealloc` (the `__dealloc__` in `type.hpp:319` is commented out): a
  class calls it at the end of its own `__dealloc__`, after it has cleared all its fields;
  the object's next user gets the fields as they are. A class of the test
  extension, `B`, never frees its objects.
* Pointers: a function that assigns to the field of an object holds that object in a
  variable which the assignment leaves alone (`Reaches`): in `node = node->next` the
  source is gone when it is read. A destructor leaves a pointer alone that is being
  assigned. Neither `_PyPtr(_PyPtr&&)` nor a pointer made from a borrowed reference
  without `Incref` is used; the former leaves two owners of one reference.
* Typing (`WellFormed`): a generic class is asked about with arguments, and none
  of them holds a variable. `_SubstType` substitutes in what it has put in, so
  asked for the hints of `A[List[T]]`, where `T` is the variable of `A`, it recurs
  without end. The bases of a
  class hold no variable inside a reference, for references in bases are evaluated
  without locals; a text spells no further reference. A class that is not generic
  itself has one base that is, at most: the other one's `__orig_bases__` are hidden. A
  bound parameter has no default (`FreeSelf`): the defaults would go to the parameters
  that follow it (`BoundDefaultShifts`). A generic alias has arguments. A class's `__init__` is a
  function or a slot wrapper. `CallableHints` of a callable with references in its hints
  is given a type, or crashes; of an object whose type inherits `__call__` it is given
  none, or may fail or return with an exception set.

### Findings

* `lock_default_timeout`: a guard's timeout is 0 unless given, so under contention
  `Acquire` fails, which its assertion says it never does.
* `bytes_overrun`: the calls of the test extension's `bytes_builder`, with the test's
  own argument, write two bytes behind the storage in the release build.
* `import_package`: `Import` of a name makes the list of names one item too long and
  never sets the last. The import of a plain module does not read it; that of a
  package does.

## Proofs

Each inductive invariant (`Inv`) is made of the properties that its run checks and
what they need to be inductive; it is proved, and no run repeats it. Nor does a run
repeat `Conserved` of `Lock`, `TypeOK` of `ModuleLife` and of `Utf8Builder`, and `AddsUtf8`,
which are proved. Every theorem is about the specification its run checks, for every
value of the constants that its module's `ASSUME`s and the theorem's own
hypotheses allow.

**Locks.** `RLock_proofs` proves for any set of threads, depth, timeouts and signals that
`Inv` is an invariant, and from it `TypeOK`, `OwnerExclusion`, `FreshOwnership`,
`CountsHeldGuards` and `Conserved`. None of these is inductive by itself: that a
release frees the lock rightly needs to know that the fields describe the held
guards, that needs to know who is about to set the fields (`Conserved`: at most one
thread has the PyThread lock but not yet the fields), and the stack discipline
(`Nested`: only the innermost guard is in `AcquireTimed`). `TimedLock_lemmas` says
once what pushing, changing and popping a guard does to every guard, and reduces
the nine actions of `TimedLock` to three effects (`TimedEffect`); the proofs of the two
classes have one step per effect and one per action of their own.

`Lock_proofs` proves `Inv`, `Exclusion`, `Conserved` and `ReleasesOwn` from the
assumption `WaitForEver` (timeouts below 0, no handler that raises), under which
no guard gives up (`NeverGivesUp`). `LockNeverLost` needs no assumption: a release
leaves the lock free whoever releases, and nothing else takes a guard from its
owner.

Both classes implement `Mutex` (`Refinement`; for `Lock` under `WaitForEver`, and not
re-entrant). The abstract owner and depth are read off the guards (`Owner`, `Depth` in
`TimedLock`), not off the fields: the thread that has a held guard, and how many. For
`RLock` they equal `_tid` and `_count` (`FieldsAreMutex`), which makes each step of the
fields a step of the mutex.

**Str builders.** `UnicodeBuilder_proofs` proves `Inv` for careful callers, and from it
`TypeOK`, `InBounds` and `RoomIsKept`, whatever the initial size, pieces and bounds. The
invariant says what the new size is worth while `EnsureSize` runs
(`SizeSuffices`): in the loop either nothing is stored or the size is enough
already, and behind the loop it is enough. `CanonicalStr` proves `Canonical` for
builders used once (`~Reuse`) and `WellAsked` pieces: `MaxcharNarrow` relates `_maxchar`,
a set of bits, to the text, a sequence of code points, for each class of bits that
decides the kind of a str, and `MaxcharBound` keeps it a code point. `Refinement` shows
that the builders implement `TextBuilder`: growing moves the text unchanged, each append
extends it by its piece, `ToPython` makes the str of it. `DebugInvariance` and `DebugBuild`
prove the same without `Careful` for the build without `NDEBUG`, where a new size is what
is stored and what is asked for: what `bytes_overrun` shows, an overrun by a careless
caller, is the release build's alone.

**Bytes builders.** `Utf8Builder_proofs` starts with the encoder: each code point but
U+0080 is encoded as UTF-8 prescribes, by its digits in base 64 (`EncodesUtf8`), and
`EncodedCharSize` is never too small (`SizeIsEnough`). `Inv` of the builder rests on the
latter. Its heart is what the storage has left inside the loop of `AppendString`:
`room + (Len(points) - data) * PerPoint <= FreeSize`, room for the code points still to be
written, at what `RequiredSizeForUnicode` reckons for each, and behind it what the
caller was promised. With `AllWritten` (no byte before the cursor that nobody has
written) it gives `InBounds`, `RoomIsKept` and `TypeOK`, for careful callers under
`NoLatin1Str`; `bytes_overrun` shows what a careless caller does to them. `StoredIsUtf8` is
the step: what is stored stays, and each code point is added as UTF-8 behind it.

`Refinement` of the bytes builder says what the bytes mean. `Text` of `Utf8` reads bytes as
code points; it is a recursive function over the number of bytes, and proving about
it needs induction. The library's induction theorems take an operator, which the
provers cannot instantiate; so `Induction` states it for a set of numbers, and follows
from the well-foundedness of `<` on the naturals: each lemma says which set it applies it
to. `ReadFirst` is the text of the first n bytes, for each n; `TextConcat` says that the
text of bytes that do not begin inside a character follows the text before them, and
`TextEncode` that an encoded code point is read back. The mapping needs to know how much of a str is written while
`AppendString` is in its loop: `PartlyWritten` says that the text is what was there and
the code points passed so far. TLC checked it as an invariant of `BytesBuilder.cfg`
before it was proved. The theorem holds for careful callers under `NoLatin1Str` and
`ReadsAlone`; `DebugBuild` drops the first of these for the build without `NDEBUG`.

**Module life cycle.** `ModuleLife_proofs` proves `Inv` for any finite set of modules and
fields and any objects, and from it `TypeOK`, `Balanced`, `TraverseExact`, `Registered`,
`ClearDropsAll` and `ClearIsOwn`. `Balanced` is not inductive: to know that a clear drops as
many references as were taken one must know that what is registered is set and is
registered once (`TraverseExact`, `Registered`), that an unfinished `Import` is not registered
yet (`PendingIsUnregistered`), that a module that does not exist holds nothing
(`UnbornIsEmpty`), and that `__init__` runs on the state which the static pointer
points to (`InitIsStatic`). The counting is done in lemmas: setting one entry
(`SetEntry`) changes the count of one object by one, and emptying a module's
(`EmptyEntries`) takes away what it had. It assumes `Null` is no object.

**Types, free lists, pointers.** `Objects_proofs` proves for any finite set of classes,
any blocks, variables and pointers, and destructors and assignments nested to any
depth, that `Inv` is an invariant. It has three parts.

`MroInv` says that the order names each class once and that what this import has
registered is ready: so a base that `PyType_Ready` finds unready was to be
registered later (`UnreadyIsLater`), which is `SubclassFirst`. With supers first no base is
unready, and each MRO is the class and its bases (`MroCorrect`). `RefsRight` counts a type's
references by its places in the part of the order that is done.

`Owned` (module `Ownership`) is about blocks and pointers.
Counts are the numbers of owners (`CountsRight`). A pointer that is being assigned no
longer owns what it points to, so who owns what depends on the stack, and the question
at every `Py_DECREF` is whether the pointers of the interrupted calls are still there when
the destructors return. Three things keep a pointer's place (`Steady`): it is a
variable of the function that is at the bottom of the stack, or a field of an object
that a variable holds which nobody assigns (`Held`), or of one whose `__dealloc__` waits
further down and has cleared nothing yet (`Waiting`). `AssignOK` says that both pointers of
each assignment are steady and that no call above it assigns to them; `DeallocOK` that
a `__dealloc__` is the only one of its object, whose count is 0 and whose fields are
cleared up to where it has got; `AllDying` that whoever has count 0 has one. The lemmas
say what an operation does to owners: it drops one (`Drops`), takes one (`Takes`), moves one
(`Moves`) or keeps them (`Keeps`), and each action of `PyPtr` is one of these and a push, a
change or a pop of the stack. `OwnedIsUsed` then gives that nothing points to a listed
block, and `BlocksOK` that a listed block is empty, fits and is in one list: the
properties `TypeOK`, `CountsExact` and `DeadOnce` follow, and the step-by-step refinement of
`Heap` (`HeapRefinement`). `Inv` was first checked by TLC as an invariant of `Objects.cfg`
(158320 states), and on random behaviours with three blocks and two variables.

The assumptions are those of the modules: the classes are finitely many
(`FinitelyMany`), and the bases of a class are its first base and that one's bases
(`ClassesOK`); variables, objects and `Null` differ (`PointersOK`); sizes are numbers
(`SizesOK`); lists get blocks with room for what is made from them (`RoomForAll`);
Python gives one of the blocks it has (`GivesOK`).

**Typing.** `ListedRight` of `Parameters_proofs` proves the part of `ArgumentsRight` that is about
lists, for functions with any numbers of parameters and defaults: each parameter that
a call may pass is listed, in order, with its own hint and with the default that Python
gives it. The code counts defaults as it hands them out, from the first parameter that
has one; Python counts them from the end. The two agree (`FromEnd`) unless the parameter
that is bound has a default too: then each parameter gets the default of the one
before it (`BoundDefaultShifts`).

Model-checked only: liveness (`AcquisitionEnds`, `BlockedGetsLock`, `EnsureSizeReturns`,
`DeadIsFreed`), which is beyond the prover; and the rest of typing. Its operators recur over
types nested to any depth, and substitute in what they have substituted, so they are
`RECURSIVE`, and the prover has no arithmetic or set reasoning in a module with such an
operator.

## Not modelled

* `RawBytesBuilder`: its `AppendChar` and its `AppendString` of a str call members of
  `_Encoding::_Raw` that do not exist (`AppendChar2`, `AppendString`), so they cannot be
  instantiated; the calls that can copy bytes, as in `Utf8Builder`.
* Sizes that overflow `size_t`, for those of the model are unbounded; a lock that could not be allocated or is destroyed in
  use; modules made in one step, before Python 3.9.
* In `type.hpp`, what the compiler decides: the method checkers and slot tables; the
  text of names, and the memory of the old `tp_name`, which `Register` leaks; two
  classes of the same name in one module. Classes with `__traverse__`, whose blocks the
  collector also lists.
* In `typing.hpp`, allocations that fail, reference counts, and `Typing::Init`, which
  looks names and types up once. `TypeHints` assigns `Py_None` to a `PyPtr` without a
  reference (`typing.hpp:533`), which the note at `pyptr.hpp:15` forbids; since Python 3.12
  the count of `None` does not change.

## Plan

1. (done) Locks; str builders; the UTF-8 encoder and bytes builder.
2. (done) `ModuleLife` and its invariant; `Typing` against the substitution that the
   bases define.
3. (done) Registration, free lists and pointers; undefined names and texts that do
   not compile.
4. (done) The invariants of `Objects` and the refinement of `Heap`; the refinements of
   `RLock` and `Lock` to `Mutex` and of the str builders to `TextBuilder`; `Canonical`; the bytes
   builder's invariant.
5. (done) The refinement of the bytes builder to `TextBuilder`; both builders without
   `NDEBUG`, for any caller; the lists of parameters of `Typing`.
6. Left: the release build's obligations one by one (each is needed, which a
   counterexample shows, or a weaker one will do); a `Typing` written with recursive
   functions over types of bounded depth, about whose single steps lemmas could be
   proved.
