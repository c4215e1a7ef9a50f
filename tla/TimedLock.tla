------------------------------ MODULE TimedLock ------------------------------
(***************************************************************************)
(* The lock routine of yapic/thread.hpp that both Lock and RLock call:     *)
(* AcquireTimed, run by Python threads under the GIL on one                *)
(* PyThread_type_lock.  Lock.tla and RLock.tla EXTEND this module and add  *)
(* what the two classes do before and after the call.                      *)
(*                                                                         *)
(* Every C++ statement of thread.hpp runs with the GIL held, except the    *)
(* blocking wait between Py_BEGIN_ALLOW_THREADS and Py_END_ALLOW_THREADS.  *)
(* So a step of a thread is what it does between two points where the GIL  *)
(* can change hands, and a blocked thread takes steps without the GIL.     *)
(*                                                                         *)
(* A thread's control state is its stack of guards (_AcquireLock objects,  *)
(* innermost last), because guards are destroyed in the reverse order of   *)
(* their construction and Python code running in a guard's scope, or in a  *)
(* signal handler called from AcquireTimed, may construct further guards.  *)
(***************************************************************************)
EXTENDS Naturals, Sequences, FiniteSets

CONSTANTS
  Threads,        (* the Python threads                                      *)
  Main,           (* the main thread, the only one that runs signal handlers *)
  NoThread,       (* "no thread": a free GIL, an RLock with _tid = 0         *)
  Timeouts,       (* the timeouts the program gives to its guards            *)
  HandlersRaise,  (* whether a Python signal handler may raise               *)
  Counting,       (* PyThread_release_lock: sem_post (TRUE) or "free" flag   *)
  MaxDepth,       (* bound: guards on one thread's stack                     *)
  MaxSignals      (* bound: signals delivered in a behaviour                 *)

(* A timeout is told apart by its sign only: AcquireTimed tries once for   *)
(* "zero", waits a bounded time for "pos" and for ever for "neg".          *)
Timeout == {"zero", "pos", "neg"}

ASSUME ThreadsAssumption ==
  /\ NoThread \notin Threads
  /\ Main \in Threads
  /\ Timeouts \subseteq Timeout
  /\ HandlersRaise \in BOOLEAN
  /\ Counting \in BOOLEAN
  /\ MaxDepth \in Nat
  /\ MaxSignals \in Nat

VARIABLES
  gil,       (* the thread that holds the GIL, or NoThread                *)
  sem,       (* the PyThread lock: how many acquisitions would succeed    *)
  frames,    (* each thread's stack of guards                             *)
  signals    (* signals delivered so far                                  *)

timedVars == <<gil, sem, frames, signals>>

-----------------------------------------------------------------------------
(* A guard's state.  While AcquireTimed runs for it: "try" at the top of   *)
(* the loop, "wait" blocked without the GIL, "intr" the wait returned      *)
(* PY_LOCK_INTR, "handler" inside Py_MakePendingCalls.  When AcquireTimed  *)
(* has returned: "got" PY_LOCK_ACQUIRED, "late" PY_LOCK_FAILURE, "eintr"   *)
(* PY_LOCK_INTR.  In the guard's scope: "held", or "open" when the         *)
(* acquisition failed.  left is what remains of the timeout.               *)
Pending  == {"try", "wait", "intr", "handler"}
Returned == {"got", "late", "eintr"}
InScope  == {"held", "open"}

Frame == [st : Pending \cup Returned \cup InScope, left : Timeout]

Scoped(s) == [st |-> s, left |-> "zero"]

Top(t) == frames[t][Len(frames[t])]

At(t, s) == frames[t] # <<>> /\ Top(t).st = s

Push(t, f) == frames' = [frames EXCEPT ![t] = Append(@, f)]
SetTop(t, f) == frames' = [frames EXCEPT ![t] = [@ EXCEPT ![Len(@)] = f]]
Pop(t) == frames' = [frames EXCEPT ![t] = SubSeq(@, 1, Len(@) - 1)]

(* The thread runs code of the extension's user: outside every guard, in   *)
(* the scope of one, or in a signal handler.                               *)
RunsUserCode(t) ==
  frames[t] # <<>> => Top(t).st \in InScope \cup {"handler"}

(* PyThread_release_lock, which does not ask who locked.                   *)
Freed == IF Counting THEN sem + 1 ELSE 1

TimedInit ==
  /\ gil = NoThread
  /\ sem = 1
  /\ frames = [t \in Threads |-> <<>>]
  /\ signals = 0

-----------------------------------------------------------------------------
(* The GIL is given up between two bytecodes of user code, or by           *)
(* Py_BEGIN_ALLOW_THREADS (in Try); any thread that is not blocked on the  *)
(* lock may take it.                                                       *)
TakeGil(t) ==
  /\ gil = NoThread
  /\ ~At(t, "wait")
  /\ gil' = t
  /\ UNCHANGED <<sem, frames, signals>>

DropGil(t) ==
  /\ gil = t
  /\ RunsUserCode(t)
  /\ gil' = NoThread
  /\ UNCHANGED <<sem, frames, signals>>

(* The loop's non-blocking try, and the start of the blocking one.         *)
Try(t) ==
  /\ gil = t
  /\ At(t, "try")
  /\ \/ /\ sem > 0
        /\ sem' = sem - 1
        /\ SetTop(t, [Top(t) EXCEPT !.st = "got"])
        /\ gil' = gil
     \/ /\ sem = 0
        /\ Top(t).left = "zero"
        /\ SetTop(t, [Top(t) EXCEPT !.st = "late"])
        /\ UNCHANGED <<gil, sem>>
     \/ /\ sem = 0
        /\ Top(t).left # "zero"
        /\ SetTop(t, [Top(t) EXCEPT !.st = "wait"])
        /\ gil' = NoThread
        /\ sem' = sem
  /\ UNCHANGED signals

(* The three ways the blocking wait ends, all without the GIL.             *)
WaitAcquire(t) ==
  /\ At(t, "wait")
  /\ sem > 0
  /\ sem' = sem - 1
  /\ SetTop(t, [Top(t) EXCEPT !.st = "got"])
  /\ UNCHANGED <<gil, signals>>

WaitTimeout(t) ==
  /\ At(t, "wait")
  /\ Top(t).left = "pos"
  /\ SetTop(t, [Top(t) EXCEPT !.st = "late"])
  /\ UNCHANGED <<gil, sem, signals>>

WaitInterrupt(t) ==
  /\ At(t, "wait")
  /\ signals < MaxSignals
  /\ signals' = signals + 1
  /\ SetTop(t, [Top(t) EXCEPT !.st = "intr"])
  /\ UNCHANGED <<gil, sem>>

(* Py_MakePendingCalls runs handlers in the main thread and does nothing   *)
(* in any other; a handler that raises makes AcquireTimed return           *)
(* PY_LOCK_INTR.                                                           *)
RunHandler(t) ==
  /\ gil = t
  /\ t = Main
  /\ At(t, "intr")
  /\ SetTop(t, [Top(t) EXCEPT !.st = "handler"])
  /\ UNCHANGED <<gil, sem, signals>>

HandlerRaises(t) ==
  /\ gil = t
  /\ HandlersRaise
  /\ At(t, "handler")
  /\ SetTop(t, [Top(t) EXCEPT !.st = "eintr"])
  /\ UNCHANGED <<gil, sem, signals>>

(* Mutant of Resume: the timeout is computed anew whatever its sign, so    *)
(* that waiting for ever ends at the first signal.                         *)
ResumeUnguarded(t) ==
  /\ gil = t
  /\ At(t, "handler") \/ (At(t, "intr") /\ t # Main)
  /\ SetTop(t, [Top(t) EXCEPT !.st = "late"])
  /\ UNCHANGED <<gil, sem, signals>>

(* After the handlers a positive timeout is computed anew from the clock:  *)
(* time is left, exactly none (one more try), or the deadline has passed   *)
(* and r becomes PY_LOCK_FAILURE.  Other timeouts go round unchanged.      *)
Resume(t) ==
  /\ gil = t
  /\ At(t, "handler") \/ (At(t, "intr") /\ t # Main)
  /\ \/ SetTop(t, [Top(t) EXCEPT !.st = "try"])
     \/ /\ Top(t).left = "pos"
        /\ SetTop(t, [st |-> "try", left |-> "zero"])
     \/ /\ Top(t).left = "pos"
        /\ SetTop(t, [Top(t) EXCEPT !.st = "late"])
  /\ UNCHANGED <<gil, sem, signals>>

(* What a thread does inside AcquireTimed, and the GIL's moves.            *)
TimedStep(t) ==
  \/ TakeGil(t)
  \/ DropGil(t)
  \/ Try(t)
  \/ WaitAcquire(t)
  \/ WaitTimeout(t)
  \/ WaitInterrupt(t)
  \/ RunHandler(t)
  \/ HandlerRaises(t)
  \/ Resume(t)

-----------------------------------------------------------------------------
TimedTypeOK ==
  /\ gil \in Threads \cup {NoThread}
  /\ sem \in Nat
  /\ frames \in [Threads -> Seq(Frame)]
  /\ signals \in Nat

(* Guards below the innermost one wait for it in their scope, or in a      *)
(* signal handler that AcquireTimed has called.                            *)
Nested ==
  \A t \in Threads : \A i \in 1..Len(frames[t]) :
    i < Len(frames[t]) => frames[t][i].st \in InScope \cup {"handler"}

(* The thread's guards that hold the lock; its guards whose scope is open  *)
(* whether or not they do.                                                 *)
HeldAt(t) == {i \in 1..Len(frames[t]) : frames[t][i].st = "held"}
ScopesOf(t) == {i \in 1..Len(frames[t]) : frames[t][i].st \in InScope}

(* Who has the lock and how often, as the guards say, not the fields.      *)
Holders == {t \in Threads : HeldAt(t) # {}}

Owner == IF Holders = {} THEN NoThread ELSE CHOOSE t \in Holders : TRUE

Depth == Cardinality(UNION {{<<t, i>> : i \in HeldAt(t)} : t \in Holders})

(* The OS scheduler runs every thread, the interpreter makes a thread that *)
(* runs user code give up the GIL when another waits for it, and a lock    *)
(* that is released again and again is eventually given to each waiter.    *)
TimedFairness(t) ==
  /\ SF_timedVars(TakeGil(t))
  /\ SF_timedVars(DropGil(t))
  /\ WF_timedVars(Try(t))
  /\ SF_timedVars(WaitAcquire(t))
  /\ WF_timedVars(WaitTimeout(t))
  /\ WF_timedVars(RunHandler(t))
  /\ SF_timedVars(Resume(t))
=============================================================================
