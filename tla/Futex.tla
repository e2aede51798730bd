-------------------------------- MODULE Futex --------------------------------
(***************************************************************************)
(* futex.c: the recursive lock built from one interlocked word and an      *)
(* auto-reset event.  One action per access to memory that threads share.  *)
(* The first to raise sig from 0 owns the lock; every other one waits for  *)
(* the event, which a releasing owner sets unless sig says it was alone.   *)
(*                                                                         *)
(* A thread's identity (the address of its thread-local variable) is the   *)
(* thread; sig is an int of which Msb is the top bit, here unsigned modulo *)
(* 2 Msb.  futex_destroy is not modelled.                                  *)
(*                                                                         *)
(* depth and wrapped are history: how many more calls of futex_lock than   *)
(* of futex_unlock the thread has completed, and whether sig ever ran over *)
(* its width to 0.                                                         *)
(***************************************************************************)
EXTENDS Integers, FiniteSets

CONSTANTS Threads,
          NULL,
          Msb,         \* 0x80000000
          MaxDepth,    \* bound: nested calls of futex_lock by one thread
          Wraps        \* whether a behaviour goes on when sig has reached the
                       \* end of its width, or is cut there (a bound)

ASSUME NullAssumption == NULL \notin Threads
ASSUME WidthAssumption == Msb \in Nat \ {0}
ASSUME BoundAssumption == MaxDepth \in Nat \ {0} /\ Wraps \in BOOLEAN

VARIABLES
  sig, own, recur,     \* the fields of futex_
  _lock,               \* the auto-reset event
  pc,                  \* where each thread is
  depth, wrapped

fields == <<sig, own, recur>>
vars == <<fields, _lock, pc, depth, wrapped>>

\* futex_init
Init ==
  /\ sig = 0 /\ own = NULL /\ recur = 0
  /\ _lock = FALSE
  /\ pc = [t \in Threads |-> "idle"]
  /\ depth = [t \in Threads |-> 0]
  /\ wrapped = FALSE

At(t, l) == pc[t] = l
Goto(t, l) == pc' = [pc EXCEPT ![t] = l]

(***************************************************************************)
(* futex_lock.                                                             *)
(***************************************************************************)

\* if (mtxp->own == & localaddress): one more level, or on to the word.
LockCall(t) ==
  /\ At(t, "idle")
  /\ depth[t] < MaxDepth
  /\ IF own = t
     THEN /\ recur' = recur + 1
          /\ depth' = [depth EXCEPT ![t] = @ + 1]
          /\ UNCHANGED pc
     ELSE /\ Goto(t, "inc")
          /\ UNCHANGED <<recur, depth>>
  /\ UNCHANGED <<sig, own, _lock, wrapped>>

\* atomic_inc_Z80000000h: 0 becomes Msb, anything else grows by one.
Incremented == CASE sig = 0 -> Msb
                 [] sig = 2 * Msb - 1 -> 0
                 [] OTHER -> sig + 1

LockInc(t) ==
  /\ At(t, "inc")
  /\ Incremented = 0 => Wraps
  /\ sig' = Incremented
  /\ wrapped' = (wrapped \/ sig' = 0)
  /\ Goto(t, IF sig = 0 THEN "acquire" ELSE "wait")
  /\ UNCHANGED <<own, recur, _lock, depth>>

\* Mutant of LockWake: the event is manual-reset.
LockWakeManual(t) ==
  /\ At(t, "wait")
  /\ _lock
  /\ recur' = recur - 1
  /\ Goto(t, "acquire")
  /\ UNCHANGED <<sig, own, _lock, depth, wrapped>>

\* WaitForMultipleObjects returns WAIT_OBJECT_0.
LockWake(t) ==
  /\ At(t, "wait")
  /\ _lock
  /\ _lock' = FALSE
  /\ recur' = recur - 1
  /\ Goto(t, "acquire")
  /\ UNCHANGED <<sig, own, depth, wrapped>>

\* Mutant of LockAcquire: recur++
LockAcquireNested(t) ==
  /\ At(t, "acquire")
  /\ recur' = recur + 1
  /\ own' = t
  /\ depth' = [depth EXCEPT ![t] = 1]
  /\ Goto(t, "idle")
  /\ UNCHANGED <<sig, _lock, wrapped>>

\* recur = 1; own = & localaddress
LockAcquire(t) ==
  /\ At(t, "acquire")
  /\ recur' = 1
  /\ own' = t
  /\ depth' = [depth EXCEPT ![t] = 1]
  /\ Goto(t, "idle")
  /\ UNCHANGED <<sig, _lock, wrapped>>

(***************************************************************************)
(* futex_unlock.  A thread that is not the owner gets ES_NOTSELF.          *)
(***************************************************************************)

\* --recur, and own = NULL at the outermost level
UnlockCall(t) ==
  /\ At(t, "idle")
  /\ own = t
  /\ recur' = recur - 1
  /\ depth' = [depth EXCEPT ![t] = @ - 1]
  /\ IF recur = 1
     THEN own' = NULL /\ Goto(t, "cas")
     ELSE UNCHANGED <<own, pc>>
  /\ UNCHANGED <<sig, _lock, wrapped>>

\* Mutants of UnlockCas: the event is set in both cases, or in none.
UnlockCasSetsAlways(t) ==
  /\ At(t, "cas")
  /\ sig' = IF sig = Msb THEN 0 ELSE sig
  /\ Goto(t, "set")
  /\ UNCHANGED <<own, recur, _lock, depth, wrapped>>
UnlockCasSetsNever(t) ==
  /\ At(t, "cas")
  /\ sig' = IF sig = Msb THEN 0 ELSE sig
  /\ Goto(t, "idle")
  /\ UNCHANGED <<own, recur, _lock, depth, wrapped>>

UnlockCas(t) ==
  /\ At(t, "cas")
  /\ IF sig = Msb
     THEN sig' = 0 /\ Goto(t, "idle")
     ELSE Goto(t, "set") /\ UNCHANGED sig
  /\ UNCHANGED <<own, recur, _lock, depth, wrapped>>

\* SetEvent (mtxp->_lock)
UnlockSet(t) ==
  /\ At(t, "set")
  /\ _lock' = TRUE
  /\ Goto(t, "idle")
  /\ UNCHANGED <<fields, depth, wrapped>>

Lock(t) == LockInc(t) \/ LockWake(t) \/ LockAcquire(t)
Unlock(t) == UnlockCas(t) \/ UnlockSet(t)

\* The bound is used up: every thread is about to count sig over its width.
Exhausted ==
  /\ ~Wraps
  /\ Incremented = 0
  /\ \A t \in Threads : At(t, "inc")
  /\ UNCHANGED vars

Next == \/ \E t \in Threads : LockCall(t) \/ Lock(t) \/ UnlockCall(t) \/ Unlock(t)
        \/ Exhausted

Spec == Init /\ [][Next]_vars

\* A thread goes on inside a call, and an owner goes on to unlock.
FairSpec == /\ Spec
            /\ \A t \in Threads : /\ WF_vars(Lock(t)) /\ WF_vars(Unlock(t))
                                  /\ WF_vars(UnlockCall(t))

-----------------------------------------------------------------------------
(***************************************************************************)
(* Properties.                                                             *)
(***************************************************************************)

Pcs == {"idle", "inc", "wait", "acquire", "cas", "set"}

\* Every variable has its type; recur drops to -1 between a wake-up and the
\* store that follows it.
TypeOK ==
  /\ sig \in 0..2 * Msb - 1
  /\ own \in Threads \cup {NULL}
  /\ recur \in Int
  /\ _lock \in BOOLEAN
  /\ pc \in [Threads -> Pcs]
  /\ depth \in [Threads -> Int]
  /\ wrapped \in BOOLEAN

\* A thread is inside: it has taken the lock, or not yet quite let it go.
Inside(t) == depth[t] > 0 \/ pc[t] \in {"acquire", "cas", "set"}

\* As long as sig has not run over its width, no two threads are between the
\* moment they took the lock and the moment they passed it on.
MutualExclusion ==
  ~wrapped => \A t, u \in Threads : Inside(t) /\ Inside(u) => t = u

\* The right to enter is never lost and never doubled: while sig is not 0,
\* either one thread is inside or the event is set for the next one, not both;
\* while it is 0, nobody is inside, nobody waits and the event is reset.
OneToken ==
  ~wrapped =>
    /\ sig # 0 => ((\E t \in Threads : Inside(t)) <=> ~_lock)
    /\ sig = 0 => ~_lock /\ \A t \in Threads : ~Inside(t) /\ ~At(t, "wait")

\* recur counts the nested calls of the owner, in spite of the stray decrement
\* of a woken thread, and own is the thread that has completed them.
RecurCounts ==
  ~wrapped => \A t \in Threads : depth[t] > 0 => own = t /\ recur = depth[t]

\* While a thread waits, some thread comes to own the lock again and again.
LockPasses ==
  (\E t \in Threads : At(t, "wait")) ~> (\E t \in Threads : depth[t] > 0)

=============================================================================
