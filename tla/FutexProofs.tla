----------------------------- MODULE FutexProofs -----------------------------
(***************************************************************************)
(* Theorems of Futex, for any set of threads, any width of sig, and with   *)
(* or without the run over that width: until it, the lock excludes.        *)
(***************************************************************************)
EXTENDS Futex, TLAPS

Nobody == \A t \in Threads : ~Inside(t)
Exclusive == \A t, u \in Threads : Inside(t) /\ Inside(u) => t = u

\* The right to enter is in sig, in the event or with one thread.
Token ==
  \/ sig = 0 /\ ~_lock /\ Nobody
  \/ sig >= Msb /\ _lock /\ Nobody
  \/ sig >= Msb /\ ~_lock /\ ~Nobody /\ Exclusive

\* A waiting thread is counted in sig, so that UnlockCas cannot miss it.
WaitersCounted == \A t \in Threads : At(t, "wait") => sig > Msb

\* own and recur are those of the thread that has locked, which is in no call.
OwnerKnown ==
  \A t \in Threads :
    /\ depth[t] >= 0
    /\ depth[t] > 0 <=> own = t
    /\ depth[t] > 0 => pc[t] = "idle" /\ recur = depth[t]

\* The inductive invariant.  MutualExclusion needs the place of the token, and
\* that needs the waiters to be counted.
FutexInv == TypeOK /\ (~wrapped => Token /\ WaitersCounted /\ OwnerKnown)

\* futex_init: the right to enter is in sig.
LEMMA InvInit == Init => FutexInv
<1> SUFFICES ASSUME Init
             PROVE  FutexInv
  OBVIOUS
<1> USE NullAssumption, WidthAssumption DEF Init
<1>1. TypeOK
  <2>1. _lock \in BOOLEAN /\ wrapped \in BOOLEAN
    BY Zenon
  <2> QED
    BY <2>1 DEF TypeOK, Pcs
<1>2. Token
  BY DEF Token, Nobody, Inside
<1>3. WaitersCounted /\ OwnerKnown
  BY DEF WaitersCounted, OwnerKnown, At
<1> QED
  BY <1>1, <1>2, <1>3 DEF FutexInv

\* Every step keeps the types.
LEMMA TypeStep == TypeOK /\ [Next]_vars => TypeOK'
<1> SUFFICES ASSUME TypeOK, [Next]_vars
             PROVE  TypeOK'
  OBVIOUS
<1> USE WidthAssumption DEF TypeOK, Pcs, At, Goto
<1>1. ASSUME NEW t \in Threads, LockCall(t)
      PROVE  TypeOK'
  BY <1>1 DEF LockCall
<1>2. ASSUME NEW t \in Threads, LockInc(t)
      PROVE  TypeOK'
  <2>1. Incremented \in 0..2 * Msb - 1
    BY DEF Incremented
  <2>2. wrapped' \in BOOLEAN
    BY <1>2, Zenon DEF LockInc
  <2> QED
    BY <1>2, <2>1, <2>2 DEF LockInc
<1>3. ASSUME NEW t \in Threads, LockWake(t)
      PROVE  TypeOK'
  <2>1. _lock' \in BOOLEAN
    BY <1>3, Zenon DEF LockWake
  <2> QED
    BY <1>3, <2>1 DEF LockWake
<1>4. ASSUME NEW t \in Threads, LockAcquire(t)
      PROVE  TypeOK'
  BY <1>4 DEF LockAcquire
<1>5. ASSUME NEW t \in Threads, UnlockCall(t)
      PROVE  TypeOK'
  BY <1>5 DEF UnlockCall
<1>6. ASSUME NEW t \in Threads, UnlockCas(t)
      PROVE  TypeOK'
  BY <1>6 DEF UnlockCas
<1>7. ASSUME NEW t \in Threads, UnlockSet(t)
      PROVE  TypeOK'
  BY <1>7 DEF UnlockSet, fields
<1>8. CASE UNCHANGED vars
  BY <1>8 DEF vars, fields
<1> QED
  BY <1>1, <1>2, <1>3, <1>4, <1>5, <1>6, <1>7, <1>8
     DEF Next, Lock, Unlock, Exhausted

\* Every step keeps the right to enter in one place.
LEMMA InvStep == FutexInv /\ [Next]_vars => FutexInv'
<1> SUFFICES ASSUME FutexInv, [Next]_vars
             PROVE  FutexInv'
  OBVIOUS
<1>1. TypeOK /\ TypeOK'
  BY TypeStep DEF FutexInv
<1> SUFFICES ASSUME ~wrapped'
             PROVE  Token' /\ WaitersCounted' /\ OwnerKnown'
  BY <1>1 DEF FutexInv
<1>2. ~wrapped
  BY <1>1 DEF Next, Lock, Unlock, LockCall, LockInc, LockWake, LockAcquire,
     UnlockCall, UnlockCas, UnlockSet, Exhausted, vars, fields
<1>3. Token /\ WaitersCounted /\ OwnerKnown
  BY <1>2 DEF FutexInv
<1> DEFINE Goal == Token' /\ WaitersCounted' /\ OwnerKnown'
<1> USE <1>1, <1>3, NullAssumption, WidthAssumption DEF TypeOK, At, Goto, Inside
<1>4. ASSUME NEW t \in Threads, LockCall(t)
      PROVE  Goal
  <2>1. OwnerKnown'
    BY <1>4 DEF LockCall, OwnerKnown
  <2>2. \A u \in Threads : Inside(u)' <=> Inside(u)
    BY <1>4 DEF LockCall, OwnerKnown
  <2>3. Token'
    BY <1>4, <2>2 DEF LockCall, Token, Nobody, Exclusive
  <2>4. WaitersCounted'
    BY <1>4 DEF LockCall, WaitersCounted
  <2> QED
    BY <2>1, <2>3, <2>4
<1>5. ASSUME NEW t \in Threads, LockInc(t)
      PROVE  Goal
  <2>1. sig' # 0 /\ (wrapped' <=> wrapped)
    BY <1>5 DEF LockInc
  <2>2. IF sig = 0 THEN sig' = Msb ELSE sig' = sig + 1
    BY <1>5, <2>1 DEF LockInc, Incremented
  <2>3. OwnerKnown'
    BY <1>5 DEF LockInc, OwnerKnown
  <2>4. WaitersCounted'
    BY <1>5, <2>2 DEF LockInc, WaitersCounted, Token
  <2>5. Token'
    <3>1. CASE sig = 0
      BY <1>5, <2>2, <3>1 DEF LockInc, Token, Nobody, Exclusive
    <3>2. CASE sig # 0
      BY <1>5, <2>2, <3>2 DEF LockInc, Token, Nobody, Exclusive
    <3> QED
      BY <3>1, <3>2
  <2> QED
    BY <2>3, <2>4, <2>5
<1>6. ASSUME NEW t \in Threads, LockWake(t)
      PROVE  Goal
  <2>1. sig >= Msb /\ Nobody
    BY <1>6 DEF LockWake, Token
  <2>2. Token'
    BY <1>6, <2>1 DEF LockWake, Token, Nobody, Exclusive
  <2>3. WaitersCounted'
    BY <1>6 DEF LockWake, WaitersCounted
  <2>4. OwnerKnown'
    BY <1>6, <2>1 DEF LockWake, OwnerKnown, Nobody
  <2> QED
    BY <2>2, <2>3, <2>4
<1>7. ASSUME NEW t \in Threads, LockAcquire(t)
      PROVE  Goal
  <2>1. sig >= Msb /\ ~_lock /\ Exclusive
    BY <1>7 DEF LockAcquire, Token, Nobody
  <2>2. \A u \in Threads : u # t => depth[u] = 0 /\ own # u
    BY <1>7, <2>1 DEF LockAcquire, Exclusive, OwnerKnown
  <2>3. OwnerKnown'
    BY <1>7, <2>2 DEF LockAcquire, OwnerKnown
  <2>4. Token'
    BY <1>7, <2>1 DEF LockAcquire, Token, Nobody, Exclusive
  <2>5. WaitersCounted'
    BY <1>7 DEF LockAcquire, WaitersCounted
  <2> QED
    BY <2>3, <2>4, <2>5
<1>8. ASSUME NEW t \in Threads, UnlockCall(t)
      PROVE  Goal
  <2>1. depth[t] > 0 /\ recur = depth[t]
    BY <1>8 DEF UnlockCall, OwnerKnown
  <2>2. sig >= Msb /\ ~_lock /\ Exclusive
    BY <1>8, <2>1 DEF UnlockCall, Token, Nobody
  <2>3. OwnerKnown'
    BY <1>8, <2>1 DEF UnlockCall, OwnerKnown
  <2>4. \A u \in Threads : Inside(u)' <=> Inside(u)
    BY <1>8, <2>1 DEF UnlockCall
  <2>5. Token'
    BY <1>8, <2>1, <2>2, <2>4 DEF UnlockCall, Token, Nobody, Exclusive
  <2>6. WaitersCounted'
    BY <1>8 DEF UnlockCall, WaitersCounted
  <2> QED
    BY <2>3, <2>5, <2>6
<1>9. ASSUME NEW t \in Threads, UnlockCas(t)
      PROVE  Goal
  <2>1. sig >= Msb /\ ~_lock /\ Exclusive /\ Inside(t)
    BY <1>9 DEF UnlockCas, Token, Nobody
  <2>2. depth[t] = 0
    BY <1>9 DEF UnlockCas, OwnerKnown
  <2>3. OwnerKnown'
    BY <1>9 DEF UnlockCas, OwnerKnown
  <2>4. WaitersCounted'
    BY <1>9 DEF UnlockCas, WaitersCounted
  <2>5. CASE sig = Msb
    BY <1>9, <2>1, <2>2, <2>3, <2>4, <2>5 DEF UnlockCas, Token, Nobody, Exclusive
  <2>6. CASE sig # Msb
    BY <1>9, <2>1, <2>3, <2>4, <2>6 DEF UnlockCas, Token, Nobody, Exclusive
  <2> QED
    BY <2>5, <2>6
<1>10. ASSUME NEW t \in Threads, UnlockSet(t)
       PROVE  Goal
  <2>1. sig >= Msb /\ ~_lock /\ Exclusive /\ Inside(t)
    BY <1>10 DEF UnlockSet, Token, Nobody
  <2>2. depth[t] = 0
    BY <1>10 DEF UnlockSet, OwnerKnown
  <2>3. Token'
    BY <1>10, <2>1, <2>2 DEF UnlockSet, fields, Token, Nobody, Exclusive
  <2>4. WaitersCounted' /\ OwnerKnown'
    BY <1>10 DEF UnlockSet, fields, WaitersCounted, OwnerKnown
  <2> QED
    BY <2>3, <2>4
<1>11. CASE UNCHANGED vars
  BY <1>11 DEF vars, fields, Token, Nobody, Exclusive, WaitersCounted, OwnerKnown
<1> QED
  BY <1>4, <1>5, <1>6, <1>7, <1>8, <1>9, <1>10, <1>11
     DEF Next, Lock, Unlock, Exhausted

LEMMA InvAlways == Spec => []FutexInv
BY InvInit, InvStep, PTL DEF Spec

\* Until sig runs over its width, no two threads are inside the lock.
THEOREM FutexExcludes == Spec => []MutualExclusion
<1>1. FutexInv => MutualExclusion
  BY DEF FutexInv, MutualExclusion, Token, Nobody, Exclusive
<1> QED
  BY <1>1, InvAlways, PTL

\* Until then the right to enter is in sig, in the event or with one thread:
\* no wake-up is lost and none is sent twice.
THEOREM FutexKeepsToken == Spec => []OneToken
<1>1. FutexInv => OneToken
  BY WidthAssumption DEF FutexInv, TypeOK, OneToken, Token, Nobody, WaitersCounted
<1> QED
  BY <1>1, InvAlways, PTL

\* Until then recur is the nesting of the owner's calls.
THEOREM FutexCountsCalls == Spec => []RecurCounts
<1>1. FutexInv => RecurCounts
  BY DEF FutexInv, RecurCounts, OwnerKnown
<1> QED
  BY <1>1, InvAlways, PTL
=============================================================================
