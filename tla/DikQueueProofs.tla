--------------------------- MODULE DikQueueProofs ---------------------------
(***************************************************************************)
(* Theorems of DikQueue, for any producers, consumers and clearers.  With  *)
(* or without callers that keep ClearQueue apart, the spinlock excludes,   *)
(* and the counters of the free list are the lengths of its lists.  Where  *)
(* ClearQueue is kept apart, each node is in one place, the pointers spell *)
(* the lists, no node is used after free, and with one event per node the  *)
(* class implements the queue of MsgQueue.                                 *)
(***************************************************************************)
EXTENDS DikQueue, FiniteSetTheorems, SequenceTheorems, TLAPS

\* The places where a thread is about to use the node in kt.
AtNode == {"m_unlock", "p_fill", "p_aba", "p_level", "p_cas", "d_read",
           "f_lock", "f_body", "f_link", "f_unlock", "c_free"}

Headers == [aba_count : Nat, level : Ptr]

\* The types of what the pointers of the free list are made from.
PtrType ==
  /\ level \in Ptr /\ aba_count \in Nat
  /\ next \in [Nodes -> Ptr]
  /\ heap \subseteq Nodes
  /\ cache \in Seq(Nodes)
  /\ kt \in [Threads -> Ptr] /\ pv \in [Threads -> Ptr]
  /\ T \in [Threads -> Headers]
  /\ \A t \in Threads : /\ pc[t] \in AtNode => kt[t] \in Nodes
                        /\ pc[t] = "o_cas" => T[t].level \in Nodes

SpinType == pc \in [Threads -> Pcs] /\ spin \in {0, 1}

\* The counters, also while the lock is held: _malloc_node has counted the
\* node it is about to unlink.
Counted ==
  /\ level_count \in Nat /\ body_count \in Nat
  /\ body_count = bodies
  /\ (\E t \in Threads : pc[t] = "m_unlink") => Len(cache) = level_count + 1
  /\ (\A t \in Threads : pc[t] # "m_unlink") => Len(cache) = level_count

\* The spinlock excludes by itself.
SpinInv == SpinType /\ SpinExclusive

\* The constructor leaves the lock free.
LEMMA SpinInit == Init => SpinInv
BY DEF Init, SpinInv, SpinType, SpinExclusive, InFreeList, Pcs

\* The steps that neither take nor release the spinlock, nor are taken with it.
LEMMA SpinOutside ==
  ASSUME SpinInv, NEW t \in Threads, ~InFreeList(t),
         NEW l \in Pcs \ {"m_take", "m_unlink", "m_unlock", "f_body", "f_link", "f_unlock"},
         Goto(t, l), spin' = spin
  PROVE  SpinInv'
BY DEF SpinInv, SpinType, SpinExclusive, InFreeList, Goto

\* The steps of the thread that holds it.
LEMMA SpinInside ==
  ASSUME SpinInv, NEW t \in Threads, InFreeList(t),
         NEW l \in {"m_take", "m_unlink", "m_unlock", "f_body", "f_link", "f_unlock"},
         Goto(t, l), spin' = spin
  PROVE  SpinInv'
BY DEF SpinInv, SpinType, SpinExclusive, InFreeList, Goto, Pcs

\* The exchange that finds 0, and the store that gives the lock back.
LEMMA SpinTake ==
  ASSUME SpinInv, NEW t \in Threads, ~InFreeList(t), spin = 0, spin' = 1,
         NEW l \in {"m_take", "f_body"}, Goto(t, l)
  PROVE  SpinInv'
BY DEF SpinInv, SpinType, SpinExclusive, InFreeList, Goto, Pcs

\* The owner gives the spinlock back.
LEMMA SpinGive ==
  ASSUME SpinInv, NEW t \in Threads, InFreeList(t), spin' = 0,
         NEW l \in {"p_fill", "d_read", "idle"}, Goto(t, l)
  PROVE  SpinInv'
BY DEF SpinInv, SpinType, SpinExclusive, InFreeList, Goto, Pcs

\* Every step keeps the lock exclusive.
LEMMA SpinStep == SpinInv /\ [Next]_vars => SpinInv'
<1> SUFFICES ASSUME SpinInv, [Next]_vars
             PROVE  SpinInv'
  OBVIOUS
<1>1. ASSUME NEW t \in Threads, Push(t)
      PROVE  SpinInv'
  <2>1. ~InFreeList(t) /\ spin' = spin
    BY <1>1 DEF Push, PushCall, PushFill, PushLoadAba, PushLoadLevel, PushCas,
       MayCall, At, InFreeList
  <2>2. \E l \in {"m_lock", "p_aba", "p_level", "p_cas", "idle"} : Goto(t, l)
    BY <1>1 DEF Push, PushCall, PushFill, PushLoadAba, PushLoadLevel, PushCas
  <2> QED
    BY <2>1, <2>2, SpinOutside DEF Pcs
<1>2. ASSUME NEW t \in Threads, Pop(t)
      PROVE  SpinInv'
  <2>1. ~InFreeList(t) /\ spin' = spin
    BY <1>2 DEF Pop, PopCall, PopLoadAba, PopLoadLevel, PopCas, DrainRead,
       MayCall, At, InFreeList
  <2>2. \E l \in {"o_aba", "o_level", "o_cas", "d_read", "f_lock", "idle"} : Goto(t, l)
    BY <1>2 DEF Pop, PopCall, PopLoadAba, PopLoadLevel, PopCas, DrainRead
  <2> QED
    BY <2>1, <2>2, SpinOutside DEF Pcs
<1>3. ASSUME NEW t \in Threads, Clear(t)
      PROVE  SpinInv'
  <2>1. ~InFreeList(t) /\ spin' = spin
    BY <1>3 DEF Clear, ClearCall, ClearFree, ClearReset, MayClear, At, InFreeList
  <2>2. \E l \in {"c_free", "c_reset", "idle"} : Goto(t, l)
    BY <1>3 DEF Clear, ClearCall, ClearFree, ClearReset
  <2> QED
    BY <2>1, <2>2, SpinOutside DEF Pcs
<1>4. ASSUME NEW t \in Threads, MallocLock(t) \/ FreeLock(t)
      PROVE  SpinInv'
  BY <1>4, SpinTake DEF MallocLock, FreeLock, Acquire, At, InFreeList
<1>5. ASSUME NEW t \in Threads, MallocTake(t) \/ MallocUnlink(t) \/ FreeBody(t) \/ FreeLink(t)
      PROVE  SpinInv'
  BY <1>5, SpinInside DEF MallocTake, MallocUnlink, FreeBody, FreeLink, At, InFreeList
<1>6. ASSUME NEW t \in Threads, MallocUnlock(t) \/ FreeUnlock(t)
      PROVE  SpinInv'
  BY <1>6, SpinGive DEF MallocUnlock, FreeUnlock, At, InFreeList
<1>7. CASE UNCHANGED vars
  BY <1>7 DEF vars, SpinInv, SpinType, SpinExclusive, InFreeList
<1> QED
  BY <1>1, <1>2, <1>3, <1>4, <1>5, <1>6, <1>7 DEF Next, Step, Malloc, Free

\* At most one thread works on the free lists, and the lock word says so.
THEOREM SpinlockExcludes == Spec => []SpinExclusive
<1>1. SpinInv => SpinExclusive
  BY DEF SpinInv
<1> QED
  BY <1>1, SpinInit, SpinStep, PTL DEF Spec

-----------------------------------------------------------------------------

\* The counters, with the types they need.
CountInv == SpinInv /\ PtrType /\ Counted

\* A header made of a count and a pointer, and the fields of any header.
LEMMA HeaderType ==
  ASSUME NEW a \in Nat, NEW p \in Ptr
  PROVE  /\ [aba_count |-> a, level |-> p] \in Headers
         /\ [aba_count |-> a, level |-> p].level = p
BY DEF Headers

\* A header has a pointer and a counter.
LEMMA HeaderFields ==
  ASSUME NEW H \in Headers
  PROVE  H.level \in Ptr /\ H.aba_count \in Nat
BY DEF Headers

\* The constructor counts the nodes it leaves in the cache.
LEMMA CountInit == Init => CountInv
<1> SUFFICES ASSUME Init
             PROVE  CountInv
  OBVIOUS
<1>1. Prealloc \in Nat
  BY NodesAssumption, FS_CardinalityType
<1>2. cache \in [1..Prealloc -> Nodes]
  BY DEF Init
<1>3. cache \in Seq(Nodes) /\ Len(cache) = Prealloc
  BY <1>1, <1>2
<1>4. PtrType
  <2>1. [aba_count |-> 0, level |-> NULL] \in Headers
    BY HeaderType DEF Ptr
  <2> QED
    BY <1>3, <2>1 DEF Init, PtrType, Ptr, AtNode, NoHeader
<1>5. Counted
  BY <1>1, <1>3 DEF Init, Counted
<1> QED
  BY <1>4, <1>5, SpinInit DEF CountInv

\* Every step keeps the counters, one step of the proof per action.
LEMMA CountStep == CountInv /\ [Next]_vars => CountInv'
<1> SUFFICES ASSUME CountInv, [Next]_vars
             PROVE  CountInv'
  OBVIOUS
<1>1. SpinInv'
  BY SpinStep DEF CountInv
<1> DEFINE Goal == PtrType' /\ Counted'
<1>2. SpinType /\ PtrType /\ Counted
  BY DEF CountInv, SpinInv
<1>3. ASSUME NEW t \in Threads
      PROVE  /\ kt[t] \in Ptr /\ kt = [kt EXCEPT ![t] = kt[t]]
             /\ T[t] \in Headers /\ T = [T EXCEPT ![t] = T[t]]
             /\ T[t].level \in Ptr /\ T[t].aba_count \in Nat
             /\ pv[t] \in Ptr
             /\ NoHeader \in Headers /\ NULL \in Ptr
             /\ pc[t] \in AtNode => kt[t] \in Nodes
  BY <1>2, HeaderType, HeaderFields DEF PtrType, NoHeader, Ptr
<1> USE <1>2 DEF At
<1>4. ASSUME NEW t \in Threads, PushCall(t)
      PROVE  Goal
  <2>1. PtrType'
    BY <1>3, <1>4 DEF PushCall, MayCall, Goto, AtNode, PtrType, SpinType, head, store, pool, locals
  <2>2. Counted'
    BY <1>4 DEF PushCall, MayCall, Goto, Counted, SpinType, head, store, pool, locals
  <2> QED
    BY <2>1, <2>2
<1>5. ASSUME NEW t \in Threads, PushFill(t)
      PROVE  Goal
  <2>1. PtrType'
    BY <1>3, <1>5 DEF PushFill,
         Goto, AtNode, PtrType, SpinType, head, store, pool, locals
  <2>2. Counted'
    BY <1>5 DEF PushFill, Goto, Counted, SpinType, head, store, pool, locals
  <2> QED
    BY <2>1, <2>2
<1>6. ASSUME NEW t \in Threads, PushLoadAba(t)
      PROVE  Goal
  <2>1. PtrType'
    <3> DEFINE H == [aba_count |-> aba_count, level |-> NULL]
    <3>1. H \in Headers
      BY <1>3, HeaderType DEF PtrType
    <3>2. T' = [T EXCEPT ![t] = H]
      BY <1>6 DEF PushLoadAba
    <3> HIDE DEF H
    <3> QED
      BY <1>3, <1>6, <3>1, <3>2 DEF PushLoadAba,
         Goto, AtNode, PtrType, SpinType, head, store, pool, locals
  <2>2. Counted'
    BY <1>6 DEF PushLoadAba, Goto, Counted, SpinType, head, store, pool, locals
  <2> QED
    BY <2>1, <2>2
<1>7. ASSUME NEW t \in Threads, PushLoadLevel(t)
      PROVE  Goal
  <2>1. PtrType'
    <3> DEFINE H == [aba_count |-> T[t].aba_count, level |-> level]
    <3>1. H \in Headers
      BY <1>3, HeaderType DEF PtrType
    <3>2. T' = [T EXCEPT ![t] = H] /\ next' \in [Nodes -> Ptr]
      BY <1>3, <1>7 DEF PushLoadLevel, PtrType
    <3> HIDE DEF H
    <3> QED
      BY <1>3, <1>7, <3>1, <3>2 DEF PushLoadLevel, Goto, AtNode, PtrType, SpinType,
         head, store, pool, locals
  <2>2. Counted'
    BY <1>7 DEF PushLoadLevel, Goto, Counted, SpinType, head, store, pool, locals
  <2> QED
    BY <2>1, <2>2
<1>8. ASSUME NEW t \in Threads, PushCas(t)
      PROVE  Goal
  <2>1. PtrType'
    <3>1. CASE Matches(t)
      BY <1>3, <1>8, <3>1 DEF PushCas,
         Goto, AtNode, PtrType, SpinType, head, store, pool, locals
    <3>2. CASE ~Matches(t)
      BY <1>3, <1>8, <3>2 DEF PushCas,
         Goto, AtNode, PtrType, SpinType, head, store, pool, locals
    <3> QED
      BY <3>1, <3>2
  <2>2. Counted'
    BY <1>8 DEF PushCas, Goto, Counted, SpinType, head, store, pool, locals
  <2> QED
    BY <2>1, <2>2
<1>9. ASSUME NEW t \in Threads, PopCall(t)
      PROVE  Goal
  <2>1. PtrType'
    BY <1>3, <1>9 DEF PopCall, MayCall, Goto, AtNode, PtrType, SpinType, head, store, pool, locals
  <2>2. Counted'
    BY <1>9 DEF PopCall, MayCall, Goto, Counted, SpinType, head, store, pool, locals
  <2> QED
    BY <2>1, <2>2
<1>10. ASSUME NEW t \in Threads, PopLoadAba(t)
      PROVE  Goal
  <2>1. PtrType'
    <3> DEFINE H == [aba_count |-> aba_count, level |-> NULL]
    <3>1. H \in Headers
      BY <1>3, HeaderType DEF PtrType
    <3>2. T' = [T EXCEPT ![t] = H]
      BY <1>10 DEF PopLoadAba
    <3> HIDE DEF H
    <3> QED
      BY <1>3, <1>10, <3>1, <3>2 DEF PopLoadAba,
         Goto, AtNode, PtrType, SpinType, head, store, pool, locals
  <2>2. Counted'
    BY <1>10 DEF PopLoadAba, Goto, Counted, SpinType, head, store, pool, locals
  <2> QED
    BY <2>1, <2>2
<1>11. ASSUME NEW t \in Threads, PopLoadLevel(t)
      PROVE  Goal
  <2>1. PtrType'
    <3>1. CASE level = NULL
      BY <1>3, <1>11, <3>1 DEF PopLoadLevel,
         Goto, AtNode, PtrType, SpinType, head, store, pool, locals
    <3>2. CASE level # NULL
      <4> DEFINE H == [aba_count |-> T[t].aba_count, level |-> level]
      <4>1. H \in Headers /\ H.level \in Nodes
        BY <1>3, <3>2, HeaderType DEF PtrType, Ptr
      <4>2. T' = [T EXCEPT ![t] = H]
        BY <1>11, <3>2 DEF PopLoadLevel
      <4> HIDE DEF H
      <4> QED
        BY <1>3, <1>11, <3>2, <4>1, <4>2 DEF PopLoadLevel,
         Goto, AtNode, PtrType, SpinType, head, store, pool, locals
    <3> QED
      BY <3>1, <3>2
  <2>2. Counted'
    BY <1>11 DEF PopLoadLevel, Goto, Counted, SpinType, head, store, pool, locals
  <2> QED
    BY <2>1, <2>2
<1>12. ASSUME NEW t \in Threads, PopCas(t)
      PROVE  Goal
  <2>1. PtrType'
    <3>1. CASE Matches(t)
      <4>1. T[t].level \in Nodes
        BY <1>12 DEF PopCas, PtrType
      <4> QED
        BY <1>3, <1>12, <3>1, <4>1 DEF PopCas,
         Goto, AtNode, PtrType, SpinType, head, store, pool, locals
    <3>2. CASE ~Matches(t)
      BY <1>3, <1>12, <3>2 DEF PopCas,
         Goto, AtNode, PtrType, SpinType, head, store, pool, locals
    <3> QED
      BY <3>1, <3>2
  <2>2. Counted'
    BY <1>12 DEF PopCas, Goto, Counted, SpinType, head, store, pool, locals
  <2> QED
    BY <2>1, <2>2
<1>13. ASSUME NEW t \in Threads, DrainRead(t)
      PROVE  Goal
  <2>1. PtrType'
    BY <1>3, <1>13 DEF DrainRead,
         Goto, AtNode, PtrType, SpinType, head, store, pool, locals
  <2>2. Counted'
    BY <1>13 DEF DrainRead, Goto, Counted, SpinType, head, store, pool, locals
  <2> QED
    BY <2>1, <2>2
<1>14. ASSUME NEW t \in Threads, MallocLock(t)
      PROVE  Goal
  <2>1. PtrType'
    BY <1>3, <1>14 DEF MallocLock, Acquire, Goto, AtNode, PtrType, SpinType, head, store, pool, locals
  <2>2. Counted'
    BY <1>14 DEF MallocLock, Acquire, Goto, Counted, SpinType, head, store, pool, locals
  <2> QED
    BY <2>1, <2>2
<1>15. ASSUME NEW t \in Threads, MallocTake(t)
      PROVE  Goal
  <2>1. PtrType'
    <3>1. CASE level_count > 0
      BY <1>3, <1>15, <3>1 DEF MallocTake, Counted,
         Goto, AtNode, PtrType, SpinType, head, store, pool, locals
    <3>2. CASE ~(level_count > 0)
      <4>1. PICK n \in heap : heap' = heap \ {n} /\ kt' = [kt EXCEPT ![t] = n]
        BY <1>15, <3>2 DEF MallocTake
      <4>2. n \in Nodes /\ n \in Ptr
        BY DEF PtrType, Ptr
      <4> QED
        BY <1>3, <1>15, <3>2, <4>1, <4>2 DEF MallocTake, Counted,
         Goto, AtNode, PtrType, SpinType, head, store, pool, locals
    <3> QED
      BY <3>1, <3>2
  <2>2. Counted'
    <3>1. \A u \in Threads : pc[u] # "m_unlink"
      BY <1>15 DEF MallocTake, CountInv, SpinInv, SpinExclusive, InFreeList
    <3>2. CASE level_count > 0
      BY <1>15, <3>1, <3>2 DEF MallocTake, Goto, Counted, SpinType
    <3>3. CASE ~(level_count > 0)
      BY <1>15, <3>1, <3>3 DEF MallocTake, Goto, Counted, SpinType
    <3> QED
      BY <3>2, <3>3
  <2> QED
    BY <2>1, <2>2
<1>16. ASSUME NEW t \in Threads, MallocUnlink(t)
      PROVE  Goal
  <2>1. PtrType'
    <3>1. Len(cache) > 0
      BY <1>16 DEF MallocUnlink, Counted
    <3>2. Head(cache) \in Nodes /\ Head(cache) \in Ptr /\ Tail(cache) \in Seq(Nodes)
      BY <3>1 DEF PtrType, Ptr
    <3> QED
      BY <1>3, <1>16, <3>2 DEF MallocUnlink,
         Goto, AtNode, PtrType, SpinType, head, store, pool, locals
  <2>2. Counted'
    <3>1. \A u \in Threads \ {t} : pc[u] # "m_unlink"
      BY <1>16 DEF MallocUnlink, CountInv, SpinInv, SpinExclusive, InFreeList
    <3>2. Len(Tail(cache)) = level_count
      BY <1>16 DEF MallocUnlink, Counted, PtrType
    <3> QED
      BY <1>16, <3>1, <3>2 DEF MallocUnlink, Goto, Counted, SpinType
  <2> QED
    BY <2>1, <2>2
<1>17. ASSUME NEW t \in Threads, MallocUnlock(t)
      PROVE  Goal
  <2>1. PtrType'
    <3>1. next' \in [Nodes -> Ptr]
      BY <1>3, <1>17 DEF MallocUnlock, PtrType
    <3> QED
      BY <1>3, <1>17, <3>1 DEF MallocUnlock,
         Goto, AtNode, PtrType, SpinType, head, store, pool, locals
  <2>2. Counted'
    BY <1>17 DEF MallocUnlock, Goto, Counted, SpinType, head, store, pool, locals
  <2> QED
    BY <2>1, <2>2
<1>18. ASSUME NEW t \in Threads, FreeLock(t)
      PROVE  Goal
  <2>1. PtrType'
    BY <1>3, <1>18 DEF FreeLock, Acquire, Goto, AtNode, PtrType, SpinType, head, store, pool, locals
  <2>2. Counted'
    BY <1>18 DEF FreeLock, Acquire, Goto, Counted, SpinType, head, store, pool, locals
  <2> QED
    BY <2>1, <2>2
<1>19. ASSUME NEW t \in Threads, FreeBody(t)
      PROVE  Goal
  <2>1. PtrType'
    BY <1>3, <1>19 DEF FreeBody,
         Goto, AtNode, PtrType, SpinType, head, store, pool, locals
  <2>2. Counted'
    BY <1>19 DEF FreeBody, Goto, Counted, SpinType, head, store, pool, locals
  <2> QED
    BY <2>1, <2>2
<1>20. ASSUME NEW t \in Threads, FreeLink(t)
      PROVE  Goal
  <2>1. PtrType'
    BY <1>3, <1>20 DEF FreeLink,
         Goto, AtNode, PtrType, SpinType, head, store, pool, locals
  <2>2. Counted'
    BY <1>20 DEF FreeLink, Goto, Counted, SpinType, head, store, pool, locals
  <2> QED
    BY <2>1, <2>2
<1>21. ASSUME NEW t \in Threads, FreeUnlock(t)
      PROVE  Goal
  <2>1. PtrType'
    <3>1. kt' = [kt EXCEPT ![t] = pv[t]] /\ pv' = [pv EXCEPT ![t] = NULL]
      BY <1>21 DEF FreeUnlock
    <3>2. CASE pv[t] = NULL
      BY <1>3, <1>21, <3>1, <3>2 DEF FreeUnlock,
         Goto, AtNode, PtrType, SpinType, head, store, pool, locals
    <3>3. CASE pv[t] # NULL
      <4>1. pv[t] \in Nodes
        BY <1>3, <3>3 DEF Ptr
      <4> QED
        BY <1>3, <1>21, <3>1, <3>3, <4>1 DEF FreeUnlock,
         Goto, AtNode, PtrType, SpinType, head, store, pool, locals
    <3> QED
      BY <3>2, <3>3
  <2>2. Counted'
    BY <1>21 DEF FreeUnlock, Goto, Counted, SpinType, head, store, pool, locals
  <2> QED
    BY <2>1, <2>2
<1>22. ASSUME NEW t \in Threads, ClearCall(t)
      PROVE  Goal
  <2>1. PtrType'
    <3>1. CASE level = NULL
      BY <1>3, <1>22, <3>1 DEF ClearCall, MayClear,
         Goto, AtNode, PtrType, SpinType, head, store, pool, locals
    <3>2. CASE level # NULL
      BY <1>3, <1>22, <3>2 DEF ClearCall, MayClear, Ptr,
         Goto, AtNode, PtrType, SpinType, head, store, pool, locals
    <3> QED
      BY <3>1, <3>2
  <2>2. Counted'
    BY <1>22 DEF ClearCall, MayClear, Goto, Counted, SpinType, head, store, pool, locals
  <2> QED
    BY <2>1, <2>2
<1>23. ASSUME NEW t \in Threads, ClearFree(t)
      PROVE  Goal
  <2>1. PtrType'
    <3>1. kt[t] \in Nodes /\ next[kt[t]] \in Ptr
      BY <1>23 DEF ClearFree, PtrType, AtNode
    <3>2. CASE next[kt[t]] = NULL
      BY <1>3, <1>23, <3>1, <3>2 DEF ClearFree,
         Goto, AtNode, PtrType, SpinType, head, store, pool, locals
    <3>3. CASE next[kt[t]] # NULL
      BY <1>3, <1>23, <3>1, <3>3 DEF ClearFree, Ptr,
         Goto, AtNode, PtrType, SpinType, head, store, pool, locals
    <3> QED
      BY <3>2, <3>3
  <2>2. Counted'
    BY <1>23 DEF ClearFree, Goto, Counted, SpinType, head, store, pool, locals
  <2> QED
    BY <2>1, <2>2
<1>24. ASSUME NEW t \in Threads, ClearReset(t)
      PROVE  Goal
  <2>1. PtrType'
    BY <1>3, <1>24 DEF ClearReset,
         Goto, AtNode, PtrType, SpinType, head, store, pool, locals
  <2>2. Counted'
    BY <1>24 DEF ClearReset, Goto, Counted, SpinType, head, store, pool, locals
  <2> QED
    BY <2>1, <2>2
<1>25. CASE UNCHANGED vars
  <2>1. PtrType'
    BY <1>25 DEF vars, PtrType, head, store, pool, locals
  <2>2. Counted'
    BY <1>25 DEF vars, Counted, pool
  <2> QED
    BY <1>1, <2>1, <2>2 DEF CountInv
<1> QED
  BY <1>1, <1>4, <1>5, <1>6, <1>7, <1>8, <1>9, <1>10, <1>11, <1>12, <1>13, <1>14, <1>15,
     <1>16, <1>17, <1>18, <1>19, <1>20, <1>21, <1>22, <1>23, <1>24, <1>25
     DEF Next, Step, Push, Pop, Malloc, Free, Clear, CountInv

\* Whenever the lock is free, level_count is the length of the cache and the
\* other counter that of the list of bodies: _malloc_node never dereferences
\* an empty list, whatever ClearQueue did to the message queue meanwhile.
THEOREM FreeListCounters == Spec => []FreeListCounted
<1>1. CountInv => FreeListCounted
  BY DEF CountInv, Counted, SpinInv, SpinType, SpinExclusive, InFreeList, FreeListCounted
<1> QED
  BY <1>1, CountInit, CountStep, PTL DEF Spec

-----------------------------------------------------------------------------
(***************************************************************************)
(* The lists.  Every node is in one place (Split), the pointers spell the  *)
(* queue and what each drain still holds (Chain), and ClearQueue, when it  *)
(* runs, is the only thread inside the queue (ClearsAlone).                *)
(***************************************************************************)

\* A sequence with one more element at the front, as PushCas and FreeLink make.
LEMMA PrependFacts ==
  ASSUME NEW S, NEW k \in S, NEW s \in Seq(S)
  PROVE  /\ <<k>> \o s \in Seq(S)
         /\ Len(<<k>> \o s) = Len(s) + 1
         /\ (<<k>> \o s)[1] = k
         /\ \A i \in 1..Len(s) : (<<k>> \o s)[i + 1] = s[i]
         /\ Range(<<k>> \o s) = Range(s) \cup {k}
         /\ k \notin Range(s) /\ IsInjective(s) => IsInjective(<<k>> \o s)
<1> DEFINE c == <<k>> \o s
<1>1. /\ c \in Seq(S) /\ Len(c) = Len(s) + 1 /\ c[1] = k
      /\ \A i \in 1..Len(s) : c[i + 1] = s[i]
      /\ DOMAIN c = 1..(Len(s) + 1) /\ DOMAIN s = 1..Len(s)
      /\ \A i \in DOMAIN c : i = 1 \/ (i - 1 \in 1..Len(s) /\ c[i] = s[i - 1])
  OBVIOUS
<1> HIDE DEF c
<1>2. Range(c) = Range(s) \cup {k}
  <2>1. ASSUME NEW x \in Range(c) PROVE x \in Range(s) \cup {k}
    BY <1>1, <2>1 DEF Range
  <2>2. ASSUME NEW x \in Range(s) PROVE x \in Range(c)
    <3>1. PICK i \in 1..Len(s) : x = s[i]
      BY <1>1, <2>2 DEF Range
    <3>2. i + 1 \in DOMAIN c /\ x = c[i + 1]
      BY <1>1, <3>1
    <3> QED
      BY <3>2 DEF Range
  <2>3. k \in Range(c)
    BY <1>1 DEF Range
  <2> QED
    BY <2>1, <2>2, <2>3
<1>3. ASSUME k \notin Range(s), IsInjective(s)
      PROVE  IsInjective(c)
  <2> SUFFICES ASSUME NEW i \in DOMAIN c, NEW j \in DOMAIN c, c[i] = c[j]
               PROVE  i = j
    BY DEF IsInjective
  <2>1. \A m \in DOMAIN s : s[m] # k
    BY <1>3 DEF Range
  <2>2. i = 1 <=> j = 1
    BY <1>1, <2>1
  <2> QED
    BY <1>1, <1>3, <2>2 DEF IsInjective
<1> QED
  BY <1>1, <1>2, <1>3 DEF c

\* A sequence without its first element, as MallocUnlink and FreeLink leave.
LEMMA TailFacts ==
  ASSUME NEW S, NEW s \in Seq(S), s # <<>>
  PROVE  /\ Head(s) \in S /\ Head(s) = s[1] /\ Tail(s) \in Seq(S)
         /\ Len(Tail(s)) = Len(s) - 1 /\ Len(s) > 0
         /\ \A i \in 1..Len(Tail(s)) : Tail(s)[i] = s[i + 1]
         /\ Range(s) = Range(Tail(s)) \cup {Head(s)}
         /\ IsInjective(s) => IsInjective(Tail(s)) /\ Head(s) \notin Range(Tail(s))
<1> DEFINE c == Tail(s)
<1>1. /\ c \in Seq(S) /\ Len(c) = Len(s) - 1 /\ Head(s) = s[1] /\ Head(s) \in S
      /\ Len(s) > 0
      /\ \A i \in 1..Len(c) : c[i] = s[i + 1]
      /\ DOMAIN c = 1..(Len(s) - 1) /\ DOMAIN s = 1..Len(s)
      /\ \A i \in DOMAIN s : i = 1 \/ (i - 1 \in DOMAIN c /\ s[i] = c[i - 1])
  OBVIOUS
<1> HIDE DEF c
<1>2. Range(s) = Range(c) \cup {Head(s)}
  <2>1. ASSUME NEW x \in Range(s) PROVE x \in Range(c) \cup {Head(s)}
    BY <1>1, <2>1 DEF Range
  <2>2. ASSUME NEW x \in Range(c) PROVE x \in Range(s)
    <3>1. PICK i \in DOMAIN c : x = c[i]
      BY <2>2 DEF Range
    <3>2. i + 1 \in DOMAIN s /\ x = s[i + 1]
      BY <1>1, <3>1
    <3> QED
      BY <3>2 DEF Range
  <2>3. Head(s) \in Range(s)
    BY <1>1 DEF Range
  <2> QED
    BY <2>1, <2>2, <2>3
<1>3. ASSUME IsInjective(s)
      PROVE  IsInjective(c) /\ Head(s) \notin Range(c)
  <2>1. ASSUME NEW i \in DOMAIN c, NEW j \in DOMAIN c, c[i] = c[j] PROVE i = j
    <3>1. i + 1 \in DOMAIN s /\ j + 1 \in DOMAIN s /\ s[i + 1] = s[j + 1]
      BY <1>1, <2>1
    <3> QED
      BY <1>1, <1>3, <3>1 DEF IsInjective
  <2>2. ASSUME NEW i \in DOMAIN c PROVE c[i] # Head(s)
    <3>1. i + 1 \in DOMAIN s /\ 1 \in DOMAIN s /\ i + 1 # 1 /\ c[i] = s[i + 1]
      BY <1>1
    <3> QED
      BY <1>1, <1>3, <3>1 DEF IsInjective
  <2> QED
    BY <2>1, <2>2 DEF IsInjective, Range
<1> QED
  BY <1>1, <1>2, <1>3 DEF c

\* The successors f spell the list s from p.
Chain(f, p, s) ==
  /\ p = IF s = <<>> THEN NULL ELSE s[1]
  /\ \A i \in 1..Len(s) : f[s[i]] = IF i = Len(s) THEN NULL ELSE s[i + 1]

\* The list after its first node starts at that node's successor.
LEMMA ChainTail ==
  ASSUME NEW f, NEW p \in Ptr, NEW s \in Seq(Nodes), Chain(f, p, s), p # NULL
  PROVE  s # <<>> /\ Head(s) = p /\ Chain(f, f[p], Tail(s))
<1>1. s # <<>> /\ p = s[1]
  BY DEF Chain
<1>2. Head(s) = p /\ Len(s) > 0 /\ Len(Tail(s)) = Len(s) - 1
  BY <1>1, TailFacts
<1>3. \A i \in 1..Len(Tail(s)) : Tail(s)[i] = s[i + 1]
  BY <1>1, TailFacts
<1>4. f[p] = IF Tail(s) = <<>> THEN NULL ELSE Tail(s)[1]
  <2>1. Len(s) \in Nat /\ 1 \in 1..Len(s)
    BY <1>2
  <2>2. f[s[1]] = IF 1 = Len(s) THEN NULL ELSE s[1 + 1]
    BY <2>1 DEF Chain
  <2>3. Tail(s) = <<>> <=> Len(Tail(s)) = 0
    BY <1>1, TailFacts, EmptySeq
  <2> QED
    BY <1>1, <1>2, <1>3, <2>1, <2>2, <2>3
<1>5. ASSUME NEW i \in 1..Len(Tail(s))
      PROVE  f[Tail(s)[i]] = IF i = Len(Tail(s)) THEN NULL ELSE Tail(s)[i + 1]
  <2>1. Len(s) \in Nat /\ i + 1 \in 1..Len(s) /\ Tail(s)[i] = s[i + 1]
    BY <1>2, <1>3, <1>5
  <2>2. f[s[i + 1]] = IF i + 1 = Len(s) THEN NULL ELSE s[i + 2]
    BY <2>1 DEF Chain
  <2>3. i # Len(Tail(s)) => i + 1 \in 1..Len(Tail(s)) /\ Tail(s)[i + 1] = s[i + 2]
    BY <1>2, <1>3, <1>5, <2>1
  <2> QED
    BY <1>2, <2>1, <2>2, <2>3
<1> QED
  BY <1>1, <1>2, <1>4, <1>5 DEF Chain

\* A node whose successor starts the list is the start of a longer one.
LEMMA ChainPrepend ==
  ASSUME NEW f, NEW k \in Nodes, NEW s \in Seq(Nodes), Chain(f, f[k], s)
  PROVE  Chain(f, k, <<k>> \o s)
<1> DEFINE c == <<k>> \o s
<1>1. /\ c # <<>> /\ c[1] = k /\ Len(c) = Len(s) + 1 /\ Len(s) \in Nat
      /\ \A i \in 1..Len(s) : c[i + 1] = s[i]
      /\ s = <<>> <=> Len(s) = 0
  OBVIOUS
<1> HIDE DEF c
<1>2. ASSUME NEW i \in 1..Len(c)
      PROVE  f[c[i]] = IF i = Len(c) THEN NULL ELSE c[i + 1]
  <2>1. CASE i = 1
    BY <1>1, <2>1 DEF Chain
  <2>2. CASE i # 1
    <3>1. i - 1 \in 1..Len(s) /\ c[i] = s[i - 1]
      BY <1>1, <1>2, <2>2
    <3>2. f[s[i - 1]] = IF i - 1 = Len(s) THEN NULL ELSE s[i]
      BY <3>1 DEF Chain
    <3>3. i # Len(c) => i \in 1..Len(s) /\ c[i + 1] = s[i]
      BY <1>1, <1>2
    <3> QED
      BY <1>1, <1>2, <3>1, <3>2, <3>3
  <2> QED
    BY <2>1, <2>2
<1> QED
  BY <1>1, <1>2 DEF Chain, c

\* A list is the same when its own nodes keep their successors.
LEMMA ChainFrame ==
  ASSUME NEW f, NEW g, NEW p, NEW s \in Seq(Nodes), Chain(f, p, s),
         \A n \in Range(s) : g[n] = f[n]
  PROVE  Chain(g, p, s)
<1>1. \A i \in 1..Len(s) : s[i] \in Range(s)
  BY DEF Range
<1> QED
  BY <1>1 DEF Chain

\* The list that starts at NULL is empty.
LEMMA ChainNull ==
  ASSUME NEW f, NEW s \in Seq(Nodes), Chain(f, NULL, s)
  PROVE  s = <<>>
<1>1. s # <<>> => s[1] \in Nodes
  OBVIOUS
<1> QED
  BY <1>1, NullAssumption DEF Chain

\* Where nodes are: H free for malloc, C in the cache, Q queued, M[t] with t.
Split(H, C, Q, M) ==
  /\ \A n \in Nodes : n \in H \/ n \in C \/ n \in Q \/ \E t \in Threads : n \in M[t]
  /\ H \cap C = {} /\ Q \cap H = {} /\ Q \cap C = {}
  /\ \A t \in Threads : M[t] \cap H = {} /\ M[t] \cap C = {} /\ M[t] \cap Q = {}
  /\ \A t, u \in Threads : t # u => M[t] \cap M[u] = {}

\* malloc gives a thread a node.
LEMMA HeapToThread ==
  ASSUME NEW H, NEW C, NEW Q, NEW M, NEW N, Split(H, C, Q, M), NEW t \in Threads,
         NEW n \in H, N[t] = M[t] \cup {n}, \A u \in Threads \ {t} : N[u] = M[u]
  PROVE  Split(H \ {n}, C, Q, N)
BY DEF Split

\* _malloc_node gives a thread the first node of the cache.
LEMMA CacheToThread ==
  ASSUME NEW H, NEW C, NEW D, NEW Q, NEW M, NEW N, NEW n, Split(H, C, Q, M), NEW t \in Threads,
         C = D \cup {n}, n \notin D,
         N[t] = M[t] \cup {n}, \A u \in Threads \ {t} : N[u] = M[u]
  PROVE  Split(H, D, Q, N)
BY DEF Split

\* _free_node takes a node back from its thread.
LEMMA ThreadToCache ==
  ASSUME NEW H, NEW C, NEW Q, NEW M, NEW N, NEW n, Split(H, C, Q, M), NEW t \in Threads,
         M[t] = N[t] \cup {n}, n \notin N[t], \A u \in Threads \ {t} : N[u] = M[u]
  PROVE  Split(H, C \cup {n}, Q, N)
BY DEF Split

\* The CAS of push_msg hands a thread's nodes to the queue.
LEMMA ThreadToQueue ==
  ASSUME NEW H, NEW C, NEW Q, NEW M, NEW N, Split(H, C, Q, M), NEW t \in Threads,
         N[t] = {}, \A u \in Threads \ {t} : N[u] = M[u]
  PROVE  Split(H, C, Q \cup M[t], N)
BY DEF Split

\* The CAS of pop_msg gives a thread all the nodes of the queue.
LEMMA QueueToThread ==
  ASSUME NEW H, NEW C, NEW Q, NEW M, NEW N, Split(H, C, Q, M), NEW t \in Threads,
         M[t] = {}, N[t] = Q, \A u \in Threads \ {t} : N[u] = M[u]
  PROVE  Split(H, C, {}, N)
BY DEF Split

\* ClearQueue frees a node of the queue.
LEMMA QueueToHeap ==
  ASSUME NEW H, NEW C, NEW Q, NEW R, NEW M, NEW n, Split(H, C, Q, M),
         Q = R \cup {n}, n \notin R
  PROVE  Split(H \cup {n}, C, R, M)
BY DEF Split

Draining == {"d_read", "f_lock", "f_body", "f_link", "f_unlock"}

\* What a thread knows of the nodes it has.
Holds(t) ==
  /\ pc[t] \notin Draining => rest[t] = <<>>
  /\ IsInjective(rest[t])
  /\ pc[t] = "d_read" => Chain(next, kt[t], rest[t])
  /\ pc[t] \in {"f_lock", "f_body", "f_link"} =>
       /\ rest[t] # <<>> /\ Head(rest[t]) = kt[t]
       /\ Chain(next, pv[t], Tail(rest[t]))
  /\ pc[t] = "f_unlock" => Chain(next, pv[t], rest[t])
  /\ pc[t] = "p_cas" => next[kt[t]] = T[t].level
  /\ pc[t] = "c_reset" => kt[t] = NULL

Mines == [t \in Threads |-> Mine(t)]

\* Every node is in one place, those of q in the queue.
Placed(q) == /\ Split(heap, Range(cache), Range(q), Mines)
             /\ IsInjective(cache) /\ IsInjective(q)

NoneClears == \A t \in Threads : ~Clearing(t)

ListType == linked \in Seq(Nodes) /\ rest \in [Threads -> Seq(Nodes)]

\* ClearQueue runs alone, and frees from its cursor on.
ClearsAlone(t) ==
  /\ Serialised
  /\ \A u \in Threads \ {t} : pc[u] = "idle"
  /\ \E s \in Seq(Nodes) : Placed(s) /\ Chain(next, kt[t], s)

Queued == NoneClears => Placed(linked) /\ Chain(next, level, linked)

ListPart == /\ ListType
            /\ \A t \in Threads : Holds(t)
            /\ Queued
            /\ \A t \in Threads : Clearing(t) => ClearsAlone(t)

\* The steps of threads outside ClearQueue: what they leave alone, and what
\* has to be shown of the one that moves.
LEMMA Moves ==
  ASSUME ListPart, ListType', NEW t \in Threads, NoneClears, NoneClears', Holds(t)',
         \A u \in Threads \ {t} : /\ pc'[u] = pc[u] /\ kt'[u] = kt[u] /\ pv'[u] = pv[u]
                                  /\ T'[u] = T[u] /\ rest'[u] = rest[u],
         \A u \in Threads \ {t} : \A n \in Mine(u) : next'[n] = next[n],
         Placed(linked)', Chain(next, level, linked)'
  PROVE  ListPart'
<1>1. ASSUME NEW u \in Threads \ {t} PROVE Holds(u)'
  <2>1. /\ pc'[u] = pc[u] /\ kt'[u] = kt[u] /\ pv'[u] = pv[u]
        /\ T'[u] = T[u] /\ rest'[u] = rest[u] /\ Holds(u) /\ rest[u] \in Seq(Nodes)
    BY DEF ListPart, ListType
  <2>2. \A n \in Range(rest[u]) : next'[n] = next[n]
    BY DEF Mine
  <2>3. pc[u] = "d_read" => Chain(next', kt[u], rest[u])
    BY <2>1, <2>2, ChainFrame DEF Holds
  <2>4. pc[u] \in {"f_lock", "f_body", "f_link"} => Chain(next', pv[u], Tail(rest[u]))
    <3> SUFFICES ASSUME pc[u] \in {"f_lock", "f_body", "f_link"}
                 PROVE  Chain(next', pv[u], Tail(rest[u]))
      OBVIOUS
    <3>1. rest[u] # <<>> /\ Chain(next, pv[u], Tail(rest[u]))
      BY <2>1 DEF Holds
    <3>2. Tail(rest[u]) \in Seq(Nodes) /\ Range(Tail(rest[u])) \subseteq Range(rest[u])
      BY <2>1, <3>1, TailFacts
    <3> QED
      BY <2>2, <3>1, <3>2, ChainFrame
  <2>5. pc[u] = "f_unlock" => Chain(next', pv[u], rest[u])
    BY <2>1, <2>2, ChainFrame DEF Holds
  <2>6. pc[u] = "p_cas" => next'[kt[u]] = T[u].level
    BY <2>1 DEF Holds, Mine
  <2> QED
    BY <2>1, <2>3, <2>4, <2>5, <2>6 DEF Holds
<1>2. \A u \in Threads : Holds(u)'
  BY <1>1
<1> QED
  BY <1>2 DEF ListPart, Queued, NoneClears

\* A thread's own nodes change only with where it is and what it holds.
LEMMA MineFrame ==
  ASSUME NEW u \in Threads, pc'[u] = pc[u], kt'[u] = kt[u], rest'[u] = rest[u]
  PROVE  Mine(u)' = Mine(u)
BY DEF Mine

\* The nodes of a thread, now and after the step.
LEMMA MinesFacts == \A u \in Threads : Mines[u] = Mine(u)
BY DEF Mines

\* The same after a step.
LEMMA MinesFactsNext == \A u \in Threads : Mines'[u] = Mine(u)'
BY DEF Mines

\* The invariant of the theorems below: the counters and the lists.
ListInv == CountInv /\ ListPart

\* The variables of the other threads.
Others(t) == \A u \in Threads \ {t} : /\ pc'[u] = pc[u] /\ kt'[u] = kt[u] /\ pv'[u] = pv[u]
                                      /\ T'[u] = T[u] /\ rest'[u] = rest[u]

\* The types the steps below need.
LEMMA ListTypes ==
  ASSUME ListInv
  PROVE  /\ pc \in [Threads -> Pcs] /\ kt \in [Threads -> Ptr] /\ pv \in [Threads -> Ptr]
         /\ T \in [Threads -> Headers] /\ rest \in [Threads -> Seq(Nodes)]
         /\ linked \in Seq(Nodes) /\ cache \in Seq(Nodes) /\ heap \subseteq Nodes
         /\ next \in [Nodes -> Ptr] /\ level \in Ptr /\ level_count \in Nat
         /\ \A t \in Threads : Holds(t) /\ (pc[t] \in AtNode => kt[t] \in Nodes)
BY DEF ListInv, ListPart, ListType, CountInv, SpinInv, SpinType, PtrType, Counted

\* A step outside ClearQueue is made while no thread is in it.
LEMMA Apart ==
  ASSUME ListInv, NEW t \in Threads, Push(t) \/ Pop(t) \/ Malloc(t) \/ Free(t)
  PROVE  NoneClears
<1> SUFFICES ASSUME NEW u \in Threads, Clearing(u) PROVE FALSE
  BY DEF NoneClears
<1>1. Serialised /\ \A v \in Threads \ {u} : pc[v] = "idle"
  BY DEF ListInv, ListPart, ClearsAlone
<1>2. ~MayCall(t)
  BY <1>1 DEF MayCall
<1>3. pc[t] \notin {"idle", "c_free", "c_reset"}
  BY <1>2 DEF Push, PushCall, PushFill, PushLoadAba, PushLoadLevel, PushCas, Pop, PopCall,
     PopLoadAba, PopLoadLevel, PopCas, DrainRead, Malloc, MallocLock, MallocTake,
     MallocUnlink, MallocUnlock, Free, FreeLock, FreeBody, FreeLink, FreeUnlock, Acquire, At
<1>4. t = u
  BY <1>1, <1>3
<1> QED
  BY <1>3, <1>4 DEF Clearing

\* Steps that leave every node where it is.
LEMMA Keeps ==
  ASSUME ListInv, NEW t \in Threads, NoneClears, NoneClears', Others(t),
         UNCHANGED <<heap, cache, linked, level, rest>>,
         Mine(t)' = Mine(t), \A n \in Nodes \ Mine(t) : next'[n] = next[n],
         Holds(t)'
  PROVE  ListPart'
<1>1. Mines' = Mines
  BY MineFrame DEF Mines, Others
<1>2. Placed(linked) /\ Chain(next, level, linked)
  BY DEF ListInv, ListPart, Queued
<1>3. Placed(linked)'
  BY <1>1, <1>2 DEF Placed
<1>4. Split(heap, Range(cache), Range(linked), Mines)
  BY <1>2 DEF Placed
<1>5. \A n \in Range(linked) : n \in Nodes \ Mine(t)
  <2>1. Range(linked) \subseteq Nodes
    BY ListTypes, RangeOfSeq
  <2>2. Mine(t) \cap Range(linked) = {}
    BY <1>4, MinesFacts DEF Split
  <2> QED
    BY <2>1, <2>2
<1>6. Chain(next, level, linked)'
  BY <1>2, <1>5, ListTypes, ChainFrame
<1>7. ASSUME NEW u \in Threads \ {t}, NEW n \in Mine(u)
      PROVE  next'[n] = next[n]
  <2>1. Mine(u) \cap Mine(t) = {}
    BY <1>4, MinesFacts DEF Split
  <2>2. n \in Nodes
    BY ListTypes DEF Mine, Range, AtNode
  <2> QED
    BY <2>1, <2>2
<1> QED
  BY <1>3, <1>6, <1>7, ListTypes, Moves DEF Others, ListInv, ListPart, ListType

\* The steps that move a thread and write no pointer.
LEMMA QuietSteps ==
  ASSUME ListInv, NEW t \in Threads,
         \/ PushCall(t) \/ PushFill(t) \/ PushLoadAba(t) \/ PopCall(t) \/ PopLoadAba(t)
         \/ PopLoadLevel(t) \/ MallocLock(t) \/ FreeLock(t) \/ FreeBody(t)
         \/ (PushCas(t) /\ ~Matches(t)) \/ (PopCas(t) /\ ~Matches(t))
         \/ (MallocTake(t) /\ level_count > 0)
  PROVE  ListPart'
<1>1. NoneClears
  BY Apart DEF Push, Pop, Malloc, Free
<1>2. /\ UNCHANGED <<heap, cache, linked, level, rest, kt, pv, next>>
      /\ \E l \in Pcs \ {"c_free", "c_reset"} : Goto(t, l)
      /\ \A u \in Threads \ {t} : T'[u] = T[u]
  <2>1. CASE PushCall(t) \/ PopCall(t) \/ MallocLock(t) \/ FreeLock(t) \/ FreeBody(t)
             \/ PushFill(t)
    BY <2>1, ListTypes DEF PushCall, PopCall, MallocLock, FreeLock, FreeBody, PushFill,
       Acquire, head, store, pool, locals, Pcs
  <2>2. CASE PushLoadAba(t) \/ PopLoadAba(t) \/ PopLoadLevel(t)
    BY <2>2, ListTypes DEF PushLoadAba, PopLoadAba, PopLoadLevel, head, store, pool, Pcs
  <2>3. CASE (PushCas(t) \/ PopCas(t)) /\ ~Matches(t)
    BY <2>3, ListTypes DEF PushCas, PopCas, head, store, pool, Pcs
  <2>4. CASE MallocTake(t) /\ level_count > 0
    BY <2>4, ListTypes DEF MallocTake, head, store, Pcs
  <2> QED
    BY <2>1, <2>2, <2>3, <2>4
<1>3. Others(t) /\ NoneClears'
  BY <1>1, <1>2, ListTypes DEF Others, Goto, NoneClears, Clearing
<1>4. \/ pc[t] \notin Draining /\ pc'[t] \notin Draining \cup {"p_cas", "c_reset"}
      \/ pc[t] \in {"f_lock", "f_body"} /\ pc'[t] \in {"f_body", "f_link"}
  BY ListTypes DEF PushCall, PushFill, PushLoadAba, PopCall, PopLoadAba, PopLoadLevel,
     MallocLock, FreeLock, FreeBody, PushCas, PopCas, MallocTake, Acquire, Goto, At,
     MayCall, Draining
<1>5. Mine(t)' = Mine(t)
  <2>1. pc'[t] \in {"m_unlock", "p_fill", "p_aba", "p_level", "p_cas"}
          <=> pc[t] \in {"m_unlock", "p_fill", "p_aba", "p_level", "p_cas"}
    BY ListTypes DEF PushCall, PushFill, PushLoadAba, PopCall, PopLoadAba, PopLoadLevel,
     MallocLock, FreeLock, FreeBody, PushCas, PopCas, MallocTake, Acquire, Goto, At, MayCall
  <2> QED
    BY <1>2, <2>1 DEF Mine
<1>6. Holds(t)'
  BY <1>2, <1>4, ListTypes DEF Holds, Draining
<1> QED
  BY <1>1, <1>2, <1>3, <1>5, <1>6, Keeps

\* The steps that write the successor of a thread's own node.
LEMMA LinkSteps ==
  ASSUME ListInv, NEW t \in Threads, MallocUnlock(t) \/ PushLoadLevel(t)
  PROVE  ListPart'
<1>1. NoneClears
  BY Apart DEF Push, Malloc
<1>2. /\ UNCHANGED <<heap, cache, linked, level, rest, kt, pv>>
      /\ \E l \in {"p_fill", "p_cas"} : Goto(t, l)
      /\ \A u \in Threads \ {t} : T'[u] = T[u]
      /\ pc[t] \in {"m_unlock", "p_level"}
      /\ \E p : next' = [next EXCEPT ![kt[t]] = p]
  BY ListTypes DEF MallocUnlock, PushLoadLevel, head, pool, locals, At
<1>3. Others(t) /\ NoneClears'
  BY <1>1, <1>2, ListTypes DEF Others, Goto, NoneClears, Clearing
<1>4. pc'[t] \in {"p_fill", "p_cas"} /\ kt[t] \in Nodes
  BY <1>2, ListTypes DEF Goto, Pcs, AtNode
<1>5. Mine(t)' = Mine(t) /\ kt[t] \in Mine(t)
  BY <1>2, <1>4 DEF Mine
<1>6. \A n \in Nodes \ Mine(t) : next'[n] = next[n]
  BY <1>2, <1>5, ListTypes
<1>7. pc'[t] = "p_cas" => next'[kt'[t]] = T'[t].level
  <2> SUFFICES ASSUME pc'[t] = "p_cas" PROVE next'[kt'[t]] = T'[t].level
    OBVIOUS
  <2>1. PushLoadLevel(t)
    BY ListTypes DEF MallocUnlock, Goto
  <2>2. next'[kt[t]] = level
    BY <1>4, <2>1, ListTypes DEF PushLoadLevel
  <2>3. T'[t] = [aba_count |-> T[t].aba_count, level |-> level]
    BY <2>1, ListTypes DEF PushLoadLevel
  <2> QED
    BY <1>2, <2>2, <2>3
<1>8. Holds(t)'
  BY <1>2, <1>4, <1>7, ListTypes DEF Holds, Draining
<1> QED
  BY <1>1, <1>2, <1>3, <1>5, <1>6, <1>8, Keeps

\* The steps of a drain that follow the successors.
LEMMA DrainSteps ==
  ASSUME ListInv, NEW t \in Threads, DrainRead(t) \/ FreeUnlock(t)
  PROVE  ListPart'
<1>1. NoneClears
  BY Apart DEF Pop, Free
<1>2. /\ UNCHANGED <<heap, cache, linked, level, rest, T, next>>
      /\ \E l \in {"f_lock", "d_read", "idle"} : Goto(t, l)
      /\ \A u \in Threads \ {t} : kt'[u] = kt[u] /\ pv'[u] = pv[u]
      /\ pc[t] \in {"d_read", "f_unlock"}
  BY ListTypes DEF DrainRead, FreeUnlock, head, store, pool, At
<1>3. Others(t) /\ NoneClears'
  BY <1>1, <1>2, ListTypes DEF Others, Goto, NoneClears, Clearing
<1>4. Mine(t)' = Mine(t)
  BY <1>2, ListTypes DEF Mine, Goto
<1>5. IsInjective(rest[t]) /\ rest[t] \in Seq(Nodes)
  BY ListTypes DEF Holds
<1>6. CASE DrainRead(t)
  <2>1. /\ pc[t] = "d_read" /\ pc'[t] = "f_lock" /\ kt'[t] = kt[t] /\ pv'[t] = next[kt[t]]
        /\ kt[t] \in Nodes /\ kt[t] # NULL
    BY <1>6, ListTypes, NullAssumption DEF DrainRead, At, Goto, AtNode
  <2>2. Chain(next, kt[t], rest[t])
    BY <2>1, ListTypes DEF Holds
  <2>3. rest[t] # <<>> /\ Head(rest[t]) = kt[t] /\ Chain(next, next[kt[t]], Tail(rest[t]))
    BY <1>5, <2>1, <2>2, ListTypes, ChainTail
  <2>4. Holds(t)'
    BY <1>2, <1>5, <2>1, <2>3 DEF Holds, Draining
  <2> QED
    BY <1>1, <1>2, <1>3, <1>4, <2>4, Keeps
<1>7. CASE FreeUnlock(t)
  <2>1. pc[t] = "f_unlock" /\ kt'[t] = pv[t] /\ Chain(next, pv[t], rest[t])
    BY <1>7, ListTypes DEF FreeUnlock, At, Holds
  <2>2. pc'[t] = IF pv[t] = NULL THEN "idle" ELSE "d_read"
    BY <1>7, ListTypes DEF FreeUnlock, Goto
  <2>3. pv[t] = NULL => rest[t] = <<>>
    BY <1>5, <2>1, ChainNull
  <2>4. Holds(t)'
    BY <1>2, <1>5, <2>1, <2>2, <2>3 DEF Holds, Draining
  <2> QED
    BY <1>1, <1>2, <1>3, <1>4, <2>4, Keeps
<1> QED
  BY <1>6, <1>7

\* A step that moves a node: where the nodes are before and after it.
LEMMA Placing ==
  ASSUME ListInv, NoneClears
  PROVE  /\ Split(heap, Range(cache), Range(linked), Mines)
         /\ IsInjective(cache) /\ IsInjective(linked) /\ Chain(next, level, linked)
BY DEF ListInv, ListPart, Queued, Placed

\* malloc of a node the cache did not have.
LEMMA TakeStep ==
  ASSUME ListInv, NEW t \in Threads, MallocTake(t), ~(level_count > 0)
  PROVE  ListPart'
<1>1. NoneClears
  BY Apart DEF Malloc
<1>2. PICK n \in heap : heap' = heap \ {n} /\ kt' = [kt EXCEPT ![t] = n]
  BY DEF MallocTake
<1>3. /\ UNCHANGED <<cache, linked, level, rest, pv, T, next>>
      /\ pc[t] = "m_take" /\ pc'[t] = "m_unlock" /\ Goto(t, "m_unlock")
  BY ListTypes DEF MallocTake, head, store, At, Goto
<1>4. Others(t) /\ NoneClears' /\ kt'[t] = n
  BY <1>1, <1>2, <1>3, ListTypes DEF Others, Goto, NoneClears, Clearing
<1>5. rest[t] = <<>>
  BY <1>3, ListTypes DEF Holds, Draining
<1>6. Range(rest[t]) = {} /\ Mine(t) = {} /\ Mine(t)' = {n}
  BY <1>3, <1>4, <1>5 DEF Mine, Range
<1>7. Placed(linked)'
  <2>1. Mines'[t] = Mines[t] \cup {n} /\ \A u \in Threads \ {t} : Mines'[u] = Mines[u]
    BY <1>4, <1>6, MineFrame, MinesFacts, MinesFactsNext DEF Others
  <2>2. Split(heap', Range(cache), Range(linked), Mines')
    BY <1>1, <1>2, <2>1, Placing, HeapToThread
  <2> QED
    BY <1>1, <1>3, <2>2, Placing DEF Placed
<1>8. Holds(t)'
  BY <1>3, <1>5, ListTypes DEF Holds, Draining
<1>9. ListType' /\ Chain(next, level, linked)'
  BY <1>1, <1>3, Placing, ListTypes DEF ListType
<1> QED
  BY <1>1, <1>3, <1>4, <1>7, <1>8, <1>9, Moves DEF Others, ListInv

\* A node out of the cache.
LEMMA UnlinkStep ==
  ASSUME ListInv, NEW t \in Threads, MallocUnlink(t)
  PROVE  ListPart'
<1>1. NoneClears
  BY Apart DEF Malloc
<1> DEFINE n == Head(cache)
<1>2. /\ UNCHANGED <<heap, linked, level, rest, pv, T, next>>
      /\ cache' = Tail(cache) /\ kt' = [kt EXCEPT ![t] = n]
      /\ pc[t] = "m_unlink" /\ pc'[t] = "m_unlock" /\ Goto(t, "m_unlock")
  BY ListTypes DEF MallocUnlink, head, store, At, Goto
<1>3. cache # <<>>
  BY <1>2, ListTypes, EmptySeq DEF ListInv, CountInv, Counted
<1>4. n \in Nodes
  BY <1>3, ListTypes, TailFacts
<1>5. Others(t) /\ NoneClears' /\ kt'[t] = n
  BY <1>1, <1>2, <1>4, ListTypes DEF Others, Goto, NoneClears, Clearing, Ptr
<1>6. rest[t] = <<>>
  BY <1>2, ListTypes DEF Holds, Draining
<1>7. Range(rest[t]) = {} /\ Mine(t) = {} /\ Mine(t)' = {n}
  BY <1>2, <1>5, <1>6 DEF Mine, Range
<1>8. Placed(linked)'
  <2>1. Mines'[t] = Mines[t] \cup {n} /\ \A u \in Threads \ {t} : Mines'[u] = Mines[u]
    BY <1>5, <1>7, MineFrame, MinesFacts, MinesFactsNext DEF Others
  <2>2. /\ Range(cache) = Range(Tail(cache)) \cup {n} /\ n \notin Range(Tail(cache))
        /\ IsInjective(Tail(cache))
    BY <1>1, <1>3, Placing, ListTypes, TailFacts
  <2>3. Split(heap, Range(Tail(cache)), Range(linked), Mines')
    BY <1>1, <2>1, <2>2, Placing, CacheToThread
  <2> QED
    BY <1>1, <1>2, <2>2, <2>3, Placing DEF Placed
<1>9. Holds(t)'
  BY <1>2, <1>6, ListTypes DEF Holds, Draining
<1>10. ListType' /\ Chain(next, level, linked)'
  BY <1>1, <1>2, Placing, ListTypes DEF ListType
<1> QED
  BY <1>1, <1>2, <1>5, <1>8, <1>9, <1>10, Moves DEF Others, ListInv

\* A node back into the cache.
LEMMA LinkStep ==
  ASSUME ListInv, NEW t \in Threads, FreeLink(t)
  PROVE  ListPart'
<1>1. NoneClears
  BY Apart DEF Free
<1> DEFINE n == kt[t]
<1>2. /\ UNCHANGED <<heap, linked, level, kt, pv, T, next>>
      /\ cache' = <<n>> \o cache /\ rest' = [rest EXCEPT ![t] = Tail(rest[t])]
      /\ pc[t] = "f_link" /\ pc'[t] = "f_unlock" /\ Goto(t, "f_unlock")
  BY ListTypes DEF FreeLink, head, store, At, Goto
<1>3. /\ n \in Nodes /\ rest[t] \in Seq(Nodes) /\ rest[t] # <<>> /\ Head(rest[t]) = n
      /\ IsInjective(rest[t]) /\ Chain(next, pv[t], Tail(rest[t]))
  BY <1>2, ListTypes DEF Holds, AtNode
<1>4. /\ Tail(rest[t]) \in Seq(Nodes) /\ Range(rest[t]) = Range(Tail(rest[t])) \cup {n}
      /\ n \notin Range(Tail(rest[t])) /\ IsInjective(Tail(rest[t]))
  BY <1>3, TailFacts
<1>5. Others(t) /\ NoneClears' /\ rest'[t] = Tail(rest[t])
  BY <1>1, <1>2, ListTypes DEF Others, Goto, NoneClears, Clearing
<1>6. Mine(t) = Mine(t)' \cup {n} /\ n \notin Mine(t)'
  BY <1>2, <1>4, <1>5 DEF Mine
<1>7. Placed(linked)'
  <2>1. /\ Mines[t] = Mines'[t] \cup {n} /\ n \notin Mines'[t]
        /\ \A u \in Threads \ {t} : Mines'[u] = Mines[u]
    BY <1>5, <1>6, MineFrame, MinesFacts, MinesFactsNext DEF Others
  <2>2. n \notin Range(cache)
    BY <1>1, <2>1, Placing DEF Split
  <2>3. Range(cache') = Range(cache) \cup {n} /\ IsInjective(cache')
    BY <1>1, <1>2, <1>3, <2>2, Placing, ListTypes, PrependFacts
  <2>4. Split(heap, Range(cache'), Range(linked), Mines')
    BY <1>1, <2>1, <2>3, Placing, ThreadToCache
  <2> QED
    BY <1>1, <1>2, <2>3, <2>4, Placing DEF Placed
<1>8. Holds(t)'
  BY <1>2, <1>3, <1>4, <1>5 DEF Holds, Draining
<1>9. ListType' /\ Chain(next, level, linked)'
  BY <1>1, <1>2, <1>4, Placing, ListTypes DEF ListType
<1> QED
  BY <1>1, <1>2, <1>5, <1>7, <1>8, <1>9, Moves DEF Others, ListInv

\* The CAS of push_msg that succeeds.
LEMMA PushStep ==
  ASSUME ListInv, NEW t \in Threads, PushCas(t), Matches(t)
  PROVE  ListPart'
<1>1. NoneClears
  BY Apart DEF Push
<1> DEFINE n == kt[t]
<1>2. /\ UNCHANGED <<heap, cache, rest, pv, next>>
      /\ level' = n /\ linked' = <<n>> \o linked /\ kt' = [kt EXCEPT ![t] = NULL]
      /\ pc[t] = "p_cas" /\ pc'[t] = "idle" /\ Goto(t, "idle")
      /\ \A u \in Threads \ {t} : T'[u] = T[u]
  BY ListTypes DEF PushCas, store, pool, At, Goto
<1>3. n \in Nodes /\ rest[t] = <<>> /\ next[n] = level
  <2>1. T[t].level = level
    BY DEF Matches
  <2> QED
    BY <1>2, <2>1, ListTypes DEF Holds, AtNode, Draining
<1>4. Others(t) /\ NoneClears'
  BY <1>1, <1>2, ListTypes DEF Others, Goto, NoneClears, Clearing
<1>5. Mine(t) = {n} /\ Mine(t)' = {}
  BY <1>2, <1>3 DEF Mine, Range
<1>6. /\ Mines[t] = {n} /\ Mines'[t] = {}
      /\ \A u \in Threads \ {t} : Mines'[u] = Mines[u]
  BY <1>4, <1>5, MineFrame, MinesFacts, MinesFactsNext DEF Others
<1>7. n \notin Range(linked)
  BY <1>1, <1>6, Placing DEF Split
<1>8. /\ linked' \in Seq(Nodes) /\ Range(linked') = Range(linked) \cup {n}
      /\ IsInjective(linked')
  BY <1>1, <1>2, <1>3, <1>7, Placing, ListTypes, PrependFacts
<1>9. Placed(linked)'
  <2>1. Split(heap, Range(cache), Range(linked'), Mines')
    BY <1>1, <1>6, <1>8, Placing, ThreadToQueue
  <2> QED
    BY <1>1, <1>2, <1>8, <2>1, Placing DEF Placed
<1>10. Chain(next, level, linked)'
  BY <1>1, <1>2, <1>3, Placing, ListTypes, ChainPrepend
<1>11. Holds(t)'
  BY <1>2, <1>3, ListTypes DEF Holds, Draining
<1>12. ListType'
  BY <1>2, <1>8, ListTypes DEF ListType
<1> QED
  BY <1>1, <1>2, <1>4, <1>9, <1>10, <1>11, <1>12, Moves DEF Others, ListInv

\* The CAS of pop_msg that succeeds.
LEMMA PopStep ==
  ASSUME ListInv, NEW t \in Threads, PopCas(t), Matches(t)
  PROVE  ListPart'
<1>1. NoneClears
  BY Apart DEF Pop
<1>2. /\ UNCHANGED <<heap, cache, pv, next>>
      /\ level' = NULL /\ linked' = <<>> /\ kt' = [kt EXCEPT ![t] = T[t].level]
      /\ rest' = [rest EXCEPT ![t] = linked]
      /\ pc[t] = "o_cas" /\ pc'[t] = "d_read" /\ Goto(t, "d_read")
      /\ \A u \in Threads \ {t} : T'[u] = T[u]
  BY ListTypes DEF PopCas, store, pool, At, Goto
<1>3. kt'[t] = level /\ rest'[t] = linked /\ rest[t] = <<>>
  <2>1. T[t].level = level
    BY DEF Matches
  <2> QED
    BY <1>2, <2>1, ListTypes DEF Holds, Draining
<1>4. Others(t) /\ NoneClears'
  BY <1>1, <1>2, ListTypes DEF Others, Goto, NoneClears, Clearing
<1>5. Mine(t) = {} /\ Mine(t)' = Range(linked)
  BY <1>2, <1>3 DEF Mine, Range
<1>6. /\ Mines[t] = {} /\ Mines'[t] = Range(linked)
      /\ \A u \in Threads \ {t} : Mines'[u] = Mines[u]
  BY <1>4, <1>5, MineFrame, MinesFacts, MinesFactsNext DEF Others
<1>7. Range(linked') = {} /\ IsInjective(linked')
  BY <1>2 DEF Range, IsInjective
<1>8. Placed(linked)'
  <2>1. Split(heap, Range(cache), Range(linked'), Mines')
    BY <1>1, <1>6, <1>7, Placing, QueueToThread
  <2> QED
    BY <1>1, <1>2, <1>7, <2>1, Placing DEF Placed
<1>9. Chain(next, level, linked)'
  BY <1>2 DEF Chain
<1>10. Holds(t)'
  BY <1>1, <1>2, <1>3, Placing DEF Holds, Draining
<1>11. ListType'
  BY <1>2, ListTypes DEF ListType
<1> QED
  BY <1>1, <1>2, <1>4, <1>8, <1>9, <1>10, <1>11, Moves DEF Others, ListInv

\* ClearQueue is called only where the callers keep it apart.
KeptApart == Clearers = {} \/ Serialised

\* While ClearQueue runs, the other threads know what they knew of their nodes:
\* they are outside the queue.
LEMMA IdleHolds ==
  ASSUME ListInv, ListType', NEW u \in Threads, pc[u] = "idle", pc'[u] = "idle",
         rest'[u] = rest[u]
  PROVE  Holds(u)'
BY DEF ListInv, ListPart, Holds, Draining

\* ClearQueue starts: the others stay outside until it returns.
LEMMA ClearCallStep ==
  ASSUME ListInv, KeptApart, NEW t \in Threads, ClearCall(t)
  PROVE  ListPart'
<1>1. /\ UNCHANGED <<heap, cache, linked, level, rest, next>>
      /\ Serialised /\ \A u \in Threads : pc[u] = "idle"
      /\ kt'[t] = level /\ pc'[t] = IF level = NULL THEN "c_reset" ELSE "c_free"
      /\ \A u \in Threads \ {t} : pc'[u] = "idle" /\ kt'[u] = kt[u]
  BY ListTypes DEF ClearCall, MayClear, At, Goto, KeptApart, head, store, pool
<1>2. NoneClears
  BY <1>1 DEF NoneClears, Clearing
<1>3. Mines' = Mines
  <2>1. ASSUME NEW u \in Threads PROVE Mine(u)' = Mine(u)
    BY <1>1 DEF Mine
  <2> QED
    BY <2>1 DEF Mines
<1>4. Placed(linked)' /\ Chain(next', kt'[t], linked) /\ linked \in Seq(Nodes)
  BY <1>1, <1>2, <1>3, ListTypes DEF ListInv, ListPart, Queued, Placed
<1>5. ClearsAlone(t)'
  BY <1>1, <1>4 DEF ClearsAlone, Placed
<1>6. ListType'
  BY <1>1, ListTypes DEF ListType
<1>7. Holds(t)'
  <2>1. rest[t] = <<>> /\ rest'[t] = <<>> /\ IsInjective(rest[t])
    BY <1>1, ListTypes DEF Holds, Draining
  <2> QED
    BY <1>1, <2>1 DEF Holds, Draining
<1>8. \A u \in Threads \ {t} : Holds(u)'
  BY <1>1, <1>6, IdleHolds
<1>9. Clearing(t)' /\ \A u \in Threads \ {t} : ~Clearing(u)'
  BY <1>1 DEF Clearing
<1> QED
  BY <1>5, <1>6, <1>7, <1>8, <1>9 DEF ListPart, Queued, NoneClears

\* ClearQueue frees the node at its cursor and moves on.
LEMMA ClearFreeStep ==
  ASSUME ListInv, NEW t \in Threads, ClearFree(t)
  PROVE  ListPart'
<1> DEFINE n == kt[t]
<1>1. Clearing(t) /\ pc[t] = "c_free" /\ n \in Nodes /\ n \in Ptr /\ n # NULL
  BY ListTypes, NullAssumption DEF ClearFree, At, Clearing, AtNode, Ptr
<1>2. Serialised /\ \A u \in Threads \ {t} : pc[u] = "idle"
  BY <1>1 DEF ListInv, ListPart, ClearsAlone
<1>3. PICK s \in Seq(Nodes) : Placed(s) /\ Chain(next, n, s)
  BY <1>1 DEF ListInv, ListPart, ClearsAlone
<1>4. /\ UNCHANGED <<cache, linked, level, rest, next>>
      /\ heap' = heap \cup {n} /\ kt'[t] = next[n]
      /\ pc'[t] = IF next[n] = NULL THEN "c_reset" ELSE "c_free"
      /\ \A u \in Threads \ {t} : pc'[u] = "idle" /\ kt'[u] = kt[u]
  BY <1>1, <1>2, ListTypes DEF ClearFree, Goto, head, store
<1>5. s # <<>> /\ Head(s) = n /\ Chain(next, next[n], Tail(s))
  BY <1>1, <1>3, ListTypes, ChainTail
<1>6. /\ Tail(s) \in Seq(Nodes) /\ Range(s) = Range(Tail(s)) \cup {n}
      /\ n \notin Range(Tail(s)) /\ IsInjective(Tail(s))
  BY <1>3, <1>5, TailFacts DEF Placed
<1>7. Mines' = Mines
  <2>1. ASSUME NEW u \in Threads PROVE Mine(u)' = Mine(u)
    BY <1>1, <1>2, <1>4 DEF Mine
  <2> QED
    BY <2>1 DEF Mines
<1>8. Split(heap', Range(cache), Range(Tail(s)), Mines')
  <2>1. Split(heap, Range(cache), Range(s), Mines)
    BY <1>3 DEF Placed
  <2> QED
    BY <1>4, <1>6, <1>7, <2>1, QueueToHeap
<1>9. ClearsAlone(t)'
  <2>1. Placed(Tail(s))' /\ Chain(next', kt'[t], Tail(s))
    BY <1>3, <1>4, <1>5, <1>6, <1>8 DEF Placed
  <2> QED
    BY <1>2, <1>4, <1>6, <2>1 DEF ClearsAlone
<1>10. ListType'
  BY <1>4, ListTypes DEF ListType
<1>11. Holds(t)'
  <2>1. rest[t] = <<>> /\ rest'[t] = <<>> /\ IsInjective(rest[t])
    BY <1>1, <1>4, ListTypes DEF Holds, Draining
  <2> QED
    BY <1>4, <2>1 DEF Holds, Draining
<1>12. \A u \in Threads \ {t} : Holds(u)'
  BY <1>2, <1>4, <1>10, IdleHolds
<1>13. Clearing(t)' /\ \A u \in Threads \ {t} : ~Clearing(u)'
  BY <1>4 DEF Clearing
<1> QED
  BY <1>9, <1>10, <1>11, <1>12, <1>13 DEF ListPart, Queued, NoneClears

\* ClearQueue has freed them all and empties the queue.
LEMMA ClearResetStep ==
  ASSUME ListInv, NEW t \in Threads, ClearReset(t)
  PROVE  ListPart'
<1>1. Clearing(t) /\ pc[t] = "c_reset" /\ kt[t] = NULL
  BY ListTypes DEF ClearReset, At, Clearing, Holds
<1>2. \A u \in Threads \ {t} : pc[u] = "idle"
  BY <1>1 DEF ListInv, ListPart, ClearsAlone
<1>3. PICK s \in Seq(Nodes) : Placed(s) /\ Chain(next, NULL, s)
  BY <1>1 DEF ListInv, ListPart, ClearsAlone
<1>4. s = <<>>
  BY <1>3, ChainNull
<1>5. /\ UNCHANGED <<heap, cache, kt, rest, next>> /\ level' = NULL /\ linked' = <<>>
      /\ \A u \in Threads : pc'[u] = "idle"
  BY <1>2, ListTypes DEF ClearReset, Goto, store, pool, locals
<1>6. Mines' = Mines
  <2>1. ASSUME NEW u \in Threads PROVE Mine(u)' = Mine(u)
    BY <1>1, <1>2, <1>5 DEF Mine
  <2> QED
    BY <2>1 DEF Mines
<1>7. Placed(linked)' /\ Chain(next, level, linked)'
  <2>1. Placed(linked)'
    BY <1>3, <1>4, <1>5, <1>6 DEF Placed
  <2> QED
    BY <1>5, <2>1 DEF Chain
<1>8. ListType'
  BY <1>5, ListTypes DEF ListType
<1>9. Holds(t)'
  <2>1. rest[t] = <<>> /\ rest'[t] = <<>> /\ IsInjective(rest[t])
    BY <1>1, <1>5, ListTypes DEF Holds, Draining
  <2> QED
    BY <1>5, <2>1 DEF Holds, Draining
<1>10. \A u \in Threads \ {t} : Holds(u)'
  BY <1>2, <1>5, <1>8, IdleHolds
<1> QED
  BY <1>5, <1>7, <1>8, <1>9, <1>10 DEF ListPart, Queued, Clearing

\* The constructor's nodes are in the cache or free.
LEMMA ListInit == Init => ListInv
<1> SUFFICES ASSUME Init
             PROVE  ListInv
  OBVIOUS
<1>1. CountInv
  BY CountInit
<1>2. /\ level = NULL /\ linked = <<>> /\ heap = Nodes \ Range(cache)
      /\ pc = [t \in Threads |-> "idle"] /\ rest = [t \in Threads |-> <<>>]
      /\ IsInjective(cache)
  BY DEF Init
<1>3. Range(<<>>) = {} /\ IsInjective(<<>>)
  BY DEF Range, IsInjective
<1>4. \A t \in Threads : Mine(t) = {} /\ Holds(t) /\ ~Clearing(t)
  BY <1>2, <1>3 DEF Mine, Holds, Clearing, Draining
<1>5. Placed(linked)
  <2>1. \A t \in Threads : Mines[t] = {}
    BY <1>4, MinesFacts
  <2>2. Split(heap, Range(cache), {}, Mines)
    BY <1>2, <2>1 DEF Split
  <2> QED
    BY <1>2, <1>3, <2>2 DEF Placed
<1>6. Chain(next, level, linked)
  BY <1>2 DEF Chain
<1>7. ListType
  BY <1>2 DEF ListType
<1> QED
  BY <1>1, <1>4, <1>5, <1>6, <1>7 DEF ListInv, ListPart, Queued

\* Every step keeps the lists, one lemma above per kind of step.
LEMMA ListStep == KeptApart /\ ListInv /\ [Next]_vars => ListInv'
<1> SUFFICES ASSUME KeptApart, ListInv, [Next]_vars
             PROVE  ListInv'
  OBVIOUS
<1>1. CountInv'
  BY CountStep DEF ListInv
<1>2. ASSUME NEW t \in Threads, Push(t)
      PROVE  ListPart'
  BY <1>2, QuietSteps, LinkSteps, PushStep DEF Push
<1>3. ASSUME NEW t \in Threads, Pop(t)
      PROVE  ListPart'
  BY <1>3, QuietSteps, DrainSteps, PopStep DEF Pop
<1>4. ASSUME NEW t \in Threads, Malloc(t)
      PROVE  ListPart'
  BY <1>4, QuietSteps, LinkSteps, TakeStep, UnlinkStep DEF Malloc
<1>5. ASSUME NEW t \in Threads, Free(t)
      PROVE  ListPart'
  BY <1>5, QuietSteps, DrainSteps, LinkStep DEF Free
<1>6. ASSUME NEW t \in Threads, Clear(t)
      PROVE  ListPart'
  BY <1>6, ClearCallStep, ClearFreeStep, ClearResetStep DEF Clear
<1>7. ASSUME UNCHANGED vars
      PROVE  ListPart'
  <2>1. UNCHANGED <<heap, cache, linked, level, rest, next, pc, kt, pv, T>>
    BY <1>7 DEF vars, head, store, pool, locals
  <2>2. Mines' = Mines
    BY <2>1 DEF Mines, Mine
  <2>3. ListPart
    BY DEF ListInv
  <2> QED
    BY <2>1, <2>2, <2>3 DEF ListPart, ListType, Holds, Queued, NoneClears, Clearing,
       ClearsAlone, Placed
<1> QED
  BY <1>1, <1>2, <1>3, <1>4, <1>5, <1>6, <1>7 DEF ListInv, Next, Step

\* The lists hold throughout, where ClearQueue is kept apart.
LEMMA ListInvariant == ASSUME KeptApart PROVE Spec => []ListInv
<1>1. ListInv /\ [Next]_vars => ListInv'
  BY ListStep
<1> QED
  BY <1>1, ListInit, PTL DEF Spec

\* Each node is in exactly one place, for any number of producers and
\* consumers and any number of nodes: no CAS of push_msg or pop_msg that races
\* another loses a node, and _malloc_node hands none out twice.
THEOREM NodesOwned ==
  ASSUME KeptApart PROVE Spec => []NodeOwnedOnce
<1>1. ListInv => NodeOwnedOnce
  <2> SUFFICES ASSUME ListInv, ~(\E t \in Threads : Clearing(t))
               PROVE  /\ Nodes = heap \cup Range(cache) \cup Range(linked)
                                    \cup UNION {Mine(t) : t \in Threads}
                      /\ heap \cap Range(cache) = {}
                      /\ Range(linked) \cap (heap \cup Range(cache)) = {}
                      /\ \A t \in Threads : Mine(t) \cap (heap \cup Range(cache) \cup Range(linked)) = {}
                      /\ \A t, u \in Threads : t # u => Mine(t) \cap Mine(u) = {}
                      /\ IsInjective(cache) /\ IsInjective(linked)
    BY DEF NodeOwnedOnce
  <2>1. /\ Split(heap, Range(cache), Range(linked), Mines)
        /\ IsInjective(cache) /\ IsInjective(linked)
    BY Placing DEF NoneClears
  <2>2. Range(cache) \subseteq Nodes /\ Range(linked) \subseteq Nodes /\ heap \subseteq Nodes
    BY ListTypes, RangeOfSeq
  <2>3. ASSUME NEW t \in Threads PROVE Mine(t) \subseteq Nodes
    <3>1. rest[t] \in Seq(Nodes) /\ (pc[t] \in AtNode => kt[t] \in Nodes)
      BY ListTypes
    <3>2. Range(rest[t]) \subseteq Nodes
      BY <3>1, RangeOfSeq
    <3> QED
      BY <3>1, <3>2 DEF Mine, AtNode
  <2>4. Nodes \subseteq heap \cup Range(cache) \cup Range(linked)
                             \cup UNION {Mine(t) : t \in Threads}
    BY <2>1, MinesFacts DEF Split
  <2>5. /\ \A t \in Threads : Mine(t) \cap (heap \cup Range(cache) \cup Range(linked)) = {}
        /\ \A t, u \in Threads : t # u => Mine(t) \cap Mine(u) = {}
        /\ heap \cap Range(cache) = {} /\ Range(linked) \cap (heap \cup Range(cache)) = {}
    BY <2>1, MinesFacts DEF Split
  <2> QED
    BY <2>1, <2>2, <2>3, <2>4, <2>5
<1> QED
  BY <1>1, ListInvariant, PTL

\* For any threads, following m_MsgQueue.level meets the nodes queued, newest
\* first, and following the cursor of a drain the nodes it still has to free.
THEOREM ListsCorrect ==
  ASSUME KeptApart PROVE Spec => []ListIntact
<1>1. ListInv => ListIntact
  <2> SUFFICES ASSUME ListInv, NoneClears
               PROVE  /\ Spells(level, linked)
                      /\ \A t \in Threads : /\ At(t, "d_read") => Spells(kt[t], rest[t])
                                            /\ At(t, "f_unlock") => Spells(pv[t], rest[t])
    BY DEF ListIntact, NoneClears
  <2>1. \A p, s : Chain(next, p, s) => Spells(p, s)
    BY DEF Chain, Spells
  <2> QED
    BY <2>1, Placing, ListTypes DEF Holds, At
<1> QED
  BY <1>1, ListInvariant, PTL

\* For any threads, where ClearQueue is kept apart (or never called), no thread
\* is about to use a node that free() has taken back.
THEOREM NoUseAfterFreeCorrect ==
  ASSUME KeptApart PROVE Spec => []NoUseAfterFree
<1>1. ListInv => NoUseAfterFree
  <2> SUFFICES ASSUME ListInv, NEW t \in Threads
               PROVE  Touches(t) \cap heap = {}
    BY DEF NoUseAfterFree
  <2>1. CASE NoneClears
    <3>1. Mine(t) \cap heap = {} /\ pc[t] # "c_free"
      BY <2>1, Placing, MinesFacts DEF Split, NoneClears, Clearing
    <3>2. CASE pc[t] = "d_read"
      <4>1. kt[t] \in Nodes /\ kt[t] \in Ptr /\ kt[t] # NULL /\ rest[t] \in Seq(Nodes)
            /\ Chain(next, kt[t], rest[t])
        BY <3>2, ListTypes, NullAssumption DEF AtNode, Holds
      <4>2. rest[t] # <<>> /\ Head(rest[t]) = kt[t]
        BY <4>1, ChainTail
      <4>3. kt[t] \in Range(rest[t])
        BY <4>1, <4>2, TailFacts
      <4> QED
        BY <3>1, <3>2, <4>3 DEF Touches, Mine
    <3>3. CASE pc[t] # "d_read"
      BY <3>1, <3>3 DEF Touches, Mine
    <3> QED
      BY <3>2, <3>3
  <2>2. CASE ~NoneClears
    <3>1. PICK u \in Threads : Clearing(u)
      BY <2>2 DEF NoneClears
    <3>2. /\ \A v \in Threads \ {u} : pc[v] = "idle"
          /\ \E s \in Seq(Nodes) : Placed(s) /\ Chain(next, kt[u], s)
      BY <3>1 DEF ListInv, ListPart, ClearsAlone
    <3>3. CASE pc[t] = "c_free"
      <4>1. t = u /\ kt[t] \in Nodes /\ kt[t] \in Ptr /\ kt[t] # NULL
        BY <3>2, <3>3, ListTypes, NullAssumption DEF AtNode, Ptr
      <4>2. PICK s \in Seq(Nodes) : Placed(s) /\ Chain(next, kt[t], s)
        BY <3>2, <4>1
      <4>3. s # <<>> /\ Head(s) = kt[t]
        BY <4>1, <4>2, ListTypes, ChainTail
      <4>4. kt[t] \in Range(s)
        BY <4>2, <4>3, TailFacts
      <4>5. Range(s) \cap heap = {}
        BY <4>2 DEF Placed, Split
      <4> QED
        BY <3>3, <4>4, <4>5 DEF Touches
    <3>4. CASE pc[t] # "c_free"
      <4>1. pc[t] \in {"idle", "c_reset"}
        BY <3>1, <3>2, <3>4 DEF Clearing
      <4> QED
        BY <4>1 DEF Touches
    <3> QED
      BY <3>3, <3>4
  <2> QED
    BY <2>1, <2>2
<1> QED
  BY <1>1, ListInvariant, PTL

-----------------------------------------------------------------------------
(***************************************************************************)
(* The queue of MsgQueue.  Where each push carries one event: what is      *)
(* known of the events on their way through the nodes, and the step of the *)
(* abstract queue that each step is.                                       *)
(***************************************************************************)

Events == 1..MaxEvents

\* Elements of a sequence of two parts, and of its first n.
LEMMA ConcatFacts ==
  ASSUME NEW S, NEW o \in Seq(S), NEW m \in Seq(S)
  PROVE  /\ o \o m \in Seq(S) /\ Len(o \o m) = Len(o) + Len(m)
         /\ \A i \in 1..Len(o) + Len(m) :
              (o \o m)[i] = IF i <= Len(o) THEN o[i] ELSE m[i - Len(o)]
  OBVIOUS

\* Sequences of the same length and elements are the same.
LEMMA SameSeq ==
  ASSUME NEW S, NEW a \in Seq(S), NEW b \in Seq(S), Len(a) = Len(b),
         \A i \in 1..Len(a) : a[i] = b[i]
  PROVE  a = b
  OBVIOUS

\* The elements of a sequence reversed.
LEMMA ReverseFacts ==
  ASSUME NEW S, NEW s \in Seq(S)
  PROVE  /\ Reverse(s) \in Seq(S) /\ Len(Reverse(s)) = Len(s)
         /\ \A i \in 1..Len(s) : Reverse(s)[i] = s[Len(s) - i + 1]
<1>1. \A i \in 1..Len(s) : (Len(s) - i) + 1 \in 1..Len(s)
  OBVIOUS
<1> QED
  BY <1>1 DEF Reverse

\* An element put at the front is at the end of the reverse.
LEMMA ReversePrepend ==
  ASSUME NEW S, NEW e \in S, NEW s \in Seq(S)
  PROVE  Reverse(<<e>> \o s) = Append(Reverse(s), e)
<1> DEFINE c == <<e>> \o s
           a == Reverse(c)
           b == Append(Reverse(s), e)
<1>1. /\ c \in Seq(S) /\ Len(c) = Len(s) + 1 /\ c[1] = e
      /\ \A i \in 1..Len(s) : c[i + 1] = s[i]
  BY PrependFacts
<1>2. /\ Reverse(s) \in Seq(S) /\ Len(Reverse(s)) = Len(s)
      /\ \A i \in 1..Len(s) : Reverse(s)[i] = s[Len(s) - i + 1]
  BY ReverseFacts
<1> HIDE DEF c
<1>3. /\ a \in Seq(S) /\ Len(a) = Len(c)
      /\ \A i \in 1..Len(c) : a[i] = c[Len(c) - i + 1]
  BY <1>1, ReverseFacts
<1> HIDE DEF a
<1>4. b \in Seq(S) /\ Len(b) = Len(s) + 1 /\ b[Len(s) + 1] = e
      /\ \A i \in 1..Len(s) : b[i] = Reverse(s)[i]
  BY <1>2
<1> HIDE DEF b
<1>5. ASSUME NEW i \in 1..Len(a)
      PROVE  a[i] = b[i]
  <2>1. CASE i = Len(s) + 1
    BY <1>1, <1>3, <1>4, <2>1
  <2>2. CASE i # Len(s) + 1
    <3>1. i \in 1..Len(s) /\ Len(s) - i + 1 \in 1..Len(s) /\ i \in 1..Len(c)
      BY <1>1, <1>3, <2>2
    <3>2. a[i] = c[(Len(s) - i + 1) + 1]
      BY <1>1, <1>3, <3>1
    <3>3. a[i] = s[Len(s) - i + 1]
      BY <1>1, <3>1, <3>2
    <3> QED
      BY <1>2, <1>4, <3>1, <3>3
  <2> QED
    BY <2>1, <2>2
<1>6. a = b
  BY <1>1, <1>3, <1>4, <1>5, SameSeq
<1> QED
  BY <1>6 DEF a, b, c

\* What Keep makes of two sequences: the first Cap elements of both.
LEMMA KeepFacts ==
  ASSUME NEW S, NEW o \in Seq(S), NEW m \in Seq(S)
  PROVE  LET k == Keep(o, m)
             n == Len(o) + Len(m)
         IN  /\ k \in Seq(S) /\ Len(k) = (IF Cap <= n THEN Cap ELSE n)
             /\ \A i \in 1..Len(k) : k[i] = (o \o m)[i]
<1> DEFINE n == Len(o) + Len(m)
           c == o \o m
           l == Min({Cap, Len(c)})
<1>1. Cap \in Nat \ {0} /\ n \in Nat
  BY BoundAssumption
<1>2. c \in Seq(S) /\ Len(c) = n
  BY ConcatFacts
<1>3. l = IF Cap <= n THEN Cap ELSE n
  BY <1>1, <1>2 DEF Min
<1>4. Keep(o, m) = SubSeq(c, 1, l)
  BY DEF Keep
<1> HIDE DEF c, l
<1>5. l \in Nat /\ l <= Len(c)
  BY <1>1, <1>2, <1>3
<1>6. /\ SubSeq(c, 1, l) \in Seq(S) /\ Len(SubSeq(c, 1, l)) = l
      /\ \A i \in 1..l : SubSeq(c, 1, l)[i] = c[i]
  BY <1>2, <1>5
<1> QED
  BY <1>3, <1>4, <1>6 DEF c

\* Keeping the newest of what was kept and what follows is keeping the newest of
\* it all.
LEMMA KeepKeep ==
  ASSUME NEW S, NEW o \in Seq(S), NEW m \in Seq(S), NEW r \in Seq(S)
  PROVE  Keep(Keep(o, m), r) = Keep(o, m \o r)
<1> DEFINE k == Keep(o, m)
           mr == m \o r
           a == Keep(k, r)
           b == Keep(o, mr)
<1>0. Cap \in Nat \ {0} /\ Len(o) \in Nat /\ Len(m) \in Nat /\ Len(r) \in Nat
  BY BoundAssumption
<1>1. /\ k \in Seq(S) /\ Len(k) = (IF Cap <= Len(o) + Len(m) THEN Cap ELSE Len(o) + Len(m))
      /\ \A i \in 1..Len(k) : k[i] = (o \o m)[i]
  BY KeepFacts
<1>2. /\ mr \in Seq(S) /\ Len(mr) = Len(m) + Len(r)
      /\ \A i \in 1..Len(m) + Len(r) : mr[i] = IF i <= Len(m) THEN m[i] ELSE r[i - Len(m)]
  BY ConcatFacts
<1>3. \A i \in 1..Len(o) + Len(m) : (o \o m)[i] = IF i <= Len(o) THEN o[i] ELSE m[i - Len(o)]
  BY ConcatFacts
<1> HIDE DEF k, mr
<1>4. /\ a \in Seq(S) /\ Len(a) = (IF Cap <= Len(k) + Len(r) THEN Cap ELSE Len(k) + Len(r))
      /\ \A i \in 1..Len(a) : a[i] = (k \o r)[i]
  BY <1>1, KeepFacts
<1>5. /\ b \in Seq(S) /\ Len(b) = (IF Cap <= Len(o) + Len(mr) THEN Cap ELSE Len(o) + Len(mr))
      /\ \A i \in 1..Len(b) : b[i] = (o \o mr)[i]
  <2>1. mr \in Seq(S)
    BY <1>2
  <2> QED
    BY <2>1, KeepFacts, Zenon
<1>6. \A i \in 1..Len(k) + Len(r) : (k \o r)[i] = IF i <= Len(k) THEN k[i] ELSE r[i - Len(k)]
  BY <1>1, ConcatFacts
<1>7. \A i \in 1..Len(o) + Len(mr) : (o \o mr)[i] = IF i <= Len(o) THEN o[i] ELSE mr[i - Len(o)]
  BY <1>2, ConcatFacts
<1> HIDE DEF a, b
<1>8. Len(a) = Len(b) /\ Len(a) <= Cap /\ Len(a) <= Len(o) + Len(m) + Len(r)
  BY <1>0, <1>1, <1>2, <1>4, <1>5
<1>9. ASSUME NEW i \in 1..Len(a)
      PROVE  a[i] = b[i]
  <2>1. i \in Nat /\ i <= Cap /\ i >= 1 /\ i <= Len(o) + Len(m) + Len(r) /\ Len(k) \in Nat
    BY <1>0, <1>1, <1>8, <1>4
  <2>2. b[i] = IF i <= Len(o) THEN o[i] ELSE mr[i - Len(o)]
    BY <1>0, <1>2, <1>5, <1>7, <1>8, <2>1
  <2>3. a[i] = IF i <= Len(k) THEN k[i] ELSE r[i - Len(k)]
    <3>1. i \in 1..Len(k) + Len(r)
      BY <1>0, <1>4, <2>1
    <3> QED
      BY <1>4, <1>6, <3>1
  <2>4. CASE i <= Len(o)
    BY <1>0, <1>1, <1>3, <2>1, <2>2, <2>3, <2>4
  <2>5. CASE i > Len(o) /\ i <= Len(o) + Len(m)
    <3>1. i <= Len(k) /\ i - Len(o) \in 1..Len(m)
      BY <1>0, <1>1, <2>1, <2>5
    <3>2. a[i] = m[i - Len(o)]
      BY <1>0, <1>1, <1>3, <2>1, <2>3, <2>5, <3>1
    <3>3. b[i] = mr[i - Len(o)]
      BY <1>0, <2>1, <2>2, <2>5
    <3>4. i - Len(o) \in 1..Len(m) + Len(r) /\ i - Len(o) <= Len(m)
      BY <1>0, <3>1
    <3>5. mr[i - Len(o)] = m[i - Len(o)]
      BY <1>2, <3>4
    <3> QED
      BY <3>2, <3>3, <3>5
  <2>6. CASE i > Len(o) + Len(m)
    <3>1. Len(k) = Len(o) + Len(m) /\ i > Len(k)
      BY <1>0, <1>1, <2>1, <2>6
    <3>2. a[i] = r[i - (Len(o) + Len(m))]
      BY <1>0, <2>1, <2>3, <3>1
    <3>3. i - Len(o) \in 1..Len(m) + Len(r) /\ ~(i - Len(o) <= Len(m))
      BY <1>0, <2>1, <2>6
    <3>4. mr[i - Len(o)] = r[(i - Len(o)) - Len(m)]
      BY <1>2, <3>3
    <3>5. b[i] = mr[i - Len(o)]
      BY <1>0, <2>1, <2>2, <2>6
    <3>6. (i - Len(o)) - Len(m) = i - (Len(o) + Len(m))
      BY <1>0, <2>1
    <3> QED
      BY <3>2, <3>4, <3>5, <3>6
  <2> QED
    BY <1>0, <2>1, <2>4, <2>5, <2>6
<1>10. a = b
  BY <1>4, <1>5, <1>8, <1>9, SameSeq
<1> QED
  BY <1>10 DEF a, b, k, mr

\* The newest of a list in list order, reversed, are the newest of the queue.
LEMMA ReverseKeep ==
  ASSUME NEW S, NEW s \in Seq(S)
  PROVE  Reverse(Keep(<<>>, s)) = Abstract!Newest(Reverse(s), Cap)
<1> DEFINE k == Keep(<<>>, s)
           a == Reverse(k)
           q == Reverse(s)
           from == IF Len(q) > Cap THEN Len(q) - Cap + 1 ELSE 1
           b == SubSeq(q, from, Len(q))
<1>0. Cap \in Nat \ {0} /\ Len(s) \in Nat /\ <<>> \in Seq(S) /\ Len(<<>>) = 0
  BY BoundAssumption
<1>1. /\ k \in Seq(S) /\ Len(k) = (IF Cap <= Len(s) THEN Cap ELSE Len(s))
      /\ \A i \in 1..Len(k) : k[i] = s[i]
  <2>1. /\ k \in Seq(S)
        /\ Len(k) = (IF Cap <= 0 + Len(s) THEN Cap ELSE 0 + Len(s))
        /\ \A i \in 1..Len(k) : k[i] = (<<>> \o s)[i]
    BY <1>0, KeepFacts
  <2>2. <<>> \o s = s
    OBVIOUS
  <2> QED
    BY <1>0, <2>1, <2>2
<1>2. q \in Seq(S) /\ Len(q) = Len(s) /\ \A i \in 1..Len(s) : q[i] = s[Len(s) - i + 1]
  BY ReverseFacts
<1> HIDE DEF k
<1>3. a \in Seq(S) /\ Len(a) = Len(k) /\ \A i \in 1..Len(k) : a[i] = k[Len(k) - i + 1]
  BY <1>1, ReverseFacts
<1> HIDE DEF a, q
<1>4. from \in 1..Len(q) + 1 /\ Len(q) - from + 1 = Len(k)
  BY <1>0, <1>1, <1>2
<1> HIDE DEF from
<1>5. /\ b \in Seq(S) /\ Len(b) = Len(k)
      /\ \A i \in 1..Len(k) : b[i] = q[from + i - 1]
  <2>1. /\ b \in Seq(S) /\ Len(b) = Len(q) - from + 1
        /\ \A i \in 1..Len(b) : b[i] = q[from + i - 1]
    BY <1>2, <1>4
  <2> QED
    BY <1>4, <2>1
<1>6. ASSUME NEW i \in 1..Len(k)
      PROVE  a[i] = b[i]
  <2>1. from + i - 1 \in 1..Len(s) /\ Len(s) - (from + i - 1) + 1 = Len(k) - i + 1
        /\ Len(k) - i + 1 \in 1..Len(k)
    <3>1. /\ Len(k) \in Nat /\ Len(k) <= Len(s) /\ from \in Int /\ i \in Int
          /\ from + Len(k) = Len(s) + 1 /\ from >= 1 /\ 1 <= i /\ i <= Len(k)
      BY <1>0, <1>1, <1>2, <1>4
    <3> QED
      BY <1>0, <3>1
  <2>2. b[i] = s[Len(k) - i + 1]
    BY <1>2, <1>5, <2>1
  <2> QED
    BY <1>1, <1>3, <2>1, <2>2
<1>7. a = b
  BY <1>3, <1>5, <1>6, SameSeq
<1> QED
  BY <1>7 DEF a, b, q, k, from, Abstract!Newest

\* The messages of a queue whose pushes carry one event.
One == {<<e>> : e \in Events}

\* The events of the nodes of s, in a memory f.
Firsts(f, s) == [i \in 1..Len(s) |-> f[s[i]][1]]

\* A message of one event is that event.
LEMMA OneFacts ==
  ASSUME NEW m \in One
  PROVE  m \in Seq(Events) /\ Len(m) = 1 /\ m[1] \in Events /\ m = <<m[1]>> /\ m # <<>>
BY DEF One

\* The events of a list whose nodes carry one each.
LEMMA FirstsType ==
  ASSUME NEW f, NEW s \in Seq(Nodes), \A n \in Range(s) : f[n] \in One
  PROVE  Firsts(f, s) \in Seq(Events) /\ Len(Firsts(f, s)) = Len(s)
<1>1. ASSUME NEW i \in 1..Len(s) PROVE f[s[i]][1] \in Events
  <2>1. s[i] \in Range(s)
    BY DEF Range
  <2> QED
    BY <2>1, OneFacts
<1>2. Len(s) \in Nat
  OBVIOUS
<1>3. Firsts(f, s) \in [1..Len(s) -> Events]
  BY <1>1 DEF Firsts
<1> HIDE DEF Firsts
<1> QED
  BY <1>2, <1>3

\* They are the same where those nodes have kept theirs.
LEMMA FirstsFrame ==
  ASSUME NEW f, NEW g, NEW s \in Seq(Nodes), \A n \in Range(s) : g[n] = f[n]
  PROVE  Firsts(g, s) = Firsts(f, s)
<1>1. \A i \in 1..Len(s) : s[i] \in Range(s)
  BY DEF Range
<1> QED
  BY <1>1 DEF Firsts

\* One more node at the front is one more event at the front.
LEMMA FirstsPrepend ==
  ASSUME NEW f, NEW k \in Nodes, NEW s \in Seq(Nodes), f[k] \in One,
         \A n \in Range(s) : f[n] \in One
  PROVE  Firsts(f, <<k>> \o s) = <<f[k][1]>> \o Firsts(f, s)
<1> DEFINE ks == <<k>> \o s
           e == f[k][1]
           r == Firsts(f, s)
           a == Firsts(f, ks)
           b == <<e>> \o r
<1>1. /\ ks \in Seq(Nodes) /\ Len(ks) = Len(s) + 1 /\ ks[1] = k
      /\ \A i \in 1..Len(s) : ks[i + 1] = s[i]
      /\ Range(ks) = Range(s) \cup {k}
  BY PrependFacts
<1>2. e \in Events /\ Len(s) \in Nat
  BY OneFacts
<1>3. r \in Seq(Events) /\ Len(r) = Len(s) /\ \A i \in 1..Len(s) : r[i] = f[s[i]][1]
  <2>1. r \in Seq(Events) /\ Len(r) = Len(s)
    BY FirstsType
  <2> QED
    BY <2>1 DEF Firsts
<1> HIDE DEF ks
<1>4. a \in Seq(Events) /\ Len(a) = Len(ks) /\ \A i \in 1..Len(ks) : a[i] = f[ks[i]][1]
  <2>1. a \in Seq(Events) /\ Len(a) = Len(ks)
    BY <1>1, FirstsType
  <2> QED
    BY <2>1 DEF Firsts
<1> HIDE DEF e, r, a
<1>5. /\ b \in Seq(Events) /\ Len(b) = Len(s) + 1 /\ b[1] = e
      /\ \A i \in 1..Len(s) : b[i + 1] = r[i]
  BY <1>2, <1>3, PrependFacts
<1> HIDE DEF b
<1>6. ASSUME NEW i \in 1..Len(a) PROVE a[i] = b[i]
  <2>1. CASE i = 1
    BY <1>1, <1>4, <1>5, <2>1 DEF e
  <2>2. CASE i # 1
    <3>1. i - 1 \in 1..Len(s) /\ (i - 1) + 1 = i
      BY <1>1, <1>2, <1>4, <2>2
    <3>2. ks[i] = s[i - 1]
      BY <1>1, <3>1
    <3>3. b[i] = r[i - 1]
      BY <1>5, <3>1
    <3> QED
      BY <1>3, <1>4, <3>1, <3>2, <3>3
  <2> QED
    BY <2>1, <2>2
<1>7. a = b
  BY <1>1, <1>4, <1>5, <1>6, SameSeq
<1> QED
  BY <1>7 DEF a, b, e, r, ks

\* Reading a list node by node: the message of the first, then the others.
LEMMA FirstsTail ==
  ASSUME NEW f, NEW s \in Seq(Nodes), s # <<>>, \A n \in Range(s) : f[n] \in One
  PROVE  /\ f[Head(s)] \in One /\ \A n \in Range(Tail(s)) : f[n] \in One
         /\ Tail(s) \in Seq(Nodes)
         /\ Firsts(f, s) = f[Head(s)] \o Firsts(f, Tail(s))
<1>1. /\ Head(s) \in Nodes /\ Tail(s) \in Seq(Nodes)
      /\ Range(s) = Range(Tail(s)) \cup {Head(s)}
  BY TailFacts
<1>2. s = <<Head(s)>> \o Tail(s)
  OBVIOUS
<1>3. f[Head(s)] \in One /\ f[Head(s)] = <<f[Head(s)][1]>>
  BY <1>1, OneFacts
<1>4. Firsts(f, <<Head(s)>> \o Tail(s)) = <<f[Head(s)][1]>> \o Firsts(f, Tail(s))
  BY <1>1, <1>3, FirstsPrepend
<1> QED
  BY <1>1, <1>2, <1>3, <1>4

\* No node, no event.
LEMMA FirstsEmpty == ASSUME NEW f PROVE Firsts(f, <<>>) = <<>>
BY DEF Firsts

\* What a pop in progress has kept and has still to see, newest first.
Held(t) == Keep(out[t], Pending(t))

EventType == /\ sent \in 0..MaxEvents
             /\ dikMsg \in [Nodes -> Seq(Events)]
             /\ msg \in [Threads -> Seq(Events)]
             /\ out \in [Threads -> Seq(Events)]
             /\ got \in [Consumers -> Seq(Events)]

\* Where a thread's event is: in msg until push_msg fills its node, then in the
\* node; in the nodes of a drain, and in msg from the read to the unlock.
Carries(t) ==
  /\ pc[t] \in {"m_lock", "m_take", "m_unlink", "m_unlock", "p_fill"} => msg[t] \in One
  /\ pc[t] \in {"p_aba", "p_level", "p_cas"} => dikMsg[kt[t]] \in One
  /\ \A n \in Range(rest[t]) : dikMsg[n] \in One
  /\ pc[t] \in {"f_lock", "f_body", "f_link"} => msg[t] = dikMsg[kt[t]]
  /\ pc[t] = "f_unlock" => msg[t] \in One
  /\ pc[t] \notin Draining => out[t] = <<>>
  /\ pc[t] \in Draining \cup {"o_aba", "o_level", "o_cas"} => t \in Consumers

EventPart == /\ EventType
             /\ \A n \in Range(linked) : dikMsg[n] \in One
             /\ \A t \in Threads : Carries(t)

RefInv == ListInv /\ EventPart

\* A node that is a thread's own is a node.
LEMMA OwnNodes ==
  ASSUME ListInv, NEW u \in Threads
  PROVE  /\ Mine(u) \subseteq Nodes /\ Range(rest[u]) \subseteq Mine(u)
         /\ pc[u] \in {"m_unlock", "p_fill", "p_aba", "p_level", "p_cas"} => kt[u] \in Mine(u)
         /\ pc[u] \in {"f_lock", "f_body", "f_link"} => kt[u] \in Range(rest[u])
<1>1. rest[u] \in Seq(Nodes) /\ (pc[u] \in AtNode => kt[u] \in Nodes)
  BY ListTypes
<1>2. Range(rest[u]) \subseteq Nodes
  BY <1>1, RangeOfSeq
<1>3. pc[u] \in {"f_lock", "f_body", "f_link"} => rest[u] # <<>> /\ Head(rest[u]) = kt[u]
  BY ListTypes DEF Holds
<1>4. pc[u] \in {"f_lock", "f_body", "f_link"} => kt[u] \in Range(rest[u])
  BY <1>1, <1>3, TailFacts
<1> QED
  BY <1>1, <1>2, <1>4 DEF Mine, AtNode

\* A thread whose variables and nodes stay is where it was, and its pop keeps
\* what it kept.
LEMMA CarriesFrame ==
  ASSUME RefInv, NEW u \in Threads, pc'[u] = pc[u], kt'[u] = kt[u], rest'[u] = rest[u],
         msg'[u] = msg[u], out'[u] = out[u], \A n \in Mine(u) : dikMsg'[n] = dikMsg[n]
  PROVE  Carries(u)' /\ Held(u)' = Held(u)
<1>1. Carries(u) /\ ListInv
  BY DEF RefInv, EventPart
<1>2. Range(rest[u]) \subseteq Mine(u) /\ rest[u] \in Seq(Nodes)
  BY <1>1, OwnNodes, ListTypes
<1>3. /\ pc[u] \in {"p_aba", "p_level", "p_cas"} => kt[u] \in Mine(u)
      /\ pc[u] \in {"f_lock", "f_body", "f_link"} => kt[u] \in Mine(u)
  BY <1>1, <1>2, OwnNodes
<1>4. Range(rest'[u]) = Range(rest[u])
  OBVIOUS
<1>5. Carries(u)'
  BY <1>1, <1>2, <1>3, <1>4 DEF Carries
<1>6. Contents(rest[u])' = Contents(rest[u])
  <2>1. Firsts(dikMsg', rest[u]) = Firsts(dikMsg, rest[u])
    BY <1>2, FirstsFrame
  <2> QED
    BY <2>1 DEF Contents, Firsts
<1>7. Pending(u)' = Pending(u)
  BY <1>6 DEF Pending, At
<1> QED
  BY <1>5, <1>7 DEF Held, Keep

\* The steps that move one thread: what is to be shown of it.
LEMMA EventMoves ==
  ASSUME RefInv, EventType', NEW t \in Threads, Carries(t)',
         \A u \in Threads \ {t} : /\ pc'[u] = pc[u] /\ kt'[u] = kt[u] /\ rest'[u] = rest[u]
                                  /\ msg'[u] = msg[u] /\ out'[u] = out[u],
         \A u \in Threads \ {t} : \A n \in Mine(u) : dikMsg'[n] = dikMsg[n],
         \A n \in Range(linked') : dikMsg'[n] \in One
  PROVE  EventPart' /\ \A u \in Threads \ {t} : Held(u)' = Held(u)
<1>1. \A u \in Threads \ {t} : Carries(u)' /\ Held(u)' = Held(u)
  BY CarriesFrame
<1> QED
  BY <1>1 DEF EventPart

\* What the specification of the queue sees when nothing it shows has changed.
LEMMA Stutter ==
  ASSUME \A u \in Consumers : Held(u)' = Held(u), Waiting' = Waiting, got' = got
  PROVE  UNCHANGED Abstract!vars
<1>1. InHand' = InHand
  BY DEF InHand, Held
<1> QED
  BY <1>1 DEF Abstract!vars

\* The goal of each step.
Follows == EventPart' /\ [Abstract!Next]_(Abstract!vars)

\* The steps that move a thread and no event.
LEMMA EventQuiet ==
  ASSUME RefInv, NEW t \in Threads,
         UNCHANGED <<linked, dikMsg, msg, out, rest, got, sent>>,
         \A u \in Threads \ {t} : pc'[u] = pc[u] /\ kt'[u] = kt[u],
         Carries(t)', Held(t)' = Held(t)
  PROVE  Follows
<1>1. EventPart /\ EventType
  BY DEF RefInv, EventPart
<1>2. EventType'
  BY <1>1 DEF EventType
<1>3. EventPart' /\ \A u \in Threads \ {t} : Held(u)' = Held(u)
  BY <1>1, <1>2, EventMoves DEF EventPart
<1>4. Waiting' = Waiting
  BY DEF Waiting, Contents
<1>5. UNCHANGED Abstract!vars
  BY <1>3, <1>4, Stutter DEF Threads
<1> QED
  BY <1>3, <1>5 DEF Follows

\* The steps of push_msg's, pop_msg's and ClearQueue's control.
LEMMA QuietRef ==
  ASSUME RefInv, NEW t \in Threads,
         \/ PushLoadAba(t) \/ PushLoadLevel(t) \/ PopCall(t) \/ PopLoadAba(t)
         \/ (PopLoadLevel(t) /\ level # NULL)
         \/ MallocLock(t) \/ MallocTake(t) \/ MallocUnlink(t) \/ MallocUnlock(t)
         \/ FreeLock(t) \/ FreeBody(t) \/ ClearCall(t) \/ ClearFree(t)
         \/ (PushCas(t) /\ ~Matches(t)) \/ (PopCas(t) /\ ~Matches(t))
  PROVE  Follows
<1>0. ListInv /\ Carries(t)
  BY DEF RefInv, EventPart
<1>1. /\ UNCHANGED <<linked, dikMsg, msg, out, rest, got, sent>>
      /\ \A u \in Threads \ {t} : pc'[u] = pc[u] /\ kt'[u] = kt[u]
  <2>1. CASE PushLoadAba(t) \/ PushLoadLevel(t) \/ PopCall(t) \/ PopLoadAba(t)
             \/ (PopLoadLevel(t) /\ level # NULL)
    BY <1>0, <2>1, ListTypes DEF PushLoadAba, PushLoadLevel, PopCall, PopLoadAba,
       PopLoadLevel, head, store, locals, Goto
  <2>2. CASE MallocLock(t) \/ MallocTake(t) \/ MallocUnlink(t) \/ MallocUnlock(t)
             \/ FreeLock(t) \/ FreeBody(t)
    BY <1>0, <2>2, ListTypes DEF MallocLock, MallocTake, MallocUnlink, MallocUnlock,
       FreeLock, FreeBody, Acquire, head, store, locals, Goto
  <2>3. CASE ClearCall(t) \/ ClearFree(t)
    BY <1>0, <2>3, ListTypes DEF ClearCall, ClearFree, head, store, locals, Goto
  <2>4. CASE (PushCas(t) \/ PopCas(t)) /\ ~Matches(t)
    BY <1>0, <2>4, ListTypes DEF PushCas, PopCas, head, store, locals, Goto
  <2> QED
    BY <2>1, <2>2, <2>3, <2>4
<1>2. \/ /\ pc[t] \in {"m_lock", "m_take", "m_unlink"}
         /\ pc'[t] \in {"m_take", "m_unlink", "m_unlock"}
      \/ pc[t] = "m_unlock" /\ pc'[t] = "p_fill"
      \/ /\ pc[t] \in {"p_aba", "p_level", "p_cas"} /\ kt'[t] = kt[t]
         /\ pc'[t] \in {"p_aba", "p_level", "p_cas"}
      \/ /\ pc[t] = "idle" /\ pc'[t] = "o_aba" /\ t \in Consumers
      \/ /\ pc[t] \in {"o_aba", "o_level", "o_cas"}
         /\ pc'[t] \in {"o_aba", "o_level", "o_cas"}
      \/ /\ pc[t] \in {"f_lock", "f_body"} /\ kt'[t] = kt[t]
         /\ pc'[t] \in {"f_body", "f_link"}
      \/ /\ pc[t] \in {"idle", "c_free"} /\ pc'[t] \in {"c_free", "c_reset"}
  <2>1. CASE PushLoadAba(t) \/ PushLoadLevel(t) \/ (PushCas(t) /\ ~Matches(t))
    BY <1>0, <2>1, ListTypes DEF PushLoadAba, PushLoadLevel, PushCas, Goto, At
  <2>2. CASE PopCall(t) \/ PopLoadAba(t) \/ (PopLoadLevel(t) /\ level # NULL)
             \/ (PopCas(t) /\ ~Matches(t))
    BY <1>0, <2>2, ListTypes DEF PopCall, PopLoadAba, PopLoadLevel, PopCas, MayCall, Goto, At
  <2>3. CASE MallocLock(t) \/ MallocTake(t) \/ MallocUnlink(t) \/ MallocUnlock(t)
    BY <1>0, <2>3, ListTypes DEF MallocLock, MallocTake, MallocUnlink, MallocUnlock,
       Acquire, Goto, At
  <2>4. CASE FreeLock(t) \/ FreeBody(t)
    BY <1>0, <2>4, ListTypes DEF FreeLock, FreeBody, Acquire, locals, Goto, At
  <2>5. CASE ClearCall(t) \/ ClearFree(t)
    BY <1>0, <2>5, ListTypes DEF ClearCall, ClearFree, MayClear, Goto, At
  <2> QED
    BY <2>1, <2>2, <2>3, <2>4, <2>5
<1>3. Carries(t)'
  BY <1>0, <1>1, <1>2 DEF Carries, Draining
<1>4. Held(t)' = Held(t)
  <2>1. pc[t] # "f_unlock" /\ pc'[t] # "f_unlock"
    BY <1>2
  <2>2. Contents(rest[t])' = Contents(rest[t])
    BY <1>1 DEF Contents
  <2>3. Pending(t)' = Pending(t)
    BY <2>1, <2>2 DEF Pending, At
  <2> QED
    BY <1>1, <2>3 DEF Held, Keep
<1> QED
  BY <1>1, <1>3, <1>4, EventQuiet

\* Nothing kept of nothing.
LEMMA KeepNothing == Keep(<<>>, <<>>) = <<>> /\ Reverse(<<>>) = <<>>
<1>1. <<>> \in Seq(Events) /\ Len(<<>>) = 0 /\ Cap \in Nat \ {0}
  BY BoundAssumption
<1>2. Keep(<<>>, <<>>) \in Seq(Events) /\ Len(Keep(<<>>, <<>>)) = 0
  <2> DEFINE k == Keep(<<>>, <<>>)
  <2>1. k \in Seq(Events) /\ Len(k) = (IF Cap <= Len(<<>>) + Len(<<>>) THEN Cap ELSE Len(<<>>) + Len(<<>>))
    BY <1>1, KeepFacts, Zenon
  <2> HIDE DEF k
  <2>2. k \in Seq(Events) /\ Len(k) = 0
    BY <1>1, <2>1
  <2> QED
    BY <2>2 DEF k
<1>3. Reverse(<<>>) = <<>>
  BY DEF Reverse
<1> HIDE DEF Keep
<1> QED
  BY <1>2, <1>3, EmptySeq

\* push_msg makes one event.
LEMMA PushCallRef ==
  ASSUME RefInv, BlockSizes = {1}, NEW t \in Threads, PushCall(t)
  PROVE  Follows
<1>0. ListInv /\ Carries(t) /\ EventPart /\ EventType
  BY DEF RefInv, EventPart
<1>1. /\ UNCHANGED <<linked, dikMsg, out, rest, got, kt>>
      /\ pc[t] = "idle" /\ pc'[t] = "m_lock"
      /\ \A u \in Threads \ {t} : pc'[u] = pc[u]
      /\ sent + 1 <= MaxEvents /\ sent' = sent + 1
      /\ msg' = [msg EXCEPT ![t] = [i \in 1..1 |-> sent + i]]
  BY <1>0, ListTypes DEF PushCall, MayCall, At, Goto, head, store
<1>2. sent \in Nat /\ MaxEvents \in Nat /\ sent + 1 \in Events
  BY <1>0, <1>1, BoundAssumption DEF EventType, Events
<1>3. [i \in 1..1 |-> sent + i] = <<sent + 1>>
  BY <1>2
<1>4. [i \in 1..1 |-> sent + i] \in One /\ [i \in 1..1 |-> sent + i] \in Seq(Events)
  BY <1>2, <1>3 DEF One
<1>5. msg'[t] \in One /\ msg' \in [Threads -> Seq(Events)]
      /\ \A u \in Threads \ {t} : msg'[u] = msg[u]
  <2> DEFINE m == [i \in 1..1 |-> sent + i]
  <2>1. m \in One /\ m \in Seq(Events) /\ msg' = [msg EXCEPT ![t] = m]
    BY <1>1, <1>4
  <2> HIDE DEF m
  <2> QED
    BY <1>0, <2>1 DEF EventType
<1>6. EventType'
  BY <1>0, <1>1, <1>2, <1>5 DEF EventType
<1>7. Carries(t)'
  BY <1>0, <1>1, <1>5 DEF Carries, Draining
<1>8. EventPart' /\ \A u \in Threads \ {t} : Held(u)' = Held(u)
  BY <1>0, <1>1, <1>5, <1>6, <1>7, EventMoves DEF EventPart
<1>9. Held(t)' = Held(t)
  BY <1>1 DEF Held, Keep, Pending, At, Contents
<1>10. Waiting' = Waiting
  BY <1>1 DEF Waiting, Contents
<1> QED
  BY <1>1, <1>8, <1>9, <1>10, Stutter DEF Follows, Threads

\* push_msg writes the event into the node it obtained, which nobody else has.
LEMMA PushFillRef ==
  ASSUME RefInv, NEW t \in Threads, PushFill(t)
  PROVE  Follows
<1>0. ListInv /\ Carries(t) /\ EventPart /\ EventType
  BY DEF RefInv, EventPart
<1>1. NoneClears
  BY <1>0, Apart DEF Push
<1>2. /\ UNCHANGED <<linked, out, rest, got, kt, sent>>
      /\ pc[t] = "p_fill" /\ pc'[t] = "p_aba"
      /\ \A u \in Threads \ {t} : pc'[u] = pc[u] /\ msg'[u] = msg[u]
      /\ dikMsg' = [dikMsg EXCEPT ![kt[t]] = msg[t]]
      /\ msg' = [msg EXCEPT ![t] = <<>>]
  BY <1>0, ListTypes DEF PushFill, At, Goto, head
<1>3. kt[t] \in Mine(t) /\ kt[t] \in Nodes /\ msg[t] \in One
  BY <1>0, <1>2, OwnNodes DEF Carries
<1>4. /\ \A u \in Threads \ {t} : Mine(u) \cap Mine(t) = {}
      /\ Mine(t) \cap Range(linked) = {}
  BY <1>0, <1>1, Placing, MinesFacts DEF Split
<1>5. \A u \in Threads : Mine(u) \subseteq Nodes
  BY <1>0, OwnNodes
<1>6. Range(linked) \subseteq Nodes
  BY <1>0, ListTypes, RangeOfSeq
<1>7. \A n \in Nodes : n # kt[t] => dikMsg'[n] = dikMsg[n]
  BY <1>0, <1>2 DEF EventType
<1>8. dikMsg'[kt[t]] = msg[t]
  BY <1>0, <1>2, <1>3 DEF EventType
<1>9. \A u \in Threads \ {t} : \A n \in Mine(u) : dikMsg'[n] = dikMsg[n]
  BY <1>3, <1>4, <1>5, <1>7
<1>10. \A n \in Range(linked) : dikMsg'[n] = dikMsg[n]
  BY <1>3, <1>4, <1>6, <1>7
<1>11. EventType'
  <2>1. msg[t] \in Seq(Events) /\ <<>> \in Seq(Events)
    BY <1>0 DEF EventType
  <2> QED
    BY <1>0, <1>2, <2>1 DEF EventType
<1>12. rest[t] = <<>> /\ Range(<<>>) = {}
  <2>1. Range(<<>>) = {}
    BY DEF Range
  <2>2. Holds(t) /\ pc[t] \notin Draining
    BY <1>0, <1>2, ListTypes DEF Draining
  <2> QED
    BY <2>1, <2>2 DEF Holds
<1>13. Carries(t)'
  BY <1>0, <1>2, <1>3, <1>8, <1>12 DEF Carries, Draining
<1>14. EventPart' /\ \A u \in Threads \ {t} : Held(u)' = Held(u)
  BY <1>0, <1>2, <1>9, <1>10, <1>11, <1>13, EventMoves DEF EventPart
<1>15. Held(t)' = Held(t)
  <2>1. Firsts(dikMsg', rest'[t]) = <<>> /\ Firsts(dikMsg, rest[t]) = <<>>
    BY <1>2, <1>12, FirstsEmpty
  <2>2. Contents(rest[t])' = Contents(rest[t])
    BY <2>1 DEF Contents, Firsts
  <2>3. Pending(t)' = Pending(t)
    BY <1>2, <2>2 DEF Pending, At
  <2> QED
    BY <1>2, <2>3 DEF Held, Keep
<1>16. Waiting' = Waiting
  <2>1. Firsts(dikMsg', linked) = Firsts(dikMsg, linked)
    BY <1>0, <1>10, ListTypes, FirstsFrame
  <2> QED
    BY <1>2, <2>1 DEF Waiting, Contents, Firsts
<1> QED
  BY <1>2, <1>14, <1>15, <1>16, Stutter DEF Follows, Threads

\* The CAS of push_msg that succeeds puts the event.
LEMMA PushCasRef ==
  ASSUME RefInv, NEW t \in Threads, PushCas(t), Matches(t)
  PROVE  Follows
<1>0. ListInv /\ Carries(t) /\ EventPart /\ EventType
  BY DEF RefInv, EventPart
<1>1. /\ UNCHANGED <<dikMsg, msg, out, rest, got, sent>>
      /\ pc[t] = "p_cas" /\ pc'[t] = "idle" /\ linked' = <<kt[t]>> \o linked
      /\ \A u \in Threads \ {t} : pc'[u] = pc[u] /\ kt'[u] = kt[u]
  BY <1>0, ListTypes DEF PushCas, At, Goto, store
<1>2. kt[t] \in Nodes /\ dikMsg[kt[t]] \in One /\ linked \in Seq(Nodes)
  BY <1>0, <1>1, ListTypes DEF AtNode, Carries
<1>3. Range(linked') = Range(linked) \cup {kt[t]}
  BY <1>1, <1>2, PrependFacts
<1>4. \A n \in Range(linked') : dikMsg'[n] \in One
  BY <1>0, <1>1, <1>2, <1>3 DEF EventPart
<1>5. EventType'
  BY <1>0, <1>1 DEF EventType
<1>6. Carries(t)'
  BY <1>0, <1>1 DEF Carries, Draining
<1>7. EventPart' /\ \A u \in Threads \ {t} : Held(u)' = Held(u)
  BY <1>1, <1>4, <1>5, <1>6, EventMoves
<1>8. Held(t)' = Held(t)
  BY <1>1 DEF Held, Keep, Pending, At, Contents
<1>9. InHand' = InHand
  BY <1>7, <1>8 DEF InHand, Held, Threads
<1> DEFINE e == dikMsg[kt[t]][1]
           r == Firsts(dikMsg, linked)
<1>10. e \in Events /\ r \in Seq(Events)
  BY <1>0, <1>2, OneFacts, FirstsType DEF EventPart
<1>11. Firsts(dikMsg, <<kt[t]>> \o linked) = <<e>> \o r
  BY <1>0, <1>2, FirstsPrepend DEF EventPart
<1>12. Waiting = Reverse(r) /\ Waiting' = Reverse(<<e>> \o r)
  BY <1>1, <1>11 DEF Waiting, Contents, Firsts
<1>13. Waiting' = Append(Waiting, e)
  BY <1>10, <1>12, ReversePrepend
<1>14. Abstract!Put
  BY <1>1, <1>9, <1>10, <1>13 DEF Abstract!Put, Events
<1> QED
  BY <1>7, <1>14 DEF Follows, Abstract!Next

\* pop_msg that finds no node returns nothing.
LEMMA PopEmptyRef ==
  ASSUME RefInv, NEW t \in Threads, PopLoadLevel(t), level = NULL
  PROVE  Follows
<1>0. ListInv /\ Carries(t) /\ EventPart /\ EventType
  BY DEF RefInv, EventPart
<1>1. NoneClears
  BY <1>0, Apart DEF Pop
<1>2. /\ UNCHANGED <<linked, dikMsg, msg, out, rest, sent, kt>>
      /\ pc[t] = "o_level" /\ pc'[t] = "idle" /\ got' = [got EXCEPT ![t] = <<>>]
      /\ \A u \in Threads \ {t} : pc'[u] = pc[u]
  BY <1>0, ListTypes DEF PopLoadLevel, At, Goto, head, store
<1>3. linked = <<>>
  BY <1>0, <1>1, ListTypes, Placing, ChainNull
<1>4. t \in Consumers /\ out[t] = <<>> /\ rest[t] = <<>>
  BY <1>0, <1>2, ListTypes DEF Carries, Draining, Holds
<1>5. EventType'
  <2>1. <<>> \in Seq(Events)
    OBVIOUS
  <2> QED
    BY <1>0, <1>2, <2>1 DEF EventType
<1>6. Carries(t)'
  BY <1>0, <1>2 DEF Carries, Draining
<1>7. EventPart' /\ \A u \in Threads \ {t} : Held(u)' = Held(u)
  BY <1>0, <1>2, <1>5, <1>6, EventMoves DEF EventPart
<1>8. Held(t)' = Held(t)
  BY <1>2 DEF Held, Keep, Pending, At, Contents
<1>9. InHand' = InHand
  BY <1>7, <1>8 DEF InHand, Held, Threads
<1>10. Waiting = <<>> /\ Waiting' = Waiting
  BY <1>2, <1>3 DEF Waiting, Contents, Reverse
<1>11. Held(t) = <<>> /\ InHand[t] = <<>>
  <2>1. Pending(t) = <<>>
    BY <1>2, <1>4 DEF Pending, At, Contents
  <2>2. Held(t) = <<>>
    BY <1>4, <2>1, KeepNothing DEF Held
  <2> QED
    BY <1>4, <2>2 DEF InHand, Held, Reverse
<1>12. Abstract!ReturnEmpty(t)
  BY <1>2, <1>9, <1>10, <1>11 DEF Abstract!ReturnEmpty
<1> QED
  BY <1>4, <1>7, <1>12 DEF Follows, Abstract!Next

\* The CAS of pop_msg that succeeds takes everything: what it will return is
\* the newest Cap of the events that waited.
LEMMA PopCasRef ==
  ASSUME RefInv, NEW t \in Threads, PopCas(t), Matches(t)
  PROVE  Follows
<1>0. ListInv /\ Carries(t) /\ EventPart /\ EventType
  BY DEF RefInv, EventPart
<1>1. NoneClears
  BY <1>0, Apart DEF Pop
<1>2. /\ UNCHANGED <<dikMsg, msg, out, got, sent>>
      /\ pc[t] = "o_cas" /\ pc'[t] = "d_read" /\ linked' = <<>>
      /\ rest' = [rest EXCEPT ![t] = linked]
      /\ \A u \in Threads \ {t} : pc'[u] = pc[u] /\ kt'[u] = kt[u]
  BY <1>0, ListTypes DEF PopCas, At, Goto, store
<1>3. rest'[t] = linked /\ \A u \in Threads \ {t} : rest'[u] = rest[u]
  BY <1>0, <1>2, ListTypes
<1>4. t \in Consumers /\ out[t] = <<>> /\ rest[t] = <<>>
  BY <1>0, <1>2, ListTypes DEF Carries, Draining, Holds
<1>5. linked \in Seq(Nodes) /\ linked # <<>>
  <2>1. level \in Nodes
    BY <1>0, <1>2 DEF ListInv, CountInv, PtrType, Matches
  <2>2. level \in Ptr /\ level # NULL /\ linked \in Seq(Nodes)
    BY <1>0, <2>1, ListTypes, NullAssumption
  <2>3. Chain(next, level, linked)
    BY <1>0, <1>1, Placing
  <2> QED
    BY <2>2, <2>3, ChainTail
<1>6. EventType'
  BY <1>0, <1>2 DEF EventType
<1>7. \A n \in Range(linked) : dikMsg[n] \in One
  BY <1>0 DEF EventPart
<1>8. Range(linked') = {}
  BY <1>2 DEF Range
<1>9. Carries(t)'
  <2>1. Range(rest'[t]) = Range(linked)
    BY <1>3
  <2> QED
    BY <1>2, <1>4, <1>7, <2>1 DEF Carries, Draining
<1>10. EventPart' /\ \A u \in Threads \ {t} : Held(u)' = Held(u)
  BY <1>2, <1>3, <1>6, <1>8, <1>9, EventMoves
<1> DEFINE r == Firsts(dikMsg, linked)
<1>11. r \in Seq(Events) /\ Len(r) = Len(linked)
  BY <1>5, <1>7, FirstsType
<1>12. Waiting = Reverse(r) /\ Waiting' = <<>>
  BY <1>2 DEF Waiting, Contents, Firsts, Reverse
<1>13. Held(t) = <<>>
  <2>1. Pending(t) = <<>>
    BY <1>2, <1>4 DEF Pending, At, Contents
  <2> QED
    BY <1>4, <2>1, KeepNothing DEF Held
<1>14. Held(t)' = Keep(<<>>, r)
  <2>1. Contents(rest[t])' = r
    BY <1>2, <1>3 DEF Contents, Firsts
  <2>2. Pending(t)' = <<>> \o r
    BY <1>2, <2>1 DEF Pending, At
  <2>3. <<>> \o r = r
    BY <1>11
  <2>4. out'[t] = <<>>
    BY <1>2, <1>4
  <2> QED
    BY <2>2, <2>3, <2>4 DEF Held, Keep
<1>15. Reverse(Keep(<<>>, r)) = Abstract!Newest(Waiting, Cap)
  BY <1>11, <1>12, ReverseKeep
<1>16. Waiting # <<>>
  <2>1. Len(linked) > 0
    BY <1>5, TailFacts
  <2>2. Len(Reverse(r)) = Len(linked)
    BY <1>11, ReverseFacts
  <2> QED
    BY <1>12, <2>1, <2>2
<1>17. InHand[t] = <<>>
  BY <1>4, <1>13, KeepNothing DEF InHand, Held
<1>18. InHand' = [InHand EXCEPT ![t] = Abstract!Newest(Waiting, Cap)]
  <2>1. \A u \in Consumers : InHand[u] = Reverse(Held(u)) /\ InHand'[u] = Reverse(Held(u)')
    BY DEF InHand, Held
  <2>2. InHand = [u \in Consumers |-> InHand[u]] /\ InHand' = [u \in Consumers |-> InHand'[u]]
    BY DEF InHand
  <2>3. InHand'[t] = Abstract!Newest(Waiting, Cap)
    BY <1>4, <1>14, <1>15, <2>1
  <2>4. \A u \in Consumers \ {t} : InHand'[u] = InHand[u]
    BY <1>10, <2>1 DEF Threads
  <2> HIDE DEF InHand
  <2> QED
    BY <1>4, <2>2, <2>3, <2>4, Zenon
<1>19. Abstract!Take(t)
  BY <1>2, <1>12, <1>16, <1>17, <1>18 DEF Abstract!Take
<1> QED
  BY <1>4, <1>10, <1>19 DEF Follows, Abstract!Next

\* The drain reads the next node.
LEMMA DrainReadRef ==
  ASSUME RefInv, NEW t \in Threads, DrainRead(t)
  PROVE  Follows
<1>0. ListInv /\ Carries(t) /\ EventPart /\ EventType
  BY DEF RefInv, EventPart
<1>1. /\ UNCHANGED <<linked, dikMsg, out, got, sent, kt, rest>>
      /\ pc[t] = "d_read" /\ pc'[t] = "f_lock"
      /\ msg' = [msg EXCEPT ![t] = dikMsg[kt[t]]] /\ kt[t] \in Nodes
      /\ \A u \in Threads \ {t} : pc'[u] = pc[u]
  BY <1>0, ListTypes DEF DrainRead, At, Goto, head, store, AtNode
<1>2. dikMsg[kt[t]] \in Seq(Events)
  BY <1>0, <1>1 DEF EventType
<1>3. msg' \in [Threads -> Seq(Events)] /\ msg'[t] = dikMsg[kt[t]]
      /\ \A u \in Threads \ {t} : msg'[u] = msg[u]
  BY <1>0, <1>1, <1>2 DEF EventType
<1>4. EventType'
  BY <1>0, <1>1, <1>3 DEF EventType
<1>5. Carries(t)'
  BY <1>0, <1>1, <1>3 DEF Carries, Draining
<1>6. EventPart' /\ \A u \in Threads \ {t} : Held(u)' = Held(u)
  BY <1>0, <1>1, <1>3, <1>4, <1>5, EventMoves DEF EventPart
<1>7. Held(t)' = Held(t)
  BY <1>1 DEF Held, Keep, Pending, At, Contents
<1>8. Waiting' = Waiting
  BY <1>1 DEF Waiting, Contents
<1> QED
  BY <1>1, <1>6, <1>7, <1>8, Stutter DEF Follows, Threads

\* _free_node takes the node; its event is still the first to be looked at.
LEMMA FreeLinkRef ==
  ASSUME RefInv, NEW t \in Threads, FreeLink(t)
  PROVE  Follows
<1>0. ListInv /\ Carries(t) /\ EventPart /\ EventType
  BY DEF RefInv, EventPart
<1>1. /\ UNCHANGED <<linked, dikMsg, msg, out, got, sent, kt>>
      /\ pc[t] = "f_link" /\ pc'[t] = "f_unlock"
      /\ rest' = [rest EXCEPT ![t] = Tail(rest[t])]
      /\ \A u \in Threads \ {t} : pc'[u] = pc[u]
  BY <1>0, ListTypes DEF FreeLink, At, Goto, head, store
<1>2. /\ rest'[t] = Tail(rest[t]) /\ \A u \in Threads \ {t} : rest'[u] = rest[u]
      /\ rest[t] \in Seq(Nodes)
  BY <1>0, <1>1, ListTypes
<1>3. rest[t] # <<>> /\ Head(rest[t]) = kt[t]
  BY <1>0, <1>1, ListTypes DEF Holds
<1>4. msg[t] = dikMsg[kt[t]] /\ \A n \in Range(rest[t]) : dikMsg[n] \in One
  BY <1>0, <1>1 DEF Carries
<1>5. /\ msg[t] \in One /\ \A n \in Range(Tail(rest[t])) : dikMsg[n] \in One
      /\ Tail(rest[t]) \in Seq(Nodes)
      /\ Firsts(dikMsg, rest[t]) = msg[t] \o Firsts(dikMsg, Tail(rest[t]))
  BY <1>2, <1>3, <1>4, FirstsTail
<1>6. EventType'
  BY <1>0, <1>1 DEF EventType
<1>7. Carries(t)'
  <2>1. \A n \in Range(rest'[t]) : dikMsg'[n] \in One
    BY <1>1, <1>2, <1>5
  <2> QED
    BY <1>0, <1>1, <1>5, <2>1 DEF Carries, Draining
<1>8. EventPart' /\ \A u \in Threads \ {t} : Held(u)' = Held(u)
  BY <1>0, <1>1, <1>2, <1>6, <1>7, EventMoves DEF EventPart
<1>9. Pending(t)' = Pending(t)
  <2>1. Contents(rest[t]) = Firsts(dikMsg, rest[t])
    BY DEF Contents, Firsts
  <2>2. Contents(rest[t])' = Firsts(dikMsg, Tail(rest[t]))
    <3>1. Contents(rest[t])' = Firsts(dikMsg', rest'[t])
      BY DEF Contents, Firsts
    <3> QED
      BY <1>1, <1>2, <3>1
  <2>3. Pending(t) = <<>> \o Firsts(dikMsg, rest[t])
    BY <1>1, <2>1 DEF Pending, At
  <2>4. Pending(t)' = msg[t] \o Firsts(dikMsg, Tail(rest[t]))
    BY <1>1, <2>2 DEF Pending, At
  <2>5. Firsts(dikMsg, rest[t]) \in Seq(Events)
    BY <1>2, <1>4, FirstsType
  <2>6. <<>> \o Firsts(dikMsg, rest[t]) = Firsts(dikMsg, rest[t])
    <3> HIDE DEF Firsts
    <3> QED
      BY <2>5
  <2> QED
    BY <1>5, <2>3, <2>4, <2>6
<1>10. Held(t)' = Held(t)
  BY <1>1, <1>9 DEF Held, Keep
<1>11. Waiting' = Waiting
  BY <1>1 DEF Waiting, Contents
<1> QED
  BY <1>1, <1>8, <1>10, <1>11, Stutter DEF Follows, Threads

\* After each node the drain keeps what fits, and returns after the last.
LEMMA FreeUnlockRef ==
  ASSUME RefInv, NEW t \in Threads, FreeUnlock(t)
  PROVE  Follows
<1>0. ListInv /\ Carries(t) /\ EventPart /\ EventType
  BY DEF RefInv, EventPart
<1> DEFINE k == Keep(out[t], msg[t])
           r == Firsts(dikMsg, rest[t])
<1>1. /\ UNCHANGED <<linked, dikMsg, sent, rest>>
      /\ pc[t] = "f_unlock" /\ pc'[t] = (IF pv[t] = NULL THEN "idle" ELSE "d_read")
      /\ msg' = [msg EXCEPT ![t] = <<>>]
      /\ out' = [out EXCEPT ![t] = IF pv[t] = NULL THEN <<>> ELSE k]
      /\ pv[t] = NULL => got' = [got EXCEPT ![t] = Reverse(k)]
      /\ pv[t] # NULL => got' = got
      /\ \A u \in Threads \ {t} : pc'[u] = pc[u] /\ kt'[u] = kt[u]
  BY <1>0, ListTypes DEF FreeUnlock, At, Goto, head, store
<1>2. /\ t \in Consumers /\ msg[t] \in One /\ rest[t] \in Seq(Nodes)
      /\ \A n \in Range(rest[t]) : dikMsg[n] \in One
  BY <1>0, <1>1, ListTypes DEF Carries, Draining
<1>3. out[t] \in Seq(Events) /\ msg[t] \in Seq(Events) /\ <<>> \in Seq(Events) /\ Len(msg[t]) = 1
  BY <1>0, <1>2, OneFacts DEF EventType
<1>4. r \in Seq(Events)
  BY <1>2, FirstsType
<1>5. /\ k \in Seq(Events)
      /\ Len(k) = (IF Cap <= Len(out[t]) + Len(msg[t]) THEN Cap ELSE Len(out[t]) + Len(msg[t]))
  BY <1>3, KeepFacts
<1> HIDE DEF k, r
<1>6. Reverse(k) \in Seq(Events) /\ Reverse(k) # <<>> /\ k # <<>>
  <2>1. Len(k) > 0
    BY <1>3, <1>5, BoundAssumption
  <2>2. Reverse(k) \in Seq(Events) /\ Len(Reverse(k)) = Len(k)
    BY <1>5, ReverseFacts
  <2> QED
    BY <2>1, <2>2
<1>7. /\ msg' \in [Threads -> Seq(Events)] /\ out' \in [Threads -> Seq(Events)]
      /\ msg'[t] = <<>> /\ out'[t] = (IF pv[t] = NULL THEN <<>> ELSE k)
      /\ \A u \in Threads \ {t} : msg'[u] = msg[u] /\ out'[u] = out[u]
  BY <1>0, <1>1, <1>3, <1>5 DEF EventType
<1>8. EventType'
  BY <1>0, <1>1, <1>6, <1>7 DEF EventType
<1>9. Carries(t)'
  BY <1>1, <1>2, <1>7 DEF Carries, Draining
<1>10. EventPart' /\ \A u \in Threads \ {t} : Held(u)' = Held(u)
  BY <1>0, <1>1, <1>7, <1>8, <1>9, EventMoves DEF EventPart
<1>11. Waiting' = Waiting
  BY <1>1 DEF Waiting, Contents
<1>12. Held(t) = Keep(out[t], msg[t] \o r)
  BY <1>1 DEF Held, Pending, At, Contents, Firsts, r
<1>13. Held(t)' = Keep(out'[t], r)
  <2>1. Contents(rest[t])' = r
    BY <1>1 DEF Contents, Firsts, r
  <2>2. Pending(t)' = <<>> \o r
    BY <1>1, <2>1 DEF Pending, At
  <2>3. <<>> \o r = r
    BY <1>4
  <2> QED
    BY <2>2, <2>3 DEF Held, Keep
<1>14. CASE pv[t] # NULL
  <2>1. Keep(k, r) = Keep(out[t], msg[t] \o r)
    BY <1>3, <1>4, KeepKeep DEF k
  <2>2. Held(t)' = Held(t)
    BY <1>7, <1>12, <1>13, <1>14, <2>1
  <2> QED
    BY <1>1, <1>10, <1>11, <1>14, <2>2, Stutter DEF Follows, Threads
<1>15. CASE pv[t] = NULL
  <2>1. rest[t] = <<>>
    BY <1>0, <1>1, <1>2, <1>15, ListTypes, ChainNull DEF Holds
  <2>2. r = <<>>
    BY <2>1, FirstsEmpty DEF r
  <2>3. Held(t) = k
    <3>1. msg[t] \o <<>> = msg[t]
      BY <1>3
    <3> QED
      BY <1>12, <2>2, <3>1 DEF k
  <2>4. Held(t)' = <<>>
    BY <1>7, <1>13, <1>15, <2>2, KeepNothing
  <2>5. \A u \in Consumers : InHand[u] = Reverse(Held(u)) /\ InHand'[u] = Reverse(Held(u)')
    BY DEF InHand, Held
  <2>6. InHand = [u \in Consumers |-> InHand[u]] /\ InHand' = [u \in Consumers |-> InHand'[u]]
    BY DEF InHand
  <2>7. InHand[t] = Reverse(k) /\ InHand'[t] = <<>>
    BY <1>2, <2>3, <2>4, <2>5, KeepNothing
  <2>8. \A u \in Consumers \ {t} : InHand'[u] = InHand[u]
    BY <1>10, <2>5 DEF Threads
  <2>9. InHand' = [InHand EXCEPT ![t] = <<>>]
    BY <1>2, <2>6, <2>7, <2>8, Zenon
  <2>10. Abstract!Return(t)
    BY <1>1, <1>6, <1>11, <1>15, <2>7, <2>9 DEF Abstract!Return
  <2> QED
    BY <1>2, <1>10, <2>10 DEF Follows, Abstract!Next
<1> QED
  BY <1>14, <1>15

\* ClearQueue forgets what waits.
LEMMA ClearResetRef ==
  ASSUME RefInv, NEW t \in Threads, ClearReset(t)
  PROVE  Follows
<1>0. ListInv /\ Carries(t) /\ EventPart /\ EventType
  BY DEF RefInv, EventPart
<1>1. /\ UNCHANGED <<dikMsg, msg, out, rest, got, sent, kt>>
      /\ pc[t] = "c_reset" /\ pc'[t] = "idle" /\ linked' = <<>>
      /\ \A u \in Threads \ {t} : pc'[u] = pc[u]
  BY <1>0, ListTypes DEF ClearReset, At, Goto, store, locals
<1>2. EventType'
  BY <1>0, <1>1 DEF EventType
<1>3. Carries(t)'
  BY <1>0, <1>1 DEF Carries, Draining
<1>4. Range(linked') = {}
  BY <1>1 DEF Range
<1>5. EventPart' /\ \A u \in Threads \ {t} : Held(u)' = Held(u)
  BY <1>1, <1>2, <1>3, <1>4, EventMoves
<1>6. Held(t)' = Held(t)
  BY <1>1 DEF Held, Keep, Pending, At, Contents
<1>7. InHand' = InHand
  BY <1>5, <1>6 DEF InHand, Held, Threads
<1>8. Waiting' = <<>>
  BY <1>1 DEF Waiting, Contents, Reverse
<1>9. Abstract!Clear
  BY <1>1, <1>7, <1>8 DEF Abstract!Clear
<1> QED
  BY <1>5, <1>9 DEF Follows, Abstract!Next

\* The constructor's queue is empty, and no pop holds anything.
LEMMA RefInit == Init => RefInv /\ Abstract!Init
<1> SUFFICES ASSUME Init
             PROVE  RefInv /\ Abstract!Init
  OBVIOUS
<1>1. ListInv
  BY ListInit
<1>2. /\ sent = 0 /\ linked = <<>> /\ dikMsg = [n \in Nodes |-> <<>>]
      /\ pc = [t \in Threads |-> "idle"] /\ rest = [t \in Threads |-> <<>>]
      /\ msg = [t \in Threads |-> <<>>] /\ out = [t \in Threads |-> <<>>]
      /\ got = [c \in Consumers |-> <<>>]
  BY DEF Init
<1>3. <<>> \in Seq(Events) /\ Range(<<>>) = {} /\ MaxEvents \in Nat
  BY BoundAssumption DEF Range
<1>4. EventType
  BY <1>2, <1>3 DEF EventType
<1>5. \A t \in Threads : Carries(t)
  BY <1>2, <1>3 DEF Carries, Draining
<1>6. RefInv
  BY <1>1, <1>2, <1>3, <1>4, <1>5 DEF RefInv, EventPart
<1>7. ASSUME NEW c \in Consumers PROVE Held(c) = <<>>
  <2>1. c \in Threads /\ pc[c] = "idle" /\ rest[c] = <<>> /\ out[c] = <<>>
    BY <1>2 DEF Threads
  <2>2. Pending(c) = <<>>
    BY <2>1 DEF Pending, At, Contents
  <2> QED
    BY <2>1, <2>2, KeepNothing DEF Held
<1>8. InHand = [c \in Consumers |-> <<>>]
  BY <1>7, KeepNothing DEF InHand, Held
<1>9. Waiting = <<>>
  BY <1>2 DEF Waiting, Contents, Reverse
<1> QED
  BY <1>2, <1>6, <1>8, <1>9 DEF Abstract!Init

\* Every step keeps the events where they are, and is a step of the queue or
\* none: one lemma above per kind of step.
LEMMA RefStep ==
  ASSUME KeptApart, BlockSizes = {1}, RefInv, [Next]_vars
  PROVE  RefInv' /\ [Abstract!Next]_(Abstract!vars)
<1>1. ListInv'
  BY ListStep DEF RefInv
<1>2. ASSUME NEW t \in Threads, Push(t)
      PROVE  Follows
  BY <1>2, PushCallRef, PushFillRef, QuietRef, PushCasRef DEF Push
<1>3. ASSUME NEW t \in Threads, Pop(t)
      PROVE  Follows
  BY <1>3, QuietRef, PopEmptyRef, PopCasRef, DrainReadRef DEF Pop
<1>4. ASSUME NEW t \in Threads, Malloc(t)
      PROVE  Follows
  BY <1>4, QuietRef DEF Malloc
<1>5. ASSUME NEW t \in Threads, Free(t)
      PROVE  Follows
  BY <1>5, QuietRef, FreeLinkRef, FreeUnlockRef DEF Free
<1>6. ASSUME NEW t \in Threads, Clear(t)
      PROVE  Follows
  BY <1>6, QuietRef, ClearResetRef DEF Clear
<1>7. ASSUME UNCHANGED vars
      PROVE  Follows
  <2>1. UNCHANGED <<linked, rest, pc, kt, msg, out, dikMsg, got, sent>>
    BY <1>7 DEF vars, head, store, locals
  <2>2. EventPart'
    BY <2>1 DEF RefInv, EventPart, EventType, Carries
  <2>3. \A u \in Consumers : Held(u)' = Held(u)
    BY <2>1 DEF Held, Keep, Pending, At, Contents
  <2>4. Waiting' = Waiting
    BY <2>1 DEF Waiting, Contents
  <2> QED
    BY <2>1, <2>2, <2>3, <2>4, Stutter DEF Follows
<1>8. Follows
  BY <1>2, <1>3, <1>4, <1>5, <1>6, <1>7 DEF Next, Step
<1> QED
  BY <1>1, <1>8 DEF Follows, RefInv

\* With one event per node, for any producers, consumers and clearers that keep
\* ClearQueue apart: push_msg, pop_msg and ClearQueue, step by step, do what
\* MsgQueue promises.  A push takes effect at its CAS, a pop at its CAS, and what
\* it returns, when it has freed its nodes, is the newest Cap of what it took.
THEOREM QueueImplemented ==
  ASSUME KeptApart, BlockSizes = {1} PROVE Spec => ImplementsMsgQueue
<1>1. RefInv /\ [Next]_vars => RefInv' /\ [Abstract!Next]_(Abstract!vars)
  BY RefStep
<1>2. Init => RefInv /\ Abstract!Init
  BY RefInit
<1> QED
  BY <1>1, <1>2, PTL DEF Spec, ImplementsMsgQueue, Abstract!Spec
=============================================================================
