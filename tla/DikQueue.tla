------------------------------ MODULE DikQueue ------------------------------
(***************************************************************************)
(* CLockLessDIKMsgQueue (midi_piano/CLockLessDIKMsgQueue.hxx): the stack   *)
(* of message nodes that producers extend and a consumer takes whole with  *)
(* one double-width compare-and-swap, and the free list of nodes behind    *)
(* it, guarded by a spinlock.  One action per access to shared memory: a   *)
(* thread may be interrupted between the load of aba_count, the load of    *)
(* level and the CAS, and between any two steps of the free list.          *)
(*                                                                         *)
(* A node's message is the sequence of its events, in slot order; an event *)
(* is the number of its arrival.  The DikRaw2 overloads carry one event    *)
(* per node, the DikRaw overloads up to DIKMsgBlockNums: BlockSizes says   *)
(* which is modelled.  A list body of the free list is its chunk.          *)
(*                                                                         *)
(* linked and rest are history variables: the nodes reachable from         *)
(* m_MsgQueue.level, and those a pop has detached and not yet freed, both  *)
(* in list order.  No guard and no other assignment reads them.            *)
(***************************************************************************)
EXTENDS Integers, Sequences, FiniteSets, FiniteSetsExt, SequencesExt

CONSTANTS Producers,    \* threads that call push_msg
          Consumers,    \* threads that call pop_msg
          Clearers,     \* threads that call ClearQueue
          Nodes,        \* the addresses malloc can return for a node
          NULL,
          BlockSizes,   \* how many events a push carries
          Prealloc,     \* nodes the constructor leaves in the cache (64)
          Cap,          \* the *max_count passed to pop_msg
          MaxEvents,    \* bound: events pushed in a behaviour
          Serialised    \* whether the callers keep ClearQueue apart from the
                        \* other operations, as CPlayerThread's handshake does

Threads == Producers \cup Consumers \cup Clearers

ASSUME NullAssumption == NULL \notin Nodes
ASSUME BoundAssumption == /\ Cap \in Nat \ {0}
                          /\ MaxEvents \in Nat
                          /\ BlockSizes \subseteq 1..3
                          /\ Serialised \in BOOLEAN
ASSUME NodesAssumption == /\ IsFiniteSet(Nodes)
                          /\ Prealloc \in 0..Cardinality(Nodes)

VARIABLES
  level, aba_count,         \* m_MsgQueue
  next, dikMsg,             \* the fields of each node
  heap,                     \* node addresses that are not allocated
  cache, level_count,       \* m_MsgQueueCache: its chunks, its counter
  bodies, body_count,       \* m_MsgQueueListBodyCache: its length, its counter
  spin,                     \* m_SpinFreeListLock
  pc, kt, pv, msg,          \* per thread: position, cursor, successor, message
  T,                        \* per thread: the header it loaded
  out,                      \* per thread: pdr, the events kept, newest first
  got,                      \* per consumer: what its last pop returned
  sent,                     \* events pushed so far
  linked, rest              \* history

head == <<level, aba_count, linked>>
store == <<next, dikMsg>>
pool == <<heap, cache, level_count, bodies, body_count>>
locals == <<kt, pv, msg, T, out, rest>>
vars == <<head, store, pool, spin, pc, locals, got, sent>>

NoHeader == [aba_count |-> 0, level |-> NULL]

\* The constructor: an empty queue, and Prealloc nodes malloc'ed and freed
\* again, each with a list body malloc'ed for it.
Init ==
  /\ level = NULL /\ aba_count = 0
  /\ next = [n \in Nodes |-> NULL]
  /\ dikMsg = [n \in Nodes |-> <<>>]
  /\ cache \in {s \in [1..Prealloc -> Nodes] : IsInjective(s)}
  /\ heap = Nodes \ Range(cache)
  /\ level_count = Prealloc
  /\ bodies = 0 /\ body_count = 0
  /\ spin = 0
  /\ pc = [t \in Threads |-> "idle"]
  /\ kt = [t \in Threads |-> NULL]
  /\ pv = [t \in Threads |-> NULL]
  /\ msg = [t \in Threads |-> <<>>]
  /\ T = [t \in Threads |-> NoHeader]
  /\ out = [t \in Threads |-> <<>>]
  /\ got = [c \in Consumers |-> <<>>]
  /\ sent = 0
  /\ linked = <<>>
  /\ rest = [t \in Threads |-> <<>>]

At(t, l) == pc[t] = l
Goto(t, l) == pc' = [pc EXCEPT ![t] = l]

\* Whether a thread is between the call of ClearQueue and its return.
Clearing(t) == pc[t] \in {"c_free", "c_reset"}

\* A call may start: with Serialised, ClearQueue starts only when no thread is
\* inside the queue, and nothing starts while it runs.
MayCall(t) == /\ At(t, "idle")
              /\ Serialised => \A u \in Threads : ~Clearing(u)
MayClear(t) == /\ At(t, "idle")
               /\ Serialised => \A u \in Threads : At(u, "idle")

(***************************************************************************)
(* The free list: _malloc_node and _free_node.                             *)
(***************************************************************************)

\* The interlocked exchange on the spinlock.  A thread that finds 1 writes 1
\* over it and tries again.
Acquire(t, from, to) ==
  /\ At(t, from)
  /\ spin = 0
  /\ spin' = 1
  /\ Goto(t, to)
  /\ UNCHANGED <<head, store, pool, locals, got, sent>>

MallocLock(t) == Acquire(t, "m_lock", "m_take")
FreeLock(t) == Acquire(t, "f_lock", "f_body")

\* if (m_MsgQueueCache.level_count > 0) ... else malloc
MallocTake(t) ==
  /\ At(t, "m_take")
  /\ \/ /\ level_count > 0
        /\ level_count' = level_count - 1
        /\ Goto(t, "m_unlink")
        /\ UNCHANGED <<heap, kt>>
     \/ /\ level_count <= 0
        /\ \E n \in heap : /\ heap' = heap \ {n}
                           /\ kt' = [kt EXCEPT ![t] = n]
        /\ Goto(t, "m_unlock")
        /\ UNCHANGED level_count
  /\ UNCHANGED <<head, store, cache, bodies, body_count, spin,
                 pv, msg, T, out, rest, got, sent>>

\* Mutants of MallocUnlink: the body is not counted; the node stays cached.
MallocUnlinkUncounted(t) ==
  /\ At(t, "m_unlink")
  /\ kt' = [kt EXCEPT ![t] = Head(cache)]
  /\ cache' = Tail(cache)
  /\ bodies' = bodies + 1
  /\ Goto(t, "m_unlock")
  /\ UNCHANGED <<head, store, heap, level_count, body_count, spin,
                 pv, msg, T, out, rest, got, sent>>
MallocUnlinkKept(t) ==
  /\ At(t, "m_unlink")
  /\ kt' = [kt EXCEPT ![t] = Head(cache)]
  /\ bodies' = bodies + 1
  /\ body_count' = body_count + 1
  /\ Goto(t, "m_unlock")
  /\ UNCHANGED <<head, store, heap, cache, level_count, spin,
                 pv, msg, T, out, rest, got, sent>>

\* Take the chunk of the first cache entry and drop its body in the body list.
MallocUnlink(t) ==
  /\ At(t, "m_unlink")
  /\ kt' = [kt EXCEPT ![t] = Head(cache)]
  /\ cache' = Tail(cache)
  /\ bodies' = bodies + 1
  /\ body_count' = body_count + 1
  /\ Goto(t, "m_unlock")
  /\ UNCHANGED <<head, store, heap, level_count, spin,
                 pv, msg, T, out, rest, got, sent>>

\* pt->level = NULL; release the spinlock.
MallocUnlock(t) ==
  /\ At(t, "m_unlock")
  /\ next' = [next EXCEPT ![kt[t]] = NULL]
  /\ spin' = 0
  /\ Goto(t, "p_fill")
  /\ UNCHANGED <<head, dikMsg, pool, locals, got, sent>>

\* A body from the body list, or a malloc'ed one.
FreeBody(t) ==
  /\ At(t, "f_body")
  /\ IF body_count > 0
     THEN /\ body_count' = body_count - 1
          /\ bodies' = bodies - 1
     ELSE UNCHANGED <<bodies, body_count>>
  /\ Goto(t, "f_link")
  /\ UNCHANGED <<head, store, heap, cache, level_count, spin, locals, got, sent>>

FreeLink(t) ==
  /\ At(t, "f_link")
  /\ cache' = <<kt[t]>> \o cache
  /\ level_count' = level_count + 1
  /\ rest' = [rest EXCEPT ![t] = Tail(@)]
  /\ Goto(t, "f_unlock")
  /\ UNCHANGED <<head, store, heap, bodies, body_count, spin,
                 kt, pv, msg, T, out, got, sent>>

(***************************************************************************)
(* push_msg.  Thread-local code runs with the shared access before it.     *)
(***************************************************************************)

PushCall(t) ==
  /\ t \in Producers
  /\ MayCall(t)
  /\ \E k \in BlockSizes :
       /\ sent + k <= MaxEvents
       /\ msg' = [msg EXCEPT ![t] = [i \in 1..k |-> sent + i]]
       /\ sent' = sent + k
  /\ Goto(t, "m_lock")
  /\ UNCHANGED <<head, store, pool, spin, kt, pv, T, out, rest, got>>

PushFill(t) ==
  /\ At(t, "p_fill")
  /\ dikMsg' = [dikMsg EXCEPT ![kt[t]] = msg[t]]
  /\ msg' = [msg EXCEPT ![t] = <<>>]
  /\ Goto(t, "p_aba")
  /\ UNCHANGED <<head, next, pool, spin, kt, pv, T, out, rest, got, sent>>

PushLoadAba(t) ==
  /\ At(t, "p_aba")
  /\ T' = [T EXCEPT ![t] = [aba_count |-> aba_count, level |-> NULL]]
  /\ Goto(t, "p_level")
  /\ UNCHANGED <<head, store, pool, spin, kt, pv, msg, out, rest, got, sent>>

\* Mutant of PushLoadLevel: a retry does not link the node again.
PushLoadLevelOnce(t) ==
  /\ At(t, "p_level")
  /\ T' = [T EXCEPT ![t] = [aba_count |-> T[t].aba_count, level |-> level]]
  /\ next' = IF next[kt[t]] = NULL THEN [next EXCEPT ![kt[t]] = level] ELSE next
  /\ Goto(t, "p_cas")
  /\ UNCHANGED <<head, dikMsg, pool, spin, kt, pv, msg, out, rest, got, sent>>

\* T.level = m_MsgQueue.level; kt->level = S.level
PushLoadLevel(t) ==
  /\ At(t, "p_level")
  /\ T' = [T EXCEPT ![t] = [aba_count |-> T[t].aba_count, level |-> level]]
  /\ next' = [next EXCEPT ![kt[t]] = level]
  /\ Goto(t, "p_cas")
  /\ UNCHANGED <<head, dikMsg, pool, spin, kt, pv, msg, out, rest, got, sent>>

\* casdp3 succeeds when both words of the header still have the loaded value.
Matches(t) == T[t] = [aba_count |-> aba_count, level |-> level]

PushCas(t) ==
  /\ At(t, "p_cas")
  /\ IF Matches(t)
     THEN /\ level' = kt[t]
          /\ aba_count' = T[t].aba_count + 1
          /\ linked' = <<kt[t]>> \o linked
          /\ kt' = [kt EXCEPT ![t] = NULL]
          /\ Goto(t, "idle")
     ELSE /\ Goto(t, "p_aba")
          /\ UNCHANGED <<head, kt>>
  /\ T' = [T EXCEPT ![t] = NoHeader]
  /\ UNCHANGED <<store, pool, spin, pv, msg, out, rest, got, sent>>

(***************************************************************************)
(* pop_msg: detach the whole list, free its nodes newest first while       *)
(* keeping at most Cap events, and hand them over in reverse.              *)
(***************************************************************************)

PopCall(t) ==
  /\ t \in Consumers
  /\ MayCall(t)
  /\ Goto(t, "o_aba")
  /\ UNCHANGED <<head, store, pool, spin, locals, got, sent>>

PopLoadAba(t) ==
  /\ At(t, "o_aba")
  /\ T' = [T EXCEPT ![t] = [aba_count |-> aba_count, level |-> NULL]]
  /\ Goto(t, "o_level")
  /\ UNCHANGED <<head, store, pool, spin, kt, pv, msg, out, rest, got, sent>>

PopLoadLevel(t) ==
  /\ At(t, "o_level")
  /\ IF level = NULL
     THEN /\ got' = [got EXCEPT ![t] = <<>>]
          /\ T' = [T EXCEPT ![t] = NoHeader]
          /\ Goto(t, "idle")
     ELSE /\ T' = [T EXCEPT ![t] = [aba_count |-> T[t].aba_count, level |-> level]]
          /\ Goto(t, "o_cas")
          /\ UNCHANGED got
  /\ UNCHANGED <<head, store, pool, spin, kt, pv, msg, out, rest, sent>>

PopCas(t) ==
  /\ At(t, "o_cas")
  /\ IF Matches(t)
     THEN /\ kt' = [kt EXCEPT ![t] = T[t].level]
          /\ level' = NULL
          /\ aba_count' = T[t].aba_count + 1
          /\ rest' = [rest EXCEPT ![t] = linked]
          /\ linked' = <<>>
          /\ Goto(t, "d_read")
     ELSE /\ Goto(t, "o_aba")
          /\ UNCHANGED <<head, kt, rest>>
  /\ T' = [T EXCEPT ![t] = NoHeader]
  /\ UNCHANGED <<store, pool, spin, pv, msg, out, got, sent>>

\* pv = kt->level; T = kt->dikMsg
DrainRead(t) ==
  /\ At(t, "d_read")
  /\ pv' = [pv EXCEPT ![t] = next[kt[t]]]
  /\ msg' = [msg EXCEPT ![t] = dikMsg[kt[t]]]
  /\ Goto(t, "f_lock")
  /\ UNCHANGED <<head, store, pool, spin, kt, T, out, rest, got, sent>>

\* The events kept when a node carrying m follows those of o: slot by slot,
\* while there is room.
Keep(o, m) == SubSeq(o \o m, 1, Min({Cap, Len(o \o m)}))

\* Mutants of FreeUnlock: the kept events are not reversed; the lock stays taken.
FreeUnlockForward(t) ==
  /\ At(t, "f_unlock")
  /\ spin' = 0
  /\ kt' = [kt EXCEPT ![t] = pv[t]]
  /\ pv' = [pv EXCEPT ![t] = NULL]
  /\ msg' = [msg EXCEPT ![t] = <<>>]
  /\ IF pv[t] = NULL
     THEN /\ got' = [got EXCEPT ![t] = Keep(out[t], msg[t])]
          /\ out' = [out EXCEPT ![t] = <<>>]
          /\ Goto(t, "idle")
     ELSE /\ out' = [out EXCEPT ![t] = Keep(out[t], msg[t])]
          /\ Goto(t, "d_read")
          /\ UNCHANGED got
  /\ UNCHANGED <<head, store, pool, T, rest, sent>>
FreeUnlockHeld(t) ==
  /\ At(t, "f_unlock")
  /\ kt' = [kt EXCEPT ![t] = pv[t]]
  /\ pv' = [pv EXCEPT ![t] = NULL]
  /\ msg' = [msg EXCEPT ![t] = <<>>]
  /\ out' = [out EXCEPT ![t] = <<>>]
  /\ Goto(t, IF pv[t] = NULL THEN "idle" ELSE "d_read")
  /\ UNCHANGED <<head, store, pool, spin, T, rest, got, sent>>

\* Release the spinlock; kt = pv; keep the events that fit; after the last
\* node copy the kept ones into the caller's array, last kept first.
FreeUnlock(t) ==
  /\ At(t, "f_unlock")
  /\ spin' = 0
  /\ kt' = [kt EXCEPT ![t] = pv[t]]
  /\ pv' = [pv EXCEPT ![t] = NULL]
  /\ msg' = [msg EXCEPT ![t] = <<>>]
  /\ IF pv[t] = NULL
     THEN /\ got' = [got EXCEPT ![t] = Reverse(Keep(out[t], msg[t]))]
          /\ out' = [out EXCEPT ![t] = <<>>]
          /\ Goto(t, "idle")
     ELSE /\ out' = [out EXCEPT ![t] = Keep(out[t], msg[t])]
          /\ Goto(t, "d_read")
          /\ UNCHANGED got
  /\ UNCHANGED <<head, store, pool, T, rest, sent>>

(***************************************************************************)
(* ClearQueue: free() every node of the list, then reset level with a      *)
(* plain store.                                                            *)
(***************************************************************************)

ClearCall(t) ==
  /\ t \in Clearers
  /\ MayClear(t)
  /\ kt' = [kt EXCEPT ![t] = level]
  /\ Goto(t, IF level = NULL THEN "c_reset" ELSE "c_free")
  /\ UNCHANGED <<head, store, pool, spin, pv, msg, T, out, rest, got, sent>>

ClearFree(t) ==
  /\ At(t, "c_free")
  /\ heap' = heap \cup {kt[t]}
  /\ kt' = [kt EXCEPT ![t] = next[kt[t]]]
  /\ Goto(t, IF next[kt[t]] = NULL THEN "c_reset" ELSE "c_free")
  /\ UNCHANGED <<head, store, cache, level_count, bodies, body_count, spin,
                 pv, msg, T, out, rest, got, sent>>

\* Mutant of ClearReset: the freed nodes stay in the queue.
ClearResetNever(t) ==
  /\ At(t, "c_reset")
  /\ linked' = <<>>
  /\ Goto(t, "idle")
  /\ UNCHANGED <<level, aba_count, store, pool, spin, locals, got, sent>>

ClearReset(t) ==
  /\ At(t, "c_reset")
  /\ level' = NULL
  /\ linked' = <<>>
  /\ Goto(t, "idle")
  /\ UNCHANGED <<aba_count, store, pool, spin, locals, got, sent>>

Push(t) == \/ PushCall(t) \/ PushFill(t)
           \/ PushLoadAba(t) \/ PushLoadLevel(t) \/ PushCas(t)
Pop(t) == \/ PopCall(t) \/ PopLoadAba(t) \/ PopLoadLevel(t) \/ PopCas(t)
          \/ DrainRead(t)
Malloc(t) == MallocLock(t) \/ MallocTake(t) \/ MallocUnlink(t) \/ MallocUnlock(t)
Free(t) == FreeLock(t) \/ FreeBody(t) \/ FreeLink(t) \/ FreeUnlock(t)
Clear(t) == ClearCall(t) \/ ClearFree(t) \/ ClearReset(t)

Step(t) == Push(t) \/ Pop(t) \/ Malloc(t) \/ Free(t) \/ Clear(t)

Next == \E t \in Threads : Step(t)

Spec == Init /\ [][Next]_vars

\* Every thread that is inside a call keeps running, and the host's idle loop
\* keeps calling pop_msg (CMessageIdleFastLoop::Run).
Fairness == /\ \A t \in Threads : WF_vars(Step(t) /\ ~At(t, "idle"))
            /\ \A t \in Consumers : WF_vars(PopCall(t))
FairSpec == Spec /\ Fairness

-----------------------------------------------------------------------------
(***************************************************************************)
(* Properties.                                                             *)
(***************************************************************************)

Pcs == {"idle", "m_lock", "m_take", "m_unlink", "m_unlock", "p_fill", "p_aba",
        "p_level", "p_cas", "o_aba", "o_level", "o_cas", "d_read", "f_lock",
        "f_body", "f_link", "f_unlock", "c_free", "c_reset"}

Ptr == Nodes \cup {NULL}

\* A thread inside _malloc_node or _free_node holds the spinlock.
InFreeList(t) == pc[t] \in {"m_take", "m_unlink", "m_unlock",
                            "f_body", "f_link", "f_unlock"}

\* At most one thread works on the two free lists, and the lock word is 1
\* exactly while one does: no interleaving of the exchanges of _malloc_node
\* and _free_node lets two in, or leaves the lock taken by nobody.
SpinExclusive ==
  /\ \A t, u \in Threads : InFreeList(t) /\ InFreeList(u) => t = u
  /\ spin = 1 <=> \E t \in Threads : InFreeList(t)

\* _malloc_node and _free_node trust the counters, and dereference the list
\* when they are positive: whenever the lock is free, each counter is the
\* length of its list.
FreeListCounted ==
  spin = 0 => /\ level_count = Len(cache)
              /\ body_count = bodies

\* The nodes a thread has to itself: the one a producer obtained and has not
\* yet queued, and those a consumer detached and has not yet freed.
Mine(t) ==
  (IF pc[t] \in {"m_unlock", "p_fill", "p_aba", "p_level", "p_cas"}
   THEN {kt[t]} ELSE {}) \cup Range(rest[t])

\* Each node is in exactly one place: unallocated, in the cache, in the queue,
\* or in the hands of one thread.  No node is lost by a CAS that raced another,
\* and none is handed out twice by _malloc_node.
NodeOwnedOnce ==
  ~(\E t \in Threads : Clearing(t)) =>
  /\ Nodes = heap \cup Range(cache) \cup Range(linked)
                  \cup UNION {Mine(t) : t \in Threads}
  /\ heap \cap Range(cache) = {}
  /\ Range(linked) \cap (heap \cup Range(cache)) = {}
  /\ \A t \in Threads : Mine(t) \cap (heap \cup Range(cache) \cup Range(linked)) = {}
  /\ \A t, u \in Threads : t # u => Mine(t) \cap Mine(u) = {}
  /\ IsInjective(cache) /\ IsInjective(linked)

\* The level pointers from p spell the list of nodes s.
Spells(p, s) ==
  /\ p = IF s = <<>> THEN NULL ELSE s[1]
  /\ \A i \in 1..Len(s) : next[s[i]] = IF i = Len(s) THEN NULL ELSE s[i + 1]

\* The pointers agree with the history: following m_MsgQueue.level meets the
\* nodes pushed and not yet taken, newest first, and following a drain's
\* cursor meets the nodes it still has to free, whatever other threads push
\* or reuse meanwhile.
ListIntact ==
  ~(\E t \in Threads : Clearing(t)) =>
  /\ Spells(level, linked)
  /\ \A t \in Threads : /\ At(t, "d_read") => Spells(kt[t], rest[t])
                        /\ At(t, "f_unlock") => Spells(pv[t], rest[t])

\* The nodes a thread dereferences in its next step.
Touches(t) ==
  IF pc[t] \in {"m_unlock", "p_fill", "p_level", "d_read", "c_free"}
  THEN {kt[t]} ELSE {}

\* "Thread-Safe DirectKeyboard Message Queue" (line 6 of the header): no
\* thread is about to read or write a node that ClearQueue has given to free(),
\* which takes it from the queue and from every thread that still knows it.
NoUseAfterFree == \A t \in Threads : Touches(t) \cap heap = {}

\* "bSlotSet[3]; // Queue 0-2 low to max." (line 48): what pop_msg returns is
\* in the order in which the events were pushed.
InArrivalOrder ==
  \A c \in Consumers : \A i, j \in 1..Len(got[c]) : i < j => got[c][i] < got[c][j]

\* What is queued is taken: the queue does not stay non-empty for ever.
QueueDrained == (level # NULL) ~> (level = NULL)

\* The events of the nodes of s, first node first, where each carries one.
Contents(s) == [i \in 1..Len(s) |-> dikMsg[s[i]][1]]

\* What the pop in progress has still to look at.
Pending(t) == (IF At(t, "f_unlock") THEN msg[t] ELSE <<>>) \o Contents(rest[t])

\* The events that wait, oldest first, and those a pop in progress will return.
Waiting == Reverse(Contents(linked))
InHand == [c \in Consumers |-> Reverse(Keep(out[c], Pending(c)))]

\* With one event per node the class implements the queue of MsgQueue: a push
\* takes effect at its CAS, a pop takes everything at its CAS and returns the
\* newest Cap events in arrival order, ClearQueue empties it.
Abstract == INSTANCE MsgQueue WITH
              Events <- 1..MaxEvents, queue <- Waiting, hand <- InHand
ImplementsMsgQueue == Abstract!Spec
=============================================================================
