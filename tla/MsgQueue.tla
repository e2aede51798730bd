------------------------------ MODULE MsgQueue ------------------------------
(***************************************************************************)
(* What midi_piano's key-message queue promises its two users, without any *)
(* node, pointer or lock.  Producers put messages; a consumer takes        *)
(* everything that is queued in one step and is later handed the newest    *)
(* Cap of the events it took, oldest first; ClearQueue forgets what is     *)
(* queued.  DikQueue is the code, and implements this.                     *)
(***************************************************************************)
EXTENDS Integers, Sequences, SequencesExt

CONSTANTS Consumers,   \* threads that call pop_msg
          Cap,         \* the *max_count a consumer passes: room in its array
          Events       \* the key events

VARIABLES queue,       \* events not yet taken, oldest first
          hand,        \* per consumer, what the pop in progress will return
          got          \* per consumer, what its last pop returned

vars == <<queue, hand, got>>

\* The newest n elements of s, in the order of s.
Newest(s, n) == SubSeq(s, IF Len(s) > n THEN Len(s) - n + 1 ELSE 1, Len(s))

Init == /\ queue = <<>>
        /\ hand = [c \in Consumers |-> <<>>]
        /\ got = [c \in Consumers |-> <<>>]

Put == /\ \E e \in Events : queue' = Append(queue, e)
       /\ UNCHANGED <<hand, got>>

Take(c) == /\ queue # <<>>
           /\ hand[c] = <<>>
           /\ hand' = [hand EXCEPT ![c] = Newest(queue, Cap)]
           /\ queue' = <<>>
           /\ UNCHANGED got

Return(c) == /\ hand[c] # <<>>
             /\ got' = [got EXCEPT ![c] = hand[c]]
             /\ hand' = [hand EXCEPT ![c] = <<>>]
             /\ UNCHANGED queue

ReturnEmpty(c) == /\ queue = <<>>
                  /\ hand[c] = <<>>
                  /\ got' = [got EXCEPT ![c] = <<>>]
                  /\ UNCHANGED <<queue, hand>>

Clear == /\ queue' = <<>>
         /\ UNCHANGED <<hand, got>>

Next == \/ Put
        \/ Clear
        \/ \E c \in Consumers : Take(c) \/ Return(c) \/ ReturnEmpty(c)

Spec == Init /\ [][Next]_vars
=============================================================================
