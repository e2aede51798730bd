--------------------------- MODULE KeyboardProofs ---------------------------
(***************************************************************************)
(* Proofs about Keyboard, for any keys, places, octaves, offsets and size  *)
(* of the device's buffer.                                                 *)
(*                                                                         *)
(* What keeps a note from sounding for ever is that its release is still   *)
(* to come: the key of every note that sounds, and of every press on its   *)
(* way, is down or has a release behind it (WillEnd).                      *)
(***************************************************************************)
EXTENDS Keyboard, TLAPS

Event == [key : Keys \cup OctaveKeys, press : BOOLEAN]

TypeInv ==
  /\ held \subseteq Keys \cup OctaveKeys
  /\ didod \in Seq(Event) /\ buf \in Seq(Event)
  /\ acquired \in BOOLEAN /\ active \in BOOLEAN /\ adrift \in BOOLEAN
  /\ player \in {"poll", "key", "send", "noise"}
  /\ window \in {"idle", "edited", "noise"}

\* A release of k lies in s behind place i.
Ends(s, k, i) ==
  \E j \in 1..Len(s) : j > i /\ IsRelease(s[j]) /\ s[j].key = k

\* k is down, or a release of it is still to come: from the device, or behind
\* place i of what was polled.
WillEnd(down, later, polled, k, i) ==
  k \in down \/ Ends(later, k, 0) \/ Ends(polled, k, i)

\* Where the player is in what it has polled, and what it is about to send.
PlayerInv ==
  /\ player \in {"poll", "noise"} <=> buf = <<>>
  /\ player = "send" =>
       /\ Head(buf).key \in Keys
       /\ mixout.on = Head(buf).press
       /\ \/ adrift
          \/ mixout.note = Note(Head(buf).key)
          \/ ~mixout.on /\ (window = "edited" \/ sounding = {})
  /\ ~active => sounding = {}

IsPress(e) == e.key \in Keys /\ e.press

\* Every press on its way has its release behind it, or its key is down.
PressInv ==
  /\ \A i \in 1..Len(buf) : IsPress(buf[i]) => WillEnd(held, didod, buf, buf[i].key, i)
  /\ \A i \in 1..Len(didod) :
       IsPress(didod[i]) => didod[i].key \in held \/ Ends(didod, didod[i].key, i)

\* Every note that sounds is that of a key whose release is to come.
NoteInv == \A n \in sounding : \E k \in Keys : n = Note(k) /\ WillEnd(held, didod, buf, k, 0)

SilentInv ==
  /\ TypeInv
  /\ PlayerInv
  /\ ~adrift => PressInv
  /\ ~adrift /\ window # "edited" => NoteInv

-----------------------------------------------------------------------------
LEMMA TailPlaces ==
  ASSUME NEW s \in Seq(Event), s # <<>>
  PROVE  /\ Tail(s) \in Seq(Event)
         /\ Len(Tail(s)) = Len(s) - 1 /\ Len(s) >= 1
         /\ \A i \in 1..Len(s) - 1 : Tail(s)[i] = s[i + 1]
         /\ Head(s) = s[1] /\ s[1] \in Event
OBVIOUS

LEMMA EmptyLen == ASSUME NEW s \in Seq(Event) PROVE Len(s) = 0 <=> s = <<>>
OBVIOUS

LEMMA AppendPlaces ==
  ASSUME NEW s \in Seq(Event), NEW e \in Event
  PROVE  /\ Append(s, e) \in Seq(Event)
         /\ Len(Append(s, e)) = Len(s) + 1
         /\ \A i \in 1..Len(s) : Append(s, e)[i] = s[i]
         /\ Append(s, e)[Len(s) + 1] = e
OBVIOUS

\* What ends in a sequence ends in it when it grows, and in its tail unless it
\* ended in its head.
LEMMA EndsInAppend ==
  ASSUME NEW s \in Seq(Event), NEW e \in Event, NEW k, NEW i \in Nat, Ends(s, k, i)
  PROVE  Ends(Append(s, e), k, i)
BY AppendPlaces DEF Ends

LEMMA EndsAtLast ==
  ASSUME NEW s \in Seq(Event), NEW e \in Event, IsRelease(e), NEW i \in 0..Len(s)
  PROVE  Ends(Append(s, e), e.key, i)
<1>1. Len(s) + 1 \in 1..Len(Append(s, e)) /\ Len(s) + 1 > i
  BY AppendPlaces
<1> QED BY <1>1, AppendPlaces DEF Ends

LEMMA EndsInTail ==
  ASSUME NEW s \in Seq(Event), s # <<>>, NEW k, NEW i \in Nat,
         Ends(s, k, i), i >= 1 \/ ~IsRelease(Head(s)) \/ Head(s).key # k
  PROVE  Ends(Tail(s), k, IF i = 0 THEN 0 ELSE i - 1)
<1>1. PICK j \in 1..Len(s) : j > i /\ IsRelease(s[j]) /\ s[j].key = k
  BY DEF Ends
<1>2. j # 1
  BY <1>1, TailPlaces
<1>3. /\ j - 1 \in 1..Len(Tail(s))
      /\ Tail(s)[j - 1] = s[j]
      /\ j - 1 > IF i = 0 THEN 0 ELSE i - 1
  BY <1>1, <1>2, TailPlaces
<1> QED BY <1>1, <1>3 DEF Ends

LEMMA NothingEndsInEmpty ==
  ASSUME NEW k, NEW i
  PROVE  ~Ends(<<>>, k, i)
BY DEF Ends

-----------------------------------------------------------------------------
(***************************************************************************)
(* One lemma for each kind of step.                                        *)
(***************************************************************************)

LEMMA InitSilent == Init => SilentInv
<1> SUFFICES ASSUME Init PROVE SilentInv
  OBVIOUS
<1>1. <<>> \in Seq(Event)
  OBVIOUS
<1>2. TypeInv
  BY <1>1 DEF Init, TypeInv
<1> QED BY <1>2 DEF Init, SilentInv, PlayerInv, PressInv, NoteInv

\* A key moves: an event is delivered, or adrift says so.
LEMMA KeyMoves ==
  ASSUME SilentInv, NEW e \in Event, Deliver(e),
         held' \subseteq Keys \cup OctaveKeys,
         \A k \in held \cap Keys : k \in held' \/ (IsRelease(e) /\ e.key = k),
         IsPress(e) => e.key \in held',
         UNCHANGED <<acquired, playerVars, windowVars, port>>
  PROVE  SilentInv'
<1> USE DEF SilentInv
<1>1. /\ didod' \in Seq(Event) /\ adrift' \in BOOLEAN /\ (adrift => adrift')
      /\ \/ didod' = Append(didod, e)
         \/ didod' = didod /\ (IsRelease(e) => adrift')
  BY AppendPlaces DEF Deliver, TypeInv
<1>2. TypeInv' /\ PlayerInv'
  BY <1>1 DEF TypeInv, PlayerInv, playerVars, windowVars, port, Note
<1>3. ASSUME ~adrift', NEW k \in Keys, NEW i \in 0..Len(didod),
             k \in held \/ Ends(didod, k, i)
      PROVE  k \in held' \/ Ends(didod', k, i)
  <2>1. CASE Ends(didod, k, i)
    <3>1. i \in Nat
      BY DEF TypeInv
    <3> QED BY <1>1, <2>1, <3>1, EndsInAppend DEF TypeInv
  <2>2. CASE k \in held
    <3>1. CASE IsRelease(e) /\ e.key = k
      BY <1>1, <1>3, <3>1, EndsAtLast DEF TypeInv
    <3> QED BY <2>2, <3>1
  <2> QED BY <1>3, <2>1, <2>2
<1>4. ASSUME ~adrift', NEW k \in Keys, NEW i \in Nat,
             WillEnd(held, didod, buf, k, i)
      PROVE  WillEnd(held', didod', buf', k, i)
  BY <1>3, <1>4 DEF WillEnd, playerVars, TypeInv
<1>5. ~adrift' => PressInv'
  <2> SUFFICES ASSUME ~adrift' PROVE PressInv'
    OBVIOUS
  <2>1. PressInv
    BY <1>1 DEF TypeInv
  <2>2. ASSUME NEW i \in 1..Len(buf'), IsPress(buf'[i])
        PROVE  WillEnd(held', didod', buf', buf'[i].key, i)
    BY <1>4, <2>1, <2>2 DEF PressInv, IsPress, playerVars
  <2>3. ASSUME NEW i \in 1..Len(didod'), IsPress(didod'[i])
        PROVE  didod'[i].key \in held' \/ Ends(didod', didod'[i].key, i)
    <3>1. CASE i \in 1..Len(didod)
      <4>1. didod'[i] = didod[i]
        BY <1>1, <3>1, AppendPlaces DEF TypeInv
      <4> QED BY <1>3, <2>1, <2>3, <3>1, <4>1 DEF PressInv, IsPress
    <3>2. CASE i \notin 1..Len(didod)
      BY <1>1, <2>3, <3>2, AppendPlaces DEF TypeInv
    <3> QED BY <3>1, <3>2
  <2> QED BY <2>2, <2>3 DEF PressInv
<1>6. ~adrift' /\ window' # "edited" => NoteInv'
  <2> SUFFICES ASSUME ~adrift', window # "edited" PROVE NoteInv'
    BY DEF windowVars
  <2>1. NoteInv
    BY <1>1 DEF TypeInv
  <2>2. \A k \in Keys : Note(k)' = Note(k)
    BY DEF Note, playerVars, windowVars
  <2> QED BY <1>4, <2>1, <2>2 DEF NoteInv, port
<1> QED BY <1>2, <1>5, <1>6

LEMMA UserSilent == ASSUME SilentInv, NEW k \in Keys \cup OctaveKeys,
                           Press(k) \/ Release(k)
                    PROVE  SilentInv'
<1>1. CASE Press(k)
  <2>1. [key |-> k, press |-> TRUE] \in Event
    BY DEF Event
  <2>2. held \subseteq held' /\ k \in held' /\ held' \subseteq Keys \cup OctaveKeys
    BY <1>1 DEF Press, SilentInv, TypeInv
  <2> QED BY <1>1, <2>1, <2>2, KeyMoves DEF Press
<1>2. CASE Release(k)
  <2>1. [key |-> k, press |-> FALSE] \in Event
    BY DEF Event
  <2>2. \A j \in held \cap Keys :
          j \in held' \/ (IsRelease([key |-> k, press |-> FALSE]) /\ k = j)
    BY <1>2 DEF Release, IsRelease
  <2>3. held' \subseteq Keys \cup OctaveKeys /\ ~IsPress([key |-> k, press |-> FALSE])
    BY <1>2 DEF Release, SilentInv, TypeInv, IsPress
  <2> QED BY <1>2, <2>1, <2>2, <2>3, KeyMoves DEF Release
<1> QED BY <1>1, <1>2

\* The device lets go: no release was in it, or adrift says so.
LEMMA LoseSilent ==
  ASSUME SilentInv, LoseDevice, UNCHANGED <<held, playerVars, windowVars, port>>
  PROVE  SilentInv'
<1> USE DEF SilentInv
<1>1. <<>> \in Seq(Event)
  OBVIOUS
<1>2. TypeInv' /\ PlayerInv'
  BY <1>1 DEF TypeInv, PlayerInv, LoseDevice, playerVars, windowVars, port, Note
<1>3. ASSUME ~adrift', NEW k, NEW i, WillEnd(held, didod, buf, k, i)
      PROVE  WillEnd(held', didod', buf', k, i)
  <2>1. ~Ends(didod, k, 0)
    <3>1. ~\E j \in DOMAIN didod : IsRelease(didod[j])
      BY <1>3 DEF LoseDevice
    <3>2. DOMAIN didod = 1..Len(didod)
      BY DEF TypeInv
    <3> QED BY <3>1, <3>2 DEF Ends
  <2> QED BY <1>3, <2>1 DEF WillEnd, playerVars
<1>4. ~adrift' => ~adrift
  BY DEF LoseDevice
<1>5. ~adrift' => PressInv'
  BY <1>3, <1>4 DEF PressInv, IsPress, LoseDevice, playerVars
<1>6. ~adrift' /\ window' # "edited" => NoteInv'
  <2>1. \A k \in Keys : Note(k)' = Note(k)
    BY DEF Note, playerVars, windowVars
  <2> QED BY <1>3, <1>4, <2>1 DEF NoteInv, port, windowVars
<1> QED BY <1>2, <1>5, <1>6

LEMMA ChangeFocusSilent == ASSUME SilentInv, ChangeFocus PROVE SilentInv'
<1>1. CASE LoseDevice
  BY <1>1, LoseSilent DEF ChangeFocus
<1>2. CASE UNCHANGED <<didod, acquired, adrift>>
  BY <1>2 DEF ChangeFocus, SilentInv, TypeInv, PlayerInv, PressInv, NoteInv,
              WillEnd, playerVars, windowVars, port, Note
<1> QED BY <1>1, <1>2 DEF ChangeFocus

LEMMA ResetSilent ==
  ASSUME SilentInv, NEW t, resetPlayType(t) PROVE SilentInv'
BY LoseSilent DEF resetPlayType

\* What the device had is now what was polled.
LEMMA PollSilent == ASSUME SilentInv, PollBufferFor_BufferMode PROVE SilentInv'
<1> USE DEF SilentInv, PollBufferFor_BufferMode
<1>0. <<>> \in Seq(Event)
  OBVIOUS
<1>1. buf = <<>>
  BY DEF PlayerInv
<1>2. \A k \in Keys : Note(k)' = Note(k)
  BY DEF Note, windowVars
<1>3. CASE ~acquired
  BY <1>2, <1>3 DEF TypeInv, PlayerInv, PressInv, NoteInv, windowVars, port
<1>4. CASE acquired
  <2>1. TypeInv'
    BY <1>0, <1>4 DEF TypeInv, windowVars, port
  <2>2. PlayerInv'
    BY <1>4, <2>1 DEF PlayerInv, TypeInv, windowVars, port
  <2>3. \A k : WillEnd(held, didod, buf, k, 0) => WillEnd(held', didod', buf', k, 0)
    BY <1>1, <1>4, NothingEndsInEmpty DEF WillEnd
  <2>4. ~adrift' => PressInv'
    BY <1>4 DEF PressInv, IsPress, WillEnd
  <2>5. ~adrift' /\ window' # "edited" => NoteInv'
    BY <1>2, <2>3 DEF NoteInv, windowVars, port
  <2> QED BY <2>1, <2>2, <2>4, <2>5
<1> QED BY <1>3, <1>4

\* The head of what was polled is done with: a note of another key, or any
\* note if it was no release, still has its release to come.
LEMMA NextEventKeeps ==
  ASSUME TypeInv, buf # <<>>, NextEvent, UNCHANGED <<held, didod>>
  PROVE  /\ buf' \in Seq(Event)
         /\ player' \in {"poll", "key"} /\ (player' = "poll" <=> buf' = <<>>)
         /\ \A k : WillEnd(held, didod, buf, k, 1)
                  => WillEnd(held', didod', buf', k, 0)
         /\ \A k : WillEnd(held, didod, buf, k, 0)
                  => \/ WillEnd(held', didod', buf', k, 0)
                     \/ IsRelease(Head(buf)) /\ Head(buf).key = k
         /\ PressInv => PressInv'
<1>1. buf' \in Seq(Event)
  BY TailPlaces DEF NextEvent, TypeInv
<1>2. player' \in {"poll", "key"} /\ (player' = "poll" <=> buf' = <<>>)
  <2>1. Len(buf) = 1 <=> Len(Tail(buf)) = 0
    BY TailPlaces DEF TypeInv
  <2>2. Len(Tail(buf)) = 0 <=> Tail(buf) = <<>>
    BY <1>1, EmptyLen DEF NextEvent
  <2> QED BY <2>1, <2>2 DEF NextEvent
<1>3. ASSUME NEW k, NEW i \in Nat, WillEnd(held, didod, buf, k, i + 1)
      PROVE  WillEnd(held', didod', buf', k, i)
  <2>1. Ends(buf, k, i + 1) => Ends(Tail(buf), k, i)
    BY EndsInTail DEF TypeInv
  <2> QED BY <1>3, <2>1 DEF WillEnd, NextEvent
<1>4. ASSUME NEW k, WillEnd(held, didod, buf, k, 0),
             ~IsRelease(Head(buf)) \/ Head(buf).key # k
      PROVE  WillEnd(held', didod', buf', k, 0)
  <2>1. Ends(buf, k, 0) => Ends(Tail(buf), k, 0)
    BY <1>4, EndsInTail DEF TypeInv
  <2> QED BY <1>4, <2>1 DEF WillEnd, NextEvent
<1>5. ASSUME PressInv PROVE PressInv'
  <2>1. ASSUME NEW i \in 1..Len(buf'), IsPress(buf'[i])
        PROVE  WillEnd(held', didod', buf', buf'[i].key, i)
    <3>1. i \in Nat /\ i + 1 \in 1..Len(buf) /\ buf'[i] = buf[i + 1]
      BY TailPlaces DEF NextEvent, TypeInv
    <3> QED BY <1>3, <1>5, <2>1, <3>1 DEF PressInv
  <2> QED BY <1>5, <2>1 DEF PressInv
<1>6. ASSUME NEW k, WillEnd(held, didod, buf, k, 1)
      PROVE  WillEnd(held', didod', buf', k, 0)
  <2>1. Ends(buf, k, 1) => Ends(Tail(buf), k, 0)
    BY EndsInTail DEF TypeInv
  <2> QED BY <1>6, <2>1 DEF WillEnd, NextEvent
<1> QED BY <1>1, <1>2, <1>4, <1>5, <1>6

LEMMA OctaveSilent == ASSUME SilentInv, AdjustOctave PROVE SilentInv'
<1> USE DEF SilentInv
<1>1. buf # <<>> /\ TypeInv /\ player = "key"
  BY DEF AdjustOctave, PlayerInv
<1>2. NextEvent /\ UNCHANGED <<held, didod>> /\ Head(buf).key \notin Keys
  BY KeyboardAssumption DEF AdjustOctave, device
<1>3. adrift' \in BOOLEAN /\ (~adrift' => ~adrift)
  BY DEF AdjustOctave, TypeInv
<1>4. TypeInv'
  BY <1>1, <1>2, <1>3, NextEventKeeps DEF AdjustOctave, TypeInv, device, windowVars, port
<1>5. PlayerInv'
  BY <1>1, <1>2, NextEventKeeps DEF AdjustOctave, PlayerInv, port
<1>6. ~adrift' => PressInv'
  BY <1>1, <1>2, <1>3, NextEventKeeps
<1>7. ~adrift' /\ window' # "edited" => NoteInv'
  <2> SUFFICES ASSUME ~adrift', window # "edited" PROVE NoteInv'
    BY DEF AdjustOctave, windowVars
  <2>1. CASE sounding = {}
    BY <2>1 DEF NoteInv, AdjustOctave, port
  <2>2. CASE sounding # {}
    <3>1. m_dwOctaveMiddle' = m_dwOctaveMiddle
      BY <2>2 DEF AdjustOctave
    <3>2. \A k \in Keys : Note(k)' = Note(k)
      BY <3>1 DEF Note, AdjustOctave, windowVars
    <3>3. \A k \in Keys : WillEnd(held, didod, buf, k, 0)
                        => WillEnd(held', didod', buf', k, 0)
      BY <1>1, <1>2, NextEventKeeps
    <3> QED BY <1>3, <3>2, <3>3 DEF NoteInv, AdjustOctave, port
  <2> QED BY <2>1, <2>2
<1> QED BY <1>4, <1>5, <1>6, <1>7

LEMMA ProcessSilent == ASSUME SilentInv, ProcessKey PROVE SilentInv'
<1> USE DEF SilentInv, ProcessKey
<1>1. buf # <<>> /\ \A k \in Keys : Note(k)' = Note(k)
  BY DEF PlayerInv, Note, windowVars
<1>2. TypeInv'
  BY DEF TypeInv, device, windowVars, port
<1>3. PlayerInv'
  BY <1>1 DEF PlayerInv, windowVars, port
<1>4. (~adrift' => PressInv') /\ (~adrift' /\ window' # "edited" => NoteInv')
  BY <1>1 DEF PressInv, NoteInv, device, windowVars, port
<1> QED BY <1>2, <1>3, <1>4

\* A note on joins the notes whose release is to come; a note off takes its
\* note, and all the others are those of other keys.
LEMMA SendSilent == ASSUME SilentInv, SendMidiMsg PROVE SilentInv'
<1> USE DEF SilentInv
<1> DEFINE k0 == Head(buf).key
<1>1. /\ buf # <<>> /\ TypeInv /\ player = "send"
      /\ k0 \in Keys /\ mixout.on = Head(buf).press
      /\ Head(buf) \in Event
  BY TailPlaces DEF SendMidiMsg, PlayerInv, TypeInv
<1>2. NextEvent /\ UNCHANGED <<held, didod>>
  BY DEF SendMidiMsg, device
<1>3. TypeInv'
  BY <1>1, <1>2, NextEventKeeps DEF SendMidiMsg, TypeInv, device, windowVars
<1>4. PlayerInv'
  BY <1>1, <1>2, NextEventKeeps DEF SendMidiMsg, PlayerInv
<1>5. ~adrift' => PressInv'
  BY <1>1, <1>2, NextEventKeeps DEF SendMidiMsg
<1>6. ~adrift' /\ window' # "edited" => NoteInv'
  <2> SUFFICES ASSUME ~adrift, window # "edited", NEW n \in sounding'
               PROVE  \E k \in Keys : n = Note(k) /\ WillEnd(held', didod', buf', k, 0)
    <3>1. \A k \in Keys : Note(k)' = Note(k)
      BY DEF Note, SendMidiMsg, windowVars
    <3> QED BY <3>1 DEF NoteInv, SendMidiMsg, windowVars
  <2>1. PressInv /\ NoteInv
    OBVIOUS
  <2>2. CASE mixout.on
    <3>1. mixout.note = Note(k0) /\ ~IsRelease(Head(buf)) /\ IsPress(Head(buf))
      BY <1>1, <2>2 DEF PlayerInv, IsRelease, IsPress
    <3>2. CASE n \in sounding
      BY <1>1, <1>2, <2>1, <3>1, <3>2, NextEventKeeps DEF NoteInv
    <3>3. CASE n = mixout.note
      <4>1. Head(buf) = buf[1] /\ 1 \in 1..Len(buf)
        BY <1>1, TailPlaces
      <4>2. WillEnd(held, didod, buf, k0, 1)
        BY <2>1, <3>1, <4>1 DEF PressInv
      <4>3. WillEnd(held', didod', buf', k0, 0)
        BY <1>1, <1>2, <4>2, NextEventKeeps
      <4> QED BY <1>1, <3>1, <3>3, <4>3
    <3> QED BY <2>2, <3>2, <3>3 DEF SendMidiMsg
  <2>3. CASE ~mixout.on
    <3>1. n \in sounding /\ n # mixout.note /\ mixout.note = Note(k0)
      BY <1>1, <2>3 DEF PlayerInv, SendMidiMsg
    <3>2. PICK k \in Keys : n = Note(k) /\ WillEnd(held, didod, buf, k, 0)
      BY <2>1, <3>1 DEF NoteInv
    <3> QED BY <1>1, <1>2, <3>1, <3>2, NextEventKeeps
  <2> QED BY <2>2, <2>3
<1> QED BY <1>3, <1>4, <1>5, <1>6

\* The port is stopped.  adrift ends only when nothing is on its way.
LEMMA DeactivateSilent ==
  ASSUME SilentInv, Deactivate,
         UNCHANGED <<held, acquired, didod, buf, mixout, m_dwOctaveMiddle, OffsetNote>>,
         UNCHANGED player \/ (player = "poll" /\ player' = "noise"),
         window' \in {"idle", "edited", "noise"}
  PROVE  SilentInv'
<1> USE DEF SilentInv, Deactivate
<1>1. TypeInv'
  BY DEF TypeInv
<1>2. PlayerInv'
  BY DEF PlayerInv, Note, Settled
<1>3. ~adrift' => PressInv'
  <2>1. CASE ~adrift
    BY <2>1 DEF PressInv
  <2>2. CASE Settled
    <3>1. 1..Len(buf') = {} /\ 1..Len(didod') = {}
      BY <2>2 DEF Settled
    <3> QED BY <3>1 DEF PressInv
  <2> QED BY <2>1, <2>2 DEF TypeInv
<1> QED BY <1>1, <1>2, <1>3 DEF NoteInv

\* The port starts, and is as silent as before.
LEMMA ActivateSilent ==
  ASSUME SilentInv, active' = TRUE,
         UNCHANGED <<held, acquired, didod, buf, mixout, m_dwOctaveMiddle, OffsetNote,
                     sounding, adrift>>,
         \/ UNCHANGED <<player, window>>
         \/ player = "noise" /\ player' = "poll" /\ UNCHANGED window
         \/ window = "noise" /\ window' = "idle" /\ UNCHANGED player
  PROVE  SilentInv'
<1> USE DEF SilentInv
<1>1. TypeInv'
  BY DEF TypeInv
<1>2. PlayerInv'
  BY DEF PlayerInv, Note
<1>3. (~adrift' => PressInv') /\ (~adrift' /\ window' # "edited" => NoteInv')
  BY DEF PressInv, NoteInv, Note
<1> QED BY <1>1, <1>2, <1>3

LEMMA EditSilent ==
  ASSUME SilentInv, NEW offset, OnCommandEditEnter(offset) PROVE SilentInv'
<1> USE DEF SilentInv, OnCommandEditEnter
<1>1. TypeInv'
  BY DEF TypeInv, device, playerVars, port
<1>2. PlayerInv'
  BY DEF PlayerInv, playerVars, port, TypeInv
<1>3. ~adrift' => PressInv'
  BY DEF PressInv, device, playerVars
<1> QED BY <1>1, <1>2, <1>3

LEMMA StutterSilent == ASSUME SilentInv, UNCHANGED vars PROVE SilentInv'
BY DEF SilentInv, TypeInv, PlayerInv, PressInv, NoteInv, Note, vars, device,
       playerVars, windowVars, port

LEMMA NextSilent == ASSUME SilentInv, [Next]_vars PROVE SilentInv'
<1>1. CASE \E k \in Keys \cup OctaveKeys : Press(k) \/ Release(k)
  BY <1>1, UserSilent
<1>2. CASE ChangeFocus
  BY <1>2, ChangeFocusSilent
<1>3. CASE PollBufferFor_BufferMode
  BY <1>3, PollSilent
<1>4. CASE AdjustOctave
  BY <1>4, OctaveSilent
<1>5. CASE ProcessKey
  BY <1>5, ProcessSilent
<1>6. CASE SendMidiMsg
  BY <1>6, SendSilent
<1>7. CASE \E t \in {"FOREGROUND", "BACKGROUND"} : resetPlayType(t)
  BY <1>7, ResetSilent
<1>8. CASE \E offset \in Offsets : OnCommandEditEnter(offset)
  BY <1>8, EditSilent
<1>9. CASE PlayerClearNoise
  BY <1>9, DeactivateSilent DEF PlayerClearNoise, device, windowVars, SilentInv, TypeInv
<1>10. CASE ClearNoise
  BY <1>10, DeactivateSilent DEF ClearNoise, device, playerVars
<1>11. CASE PlayerClearNoiseEnd
  BY <1>11, ActivateSilent DEF PlayerClearNoiseEnd, device, windowVars
<1>12. CASE ClearNoiseEnd
  BY <1>12, ActivateSilent DEF ClearNoiseEnd, device, playerVars
<1>13. CASE UNCHANGED vars
  BY <1>13, StutterSilent
<1> QED BY <1>1, <1>2, <1>3, <1>4, <1>5, <1>6, <1>7, <1>8, <1>9, <1>10, <1>11,
           <1>12, <1>13 DEF Next, User, Player, Window, WindowGoesOn

\* Between two rounds nothing polled is left: with no key down and nothing in
\* the device no release is to come, so by NoteInv no note can sound.
LEMMA SilentFollows == SilentInv => SilentWhenLetGo
<1> SUFFICES ASSUME SilentInv, held = {}, didod = <<>>, player = "poll",
                    window = "idle", ~adrift
             PROVE  sounding = {}
  BY DEF SilentWhenLetGo
<1>1. buf = <<>>
  BY DEF SilentInv, PlayerInv
<1>2. \A k : ~WillEnd(held, didod, buf, k, 0)
  BY <1>1, NothingEndsInEmpty DEF WillEnd
<1> QED BY <1>2 DEF SilentInv, NoteInv

(* When all keys are up and the player has seen it, nothing sounds, for    *)
(* any keys, octaves and offsets and any buffer of the device: ProcessKey  *)
(* names at the release the note it named at the press, until adrift says  *)
(* otherwise.                                                              *)
THEOREM SilentCorrect == Spec => []SilentWhenLetGo
<1>1. Init => SilentInv
  BY InitSilent
<1>2. SilentInv /\ [Next]_vars => SilentInv'
  BY NextSilent
<1> QED BY <1>1, <1>2, SilentFollows, PTL DEF Spec
=============================================================================
