------------------------------ MODULE Keyboard ------------------------------
(***************************************************************************)
(* The keyboard of midi_piano: from the keys to the notes that sound.      *)
(*                                                                         *)
(* The player thread polls the buffer of the device (CDirectInput) and     *)
(* sends a MIDI message for every event of a piano key (ProcessKey in      *)
(* CPlayerThread).  The message names a note, not a key: the note is       *)
(* worked out anew at the release, from the octave and the offset of that  *)
(* moment.  The window thread sets the offset, and stops and starts the    *)
(* port, while the player is at work.                                      *)
(*                                                                         *)
(* What the player pushes on the queue of the window, and records, is in   *)
(* DikQueue, MidiPiano and EpsFile.                                        *)
(*                                                                         *)
(* The device is external: it buffers what happens to the keys while it is *)
(* acquired, drops what does not fit, and loses the buffer with the focus  *)
(* in the foreground level.  So is the port: stopped, it is silent and     *)
(* refuses messages, and nobody looks at the refusal.                      *)
(*                                                                         *)
(* adrift is history: some note may sound whose release will not come.     *)
(***************************************************************************)
EXTENDS Integers, Sequences, SequencesExt

CONSTANTS
  Keys,                \* the piano keys, and
  midi_pos,            \* their places in keyboard_mapper
  OctaveKeys,          \* F1 to F12, and
  octave_mid,          \* the octave of each
  Offsets,             \* what the user enters for OffsetNote
  sm_buffer_nums       \* events the device keeps (12)

ASSUME KeyboardAssumption ==
  /\ midi_pos \in [Keys -> Int] /\ octave_mid \in [OctaveKeys -> Nat]
  /\ Keys \cap OctaveKeys = {}
  /\ Offsets \subseteq 0 .. 255
  /\ sm_buffer_nums \in Nat \ {0}

VARIABLES
  held, focus,         \* the keys that are down; the window has the focus
  didod, acquired,     \* the device: its buffer, and whether it is acquired
  level,               \* the cooperative level it was made with
  player, buf, mixout, \* the player: where it is, the rest of the events it
                       \* polled, and the message it is about to send
  m_dwOctaveMiddle,
  window, OffsetNote,  \* the window thread: where it is
  active, sounding,    \* the port, and the notes that sound
  adrift

device == <<didod, acquired, level>>
playerVars == <<player, buf, mixout, m_dwOctaveMiddle>>
windowVars == <<window, OffsetNote>>
port == <<active, sounding>>
vars == <<held, focus, device, playerVars, windowVars, port, adrift>>

NoMessage == [on |-> FALSE, note |-> -1]

\* InitDeviceKeyboard in the foreground level, Init, and the port activated.
Init ==
  /\ held = {} /\ focus \in BOOLEAN
  /\ didod = <<>> /\ acquired = FALSE /\ level = "FOREGROUND"
  /\ player = "poll" /\ buf = <<>> /\ mixout = NoMessage
  /\ m_dwOctaveMiddle = 7
  /\ window = "idle" /\ OffsetNote = 0
  /\ active = TRUE /\ sounding = {}
  /\ adrift = FALSE

(***************************************************************************)
(* The user and the device                                                 *)
(***************************************************************************)
IsRelease(e) == e.key \in Keys /\ ~e.press

\* What happens to a key: an event, if the device is acquired and has room.
Deliver(e) ==
  IF acquired /\ Len(didod) < sm_buffer_nums
  THEN didod' = Append(didod, e) /\ UNCHANGED adrift
  ELSE adrift' = (adrift \/ IsRelease(e)) /\ UNCHANGED didod

Press(k) ==
  /\ k \notin held
  /\ held' = held \cup {k}
  /\ Deliver([key |-> k, press |-> TRUE])
  /\ UNCHANGED <<focus, acquired, level, playerVars, windowVars, port>>

Release(k) ==
  /\ k \in held
  /\ held' = held \ {k}
  /\ Deliver([key |-> k, press |-> FALSE])
  /\ UNCHANGED <<focus, acquired, level, playerVars, windowVars, port>>

\* The device lets go, and what it has buffered is gone.
LoseDevice ==
  /\ acquired' = FALSE
  /\ didod' = <<>>
  /\ adrift' = (adrift \/ \E i \in DOMAIN didod : IsRelease(didod[i]))

ChangeFocus ==
  /\ focus' = ~focus
  /\ IF focus /\ level = "FOREGROUND" THEN LoseDevice
                                      ELSE UNCHANGED <<didod, acquired, adrift>>
  /\ UNCHANGED <<held, level, playerVars, windowVars, port>>

(***************************************************************************)
(* The player thread                                                       *)
(***************************************************************************)
\* Mutant of PollBufferFor_BufferMode: the last event stays in the device.
PollBufferAllButLast ==
  /\ player = "poll"
  /\ IF acquired
     THEN /\ buf' = IF Len(didod) < 2 THEN <<>> ELSE Front(didod)
          /\ didod' = IF Len(didod) < 2 THEN didod ELSE <<Last(didod)>>
          /\ player' = IF Len(didod) < 2 THEN "poll" ELSE "key"
          /\ UNCHANGED acquired
     ELSE /\ acquired' = (focus \/ level = "BACKGROUND")
          /\ UNCHANGED <<buf, didod, player>>
  /\ UNCHANGED <<held, focus, level, mixout, m_dwOctaveMiddle, windowVars, port, adrift>>

\* All that is buffered; a device that is not acquired is acquired first, and
\* has nothing then.
PollBufferFor_BufferMode ==
  /\ player = "poll"
  /\ IF acquired
     THEN /\ buf' = didod
          /\ didod' = <<>>
          /\ player' = IF didod = <<>> THEN "poll" ELSE "key"
          /\ UNCHANGED acquired
     ELSE /\ acquired' = (focus \/ level = "BACKGROUND")
          /\ UNCHANGED <<buf, didod, player>>
  /\ UNCHANGED <<held, focus, level, mixout, m_dwOctaveMiddle, windowVars, port, adrift>>

Note(k) == (m_dwOctaveMiddle * 12 + midi_pos[k] + OffsetNote) % 128

\* The loop of do_play, for one event; the last one ends the round.
NextEvent == buf' = Tail(buf) /\ player' = IF Len(buf) = 1 THEN "poll" ELSE "key"

\* An octave key: its release does nothing.
AdjustOctave ==
  /\ player = "key"
  /\ LET e == Head(buf)
     IN  /\ e.key \in OctaveKeys
         /\ IF e.press
            THEN /\ m_dwOctaveMiddle' = octave_mid[e.key]
                 /\ adrift' = \/ adrift
                               \/ /\ sounding # {}
                                  /\ m_dwOctaveMiddle' # m_dwOctaveMiddle
            ELSE UNCHANGED <<m_dwOctaveMiddle, adrift>>
  /\ NextEvent
  /\ UNCHANGED <<held, focus, device, mixout, windowVars, port>>

\* A piano key, up to the call of SendMidiMsg.
ProcessKey ==
  /\ player = "key"
  /\ LET e == Head(buf)
     IN  /\ e.key \in Keys
         /\ mixout' = [on |-> e.press, note |-> Note(e.key)]
  /\ player' = "send"
  /\ UNCHANGED <<held, focus, device, buf, m_dwOctaveMiddle, windowVars, port, adrift>>

SendMidiMsg ==
  /\ player = "send"
  /\ sounding' = IF ~active THEN sounding
                 ELSE IF mixout.on THEN sounding \cup {mixout.note}
                 ELSE sounding \ {mixout.note}
  /\ mixout' = NoMessage
  /\ NextEvent
  /\ UNCHANGED <<held, focus, device, m_dwOctaveMiddle, windowVars, active, adrift>>

\* SetPlayForeground and SetPlayBackground, served between two rounds while
\* the window thread waits: the device is made anew.
resetPlayType(t) ==
  /\ player = "poll" /\ window = "idle"
  /\ level' = t
  /\ LoseDevice
  /\ UNCHANGED <<held, focus, playerVars, windowVars, port>>

(***************************************************************************)
(* The port                                                                *)
(***************************************************************************)
\* Nothing the keyboard has said is on its way to the port.
Settled == player # "send" /\ didod = <<>> /\ buf = <<>>

Deactivate ==
  /\ active' = FALSE /\ sounding' = {}
  /\ adrift' = (adrift /\ ~Settled)

\* The ClearNoise of the player, after a resume_.
PlayerClearNoise ==
  /\ player = "poll"
  /\ player' = "noise"
  /\ Deactivate
  /\ UNCHANGED <<held, focus, device, buf, mixout, m_dwOctaveMiddle, windowVars>>
PlayerClearNoiseEnd ==
  /\ player = "noise"
  /\ player' = "poll"
  /\ active' = TRUE
  /\ UNCHANGED <<held, focus, device, buf, mixout, m_dwOctaveMiddle, windowVars,
                 sounding, adrift>>

\* Mutant of OnCommandEditEnter: the offset is set and the port goes on.
OnCommandEditEnterQuiet(offset) ==
  /\ window = "idle"
  /\ OffsetNote' = offset
  /\ adrift' = (adrift \/ (player = "send" /\ mixout.on))
  /\ UNCHANGED <<held, focus, device, playerVars, window, port>>

\* OnCommandEditEnter: the offset is set, then ClearNoise.  A note that the
\* player has worked out with the old one may be sent after both.
OnCommandEditEnter(offset) ==
  /\ window = "idle"
  /\ window' = "edited"
  /\ OffsetNote' = offset
  /\ adrift' = (adrift \/ (player = "send" /\ mixout.on))
  /\ UNCHANGED <<held, focus, device, playerVars, port>>

ClearNoise ==
  /\ window = "edited"
  /\ window' = "noise"
  /\ Deactivate
  /\ UNCHANGED <<held, focus, device, playerVars, OffsetNote>>
ClearNoiseEnd ==
  /\ window = "noise"
  /\ window' = "idle"
  /\ active' = TRUE
  /\ UNCHANGED <<held, focus, device, playerVars, OffsetNote, sounding, adrift>>

User == (\E k \in Keys \cup OctaveKeys : Press(k) \/ Release(k)) \/ ChangeFocus
Player == PollBufferFor_BufferMode \/ AdjustOctave \/ ProcessKey \/ SendMidiMsg
Window == \/ \E t \in {"FOREGROUND", "BACKGROUND"} : resetPlayType(t)
          \/ \E offset \in Offsets : OnCommandEditEnter(offset)
          \/ PlayerClearNoise
WindowGoesOn == ClearNoise \/ ClearNoiseEnd

Next == User \/ Player \/ Window \/ WindowGoesOn \/ PlayerClearNoiseEnd

Spec == Init /\ [][Next]_vars

\* The player's loop never waits but for the window's requests, and a handler
\* runs to its end.
FairSpec == Spec /\ WF_vars(Player \/ PlayerClearNoiseEnd) /\ WF_vars(WindowGoesOn)

-----------------------------------------------------------------------------
(* When all keys are up and the player has seen it, nothing sounds: every  *)
(* release finds the note of its press, whatever the window thread did in  *)
(* between.  Not so after a release that was not delivered, an octave that *)
(* was changed under a sounding note, or an offset that was entered while  *)
(* a note was on its way (adrift), until the port is next cleared.         *)
SilentWhenLetGo ==
  held = {} /\ didod = <<>> /\ player = "poll" /\ window = "idle" /\ ~adrift
    => sounding = {}

(* Once the user leaves the keys alone, all of them up, the last note goes *)
(* out: no release stays in the device or on the way to the port.          *)
FallsSilent == <>[](held = {} /\ ~adrift) => <>[](sounding = {})
=============================================================================
