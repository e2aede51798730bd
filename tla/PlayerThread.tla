---------------------------- MODULE PlayerThread ----------------------------
(***************************************************************************)
(* CPlayerThread (midi_piano/CPlayerThread.hxx): the player thread and the *)
(* calls by which its host, the window thread, commands it.  A call writes *)
(* m_recv_event, sets one auto-reset event and waits for another; the      *)
(* player polls the first with a zero timeout between two rounds of work.  *)
(*                                                                         *)
(* An auto-reset event is a Boolean: SetEvent makes it TRUE (twice is the  *)
(* same as once), a wait that succeeds makes it FALSE.  What a round of    *)
(* work or a request does to the queue and to the files is in MidiPiano.   *)
(*                                                                         *)
(* wanted and resumed are history variables: the mode the last call asked  *)
(* for, and whether resume_ was ever called.  No guard reads them.         *)
(***************************************************************************)
EXTENDS Integers

\* EVENT_RECV_TYPE, EVENT_CURRENT_TYPE and CDirectInput::PLAY_TYPE.
RecvEvents == {"PLAY", "PLAY_EPS", "PLAY_BACKGROUND", "PLAY_FOREGROUND",
               "RECORD_START", "RECORD_END", "SUSPEND", "EXIT"}
CurEvents == {"USER", "PLAY_EPS", "RECORDING"}
PlayTypes == {"FOREGROUND", "BACKGROUND"}

CONSTANT Requests      \* the calls this host makes
ASSUME RequestsAssumption == Requests \subseteq RecvEvents

VARIABLES
  m_recv_event, m_cur_event,
  recvEvent,           \* m_SingalRecvEvent: a request was made
  compelete,           \* m_SingalRecvCompeleteEvent: a request was served
  suspendEvent,        \* m_SuspendEvent: leave the suspension
  m_HadSuspend,
  playType,            \* how the input device was last opened
  host, player,        \* where the two threads are
  asked,               \* the call the host is in, or was last in
  wanted, resumed      \* history

events == <<recvEvent, compelete, suspendEvent>>
threadVars == <<m_recv_event, m_cur_event, events, m_HadSuspend, playType,
                host, player, asked, wanted, resumed>>

\* Init: the events are created reset and the thread is started.  What
\* m_recv_event holds before the first request is arbitrary.
ThreadInit ==
  /\ m_recv_event \in RecvEvents
  /\ m_cur_event = "USER"
  /\ recvEvent = FALSE /\ compelete = FALSE /\ suspendEvent = FALSE
  /\ m_HadSuspend = FALSE
  /\ playType = "FOREGROUND"
  /\ host = "idle"
  /\ player = "poll"
  /\ asked = "PLAY"
  /\ wanted = "USER"
  /\ resumed = FALSE

\* The mode a request leads to; the others keep the mode.
ModeAfter(e, mode) ==
  CASE e \in {"PLAY", "RECORD_END"} -> "USER"
    [] e = "PLAY_EPS" -> "PLAY_EPS"
    [] e = "RECORD_START" -> "RECORDING"
    [] OTHER -> mode

(***************************************************************************)
(* The host's calls.                                                       *)
(***************************************************************************)

\* SetPlay, SetPlayEps, ..., terminate and suspend: m_recv_event = e.  The only
\* caller of suspend, OnSlider, calls resume_ next and nothing in between, so
\* no call starts while m_HadSuspend is set (suspend would return at once).
Call(e) ==
  /\ host = "idle"
  /\ e \in Requests
  /\ ~m_HadSuspend
  /\ m_recv_event' = e
  /\ asked' = e
  /\ wanted' = ModeAfter(e, wanted)
  /\ host' = "signal"
  /\ UNCHANGED <<m_cur_event, events, m_HadSuspend, playType, player, resumed>>

\* SetEvent (m_SingalRecvEvent)
Signal ==
  /\ host = "signal"
  /\ recvEvent' = TRUE
  /\ host' = "wait"
  /\ UNCHANGED <<m_recv_event, m_cur_event, compelete, suspendEvent, m_HadSuspend,
                 playType, player, asked, wanted, resumed>>

\* Mutant of Return: the wait is one with a zero timeout.
ReturnAtOnce ==
  /\ host = "wait"
  /\ compelete' = FALSE
  /\ m_HadSuspend' = (m_HadSuspend \/ asked = "SUSPEND")
  /\ host' = IF asked = "EXIT" THEN "join" ELSE "idle"
  /\ UNCHANGED <<m_recv_event, m_cur_event, recvEvent, suspendEvent, playType,
                 player, asked, wanted, resumed>>

\* WaitForSingleObject (m_SingalRecvCompeleteEvent, INFINITE) returns.
Return ==
  /\ host = "wait"
  /\ compelete
  /\ compelete' = FALSE
  /\ m_HadSuspend' = (m_HadSuspend \/ asked = "SUSPEND")
  /\ host' = IF asked = "EXIT" THEN "join" ELSE "idle"
  /\ UNCHANGED <<m_recv_event, m_cur_event, recvEvent, suspendEvent, playType,
                 player, asked, wanted, resumed>>

\* terminate: WaitForSingleObject (m_ThreadHandle, INFINITE)
Join ==
  /\ host = "join"
  /\ player = "exited"
  /\ host' = "gone"
  /\ UNCHANGED <<m_recv_event, m_cur_event, events, m_HadSuspend, playType,
                 player, asked, wanted, resumed>>

\* resume_: nothing unless m_HadSuspend; SetEvent (m_SuspendEvent).
ResumeCall ==
  /\ host = "idle"
  /\ m_HadSuspend
  /\ suspendEvent' = TRUE
  /\ resumed' = TRUE
  /\ host' = "wait_resume"
  /\ UNCHANGED <<m_recv_event, m_cur_event, recvEvent, compelete, m_HadSuspend,
                 playType, player, asked, wanted>>

ResumeReturn ==
  /\ host = "wait_resume"
  /\ compelete
  /\ compelete' = FALSE
  /\ m_HadSuspend' = FALSE
  /\ host' = "idle"
  /\ UNCHANGED <<m_recv_event, m_cur_event, recvEvent, suspendEvent, playType,
                 player, asked, wanted, resumed>>

(***************************************************************************)
(* PlayerProc.                                                             *)
(***************************************************************************)

\* WaitForSingleObject (m_SingalRecvEvent, 0): a request, or time to work.
Poll ==
  /\ player = "poll"
  /\ recvEvent' = FALSE
  /\ player' = IF recvEvent THEN "switch" ELSE "work"
  /\ UNCHANGED <<m_recv_event, m_cur_event, compelete, suspendEvent, m_HadSuspend,
                 playType, host, asked, wanted, resumed>>

\* do_play, do_play_with_record or do_play_eps has returned.
WorkDone ==
  /\ player = "work"
  /\ player' = "poll"
  /\ UNCHANGED <<m_recv_event, m_cur_event, events, m_HadSuspend, playType,
                 host, asked, wanted, resumed>>

\* switch (m_recv_event), the cases that only change the player's own state.
Switch ==
  /\ player = "switch"
  /\ m_recv_event \notin {"SUSPEND", "EXIT"}
  /\ m_cur_event' = ModeAfter(m_recv_event, m_cur_event)
  /\ playType' = CASE m_recv_event = "PLAY_BACKGROUND" -> "BACKGROUND"
                   [] m_recv_event = "PLAY_FOREGROUND" -> "FOREGROUND"
                   [] OTHER -> playType
  /\ player' = "complete"
  /\ UNCHANGED <<m_recv_event, events, m_HadSuspend, host, asked, wanted, resumed>>

\* Mutant of SwitchSuspend: it does not wait, and breaks.
SwitchSuspendOn ==
  /\ player = "switch"
  /\ m_recv_event = "SUSPEND"
  /\ compelete' = TRUE
  /\ player' = "complete"
  /\ UNCHANGED <<m_recv_event, m_cur_event, recvEvent, suspendEvent, m_HadSuspend,
                 playType, host, asked, wanted, resumed>>

\* case EVENT_RECV_SUSPEND: SetEvent (m_SingalRecvCompeleteEvent), then wait.
SwitchSuspend ==
  /\ player = "switch"
  /\ m_recv_event = "SUSPEND"
  /\ compelete' = TRUE
  /\ player' = "parked"
  /\ UNCHANGED <<m_recv_event, m_cur_event, recvEvent, suspendEvent, m_HadSuspend,
                 playType, host, asked, wanted, resumed>>

\* WaitForSingleObject (m_SuspendEvent, INFINITE) returns.
Unpark ==
  /\ player = "parked"
  /\ suspendEvent
  /\ suspendEvent' = FALSE
  /\ player' = "unparked"
  /\ UNCHANGED <<m_recv_event, m_cur_event, recvEvent, compelete, m_HadSuspend,
                 playType, host, asked, wanted, resumed>>

\* SetEvent (m_SingalRecvCompeleteEvent); ClearNoise; and break: the SetEvent
\* after the switch is still to come.
UnparkComplete ==
  /\ player = "unparked"
  /\ compelete' = TRUE
  /\ player' = "complete"
  /\ UNCHANGED <<m_recv_event, m_cur_event, recvEvent, suspendEvent, m_HadSuspend,
                 playType, host, asked, wanted, resumed>>

\* case EVENT_RECV_EXIT
SwitchExit ==
  /\ player = "switch"
  /\ m_recv_event = "EXIT"
  /\ compelete' = TRUE
  /\ player' = "exited"
  /\ UNCHANGED <<m_recv_event, m_cur_event, recvEvent, suspendEvent, m_HadSuspend,
                 playType, host, asked, wanted, resumed>>

\* Mutant of Complete: no answer.
CompleteSilently ==
  /\ player = "complete"
  /\ player' = "poll"
  /\ UNCHANGED <<m_recv_event, m_cur_event, events, m_HadSuspend, playType, host,
                 asked, wanted, resumed>>

\* SetEvent (m_SingalRecvCompeleteEvent) after the switch.
Complete ==
  /\ player = "complete"
  /\ compelete' = TRUE
  /\ player' = "poll"
  /\ UNCHANGED <<m_recv_event, m_cur_event, recvEvent, suspendEvent, m_HadSuspend,
                 playType, host, asked, wanted, resumed>>

HostWaits == Signal \/ Return \/ Join \/ ResumeReturn
Host == ResumeCall \/ HostWaits \/ \E e \in RecvEvents : Call(e)
Player == \/ Poll \/ WorkDone \/ Switch \/ SwitchSuspend
          \/ Unpark \/ UnparkComplete \/ SwitchExit \/ Complete

\* Both threads are over: the process ends.
Finished == host = "gone" /\ UNCHANGED threadVars

ThreadNext == Host \/ Player \/ Finished

ThreadSpec == ThreadInit /\ [][ThreadNext]_threadVars

\* The player never stops between two statements, and the host goes on inside
\* a call; OnSlider always resumes what it suspended.
FairThreadSpec == /\ ThreadSpec
                  /\ WF_threadVars(Player)
                  /\ WF_threadVars(HostWaits)
                  /\ WF_threadVars(ResumeCall)

-----------------------------------------------------------------------------
(***************************************************************************)
(* Properties.                                                             *)
(***************************************************************************)

HostPcs == {"idle", "signal", "wait", "join", "gone", "wait_resume"}
PlayerPcs == {"poll", "work", "switch", "parked", "unparked", "complete", "exited"}

\* Every variable has the type the class gives it.
ThreadTypeOK ==
  /\ m_recv_event \in RecvEvents
  /\ m_cur_event \in CurEvents
  /\ recvEvent \in BOOLEAN /\ compelete \in BOOLEAN /\ suspendEvent \in BOOLEAN
  /\ m_HadSuspend \in BOOLEAN
  /\ playType \in PlayTypes
  /\ host \in HostPcs
  /\ player \in PlayerPcs
  /\ asked \in RecvEvents
  /\ wanted \in CurEvents
  /\ resumed \in BOOLEAN

\* Nothing of an earlier call is left: no event is set, and the player is
\* between two requests, or parked if the last call was suspend.
Quiet ==
  /\ ~recvEvent /\ ~compelete /\ ~suspendEvent
  /\ player \in (IF m_HadSuspend THEN {"parked"} ELSE {"poll", "work"})

\* Up to the first resume_, a call returns only after the player has served
\* it: when the host is outside a call, nothing is in flight.
HandshakeExact == host = "idle" /\ ~resumed => Quiet

\* Up to the first resume_, the mode the player works in is the one the last
\* returned call asked for: what the window shows is what the player does.
ModeAgrees == host = "idle" /\ ~resumed => m_cur_event = wanted

\* Up to the first resume_, a request the player has not finished reading is
\* not overwritten by the next one.
NoRequestOverwritten ==
  [][(recvEvent \/ player = "switch") /\ ~resumed
       => m_recv_event' = m_recv_event]_threadVars

\* Up to the first resume_, every call returns, terminate after the player
\* thread has ended: the two never wait for each other.
CallsReturn == host # "idle" /\ ~resumed ~> host \in {"idle", "gone"} \/ resumed
=============================================================================
