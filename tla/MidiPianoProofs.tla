--------------------------- MODULE MidiPianoProofs ---------------------------
(***************************************************************************)
(* Theorems of MidiPiano, for any calls and buffers, and of EpsFile, which *)
(* has the contents of its buffers.  First those of PlayerThread: until    *)
(* the first resume_ the handshake of the host with the player is exact.   *)
(* The program uses CPlayerThread as PlayerThread describes it, so the     *)
(* handshake keeps ClearQueue away from pop_msg, and the panel, the        *)
(* buffers and the kinds of the messages agree with the mode of the        *)
(* player.                                                                 *)
(***************************************************************************)
EXTENDS MidiPiano, EpsFile, WellFoundedInduction, TLAPS

\* The player is between two requests.
Between == player \in {"poll", "work"}

\* The mode still to come is the one the call in progress asks for.
ModeDue == wanted = ModeAfter(asked, m_cur_event)

\* Where the player is when it has answered the call.
Answered ==
  CASE asked = "SUSPEND" -> player = "parked"
    [] asked = "EXIT" -> player = "exited"
    [] OTHER -> Between

\* What the two threads know of each other in each phase of a call.
Outside == host = "idle" => Quiet /\ m_cur_event = wanted
Requesting ==
  host = "signal" => /\ ~recvEvent /\ ~compelete /\ ~m_HadSuspend
                     /\ Between /\ m_recv_event = asked /\ ModeDue
Waiting ==
  host = "wait" =>
    /\ ~m_HadSuspend
    /\ m_recv_event = asked
    /\ \/ recvEvent /\ ~compelete /\ Between /\ ModeDue
       \/ ~recvEvent /\ ~compelete /\ player = "switch" /\ ModeDue
       \/ /\ ~recvEvent /\ ~compelete /\ player = "complete"
          /\ asked \notin {"SUSPEND", "EXIT"} /\ m_cur_event = wanted
       \/ ~recvEvent /\ compelete /\ Answered /\ m_cur_event = wanted
Ending ==
  host \in {"join", "gone"} => ~recvEvent /\ ~compelete /\ player = "exited"

\* The inductive invariant.  HandshakeExact alone is not inductive: it says
\* nothing of the states inside a call, which the next step returns from.
HandshakeInv ==
  /\ ThreadTypeOK
  /\ ~resumed => /\ ~suspendEvent
                 /\ player # "unparked" /\ host # "wait_resume"
                 /\ Outside /\ Requesting /\ Waiting /\ Ending

\* The mode a request leads to is a mode.
LEMMA ModeAfterType ==
  ASSUME NEW e, NEW ev \in CurEvents
  PROVE  ModeAfter(e, ev) \in CurEvents
BY DEF ModeAfter, CurEvents

\* Init: no call, no event, the player between two requests.
LEMMA InvInit == ThreadInit => HandshakeInv
BY DEF ThreadInit, HandshakeInv, ThreadTypeOK, Outside, Requesting, Waiting,
       Ending, Quiet, RecvEvents, CurEvents, PlayTypes, HostPcs, PlayerPcs

\* The conjuncts of ThreadTypeOK about Booleans.
Flags == /\ recvEvent \in BOOLEAN /\ compelete \in BOOLEAN /\ suspendEvent \in BOOLEAN
         /\ m_HadSuspend \in BOOLEAN /\ resumed \in BOOLEAN

\* Every step keeps the types.
LEMMA TypeStep == ThreadTypeOK /\ [ThreadNext]_threadVars => ThreadTypeOK'
<1> SUFFICES ASSUME ThreadTypeOK, [ThreadNext]_threadVars
             PROVE  ThreadTypeOK'
  OBVIOUS
<1> USE RequestsAssumption
    DEF ThreadTypeOK, RecvEvents, CurEvents, PlayTypes, HostPcs, PlayerPcs, events
<1>1. CASE \E e \in RecvEvents : Call(e)
  <2>1. PICK e \in RecvEvents : Call(e)
    BY <1>1
  <2> QED
    BY <2>1, ModeAfterType DEF Call
<1>2. CASE Signal
  BY <1>2 DEF Signal
<1>3. CASE Return
  <2>1. Flags'
    BY <1>3, Zenon DEF Return, Flags
  <2> QED
    BY <1>3, <2>1 DEF Return, Flags
<1>4. CASE Join
  BY <1>4 DEF Join
<1>5. CASE ResumeCall
  BY <1>5 DEF ResumeCall
<1>6. CASE ResumeReturn
  <2>1. Flags'
    BY <1>6, Zenon DEF ResumeReturn, Flags
  <2> QED
    BY <1>6, <2>1 DEF ResumeReturn, Flags
<1>7. CASE Poll
  <2>1. Flags'
    BY <1>7, Zenon DEF Poll, Flags
  <2> QED
    BY <1>7, <2>1 DEF Poll, Flags
<1>8. CASE WorkDone
  BY <1>8 DEF WorkDone
<1>9. CASE Switch
  BY <1>9, ModeAfterType DEF Switch
<1>10. CASE SwitchSuspend
  BY <1>10 DEF SwitchSuspend
<1>11. CASE Unpark
  <2>1. Flags'
    BY <1>11, Zenon DEF Unpark, Flags
  <2> QED
    BY <1>11, <2>1 DEF Unpark, Flags
<1>12. CASE UnparkComplete
  BY <1>12 DEF UnparkComplete
<1>13. CASE SwitchExit
  BY <1>13 DEF SwitchExit
<1>14. CASE Complete
  BY <1>14 DEF Complete
<1>15. CASE UNCHANGED threadVars
  BY <1>15 DEF threadVars
<1> QED
  BY <1>1, <1>2, <1>3, <1>4, <1>5, <1>6, <1>7, <1>8, <1>9, <1>10, <1>11, <1>12, <1>13,
     <1>14, <1>15 DEF ThreadNext, Host, HostWaits, Player, Finished

\* Every step keeps the phases in order.
LEMMA InvStep == HandshakeInv /\ [ThreadNext]_threadVars => HandshakeInv'
<1> SUFFICES ASSUME HandshakeInv, [ThreadNext]_threadVars
             PROVE  HandshakeInv'
  OBVIOUS
<1>1. ThreadTypeOK /\ ThreadTypeOK'
  BY TypeStep DEF HandshakeInv
<1>2. SUFFICES ASSUME ~resumed'
               PROVE  /\ ~suspendEvent'
                      /\ player' # "unparked" /\ host' # "wait_resume"
                      /\ Outside' /\ Requesting' /\ Waiting' /\ Ending'
  BY <1>1 DEF HandshakeInv
<1>3. ~resumed
  BY <1>1, <1>2 DEF ThreadNext, Host, HostWaits, Player, Finished, threadVars, Call,
     Signal, Return, Join, ResumeCall, ResumeReturn, Poll, WorkDone, Switch,
     SwitchSuspend, Unpark, UnparkComplete, SwitchExit, Complete, ThreadTypeOK
<1>4. /\ ~suspendEvent
      /\ player # "unparked" /\ host # "wait_resume"
      /\ Outside /\ Requesting /\ Waiting /\ Ending
  BY <1>3 DEF HandshakeInv
<1> USE <1>1, <1>2, <1>4
    DEF Outside, Requesting, Waiting, Ending, Quiet, Between, ModeDue, Answered,
        ThreadTypeOK, HostPcs, PlayerPcs, events
<1>5. CASE \E e \in RecvEvents : Call(e)
  <2>1. PICK e \in RecvEvents : Call(e)
    BY <1>5
  <2>2. m_cur_event = wanted /\ m_cur_event' = m_cur_event
    BY <2>1 DEF Call
  <2>3. ModeDue'
    BY <2>1, <2>2 DEF Call
  <2> QED
    BY <2>1, <2>3 DEF Call
<1>6. CASE Signal
  BY <1>6 DEF Signal
<1>7. CASE Return
  BY <1>7 DEF Return
<1>8. CASE Join
  BY <1>8 DEF Join
<1>9. CASE ResumeCall \/ ResumeReturn
  BY <1>9 DEF ResumeCall, ResumeReturn
<1>10. CASE Poll
  BY <1>10 DEF Poll
<1>11. CASE WorkDone
  BY <1>11 DEF WorkDone
<1>12. CASE Switch
  <2>1. host = "wait" /\ player = "switch"
    BY <1>12 DEF Switch
  <2>2. m_cur_event' = wanted
    BY <1>12, <2>1 DEF Switch
  <2> QED
    BY <1>12, <2>1, <2>2 DEF Switch
<1>13. CASE SwitchSuspend
  <2>1. host = "wait" /\ asked = "SUSPEND"
    BY <1>13 DEF SwitchSuspend
  <2>2. m_cur_event = wanted
    BY <1>13, <2>1 DEF SwitchSuspend, ModeAfter
  <2> QED
    BY <1>13, <2>1, <2>2 DEF SwitchSuspend
<1>14. CASE SwitchExit
  <2>1. host = "wait" /\ asked = "EXIT"
    BY <1>14 DEF SwitchExit
  <2>2. m_cur_event = wanted
    BY <1>14, <2>1 DEF SwitchExit, ModeAfter
  <2> QED
    BY <1>14, <2>1, <2>2 DEF SwitchExit
<1>15. CASE Unpark \/ UnparkComplete
  BY <1>15 DEF Unpark, UnparkComplete
<1>16. CASE Complete
  BY <1>16 DEF Complete
<1>17. CASE UNCHANGED threadVars
  BY <1>17 DEF threadVars
<1> QED
  BY <1>5, <1>6, <1>7, <1>8, <1>9, <1>10, <1>11, <1>12, <1>13, <1>14, <1>15, <1>16,
     <1>17 DEF ThreadNext, Host, HostWaits, Player, Finished

LEMMA InvAlways == ThreadSpec => []HandshakeInv
BY InvInit, InvStep, PTL DEF ThreadSpec

\* The variables of the two threads keep the types the class gives them.
THEOREM ThreadTypeCorrect == ThreadSpec => []ThreadTypeOK
<1>1. HandshakeInv => ThreadTypeOK
  BY DEF HandshakeInv
<1> QED
  BY <1>1, InvAlways, PTL

\* Up to the first resume_ a call returns only when the player has served it:
\* no event is left set for the next call to mistake for its own.
THEOREM HandshakeCorrect == ThreadSpec => []HandshakeExact
<1>1. HandshakeInv => HandshakeExact
  BY DEF HandshakeInv, HandshakeExact, Outside
<1> QED
  BY <1>1, InvAlways, PTL

\* Up to the first resume_ the player works in the mode the last returned call
\* asked for.
THEOREM ModeCorrect == ThreadSpec => []ModeAgrees
<1>1. HandshakeInv => ModeAgrees
  BY DEF HandshakeInv, ModeAgrees, Outside
<1> QED
  BY <1>1, InvAlways, PTL

\* Up to the first resume_ no call overwrites m_recv_event before the player
\* has read it.
THEOREM RequestsCorrect == ThreadSpec => NoRequestOverwritten
<1> DEFINE Kept == (recvEvent \/ player = "switch") /\ ~resumed
                     => m_recv_event' = m_recv_event
<1>1. HandshakeInv /\ [ThreadNext]_threadVars => [Kept]_threadVars
  <2> SUFFICES ASSUME HandshakeInv, ThreadNext, recvEvent \/ player = "switch", ~resumed
               PROVE  m_recv_event' = m_recv_event
    BY DEF threadVars
  <2>1. ~\E e \in RecvEvents : Call(e)
    BY DEF HandshakeInv, Outside, Quiet, Call
  <2> QED
    BY <2>1 DEF ThreadNext, Host, HostWaits, Player, Finished, threadVars,
       Signal, Return, Join, ResumeCall, ResumeReturn, Poll, WorkDone, Switch,
       SwitchSuspend, Unpark, UnparkComplete, SwitchExit, Complete
<1> QED
  BY <1>1, InvAlways, PTL DEF ThreadSpec, NoRequestOverwritten

-----------------------------------------------------------------------------
(***************************************************************************)
(* The program's steps are steps of the handshake, or leave it alone.      *)
(***************************************************************************)

\* The window thread calls, waits, pops or does something of its own.
LEMMA WindowSteps ==
  ASSUME Window \/ WindowGoesOn
  PROVE  \/ HostWaits \/ ResumeCall \/ \E e \in RecvEvents : Call(e)
         \/ UNCHANGED threadVars
<1> USE DEF threadVars, events
<1>1. ASSUME NEW e, Call(e)
      PROVE  e \in RecvEvents
  BY <1>1, RequestsAssumption DEF Call
<1>2. CASE OnPlayEps \/ OnSetRecord \/ OnResetPlayType \/ OnDestroy \/ OnSliderEnd
  BY <1>1, <1>2 DEF OnPlayEps, OnSetRecord, OnResetPlayType, OnDestroy, OnSliderEnd
<1>3. CASE OnCreatePanel \/ OnSliderTrack \/ OnLoadEps
  BY <1>3 DEF OnCreatePanel, OnSliderTrack, OnLoadEps
<1>4. CASE OnIdleMain \/ OnIdlePanel \/ PopTake \/ PopDone
  BY <1>4 DEF OnIdleMain, OnIdlePanel, InLoop, PopTake, PopDone
<1>5. CASE OnSliderResume \/ HandlerReturn \/ WindowHandshake
  BY <1>5 DEF OnSliderResume, HandlerReturn, WindowHandshake, HostWaits
<1> QED
  BY <1>2, <1>3, <1>4, <1>5 DEF Window, WindowGoesOn

LEMMA PlayerGoesOnSteps ==
  ASSUME PlayerGoesOn
  PROVE  Player \/ UNCHANGED threadVars
BY DEF PlayerGoesOn, DoPlay, DoRecord, DoPlayEps, DoPlayEpsEnd, DoPlayDone, Serve,
       PlayerHandshake, Player

LEMMA NextThread == [Next]_vars => [ThreadNext]_threadVars
BY WindowSteps, PlayerGoesOnSteps DEF Next, vars, ThreadNext, Host

\* So what is proved of the handshake holds in the program.
LEMMA ThreadSteps == Spec => ThreadSpec
<1>1. Init => ThreadInit
  BY DEF Init
<1> QED
  BY <1>1, NextThread, PTL DEF Spec, ThreadSpec

\* What is proved of the component.
LEMMA ThreadHandshake == Spec => []HandshakeInv
BY ThreadSteps, InvAlways

\* A pop_msg runs between two handlers: no call of the player is made in it.
PopInv == InPop => host = "idle" /\ ~m_HadSuspend

LEMMA PopStep == PopInv /\ [Next]_vars => PopInv'
<1> SUFFICES ASSUME PopInv, [Next]_vars PROVE PopInv'
  OBVIOUS
<1> USE DEF PopInv, InPop, popVars
<1>1. CASE OnPlayEps \/ OnSetRecord \/ OnResetPlayType \/ OnDestroy \/ OnSliderEnd
  BY <1>1 DEF OnPlayEps, OnSetRecord, OnResetPlayType, OnDestroy, OnSliderEnd, InLoop
<1>2. CASE OnCreatePanel \/ OnSliderTrack \/ OnLoadEps
  BY <1>2 DEF OnCreatePanel, OnSliderTrack, OnLoadEps, threadVars
<1>3. CASE OnIdleMain \/ OnIdlePanel \/ PopTake \/ PopDone
  BY <1>3 DEF OnIdleMain, OnIdlePanel, PopTake, PopDone, InLoop, threadVars
<1>4. CASE OnSliderResume \/ HandlerReturn \/ WindowHandshake
  BY <1>4 DEF OnSliderResume, HandlerReturn, WindowHandshake, Apart, ResumeCall, Return,
     Signal, Join, ResumeReturn
<1>5. CASE PlayerGoesOn
  BY <1>5 DEF PlayerGoesOn, DoPlay, DoRecord, DoPlayEps, DoPlayEpsEnd, DoPlayDone,
     Serve, PlayerHandshake, Apart, threadVars, windowVars, WorkDone, Switch, Poll,
     SwitchSuspend, Unpark, UnparkComplete, SwitchExit, Complete
<1>6. CASE UNCHANGED vars
  BY <1>6 DEF vars, threadVars
<1> QED
  BY <1>1, <1>2, <1>3, <1>4, <1>5, <1>6 DEF Next, Window, WindowGoesOn

LEMMA PopAlways == Spec => []PopInv
<1>1. Init => PopInv
  BY DEF Init, PopInv, InPop
<1> QED
  BY <1>1, PopStep, PTL DEF Spec

\* Up to the first resume_ the player is never about to run ClearQueue while the
\* window thread is in pop_msg: outside a call nothing is in flight.
THEOREM ClearPopCorrect == Spec => []ClearExcludesPop
<1>1. HandshakeInv /\ PopInv => ClearExcludesPop
  <2> SUFFICES ASSUME HandshakeInv, PopInv, ~resumed, InPop, AboutToClear
               PROVE  FALSE
    BY DEF ClearExcludesPop, ClearApart
  <2>1. Quiet
    BY DEF HandshakeInv, PopInv, Outside
  <2> QED
    BY <2>1 DEF Quiet, AboutToClear
<1> QED
  BY <1>1, ThreadHandshake, PopAlways, PTL

-----------------------------------------------------------------------------
(***************************************************************************)
(* The buttons, whatever the handshake does.                               *)
(***************************************************************************)

\* The window thread is in a call the player has to answer.
InCall == host \in {"signal", "wait"}

PanelType == status \in [{"Play", "Record", "LoadFile", "Done"} -> {0, 1}]

\* One mode runs at most, its button is enabled, and a recording is ended only
\* while one runs.
ButtonInv ==
  /\ PanelType
  /\ status.Play = 1 => "Play" \in enabled /\ status.Record = 0
  /\ status.Record = 1 => "Record" \in enabled
  /\ "Slider" \in enabled => status.Play = 1
  /\ InCall /\ asked = "RECORD_END" => status.Record = 1

LEMMA InitButtons == Init => ButtonInv
BY DEF Init, ThreadInit, ButtonInv, PanelType, InCall

LEMMA NextButtons == ButtonInv /\ [Next]_vars => ButtonInv'
<1> SUFFICES ASSUME ButtonInv, [Next]_vars PROVE ButtonInv'
  OBVIOUS
<1> USE DEF ButtonInv, PanelType, InCall
<1>1. CASE OnCreatePanel
  BY <1>1 DEF OnCreatePanel, InLoop, threadVars
<1>2. CASE OnPlayEps \/ OnSetRecord \/ OnResetPlayType \/ OnDestroy \/ OnSliderEnd
  BY <1>2 DEF OnPlayEps, OnSetRecord, OnResetPlayType, OnDestroy, OnSliderEnd, Call,
              panelVars
<1>3. CASE OnSliderTrack \/ OnLoadEps
  BY <1>3 DEF OnSliderTrack, OnLoadEps, threadVars
<1>4. CASE OnIdleMain \/ OnIdlePanel \/ PopTake \/ PopDone
  BY <1>4 DEF OnIdleMain, OnIdlePanel, PopTake, PopDone, threadVars, panelVars
<1>5. CASE HandlerReturn
  <2>1. host = "wait" /\ host' \notin {"signal", "wait"} /\ PanelAfter(asked)
    BY <1>5 DEF HandlerReturn, Return
  <2>2. CASE asked = "PLAY_EPS"
    <3>1. status' = [status EXCEPT !.Play = 1, !.Record = 0] /\ enabled' = {"Play", "Slider"}
      BY <2>1, <2>2 DEF PanelAfter
    <3>2. PanelType' /\ status'.Play = 1 /\ status'.Record = 0
      BY <3>1
    <3> QED
      BY <2>1, <3>1, <3>2
  <2>3. CASE asked = "PLAY"
    BY <2>1, <2>3 DEF PanelAfter, AllButtons
  <2>4. CASE asked = "RECORD_START"
    <3>1. status' = [status EXCEPT !.Record = 1, !.Play = 0] /\ enabled' = {"Record"}
      BY <2>1, <2>4 DEF PanelAfter
    <3>2. PanelType' /\ status'.Play = 0 /\ status'.Record = 1
      BY <3>1
    <3> QED
      BY <2>1, <3>1, <3>2
  <2>5. CASE asked = "RECORD_END"
    <3>1. /\ status' = [status EXCEPT !.Record = 0, !.Done = 1]
          /\ "Slider" \notin enabled'
      BY <2>1, <2>5 DEF PanelAfter, AllButtons
    <3>2. PanelType' /\ status'.Play = 0 /\ status'.Record = 0
      BY <2>1, <2>5, <3>1
    <3> QED
      BY <2>1, <3>1, <3>2
  <2>6. CASE asked \notin {"PLAY_EPS", "PLAY", "RECORD_START", "RECORD_END"}
    <3>1. UNCHANGED <<status, enabled>>
      BY <2>1, <2>6 DEF PanelAfter
    <3> QED
      BY <2>1, <3>1
  <2> QED
    BY <2>2, <2>3, <2>4, <2>5, <2>6
<1>6. CASE OnSliderResume
  BY <1>6 DEF OnSliderResume, ResumeCall, panelVars
<1>7. CASE WindowHandshake
  BY <1>7 DEF WindowHandshake, Apart, Signal, Join, ResumeReturn, panelVars
<1>8. CASE PlayerGoesOn
  <2>1. UNCHANGED <<panelVars, host, asked>>
    BY <1>8 DEF PlayerGoesOn, DoPlay, DoRecord, DoPlayEps, DoPlayEpsEnd, DoPlayDone,
       Serve, PlayerHandshake, Apart, threadVars, windowVars, WorkDone, Switch, Poll,
       SwitchSuspend, Unpark, UnparkComplete, SwitchExit, Complete
  <2> QED
    BY <2>1 DEF panelVars
<1>9. CASE UNCHANGED vars
  BY <1>9 DEF vars, threadVars, panelVars
<1> QED
  BY <1>1, <1>2, <1>3, <1>4, <1>5, <1>6, <1>7, <1>8, <1>9 DEF Next, Window, WindowGoesOn

-----------------------------------------------------------------------------
(***************************************************************************)
(* The panel, the buffers and the messages, up to the first resume_.       *)
(***************************************************************************)

\* The window thread is outside every call.
AtRest == host = "idle"

\* What the handshake says of the two threads.
Known ==
  /\ host \in {"idle", "signal", "wait", "join", "gone"}
  /\ InPop => AtRest
  /\ AtRest => /\ ~compelete /\ m_cur_event = wanted
               /\ player \in {"poll", "work", "parked"}
               /\ ~m_HadSuspend => player # "parked"
  /\ host = "signal" => /\ ~compelete /\ player \in {"poll", "work"}
                        /\ m_recv_event = asked
  /\ player = "switch" => /\ host = "wait" /\ ~compelete
                          /\ m_recv_event = asked
                          /\ wanted = ModeAfter(asked, m_cur_event)
  /\ player = "complete" => host = "wait" /\ ~compelete
  /\ host = "wait" /\ compelete => m_cur_event = wanted
  /\ player # "unparked"
  /\ m_cur_event \in CurEvents /\ wanted \in CurEvents /\ asked \in RecvEvents
  /\ compelete \in BOOLEAN /\ playType \in PlayTypes

LEMMA HandshakeKnows == HandshakeInv /\ PopInv /\ ~resumed => Known
<1> SUFFICES ASSUME HandshakeInv, PopInv, ~resumed PROVE Known
  OBVIOUS
<1> USE DEF HandshakeInv, PopInv, ThreadTypeOK, AtRest
<1>1. CASE host = "idle"
  BY <1>1 DEF Known, Outside, Quiet, CurEvents, RecvEvents, PlayTypes
<1>2. CASE host = "signal"
  BY <1>2 DEF Known, Requesting, Between, CurEvents, RecvEvents,
     PlayTypes
<1>3. CASE host = "wait"
  <2>1. player = "switch" => wanted = ModeAfter(asked, m_cur_event)
    BY <1>3 DEF Waiting, Between, ModeDue, ModeAfter, Answered
  <2> QED
    BY <1>3, <2>1 DEF Known, Waiting, Between, Answered, CurEvents,
       RecvEvents, PlayTypes
<1>4. CASE host \in {"join", "gone"}
  BY <1>4 DEF Known, Ending, CurEvents, RecvEvents, PlayTypes
<1> QED
  BY <1>1, <1>2, <1>3, <1>4 DEF HostPcs

\* What the panel shows and offers fits the mode asked for.
Tells ==
  /\ status.Play = 1 <=> wanted = "PLAY_EPS"
  /\ status.Record = 1 <=> wanted = "RECORDING"
  /\ enabled \cap {"Load", "Save"} # {} => wanted = "USER"
  /\ "Play" \in enabled => wanted # "RECORDING"
  /\ "Record" \in enabled => wanted # "PLAY_EPS"

PanelCalls == {"PLAY", "PLAY_EPS", "RECORD_START", "RECORD_END"}
MenuCalls == {"PLAY_FOREGROUND", "PLAY_BACKGROUND"}

\* Outside a call the panel fits; inside one it will, once the handler has done
\* what is left to do (PanelAfter).
PanelTells ==
  /\ AtRest => Tells
  /\ InCall =>
       /\ asked \notin PanelCalls => Tells
       /\ asked = "PLAY_EPS" => wanted = "PLAY_EPS"
       /\ asked = "RECORD_START" => wanted = "RECORDING"
       /\ asked = "PLAY" => wanted = "USER" /\ status.Record = 0
       /\ asked = "RECORD_END" => wanted = "USER" /\ status.Play = 0
  /\ ~panel => /\ enabled = {} /\ status.Play = 0 /\ status.Record = 0
               /\ InCall => asked \notin PanelCalls

\* The menu item tells how the device is open, outside a call that changes it
\* and as soon as the player has served one.
MenuTells ==
  /\ AtRest \/ (InCall /\ asked \notin MenuCalls)
       => (checked <=> playType = "BACKGROUND")
  /\ InCall /\ asked \in MenuCalls /\ (compelete \/ player = "complete")
       => (asked = "PLAY_BACKGROUND" <=> playType = "BACKGROUND")

\* The buffer of a mode and the kind of its messages.
Attached(ev) == /\ ev = "RECORDING" => attach = "record"
                /\ ev = "PLAY_EPS" => attach = "play"
KindOf(ev) == IF ev = "PLAY_EPS" THEN "raw2" ELSE "raw"

\* The queue holds messages of the player's mode only, since every change of
\* their kind clears it; a pop_msg runs in one mode from end to end.
MessagesFit ==
  /\ queue \subseteq {KindOf(m_cur_event)}
  /\ InCall /\ asked = "RECORD_END" => m_cur_event # "PLAY_EPS"
  /\ pop = "pop_raw" => m_cur_event # "PLAY_EPS"
  /\ pop = "pop_raw2" => m_cur_event = "PLAY_EPS"
  /\ KindsMatch

PianoFits == /\ PanelTells /\ MenuTells
             /\ Attached(m_cur_event) /\ Attached(wanted)
             /\ MessagesFit

LEMMA InitFits == Init => PianoFits
BY DEF Init, ThreadInit, PianoFits, PanelTells, Tells, MenuTells, Attached, MessagesFit,
       KindsMatch, AtRest, InCall, InPop, KindOf

\* A call starts at rest: what the panel says then decides what it will say.
LEMMA CallsFit ==
  ASSUME ButtonInv, Known, PianoFits, NEW e \in RecvEvents, Call(e),
         UNCHANGED <<queue, pop, popping, panel, status, enabled, checked>>,
         Attached(m_cur_event)', Attached(wanted)',
         e \in PanelCalls => panel,
         e = "PLAY" => status.Play = 1,
         e = "RECORD_END" => status.Record = 1
  PROVE  PianoFits'
<1>1. /\ host = "idle" /\ host' = "signal" /\ asked' = e
      /\ wanted' = ModeAfter(e, wanted)
      /\ UNCHANGED <<m_cur_event, compelete, playType, player>>
  BY DEF Call, events
<1>2. AtRest /\ InCall' /\ ~AtRest'
  BY <1>1 DEF AtRest, InCall
<1>3. PanelTells'
  <2>1. e \notin PanelCalls => wanted' = wanted
    BY <1>1 DEF PanelCalls, ModeAfter
  <2>2. /\ e \in {"PLAY", "RECORD_END"} => wanted' = "USER"
        /\ e = "PLAY_EPS" => wanted' = "PLAY_EPS"
        /\ e = "RECORD_START" => wanted' = "RECORDING"
    BY <1>1 DEF ModeAfter
  <2> QED
    BY <1>1, <1>2, <2>1, <2>2 DEF PianoFits, PanelTells, Tells, ButtonInv, PanelType
<1>4. MenuTells'
  BY <1>1, <1>2 DEF PianoFits, MenuTells, Known
<1>5. MessagesFit'
  BY <1>1, <1>2 DEF PianoFits, MessagesFit, KindsMatch, PanelTells, Tells, Known
<1> QED
  BY <1>3, <1>4, <1>5 DEF PianoFits

\* The handlers that call the player.
LEMMA HandlersFit ==
  ASSUME ButtonInv, Known, PianoFits,
         OnPlayEps \/ OnSetRecord \/ OnResetPlayType \/ OnDestroy \/ OnSliderEnd
  PROVE  PianoFits'
<1> USE DEF PianoFits, popVars
<1>1. ASSUME NEW e, Call(e)
      PROVE  /\ e \in RecvEvents /\ AtRest /\ m_cur_event = wanted
             /\ wanted' = ModeAfter(e, wanted) /\ m_cur_event' = m_cur_event
  BY <1>1, RequestsAssumption DEF Call, AtRest, Known
<1>2. CASE OnPlayEps
  <2>1. "Play" \in enabled /\ panel
    BY <1>2 DEF OnPlayEps, PanelTells
  <2>2. CASE status.Play = 0
    <3>1. Call("PLAY_EPS") /\ attach' = "play"
      BY <1>2, <2>2 DEF OnPlayEps
    <3>2. wanted # "RECORDING"
      BY <1>1, <2>1, <3>1 DEF PanelTells, Tells
    <3>3. Attached(m_cur_event)' /\ Attached(wanted)'
      BY <1>1, <3>1, <3>2 DEF Attached, ModeAfter
    <3> QED
      BY <1>1, <1>2, <2>1, <3>1, <3>3, CallsFit DEF OnPlayEps, panelVars
  <2>3. CASE status.Play # 0
    <3>1. Call("PLAY") /\ attach' = attach /\ status.Play = 1
      BY <1>2, <2>3 DEF OnPlayEps, ButtonInv, PanelType
    <3>2. Attached(m_cur_event)' /\ Attached(wanted)'
      BY <1>1, <3>1 DEF Attached, ModeAfter
    <3> QED
      BY <1>1, <1>2, <2>1, <3>1, <3>2, CallsFit DEF OnPlayEps, panelVars
  <2> QED
    BY <2>2, <2>3
<1>3. CASE OnSetRecord
  <2>1. "Record" \in enabled /\ panel
    BY <1>3 DEF OnSetRecord, PanelTells
  <2>2. CASE status.Record = 0
    <3>1. Call("RECORD_START") /\ attach' = "record"
      BY <1>3, <2>2 DEF OnSetRecord
    <3>2. wanted # "PLAY_EPS"
      BY <1>1, <2>1, <3>1 DEF PanelTells, Tells
    <3>3. Attached(m_cur_event)' /\ Attached(wanted)'
      BY <1>1, <3>1, <3>2 DEF Attached, ModeAfter
    <3> QED
      BY <1>1, <1>3, <2>1, <3>1, <3>3, CallsFit DEF OnSetRecord, panelVars
  <2>3. CASE status.Record # 0
    <3>1. Call("RECORD_END") /\ attach' = attach /\ status.Record = 1
      BY <1>3, <2>3 DEF OnSetRecord, ButtonInv, PanelType
    <3>2. Attached(m_cur_event)' /\ Attached(wanted)'
      BY <1>1, <3>1 DEF Attached, ModeAfter
    <3> QED
      BY <1>1, <1>3, <2>1, <3>1, <3>2, CallsFit DEF OnSetRecord, panelVars
  <2> QED
    BY <2>2, <2>3
<1>4. CASE OnResetPlayType \/ OnDestroy \/ OnSliderEnd
  <2>1. PICK e \in {"PLAY_FOREGROUND", "PLAY_BACKGROUND", "EXIT", "SUSPEND"} :
          Call(e) /\ UNCHANGED <<attach, queue, pop, popping, panel, status, enabled, checked>>
    BY <1>4 DEF OnResetPlayType, OnDestroy, OnSliderEnd, epsVars, panelVars
  <2>2. Attached(m_cur_event)' /\ Attached(wanted)'
    BY <1>1, <2>1 DEF Attached, ModeAfter
  <2> QED
    BY <1>1, <2>1, <2>2, CallsFit DEF PanelCalls
<1> QED
  BY <1>2, <1>3, <1>4

\* What a handler does to the panel is what its call asked of the player.
LEMMA ReturnFits ==
  ASSUME ButtonInv, Known, PianoFits, HandlerReturn
  PROVE  PianoFits'
<1>1. /\ host = "wait" /\ compelete /\ host' \in {"idle", "join"}
      /\ PanelAfter(asked)
      /\ UNCHANGED <<wanted, asked, m_cur_event, playType, queue, pop, popping, attach, panel>>
  BY DEF HandlerReturn, Return, popVars, epsVars
<1>2. InCall /\ ~InCall' /\ ~InPop /\ m_cur_event = wanted
  BY <1>1 DEF InCall, AtRest, Known
<1>3. Tells' /\ (~panel => enabled' = {} /\ status'.Play = 0 /\ status'.Record = 0)
  <2> USE DEF PianoFits, PanelTells
  <2>1. CASE asked = "PLAY_EPS"
    <3>1. status' = [status EXCEPT !.Play = 1, !.Record = 0] /\ enabled' = {"Play", "Slider"}
      BY <1>1, <2>1 DEF PanelAfter
    <3>2. status'.Play = 1 /\ status'.Record = 0 /\ wanted' = "PLAY_EPS" /\ panel
      BY <1>1, <1>2, <2>1, <3>1 DEF ButtonInv, PanelType, PanelCalls
    <3> QED
      BY <3>1, <3>2 DEF Tells
  <2>2. CASE asked = "PLAY"
    <3>1. status' = [status EXCEPT !.Play = 0] /\ enabled' = AllButtons(status)
      BY <1>1, <2>2 DEF PanelAfter
    <3>2. status'.Play = 0 /\ status'.Record = 0 /\ wanted' = "USER" /\ panel
      BY <1>1, <1>2, <2>2, <3>1 DEF ButtonInv, PanelType, PanelCalls
    <3> QED
      BY <3>1, <3>2 DEF Tells
  <2>3. CASE asked = "RECORD_START"
    <3>1. status' = [status EXCEPT !.Record = 1, !.Play = 0] /\ enabled' = {"Record"}
      BY <1>1, <2>3 DEF PanelAfter
    <3>2. status'.Play = 0 /\ status'.Record = 1 /\ wanted' = "RECORDING" /\ panel
      BY <1>1, <1>2, <2>3, <3>1 DEF ButtonInv, PanelType, PanelCalls
    <3> QED
      BY <3>1, <3>2 DEF Tells
  <2>4. CASE asked = "RECORD_END"
    <3>1. status' = [status EXCEPT !.Record = 0, !.Done = 1]
      BY <1>1, <2>4 DEF PanelAfter
    <3>2. status'.Play = 0 /\ status'.Record = 0 /\ wanted' = "USER" /\ panel
      BY <1>1, <1>2, <2>4, <3>1 DEF ButtonInv, PanelType, PanelCalls
    <3> QED
      BY <3>2 DEF Tells
  <2>5. CASE asked \notin PanelCalls
    <3>1. UNCHANGED <<status, enabled>>
      BY <1>1, <2>5 DEF PanelAfter, PanelCalls
    <3> QED
      BY <1>1, <1>2, <2>5, <3>1 DEF Tells
  <2> QED
    BY <2>1, <2>2, <2>3, <2>4, <2>5 DEF PanelCalls
<1>4. PanelTells'
  BY <1>1, <1>2, <1>3 DEF PanelTells
<1>5. checked' <=> playType' = "BACKGROUND"
  <2>1. CASE asked \in MenuCalls
    <3>1. checked' = (asked = "PLAY_BACKGROUND")
      BY <1>1, <2>1 DEF PanelAfter, MenuCalls
    <3> QED
      BY <1>1, <1>2, <2>1, <3>1 DEF PianoFits, MenuTells
  <2>2. CASE asked \notin MenuCalls
    <3>1. checked' = checked
      BY <1>1, <2>2 DEF PanelAfter, MenuCalls
    <3> QED
      BY <1>1, <1>2, <2>2, <3>1 DEF PianoFits, MenuTells
  <2> QED
    BY <2>1, <2>2
<1>6. MenuTells'
  BY <1>2, <1>5 DEF MenuTells
<1>7. MessagesFit' /\ Attached(m_cur_event)' /\ Attached(wanted)'
  BY <1>1, <1>2 DEF PianoFits, MessagesFit, KindsMatch, Attached, InPop
<1> QED
  BY <1>4, <1>6, <1>7 DEF PianoFits

\* The other steps of the window thread.
LEMMA WindowFits ==
  ASSUME ButtonInv, Known, PianoFits, ~resumed', Window \/ WindowGoesOn
  PROVE  PianoFits'
<1> USE DEF PianoFits, popVars
<1>1. CASE OnCreatePanel
  <2>1. /\ InLoop /\ ~panel /\ panel' /\ enabled' = {"Load", "Record"}
        /\ status'.Play = 0 /\ status'.Record = 0
        /\ UNCHANGED <<threadVars, queue, pop, popping, attach, checked>>
    BY <1>1 DEF OnCreatePanel, epsVars
  <2>2. wanted = "USER" /\ AtRest /\ ~InCall
    BY <2>1 DEF PanelTells, Tells, Known, CurEvents, InLoop, AtRest, InCall
  <2>3. PanelTells'
    BY <2>1, <2>2 DEF PanelTells, Tells, threadVars, InCall
  <2> QED
    BY <2>1, <2>2, <2>3 DEF MenuTells, MessagesFit, KindsMatch, Attached, AtRest, InCall,
       InPop, threadVars, events
<1>2. CASE OnSliderTrack
  <2>1. UNCHANGED <<threadVars, queue, pop, popping, attach, panel, status, enabled, checked>>
    BY <1>2 DEF OnSliderTrack, epsVars
  <2> QED
    BY <2>1 DEF PanelTells, Tells, MenuTells, MessagesFit, KindsMatch, Attached, AtRest,
       InCall, InPop, threadVars, events
<1>3. CASE OnLoadEps
  <2>1. /\ InLoop /\ "Load" \in enabled /\ enabled' = enabled \cup {"Play"}
        /\ status' = [status EXCEPT !.LoadFile = 1]
        /\ UNCHANGED <<threadVars, queue, pop, popping, attach, panel, checked>>
    BY <1>3 DEF OnLoadEps
  <2>2. wanted = "USER" /\ AtRest /\ ~InCall /\ panel
    BY <2>1 DEF PanelTells, Tells, InLoop, AtRest, InCall
  <2>3. status'.Play = status.Play /\ status'.Record = status.Record
    BY <2>1 DEF ButtonInv, PanelType
  <2>4. PanelTells'
    BY <2>1, <2>2, <2>3 DEF PanelTells, Tells, threadVars, InCall
  <2> QED
    BY <2>1, <2>2, <2>4 DEF MenuTells, MessagesFit, KindsMatch, Attached, AtRest, InCall,
       InPop, threadVars, events
<1>4. CASE OnIdleMain \/ OnIdlePanel \/ PopTake \/ PopDone
  <2>1. /\ AtRest /\ AtRest' /\ ~InCall /\ ~InCall' /\ m_cur_event = wanted
        /\ UNCHANGED <<m_cur_event, wanted, playType, attach, panel, status, enabled, checked>>
    BY <1>4 DEF OnIdleMain, OnIdlePanel, PopTake, PopDone, InLoop, AtRest, InCall, InPop,
       Known, threadVars, epsVars, panelVars
  <2>2. MessagesFit'
    <3>1. CASE OnIdleMain
      BY <3>1, <2>1 DEF OnIdleMain, MessagesFit, KindsMatch
    <3>2. CASE OnIdlePanel
      <4>1. status.Play = 1
        BY <3>2 DEF OnIdlePanel, ButtonInv, PanelType
      <4>2. m_cur_event = "PLAY_EPS"
        BY <2>1, <4>1 DEF PanelTells, Tells
      <4> QED
        BY <3>2, <2>1, <4>2 DEF OnIdlePanel, MessagesFit, KindsMatch
    <3>3. CASE PopTake
      BY <3>3, <2>1 DEF PopTake, MessagesFit, KindsMatch, KindOf
    <3>4. CASE PopDone
      BY <3>4, <2>1 DEF PopDone, MessagesFit, KindsMatch
    <3> QED
      BY <1>4, <3>1, <3>2, <3>3, <3>4
  <2> QED
    BY <2>1, <2>2 DEF PanelTells, Tells, MenuTells, Attached
<1>5. CASE OnSliderResume
  BY <1>5 DEF OnSliderResume, ResumeCall
<1>6. CASE WindowHandshake
  <2>1. ~ResumeReturn
    BY DEF ResumeReturn, Known, InPop
  <2>2. /\ \/ host = "signal" /\ host' = "wait"
           \/ host = "join" /\ host' = "gone"
        /\ UNCHANGED <<m_cur_event, wanted, asked, compelete, player, playType, attach,
                       queue, pop, popping, panel, status, enabled, checked>>
    BY <1>6, <2>1 DEF WindowHandshake, Apart, Signal, Join, epsVars, panelVars, events
  <2> QED
    BY <2>2 DEF PanelTells, Tells, MenuTells, MessagesFit, KindsMatch, Attached, AtRest,
       InCall, InPop
<1> QED
  BY <1>1, <1>2, <1>3, <1>4, <1>5, <1>6, HandlersFit, ReturnFits DEF Window, WindowGoesOn

\* The player pushes messages of its mode, and changes the mode as the call asks.
LEMMA PlayerFits ==
  ASSUME Known, PianoFits, PlayerGoesOn
  PROVE  PianoFits'
<1> USE DEF PianoFits, popVars
<1>1. UNCHANGED <<host, asked, wanted, attach, pop, popping, panel, status, enabled, checked>>
  BY DEF PlayerGoesOn, DoPlay, DoRecord, DoPlayEps, DoPlayEpsEnd, DoPlayDone, Serve,
     PlayerHandshake, Apart, threadVars, windowVars, epsVars, panelVars, WorkDone, Switch,
     Poll, SwitchSuspend, Unpark, UnparkComplete, SwitchExit, Complete
<1>2. UNCHANGED <<AtRest, InCall>>
  BY <1>1 DEF AtRest, InCall
<1>3. PanelTells'
  BY <1>1, <1>2 DEF PanelTells, Tells
<1>4. CASE DoPlay \/ DoRecord \/ DoPlayEps \/ DoPlayEpsEnd \/ DoPlayDone
  <2>1. /\ UNCHANGED <<m_cur_event, compelete, playType>>
        /\ player = "work" /\ player' \in {"work", "poll"}
        /\ queue' \subseteq queue \cup {KindOf(m_cur_event)}
    BY <1>4 DEF DoPlay, DoRecord, DoPlayEps, DoPlayEpsEnd, DoPlayDone, Working, PushMsg,
       KindOf, WorkDone, threadVars, events
  <2>2. MenuTells'
    BY <1>1, <1>2, <2>1 DEF MenuTells
  <2> QED
    BY <1>1, <1>2, <1>3, <2>1, <2>2 DEF MessagesFit, KindsMatch, Attached
<1>5. CASE Serve
  <2>1. /\ host = "wait" /\ m_recv_event = asked /\ asked \notin {"SUSPEND", "EXIT"}
        /\ m_cur_event' = wanted /\ wanted = ModeAfter(asked, m_cur_event)
        /\ ~compelete /\ compelete' = compelete /\ player' = "complete"
        /\ playType' = CASE asked = "PLAY_BACKGROUND" -> "BACKGROUND"
                         [] asked = "PLAY_FOREGROUND" -> "FOREGROUND"
                         [] OTHER -> playType
        /\ queue' = IF Clears(asked) THEN {} ELSE queue
    BY <1>5 DEF Serve, Switch, Known, events
  <2>2. InCall /\ InCall' /\ ~AtRest /\ ~AtRest' /\ pop = "none"
    BY <1>2, <2>1 DEF InCall, AtRest, Known, InPop
  <2>3. MenuTells'
    BY <1>1, <2>1, <2>2 DEF MenuTells, MenuCalls
  <2>4. queue' \subseteq {KindOf(m_cur_event')}
    <3>1. CASE Clears(asked)
      BY <2>1, <3>1
    <3>2. CASE asked = "RECORD_END"
      BY <2>1, <2>2, <3>2 DEF MessagesFit, KindOf, ModeAfter
    <3>3. CASE ~Clears(asked) /\ asked # "RECORD_END"
      BY <2>1, <3>3 DEF MessagesFit, Clears, ModeAfter
    <3> QED
      BY <3>1, <3>2, <3>3
  <2>5. asked = "RECORD_END" => m_cur_event' = "USER"
    BY <2>1 DEF ModeAfter
  <2> QED
    BY <1>1, <1>3, <2>1, <2>2, <2>3, <2>4, <2>5 DEF MessagesFit, KindsMatch, Attached
<1>6. CASE PlayerHandshake
  <2>1. UNCHANGED <<m_cur_event, playType, queue>>
    BY <1>6 DEF PlayerHandshake, Apart, Poll, SwitchSuspend, Unpark, UnparkComplete,
       SwitchExit, Complete, epsVars, panelVars
  <2>2. \/ compelete' = compelete /\ player' # "complete"
        \/ player \in {"complete", "unparked"}
        \/ player = "switch" /\ m_recv_event \in {"SUSPEND", "EXIT"}
    BY <1>6 DEF PlayerHandshake, Poll, SwitchSuspend, Unpark, UnparkComplete,
       SwitchExit, Complete, events
  <2>3. MenuTells'
    BY <1>1, <1>2, <2>1, <2>2 DEF MenuTells, Known, MenuCalls
  <2> QED
    BY <1>1, <1>2, <1>3, <2>1, <2>3 DEF MessagesFit, KindsMatch, Attached
<1> QED
  BY <1>4, <1>5, <1>6 DEF PlayerGoesOn

\* resumed is never reset.
LEMMA ResumedStays == ASSUME [Next]_vars, ~resumed' PROVE ~resumed
<1>1. threadVars' = threadVars \/ ThreadNext
  BY NextThread
<1>2. resumed => resumed'
  BY <1>1 DEF threadVars, ThreadNext, Host, HostWaits, Player, Finished,
     Call, Signal, Return, Join, ResumeCall, ResumeReturn, Poll,
     WorkDone, Switch, SwitchSuspend, Unpark, UnparkComplete, SwitchExit,
     Complete
<1> QED
  BY <1>2

\* Until a resume_ the panel, the buffers and the messages fit.
FitsInv == ButtonInv /\ (~resumed => PianoFits)

LEMMA FitsCorrect == Spec => []FitsInv
<1>1. Init => FitsInv
  BY InitButtons, InitFits DEF FitsInv
<1>2. FitsInv /\ HandshakeInv /\ PopInv /\ [Next]_vars => FitsInv'
  <2> SUFFICES ASSUME FitsInv, HandshakeInv, PopInv, [Next]_vars, ~resumed' PROVE PianoFits'
    BY NextButtons DEF FitsInv
  <2>1. ~resumed
    BY ResumedStays
  <2>2. Known /\ ButtonInv /\ PianoFits
    BY <2>1, HandshakeKnows DEF FitsInv
  <2>3. CASE UNCHANGED vars
    BY <2>2, <2>3 DEF vars, threadVars, events, popVars, epsVars, panelVars, PianoFits, PanelTells,
       Tells, MenuTells, MessagesFit, KindsMatch, Attached, AtRest, InCall, InPop
  <2> QED
    BY <2>2, <2>3, WindowFits, PlayerFits DEF Next
<1> QED
  BY <1>1, <1>2, ThreadHandshake, PopAlways, PTL DEF Spec

\* Between two handlers the buttons, the menu and what may be loaded or saved
\* agree with the player's mode, and what runs can be stopped
\* (CViewPlayRecordSettings and CMainFrame against PlayerProc).
THEOREM PanelCorrect == Spec => []WindowAgrees
<1>1. FitsInv /\ HandshakeInv /\ PopInv => WindowAgrees
  <2> SUFFICES ASSUME FitsInv, HandshakeInv, PopInv, InLoop PROVE WindowAgrees
    BY DEF WindowAgrees
  <2>1. ~resumed => AtRest /\ m_cur_event = wanted /\ PianoFits
    BY HandshakeKnows DEF Known, InLoop, AtRest, FitsInv
  <2> QED
    BY <2>1 DEF WindowAgrees, FitsInv, ButtonInv, PianoFits, PanelTells, Tells, MenuTells
<1> QED
  BY <1>1, FitsCorrect, ThreadHandshake, PopAlways, PTL

\* The player works on the buffer of its mode, although the window thread sets
\* m_AttachEps while the player runs.
THEOREM BufferCorrect == Spec => []RightBuffer
<1>1. FitsInv => RightBuffer
  BY DEF FitsInv, RightBuffer, PianoFits, Attached
<1> QED
  BY <1>1, FitsCorrect, PTL

\* No pop_msg meets a message of the other kind.
THEOREM KindsCorrect == Spec => []PopKindsMatch
<1>1. FitsInv => PopKindsMatch
  BY DEF FitsInv, PopKindsMatch, PianoFits, MessagesFit
<1> QED
  BY <1>1, FitsCorrect, PTL

-----------------------------------------------------------------------------
(***************************************************************************)
(* The recordings.  EpsFile is what the player's modes do to the two       *)
(* buffers, and its mode is the player's.                                  *)
(***************************************************************************)

\* A request the player has not served yet, and the mode it meets: a recording
\* and a playback start in USER, and each is ended by the request for it.
Unserved == InCall /\ ~compelete /\ player # "complete"
Meets(e) ==
  /\ e \in {"RECORD_START", "PLAY_EPS"} => m_cur_event = "USER"
  /\ e = "RECORD_END" => m_cur_event = "RECORDING"
  /\ e = "PLAY" => m_cur_event = "PLAY_EPS"
DueInv == ~resumed /\ Unserved => Meets(asked)

\* A button offers the request that its mode can take.
LEMMA ButtonsDue ==
  ASSUME ButtonInv, Known, PianoFits,
         OnPlayEps \/ OnSetRecord \/ OnResetPlayType \/ OnDestroy \/ OnSliderEnd
  PROVE  Meets(asked)'
<1>1. ASSUME NEW e, Call(e)
      PROVE  /\ Tells /\ m_cur_event = wanted /\ wanted \in CurEvents
             /\ m_cur_event' = m_cur_event /\ asked' = e
  BY <1>1 DEF Call, AtRest, Known, PianoFits, PanelTells
<1>2. CASE OnPlayEps
  <2>1. "Play" \in enabled
    BY <1>2 DEF OnPlayEps
  <2>2. CASE status.Play = 0
    BY <1>1, <1>2, <2>1, <2>2 DEF OnPlayEps, Tells, CurEvents, Meets
  <2>3. CASE status.Play # 0
    <3>1. Call("PLAY") /\ status.Play = 1
      BY <1>2, <2>3 DEF OnPlayEps, ButtonInv, PanelType
    <3> QED
      BY <1>1, <3>1 DEF Tells, Meets
  <2> QED
    BY <2>2, <2>3
<1>3. CASE OnSetRecord
  <2>1. "Record" \in enabled
    BY <1>3 DEF OnSetRecord
  <2>2. CASE status.Record = 0
    BY <1>1, <1>3, <2>1, <2>2 DEF OnSetRecord, Tells, CurEvents, Meets
  <2>3. CASE status.Record # 0
    <3>1. Call("RECORD_END") /\ status.Record = 1
      BY <1>3, <2>3 DEF OnSetRecord, ButtonInv, PanelType
    <3> QED
      BY <1>1, <3>1 DEF Tells, Meets
  <2> QED
    BY <2>2, <2>3
<1>4. CASE OnResetPlayType \/ OnDestroy \/ OnSliderEnd
  <2>1. PICK e \in {"PLAY_FOREGROUND", "PLAY_BACKGROUND", "EXIT", "SUSPEND"} : Call(e)
    BY <1>4 DEF OnResetPlayType, OnDestroy, OnSliderEnd
  <2> QED
    BY <1>1, <2>1 DEF Meets
<1> QED
  BY <1>2, <1>3, <1>4

\* No other step makes a request, or changes the mode before it is served.
LEMMA DueNext ==
  ASSUME DueInv, ButtonInv, Known, PianoFits, ~resumed, [Next]_vars
  PROVE  DueInv'
<1> SUFFICES ASSUME Unserved' PROVE Meets(asked)'
  BY DEF DueInv
<1> USE DEF Unserved, InCall
<1>1. CASE OnPlayEps \/ OnSetRecord \/ OnResetPlayType \/ OnDestroy \/ OnSliderEnd
  BY <1>1, ButtonsDue
<1>2. CASE OnCreatePanel \/ OnSliderTrack \/ OnLoadEps
  BY <1>2 DEF OnCreatePanel, OnSliderTrack, OnLoadEps, threadVars, events, DueInv, Meets
<1>3. CASE OnIdleMain \/ OnIdlePanel \/ PopTake \/ PopDone \/ OnSliderResume \/ HandlerReturn
  <2>1. host' \notin {"signal", "wait"}
    BY <1>3 DEF OnIdleMain, OnIdlePanel, PopTake, PopDone, InLoop, OnSliderResume,
       ResumeCall, HandlerReturn, Return, threadVars, Known, InPop, AtRest
  <2> QED
    BY <2>1
<1>4. CASE WindowHandshake
  <2>1. /\ host = "signal" /\ host' = "wait"
        /\ UNCHANGED <<m_cur_event, asked, compelete, player>>
    BY <1>4 DEF WindowHandshake, Signal, Join, ResumeReturn
  <2> QED
    BY <2>1 DEF DueInv, Meets
<1>5. CASE Serve
  BY <1>5 DEF Serve, Switch
<1>6. CASE DoPlay \/ DoRecord \/ DoPlayEps \/ DoPlayEpsEnd \/ DoPlayDone
  <2>1. player = "work" /\ UNCHANGED <<host, m_cur_event, asked, compelete>>
    BY <1>6 DEF DoPlay, DoRecord, DoPlayEps, DoPlayEpsEnd, DoPlayDone, Working, WorkDone,
       threadVars, events
  <2> QED
    BY <2>1 DEF DueInv, Meets
<1>7. CASE PlayerHandshake
  <2>1. CASE Poll
    BY <2>1 DEF Poll, DueInv, Meets
  <2>2. ~Poll => compelete' \/ Unpark
    BY <1>7 DEF PlayerHandshake, SwitchSuspend, UnparkComplete, SwitchExit, Complete
  <2>3. CASE Unpark
    BY <2>3 DEF Unpark, DueInv, Meets
  <2> QED
    BY <2>1, <2>2, <2>3
<1>8. CASE UNCHANGED vars
  BY <1>8 DEF vars, threadVars, events, DueInv, Meets
<1> QED
  BY <1>1, <1>2, <1>3, <1>4, <1>5, <1>6, <1>7, <1>8
     DEF Next, Window, WindowGoesOn, PlayerGoesOn

\* The player meets the requests for a recording and for a playback in the modes
\* in which EpsFile has ResetRecord, RecordEnd, ResetPlay and StopPlay
\* (PlayerProc's switch, behind the buttons of CViewPlayRecordSettings).
THEOREM RequestsMeetMode ==
  Spec => [](~resumed /\ player = "switch" => Meets(m_recv_event))
<1>1. Init => DueInv
  BY DEF Init, ThreadInit, DueInv, Unserved, InCall
<1>2. DueInv /\ FitsInv /\ HandshakeInv /\ PopInv /\ [Next]_vars => DueInv'
  <2> SUFFICES ASSUME DueInv, FitsInv, HandshakeInv, PopInv, [Next]_vars, ~resumed'
               PROVE  DueInv'
    BY DEF DueInv
  <2>1. ~resumed
    BY ResumedStays
  <2> QED
    BY <2>1, DueNext, HandshakeKnows DEF FitsInv
<1>3. DueInv /\ HandshakeInv /\ PopInv => (~resumed /\ player = "switch" => Meets(m_recv_event))
  BY HandshakeKnows DEF DueInv, Unserved, InCall, Known, Meets
<1> QED
  BY <1>1, <1>2, <1>3, FitsCorrect, ThreadHandshake, PopAlways, PTL DEF Spec

-----------------------------------------------------------------------------
(***************************************************************************)
(* Theorems of EpsFile, for any widths of the clock, the gaps and the      *)
(* chunk and any lengths that fit them: a recording that is saved and      *)
(* loaded is played in time, and a seek lands in it, with the clock of the *)
(* player between the sought event and the next.                           *)
(***************************************************************************)

\* No gap is longer than G, which fits the WORD of a chunk, and a recording with
\* one gap more is shorter than the clock's range (49 days).
ShortGaps(G) ==
  /\ SizesAssumption
  /\ G \in 0..WordRange - 1
  /\ Gaps \subseteq 0..G
  /\ (MaxEvents + 1) * G < ClockRange

\* Chunks s and times t belong together: every gap is the time since the last.
Times(s, t, G) ==
  /\ s \in Seq(0..G) /\ t \in Seq(Nat)
  /\ Len(t) = Len(s)
  /\ Len(s) <= MaxEvents
  /\ \A i \in 1..Len(s) : t[i] = s[i] + (IF i = 1 THEN 0 ELSE t[i - 1])
  /\ \A i \in 1..Len(s) : t[i] <= i * G

\* Where the player and the slider are: the player delays by the gap it has read,
\* and drags begin while a file is played, which the first one ends.
PlayerInv ==
  /\ m_cur_ptr \in Nat /\ m_CurTiming \in Nat /\ delay \in Nat /\ ms \in Nat
  /\ turn \in {"poll", "pp", "delay"}
  /\ turn # "delay" => delay = 0
  /\ mode # "PLAY_EPS" => turn = "poll" /\ drags = 0
  /\ drags \in 0..2
  /\ drags = 0 => dragging = FALSE
  /\ Parked => turn = "poll"

\* When the chunks read so far have sounded.
TimePlayed == IF Played = 0 THEN 0 ELSE score[Played]

\* Recorded, saved and loaded, gaps and times belong together, and the player's
\* clock with its delay is at the time of the last chunk read, until a drag.
FileInv(G) ==
  /\ mode \in {"USER", "RECORDING", "PLAY_EPS"}
  /\ now \in 0..ClockRange - 1
  /\ mode = "RECORDING" => m_timeAgo = now
  /\ Times(rec, at, G)
  /\ Times(file.chunks, file.at, G)
  /\ Times(play, score, G)
  /\ PlayerInv
  /\ mode = "PLAY_EPS" /\ drags = 0 => m_CurTiming + delay = TimePlayed

\* What the assumptions give the arithmetic below.
LEMMA Widths ==
  ASSUME NEW G, ShortGaps(G)
  PROVE  /\ WordRange \in Nat /\ WordRange > 0
         /\ ClockRange \in Nat /\ ClockRange > 0
         /\ ClockRange >= WordRange
         /\ SliderUnit \in Nat /\ SliderUnit > 0
         /\ MaxEvents \in Nat
         /\ G \in Nat /\ G < WordRange /\ Gaps \subseteq 0..G
<1>1. /\ WordRange \in Nat /\ WordRange > 0
      /\ ClockRange \in Nat /\ ClockRange > 0
      /\ SliderUnit \in Nat /\ SliderUnit > 0
      /\ MaxEvents \in Nat
  BY DEF ShortGaps, SizesAssumption
<1>2. ClockRange % WordRange = 0
  BY DEF ShortGaps, SizesAssumption
<1>3. ClockRange >= WordRange
  <2>1. ASSUME ClockRange < WordRange
        PROVE  ClockRange % WordRange = ClockRange
    BY <1>1, <2>1
  <2> QED
    BY <1>1, <1>2, <2>1
<1>4. G \in Nat /\ G < WordRange /\ Gaps \subseteq 0..G
  BY <1>1 DEF ShortGaps
<1> QED
  BY <1>1, <1>3, <1>4

\* Less than a modulus is its own rest; up to twice, the difference is.
LEMMA ShortModulo ==
  ASSUME NEW m \in Nat, m > 0, NEW x \in Int
  PROVE  /\ 0 <= x /\ x < m => x % m = x
         /\ m <= x /\ x < m + m => x % m = x - m
         /\ 0 - m <= x /\ x < 0 => x % m = x + m
<1>1. ASSUME 0 <= x, x < m PROVE x % m = x
  BY <1>1
<1>2. ASSUME m <= x, x < m + m PROVE x % m = x - m
  BY <1>2
<1>3. ASSUME 0 - m <= x, x < 0 PROVE x % m = x + m
  BY <1>3
<1> QED
  BY <1>1, <1>2, <1>3

\* The times of a recording, gap by gap, stay within the clock.
LEMMA Multiples ==
  ASSUME NEW G, ShortGaps(G), NEW i \in 0..MaxEvents
  PROVE  /\ (i + 1) * G = i * G + G
         /\ i * G \in Nat
         /\ i * G + G < ClockRange
<1>1. G \in Nat /\ MaxEvents \in Nat /\ ClockRange \in Nat
  BY Widths
<1>2. (i + 1) * G = i * G + G /\ i * G \in Nat
  BY <1>1
<1>3. (i + 1) * G <= (MaxEvents + 1) * G
  BY <1>1
<1> QED
  BY <1>1, <1>2, <1>3 DEF ShortGaps

\* AppendChunk's two truncations, to a DWORD and to a WORD, keep a short gap,
\* also over the wrap of the clock.
LEMMA GapRecorded ==
  ASSUME NEW G, ShortGaps(G), NEW d \in Gaps, now \in 0..ClockRange - 1,
         m_timeAgo = now
  PROVE  Gap((now + d) % ClockRange) = d
<1> DEFINE n == (now + d) % ClockRange
<1>1. d \in Nat /\ d < WordRange /\ d < ClockRange
  BY Widths
<1>2. n \in 0..ClockRange - 1 /\ n \in {now + d, now + d - ClockRange}
  BY <1>1, Widths, ShortModulo
<1>3. (n - now) % ClockRange = d
  <2>1. n - now = d \/ n - now = d - ClockRange
    BY <1>1, <1>2, Widths
  <2>2. d % ClockRange = d
    BY <1>1, Widths
  <2>3. d < ClockRange => (d - ClockRange) % ClockRange = d
    BY <1>1, Widths, ShortModulo
  <2> QED
    BY <1>1, <2>1, <2>2, <2>3
<1>4. d % WordRange = d
  BY <1>1, Widths
<1> QED
  BY <1>3, <1>4 DEF Gap

\* Nothing recorded.
LEMMA TimesEmpty == ASSUME NEW G, ShortGaps(G) PROVE Times(<<>>, <<>>, G)
BY Widths DEF Times

\* An event d milliseconds after the last.
LEMMA TimesAppend ==
  ASSUME NEW G, ShortGaps(G), NEW s, NEW t, Times(s, t, G), Len(s) < MaxEvents,
         NEW d \in 0..G
  PROVE  Times(Append(s, d), Append(t, d + (IF t = <<>> THEN 0 ELSE Last(t))), G)
<1> DEFINE n == Len(s)
           e == d + (IF t = <<>> THEN 0 ELSE Last(t))
<1>1. /\ n \in Nat /\ Len(t) = n /\ d \in Nat /\ n < MaxEvents /\ MaxEvents \in Nat
      /\ s \in Seq(0..G) /\ t \in Seq(Nat) /\ G \in Nat
  BY Widths DEF Times
<1>2. e = d + (IF n = 0 THEN 0 ELSE t[n]) /\ e \in Nat
  BY <1>1 DEF Last
<1>3. e <= (n + 1) * G
  <2>1. (n + 1) * G = n * G + G /\ n * G \in Nat
    BY <1>1, Multiples
  <2>2. n # 0 => t[n] <= n * G
    BY <1>1 DEF Times
  <2> QED
    BY <1>1, <1>2, <2>1, <2>2
<1> HIDE DEF e, n
<1> DEFINE s2 == Append(s, d)
           t2 == Append(t, e)
<1>4. /\ s2 \in Seq(0..G) /\ t2 \in Seq(Nat) /\ Len(s2) = n + 1 /\ Len(t2) = n + 1
      /\ \A i \in 1..n : s2[i] = s[i] /\ t2[i] = t[i]
      /\ s2[n + 1] = d /\ t2[n + 1] = e
  BY <1>1, <1>2 DEF n
<1> HIDE DEF s2, t2
<1>5. ASSUME NEW i \in 1..n + 1
      PROVE  t2[i] = s2[i] + (IF i = 1 THEN 0 ELSE t2[i - 1]) /\ t2[i] <= i * G
  <2>1. CASE i \in 1..n
    <3>1. t[i] = s[i] + (IF i = 1 THEN 0 ELSE t[i - 1]) /\ t[i] <= i * G
      BY <2>1 DEF Times, n
    <3>2. t2[i] = t[i] /\ s2[i] = s[i]
      BY <1>4, <2>1
    <3>3. i # 1 => t2[i - 1] = t[i - 1]
      BY <1>1, <1>4, <2>1
    <3> QED
      BY <3>1, <3>2, <3>3
  <2>2. CASE i = n + 1
    BY <1>1, <1>2, <1>3, <1>4, <2>2
  <2> QED
    BY <1>1, <2>1, <2>2
<1>6. Times(s2, t2, G)
  BY <1>1, <1>4, <1>5 DEF Times
<1> QED
  BY <1>6 DEF s2, t2, e

\* A new object.
LEMMA FileInit == ASSUME NEW G, ShortGaps(G), EpsInit PROVE FileInv(G)
BY TimesEmpty DEF EpsInit, NoFile, FileInv, PlayerInv, Parked

\* Times fit the clock.
LEMMA TimeFits ==
  ASSUME NEW G, ShortGaps(G), Times(play, score, G), NEW i \in 1..Len(play)
  PROVE  score[i] \in Nat /\ score[i] < ClockRange
<1>1. /\ i \in 1..Len(score) /\ score \in Seq(Nat) /\ Len(play) <= MaxEvents
      /\ Len(play) \in Nat /\ MaxEvents \in Nat /\ G \in Nat /\ ClockRange \in Nat
      /\ score[i] <= i * G
  BY Widths DEF Times
<1> DEFINE j == i - 1
<1>2. j \in 0..MaxEvents /\ i = j + 1
  BY <1>1
<1> HIDE DEF j
<1>3. (j + 1) * G = j * G + G /\ j * G \in Nat /\ j * G + G < ClockRange
  BY <1>2, Multiples
<1>4. i * G < ClockRange /\ i * G \in Nat
  BY <1>1, <1>2, <1>3
<1>5. score[i] \in Nat
  BY <1>1
<1> QED
  BY <1>1, <1>4, <1>5

\* Whatever was played, the next chunk is played when it happened.
LEMMA PlaysNext ==
  ASSUME NEW G, ShortGaps(G), Times(play, score, G), m_cur_ptr \in Nat,
         m_cur_ptr < Len(play),
         m_CurTiming = TimePlayed
  PROVE  m_CurTiming + play[m_cur_ptr + 1] = score[m_cur_ptr + 1]
<1> DEFINE p == m_cur_ptr
<1>1. /\ p \in Nat /\ p + 1 \in 1..Len(play)
      /\ Len(score) = Len(play) /\ score \in Seq(Nat)
      /\ play \in Seq(0..G)
  BY DEF Times
<1>2. Played = p
  BY <1>1 DEF Played, Min
<1>3. score[p + 1] = play[p + 1] + (IF p + 1 = 1 THEN 0 ELSE score[p])
  <2>1. \A i \in 1..Len(play) : score[i] = play[i] + (IF i = 1 THEN 0 ELSE score[i - 1])
    BY DEF Times
  <2> QED
    BY <1>1, <2>1
<1>4. play[p + 1] \in Nat
  BY <1>1, Widths
<1>5. p # 0 => score[p] \in Nat
  BY <1>1
<1> QED
  BY <1>1, <1>2, <1>3, <1>4, <1>5 DEF TimePlayed

\* An event is appended with the gap to the one before it, wherever the clock
\* wraps.
LEMMA FileAppend ==
  ASSUME NEW G, ShortGaps(G), FileInv(G), NEW d \in Gaps, AppendChunk(d)
  PROVE  FileInv(G)'
<1> USE DEF AppendChunk
<1>1. m_timeAgo = now /\ now \in 0..ClockRange - 1 /\ Times(rec, at, G)
  BY DEF FileInv
<1>2. Gap(now') = d
  BY <1>1, GapRecorded
<1>3. d \in 0..G
  BY DEF ShortGaps
<1>4. Times(rec', at', G)
  BY <1>1, <1>2, <1>3, TimesAppend
<1>5. now' \in 0..ClockRange - 1
  <2>1. now + d \in Int /\ ClockRange \in Nat /\ ClockRange > 0
    BY <1>1, <1>3, Widths
  <2>2. (now + d) % ClockRange \in 0..ClockRange - 1
    BY <2>1
  <2> QED
    BY <2>2
<1> QED
  BY <1>4, <1>5 DEF FileInv, playVars, PlayerInv, Parked, TimePlayed, Played,
     loadVars, readVars, dragVars

\* Induction over the numbers of chunks, as a fact about a set.
LEMMA Least ==
  ASSUME NEW T \in SUBSET Nat, T # {}
  PROVE  \E x \in T : \A y \in T : x <= y
<1> DEFINE Less == {xy \in Nat \X Nat : xy[1] < xy[2]}
<1>1. IsWellFoundedOn(Less, Nat)
  BY NatLessThanWellFounded, Zenon DEF OpToRel
<1>2. PICK x \in T : \A y \in T : ~(<<y, x>> \in Less)
  BY <1>1, WFMin
<1>3. ASSUME NEW y \in T, y < x
      PROVE  <<y, x>> \in Less
  <2> DEFINE yx == <<y, x>>
  <2>1. yx \in Nat \X Nat /\ yx[1] < yx[2]
    BY <1>3
  <2> QED
    BY <2>1 DEF Less
<1>4. \A y \in T : ~(y < x)
  BY <1>2, <1>3, Zenon
<1>5. \A y \in T : x <= y
  BY <1>4
<1> QED
  BY <1>5

\* What a ReadChunk does to the cursor and the delay, on its own or in a drag.
LEMMA FetchSteps ==
  ASSUME NEW G, ShortGaps(G), FileInv(G), Fetch, play' = play
  PROVE  /\ m_cur_ptr' \in Nat /\ delay' \in Nat /\ delay = 0
         /\ turn' \in {"poll", "delay"} /\ (turn' # "delay" => delay' = 0)
         /\ \/ /\ m_cur_ptr < Len(play) /\ delay' = play[m_cur_ptr + 1]
               /\ Played = m_cur_ptr /\ Played' = m_cur_ptr + 1
            \/ delay' = 0 /\ Played' = Played
<1>1. /\ m_cur_ptr \in Nat /\ delay = 0 /\ Times(play, score, G)
  BY DEF Fetch, FileInv, PlayerInv
<1>2. play \in Seq(0..G) /\ Len(play) \in Nat /\ G \in Nat
  BY <1>1, Widths DEF Times
<1>3. m_cur_ptr' \in Nat /\ m_cur_ptr' > m_cur_ptr
  BY <1>1, <1>2 DEF Fetch
<1>4. /\ Played = IF m_cur_ptr < Len(play) THEN m_cur_ptr ELSE Len(play)
      /\ Played' = IF m_cur_ptr' < Len(play) THEN m_cur_ptr' ELSE Len(play)
  BY <1>1, <1>2, <1>3 DEF Played, Min
<1>5. CASE m_cur_ptr < Len(play)
  <2>1. /\ m_cur_ptr' = m_cur_ptr + 1 /\ delay' = play[m_cur_ptr + 1] /\ turn' = "delay"
    BY <1>5 DEF Fetch
  <2>2. play[m_cur_ptr + 1] \in Nat
    BY <1>1, <1>2, <1>5
  <2> QED
    BY <1>1, <1>2, <1>3, <1>4, <1>5, <2>1, <2>2
<1>6. CASE ~(m_cur_ptr < Len(play))
  <2>1. delay' = 0 /\ turn' = "poll"
    BY <1>6 DEF Fetch
  <2> QED
    BY <1>1, <1>2, <1>3, <1>4, <1>6, <2>1
<1> QED
  BY <1>5, <1>6

\* A chunk is read in time, or there is none left.
LEMMA FilePlays ==
  ASSUME NEW G, ShortGaps(G), FileInv(G), ReadChunk
  PROVE  FileInv(G)'
<1>1. Fetch /\ play' = play /\ mode' = mode /\ dragging' = dragging /\ drags' = drags
  BY DEF ReadChunk, loadVars, dragVars
<1>2. ~Parked /\ mode = "PLAY_EPS"
  BY <1>1 DEF Fetch
<1>3. /\ m_cur_ptr' \in Nat /\ delay' \in Nat /\ delay = 0
      /\ turn' \in {"poll", "delay"} /\ (turn' # "delay" => delay' = 0)
      /\ \/ /\ m_cur_ptr < Len(play) /\ delay' = play[m_cur_ptr + 1]
            /\ Played = m_cur_ptr /\ Played' = m_cur_ptr + 1
         \/ delay' = 0 /\ Played' = Played
  BY <1>1, FetchSteps
<1>4. PlayerInv'
  BY <1>1, <1>2, <1>3 DEF FileInv, PlayerInv, ReadChunk, dragVars, Parked
<1>5. drags = 0 => (m_CurTiming + delay)' = TimePlayed'
  <2>1. SUFFICES ASSUME drags = 0 PROVE m_CurTiming + delay' = TimePlayed'
    BY DEF ReadChunk
  <2>2. m_CurTiming = TimePlayed /\ m_CurTiming \in Nat /\ m_cur_ptr \in Nat
    BY <1>2, <1>3, <2>1 DEF FileInv, PlayerInv
  <2>3. score' = score
    BY DEF ReadChunk, loadVars
  <2>4. CASE m_cur_ptr < Len(play) /\ delay' = play[m_cur_ptr + 1] /\ Played' = m_cur_ptr + 1
    <3>1. m_CurTiming + play[m_cur_ptr + 1] = score[m_cur_ptr + 1]
      BY <2>2, <2>4, PlaysNext DEF FileInv
    <3> QED
      BY <2>2, <2>3, <2>4, <3>1 DEF TimePlayed
  <2>5. CASE delay' = 0 /\ Played' = Played
    BY <2>2, <2>3, <2>5 DEF TimePlayed
  <2> QED
    BY <1>3, <2>4, <2>5
<1> QED
  BY <1>1, <1>4, <1>5 DEF FileInv, ReadChunk, sizes, recVars, loadVars, dragVars

\* Where the chunks read have sounded, the clock has not wrapped.
LEMMA PlayedFits ==
  ASSUME NEW G, ShortGaps(G), Times(play, score, G), m_cur_ptr \in Nat
  PROVE  TimePlayed \in Nat /\ TimePlayed < ClockRange /\ Played \in 0..Len(play)
<1>1. Len(play) \in Nat /\ ClockRange \in Nat /\ ClockRange > 0
  BY Widths DEF Times
<1>2. Played \in 0..Len(play)
  BY <1>1 DEF Played, Min
<1>3. \A i \in 1..Len(play) : score[i] \in Nat /\ score[i] < ClockRange
  BY TimeFits
<1> QED
  BY <1>1, <1>2, <1>3 DEF TimePlayed

\* The delay over, the clock is where it led.
LEMMA FileAdvances ==
  ASSUME NEW G, ShortGaps(G), FileInv(G), AddTiming
  PROVE  FileInv(G)'
<1>1. /\ turn = "delay" /\ m_CurTiming' = (m_CurTiming + delay) % ClockRange
      /\ delay' = 0 /\ turn' \in {"pp", "poll"} /\ ~Parked
  BY DEF AddTiming, Advance
<1>2. m_cur_ptr' = m_cur_ptr /\ play' = play /\ score' = score /\ mode' = mode
  BY DEF AddTiming, loadVars
<1>3. /\ Times(play, score, G) /\ m_cur_ptr \in Nat /\ m_CurTiming \in Nat
      /\ delay \in Nat /\ mode = "PLAY_EPS"
  BY <1>1 DEF FileInv, PlayerInv
<1>4. m_CurTiming' \in Nat
  <2>1. m_CurTiming + delay \in Nat /\ ClockRange \in Nat /\ ClockRange > 0
    BY <1>3, Widths
  <2>2. (m_CurTiming + delay) % ClockRange \in Nat
    BY <2>1
  <2> QED
    BY <1>1, <2>2
<1>5. PlayerInv'
  BY <1>1, <1>2, <1>3, <1>4 DEF FileInv, PlayerInv, AddTiming, dragVars, Parked
<1>6. drags = 0 => (m_CurTiming + delay)' = TimePlayed'
  <2>1. SUFFICES ASSUME drags = 0 PROVE m_CurTiming' + delay' = TimePlayed
    BY <1>2 DEF TimePlayed, Played
  <2>2. m_CurTiming + delay = TimePlayed /\ TimePlayed \in Nat /\ TimePlayed < ClockRange
    BY <1>3, <2>1, PlayedFits DEF FileInv
  <2>3. TimePlayed % ClockRange = TimePlayed
    BY <2>2, Widths, ShortModulo
  <2> QED
    BY <1>1, <2>2, <2>3
<1> QED
  BY <1>2, <1>5, <1>6 DEF FileInv, AddTiming, sizes, recVars, loadVars, dragVars

\* A drag stops the player between two rounds, or goes on beside it.
LEMMA FileDrags ==
  ASSUME NEW G, ShortGaps(G), FileInv(G), SetPos
  PROVE  FileInv(G)'
<1>1. /\ mode = "PLAY_EPS" /\ mode' = mode /\ play' = play /\ score' = score
      /\ m_CurTiming' = m_CurTiming /\ (drags = 0 => turn = "poll")
      /\ drags' = IF drags = 0 THEN 1 ELSE 2
  BY DEF SetPos, loadVars
<1>2. PICK c \in 0..m_totaltime \div SliderUnit :
        /\ ms' = c * SliderUnit
        /\ \/ /\ m_cur_ptr' = IF Reaching(c * SliderUnit) = {}
                               THEN m_cur_ptr ELSE Min(Reaching(c * SliderUnit))
              /\ UNCHANGED <<turn, delay>>
           \/ drags # 0 /\ Fetch
  BY DEF SetPos
<1>3. ms' \in Nat
  <2>1. c \in Nat /\ SliderUnit \in Nat
    BY Widths
  <2> QED
    BY <1>2, <2>1
<1>4. drags \in 0..2 /\ drags' \in 1..2
  BY <1>1 DEF FileInv, PlayerInv
<1>5. /\ m_cur_ptr' \in Nat /\ delay' \in Nat
      /\ turn' \in {"poll", "pp", "delay"} /\ (turn' # "delay" => delay' = 0)
      /\ (drags = 0 => turn' = turn)
  <2>1. CASE drags # 0 /\ Fetch
    BY <1>1, <2>1, FetchSteps
  <2>2. CASE /\ m_cur_ptr' = IF Reaching(c * SliderUnit) = {}
                             THEN m_cur_ptr ELSE Min(Reaching(c * SliderUnit))
             /\ UNCHANGED <<turn, delay>>
    <3> DEFINE R == Reaching(c * SliderUnit)
    <3>1. R \in SUBSET Nat
      BY DEF Reaching
    <3> HIDE DEF R
    <3>2. R # {} => \E x \in R : \A y \in R : x <= y
      BY <3>1, Least
    <3>3. R # {} => Min(R) \in Nat
      BY <3>1, <3>2 DEF Min
    <3>4. m_cur_ptr' \in Nat
      BY <2>2, <3>3 DEF R, FileInv, PlayerInv
    <3> QED
      BY <2>2, <3>4 DEF FileInv, PlayerInv
  <2> QED
    BY <1>2, <2>1, <2>2
<1>6. PlayerInv'
  BY <1>1, <1>3, <1>4, <1>5 DEF FileInv, PlayerInv, Parked
<1> QED
  BY <1>1, <1>4, <1>6 DEF FileInv, SetPos, sizes, recVars, loadVars

\* The clock is set, or the player's sum is written over it.
LEMMA FileSets ==
  ASSUME NEW G, ShortGaps(G), FileInv(G), SetTiming
  PROVE  FileInv(G)'
<1>1. /\ dragging /\ dragging' = FALSE /\ ms' = 0 /\ drags' = drags
      /\ mode' = mode /\ m_cur_ptr' = m_cur_ptr /\ loadVars' = loadVars
  BY DEF SetTiming
<1>2. drags # 0 /\ drags \in 0..2 /\ mode = "PLAY_EPS"
  BY <1>1 DEF FileInv, PlayerInv
<1>3. /\ m_CurTiming' \in Nat /\ delay' \in Nat
      /\ turn' \in {"poll", "pp", "delay"} /\ (turn' # "delay" => delay' = 0)
  <2>1. CASE m_CurTiming' = ms /\ UNCHANGED <<turn, delay>>
    BY <2>1 DEF FileInv, PlayerInv
  <2>2. CASE Advance
    <3>1. m_CurTiming + delay \in Nat /\ ClockRange \in Nat /\ ClockRange > 0
      BY Widths DEF FileInv, PlayerInv
    <3>2. (m_CurTiming + delay) % ClockRange \in Nat
      BY <3>1
    <3> QED
      BY <2>2, <3>2 DEF Advance
  <2> QED
    BY <2>1, <2>2 DEF SetTiming
<1>4. PlayerInv'
  BY <1>1, <1>2, <1>3 DEF FileInv, PlayerInv, Parked
<1> QED
  BY <1>1, <1>2, <1>4 DEF FileInv, SetTiming, sizes, recVars, loadVars

\* Every step keeps gaps and times together.
LEMMA FileNext ==
  ASSUME NEW G, ShortGaps(G), FileInv(G), [EpsNext]_fileVars
  PROVE  FileInv(G)'
<1> USE DEF FileInv
<1> USE DEF PlayerInv, TimePlayed, Played, Parked, loadVars, readVars, dragVars
<1>1. CASE ResetRecord
  BY <1>1, TimesEmpty DEF ResetRecord, sizes, playVars
<1>2. CASE RecordEnd
  BY <1>2 DEF RecordEnd, sizes, recVars, playVars
<1>3. CASE \E d \in Gaps : AppendChunk(d)
  BY <1>3, FileAppend
<1>4. CASE WriteEPS
  BY <1>4 DEF WriteEPS, sizes, recVars, playVars
<1>5. CASE ReadEPS
  BY <1>5 DEF ReadEPS, recVars
<1>6. CASE ResetPlay
  <2>1. Played' = 0
    BY <1>6, Widths DEF ResetPlay, Min, Times
  <2> QED
    BY <1>6, <2>1 DEF ResetPlay, sizes, recVars
<1>7. CASE ReadChunk
  BY <1>7, FilePlays
<1>8. CASE AddTiming
  BY <1>8, FileAdvances
<1>9. CASE SetPos
  BY <1>9, FileDrags
<1>10. CASE SetTiming
  BY <1>10, FileSets
<1>11. CASE StopPlay
  BY <1>11 DEF StopPlay, sizes, recVars, playVars
<1>12. CASE UNCHANGED fileVars
  BY <1>12 DEF fileVars, sizes, recVars, playVars
<1> QED
  BY <1>1, <1>2, <1>3, <1>4, <1>5, <1>6, <1>7, <1>8, <1>9, <1>10, <1>11, <1>12
  DEF EpsNext

\* What was recorded, saved and loaded is played at the times at which it happened,
\* for any clock, widths and gaps that fit them (AppendChunk, WriteEPS, ReadEPS and
\* ReadChunk of CFile_eps.hxx, do_play_eps).
THEOREM PlaysCorrect ==
  ASSUME NEW G, ShortGaps(G)
  PROVE  EpsSpec => []PlaysAsRecorded
<1>1. EpsInit => FileInv(G)
  BY FileInit
<1>2. FileInv(G) /\ [EpsNext]_fileVars => FileInv(G)'
  BY FileNext
<1>3. FileInv(G) => PlaysAsRecorded
  <2>1. SUFFICES ASSUME FileInv(G), mode = "PLAY_EPS", drags = 0
                 PROVE  Clock = TimePlayed
    BY DEF PlaysAsRecorded, TimePlayed
  <2>2. m_CurTiming + delay = TimePlayed /\ TimePlayed \in Nat /\ TimePlayed < ClockRange
    BY <2>1, PlayedFits DEF FileInv, PlayerInv
  <2>3. TimePlayed % ClockRange = TimePlayed
    BY <2>2, Widths, ShortModulo
  <2> QED
    BY <2>2, <2>3 DEF Clock
<1> QED
  BY <1>1, <1>2, <1>3, PTL DEF EpsSpec


\* The loops of calc_total and SetPos add up to the times of the events.
LEMMA TimeOfIs ==
  ASSUME NEW G, ShortGaps(G), NEW s, NEW t, Times(s, t, G), NEW n \in 0..Len(s)
  PROVE  TimeOf(s, n) = IF n = 0 THEN 0 ELSE t[n]
<1> DEFINE L == Len(s)
           Sums(r) == r = [i \in 0..Len(s) |->
                            IF i = 0 THEN 0 ELSE (r[i - 1] + s[i]) % ClockRange]
           w == [i \in 0..L |-> IF i = 0 THEN 0 ELSE t[i]]
           time == CHOOSE r : Sums(r)
<1>1. /\ L \in Nat /\ L <= MaxEvents /\ MaxEvents \in Nat /\ G \in Nat
      /\ ClockRange \in Nat
      /\ \A i \in 1..L : s[i] \in Nat /\ t[i] \in Nat
  <2>1. MaxEvents \in Nat /\ G \in Nat /\ ClockRange \in Nat
    BY Widths
  <2>2. s \in Seq(0..G) /\ t \in Seq(Nat) /\ Len(s) <= MaxEvents /\ Len(t) = Len(s)
    BY DEF Times
  <2> QED
    BY <2>1, <2>2
<1>2. ASSUME NEW i \in 1..L
      PROVE  /\ t[i] = s[i] + w[i - 1]
             /\ t[i] < ClockRange
  <2>1. t[i] = s[i] + (IF i = 1 THEN 0 ELSE t[i - 1]) /\ t[i] <= i * G
    BY DEF Times
  <2>2. i - 1 \in 0..MaxEvents /\ i - 1 \in 0..L
    BY <1>1
  <2>3. i * G < ClockRange
    <3> DEFINE j == i - 1
    <3>1. j \in 0..MaxEvents /\ i = j + 1
      BY <2>2, <1>1
    <3> HIDE DEF j
    <3>2. (j + 1) * G = j * G + G /\ j * G + G < ClockRange
      BY <3>1, Multiples
    <3> QED
      BY <3>1, <3>2
  <2>4. w[i - 1] = IF i = 1 THEN 0 ELSE t[i - 1]
    BY <1>1, <2>2
  <2>5. i * G \in Nat
    BY <1>1
  <2> QED
    BY <1>1, <2>1, <2>3, <2>4, <2>5
<1>3. \A i \in 1..L : (w[i - 1] + s[i]) % ClockRange = t[i]
  <2> SUFFICES ASSUME NEW i \in 1..L PROVE (w[i - 1] + s[i]) % ClockRange = t[i]
    OBVIOUS
  <2>1. w[i - 1] \in Nat
    BY <1>1
  <2>2. w[i - 1] + s[i] = t[i]
    BY <1>1, <1>2, <2>1
  <2>3. t[i] % ClockRange = t[i]
    <3> DEFINE a == t[i]
    <3>1. a \in Nat /\ a < ClockRange /\ ClockRange \in Nat /\ ClockRange > 0
      BY <1>1, <1>2, Widths
    <3> HIDE DEF a
    <3>2. a % ClockRange = a
      BY <3>1, ShortModulo
    <3> QED
      BY <3>2 DEF a
  <2> QED
    BY <2>2, <2>3
<1> HIDE DEF w
<1>4. Sums(w)
  <2>1. w = [i \in 0..L |-> IF i = 0 THEN 0 ELSE t[i]]
    BY DEF w
  <2>2. \A i \in 0..L : i # 0 => i \in 1..L
    BY <1>1
  <2> QED
    BY <1>3, <2>1, <2>2
<1>5. Sums(time)
  <2> HIDE DEF Sums
  <2> QED
    BY <1>4, Zenon
<1>6. TimeOf(s, n) = time[n]
  BY DEF TimeOf
<1> HIDE DEF time
<1>7. time[0] = 0 /\ \A i \in 1..L : time[i] = (time[i - 1] + s[i]) % ClockRange
  <2>1. \A i \in 0..L : time[i] = IF i = 0 THEN 0 ELSE (time[i - 1] + s[i]) % ClockRange
    BY <1>5
  <2>2. 0 \in 0..L /\ \A i \in 1..L : i \in 0..L /\ i # 0
    BY <1>1
  <2> QED
    BY <2>1, <2>2
<1>8. w[0] = 0 /\ \A i \in 1..L : w[i] = (w[i - 1] + s[i]) % ClockRange
  BY <1>1, <1>3 DEF w
<1> DEFINE Wrong == {i \in 0..L : time[i] # w[i]}
<1>9. Wrong = {}
  <2>1. SUFFICES ASSUME Wrong # {} PROVE FALSE
    OBVIOUS
  <2>2. Wrong \in SUBSET Nat
    BY <1>1
  <2> HIDE DEF Wrong
  <2>3. PICK i \in Wrong : \A j \in Wrong : i <= j
    BY <2>1, <2>2, Least
  <2> USE DEF Wrong
  <2>4. i \in 1..L /\ i - 1 \in 0..L /\ time[i - 1] = w[i - 1]
    BY <1>1, <1>7, <1>8, <2>3
  <2> QED
    BY <1>7, <1>8, <2>3, <2>4
<1> QED
  BY <1>1, <1>6, <1>9 DEF w


\* So the sums rise gap by gap, and never wrap.
LEMMA TimeSteps ==
  ASSUME NEW G, ShortGaps(G), NEW s, NEW t, Times(s, t, G)
  PROVE  /\ TimeOf(s, 0) = 0
         /\ \A i \in 0..Len(s) : /\ TimeOf(s, i) \in Nat
                                 /\ TimeOf(s, i) + G < ClockRange
         /\ \A i \in 1..Len(s) : /\ TimeOf(s, i) = TimeOf(s, i - 1) + s[i]
                                 /\ s[i] \in 0..G
<1>1. /\ Len(s) \in Nat /\ Len(s) <= MaxEvents /\ MaxEvents \in Nat /\ G \in Nat
      /\ ClockRange \in Nat
      /\ \A i \in 1..Len(s) : s[i] \in 0..G /\ t[i] \in Nat
  <2>1. MaxEvents \in Nat /\ G \in Nat /\ ClockRange \in Nat
    BY Widths
  <2>2. s \in Seq(0..G) /\ t \in Seq(Nat) /\ Len(t) = Len(s) /\ Len(s) <= MaxEvents
    BY DEF Times
  <2> QED
    BY <2>1, <2>2
<1>2. \A i \in 0..Len(s) : TimeOf(s, i) = IF i = 0 THEN 0 ELSE t[i]
  BY TimeOfIs
<1>3. ASSUME NEW i \in 1..Len(s)
      PROVE  t[i] = s[i] + (IF i = 1 THEN 0 ELSE t[i - 1]) /\ t[i] <= i * G
  BY DEF Times
<1>4. TimeOf(s, 0) = 0
  BY <1>1, <1>2
<1>5. ASSUME NEW i \in 0..Len(s)
      PROVE  TimeOf(s, i) \in Nat /\ TimeOf(s, i) + G < ClockRange
  <2>1. i * G \in Nat /\ i * G + G < ClockRange
    <3>1. i \in 0..MaxEvents
      BY <1>1
    <3> QED
      BY <3>1, Multiples
  <2>2. i # 0 => t[i] \in Nat /\ t[i] <= i * G
    BY <1>1, <1>3
  <2>3. TimeOf(s, i) = IF i = 0 THEN 0 ELSE t[i]
    BY <1>2
  <2> QED
    BY <1>1, <2>1, <2>2, <2>3
<1>6. ASSUME NEW i \in 1..Len(s)
      PROVE  TimeOf(s, i) = TimeOf(s, i - 1) + s[i]
  <2>1. /\ TimeOf(s, i) = t[i]
        /\ TimeOf(s, i - 1) = IF i = 1 THEN 0 ELSE t[i - 1]
    BY <1>1, <1>2
  <2>2. i # 1 => t[i - 1] \in Nat
    BY <1>1
  <2> QED
    BY <1>1, <1>3, <2>1, <2>2
<1> QED
  BY <1>1, <1>4, <1>5, <1>6

\* SeekLands, of a clock.
LandsAt(clock) ==
  /\ clock \in Nat
  /\ clock >= TimeOf(play, Played)
  /\ \E i \in 0..Len(play) :
       clock - TimeOf(play, Played) <= IF i = 0 THEN 0 ELSE play[i]

\* Behind SeekLands: the total the slider is scaled by is the sum of the chunks,
\* the position of the first drag fits the cursor from its first store on, and the
\* clock once it is complete.
SeekInv(G) ==
  /\ FileInv(G)
  /\ file.exists => file.total_ms = TimeOf(file.chunks, Len(file.chunks))
  /\ m_totaltime = TimeOf(play, Len(play))
  /\ asserted => drags # 0 /\ play = <<>>
  /\ drags = 1 => IF dragging THEN LandsAt(ms) ELSE LandsAt(m_CurTiming + delay)

\* SetPos finds the first chunk that reaches the position.
LEMMA SeekFinds ==
  ASSUME NEW G, ShortGaps(G), SeekInv(G), NEW c \in 0..m_totaltime \div SliderUnit
  PROVE  LET to == c * SliderUnit
             p == Min(Reaching(to))
         IN  /\ to \in Nat /\ to <= TimeOf(play, Len(play))
             /\ play # <<>> =>
                  /\ Reaching(to) # {} /\ p \in 0..Len(play) - 1
                  /\ TimeOf(play, p) <= to
                  /\ to - TimeOf(play, p) <= play[p + 1]
<1> DEFINE L == Len(play)
           T(i) == TimeOf(play, i)
<1>1. Times(play, score, G) /\ L \in Nat /\ m_totaltime = T(L) /\ play \in Seq(0..G)
  BY DEF SeekInv, FileInv, Times
<1> HIDE DEF T
<1>2. /\ T(0) = 0
      /\ \A i \in 0..L : T(i) \in Nat
      /\ \A i \in 1..L : T(i) = T(i - 1) + play[i] /\ play[i] \in Nat
  <2>1. /\ TimeOf(play, 0) = 0
        /\ \A i \in 0..L : TimeOf(play, i) \in Nat
        /\ \A i \in 1..L : TimeOf(play, i) = TimeOf(play, i - 1) + play[i] /\ play[i] \in 0..G
    BY <1>1, TimeSteps
  <2>2. G \in Nat
    BY Widths
  <2> QED
    BY <2>1, <2>2 DEF T
<1> DEFINE to == c * SliderUnit
<1>3. to \in Nat /\ to <= T(L)
  <2>1. m_totaltime \in Nat /\ SliderUnit \in Nat /\ SliderUnit > 0
    BY <1>1, <1>2, Widths
  <2>2. c \in Nat /\ c <= m_totaltime \div SliderUnit
    BY <2>1
  <2>3. SliderUnit * (m_totaltime \div SliderUnit) <= m_totaltime
    BY <2>1
  <2>4. m_totaltime \div SliderUnit \in Nat
    BY <2>1
  <2>5. c * SliderUnit <= SliderUnit * (m_totaltime \div SliderUnit)
    BY <2>1, <2>2, <2>4
  <2>6. c * SliderUnit \in Nat
    BY <2>1, <2>2
  <2> QED
    BY <1>1, <2>1, <2>3, <2>4, <2>5, <2>6
<1> HIDE DEF to
<1> DEFINE R == Reaching(to)
           p == Min(R)
<1>4. ASSUME play # <<>>
      PROVE  R # {} /\ p \in 0..L - 1 /\ T(p) <= to /\ to - T(p) <= play[p + 1]
  <2>1. R = {id \in 0..L - 1 : T(id + 1) >= to}
    BY DEF Reaching, T
  <2>2. L >= 1
    BY <1>1, <1>4
  <2>3. L - 1 \in R
    BY <1>1, <1>3, <2>1, <2>2
  <2>4. p \in R /\ \A y \in R : p <= y
    <3>1. R \in SUBSET Nat
      BY <1>1, <2>1
    <3> HIDE DEF R
    <3>2. \E x \in R : \A y \in R : x <= y
      BY <2>3, <3>1, Least
    <3> QED
      BY <3>2 DEF Min
  <2> HIDE DEF p
  <2>5. p \in 0..L - 1 /\ T(p + 1) >= to
    BY <2>1, <2>4
  <2>6. T(p) <= to
    <3>1. CASE p = 0
      BY <1>2, <1>3, <3>1
    <3>2. CASE p # 0
      <4>1. p - 1 \in 0..L - 1 /\ ~(p <= p - 1)
        BY <1>1, <2>5, <3>2
      <4>2. ~(T((p - 1) + 1) >= to)
        BY <2>1, <2>4, <4>1
      <4>3. (p - 1) + 1 = p /\ T(p) \in Nat
        BY <1>1, <1>2, <2>5
      <4> QED
        BY <1>3, <4>2, <4>3
    <3> QED
      BY <3>1, <3>2
  <2>7. to - T(p) <= play[p + 1]
    <3>1. p + 1 \in 1..L /\ p \in 0..L /\ (p + 1) - 1 = p
      BY <1>1, <2>5
    <3>2. T(p + 1) = T(p) + play[p + 1] /\ play[p + 1] \in Nat
      BY <1>2, <3>1
    <3> QED
      BY <1>2, <1>3, <2>5, <3>1, <3>2
  <2> QED
    BY <2>3, <2>5, <2>6, <2>7
<1> QED
  BY <1>3, <1>4 DEF T, to

\* The first drag puts the cursor where its position lands.
LEMMA SeekSets ==
  ASSUME NEW G, ShortGaps(G), SeekInv(G), SetPos
  PROVE  /\ asserted' => play = <<>>
         /\ drags' = 1 => LandsAt(ms)'
<1>1. PICK c \in 0..m_totaltime \div SliderUnit :
        /\ ms' = c * SliderUnit
        /\ asserted' = (asserted \/ Reaching(c * SliderUnit) = {})
        /\ \/ m_cur_ptr' = IF Reaching(c * SliderUnit) = {}
                           THEN m_cur_ptr ELSE Min(Reaching(c * SliderUnit))
           \/ drags # 0
  BY DEF SetPos
<1> DEFINE to == c * SliderUnit
           p == Min(Reaching(to))
           L == Len(play)
<1>2. /\ to \in Nat /\ to <= TimeOf(play, L)
      /\ play # <<>> => /\ Reaching(to) # {} /\ p \in 0..L - 1
                        /\ TimeOf(play, p) <= to
                        /\ to - TimeOf(play, p) <= play[p + 1]
  BY SeekFinds
<1>3. /\ play' = play /\ drags' = IF drags = 0 THEN 1 ELSE 2
  BY DEF SetPos, loadVars
<1>4. /\ L \in Nat /\ play \in Seq(0..G) /\ m_cur_ptr \in Nat
      /\ Times(play, score, G)
  BY DEF SeekInv, FileInv, PlayerInv, Times
<1>5. asserted' => play = <<>>
  BY <1>1, <1>2 DEF SeekInv
<1>6. ASSUME drags' = 1 PROVE LandsAt(ms)'
  <2>1. /\ ms' = to
        /\ m_cur_ptr' = IF Reaching(to) = {} THEN m_cur_ptr ELSE p
    BY <1>1, <1>3, <1>6
  <2> HIDE DEF to
  <2>2. CASE play # <<>>
    <3>1. m_cur_ptr' = p
      BY <1>2, <2>1, <2>2
    <3> HIDE DEF p
    <3>2. Played' = p
      BY <1>2, <1>3, <1>4, <2>2, <3>1 DEF Played, Min
    <3>3. p + 1 \in 0..L /\ p + 1 # 0
      BY <1>2, <1>4, <2>2
    <3> QED
      BY <1>2, <1>3, <2>1, <2>2, <3>2, <3>3 DEF LandsAt
  <2>3. CASE play = <<>>
    <3>1. L = 0 /\ TimeOf(play, 0) = 0
      BY <1>4, <2>3, TimeSteps
    <3>2. to = 0
      BY <1>2, <3>1
    <3>3. Reaching(to) = {}
      BY <3>1 DEF Reaching
    <3>4. Played' = 0
      BY <1>3, <1>4, <2>1, <3>1, <3>3 DEF Played, Min
    <3> QED
      BY <1>3, <2>1, <3>1, <3>2, <3>4 DEF LandsAt
  <2> QED
    BY <2>2, <2>3
<1> QED
  BY <1>5, <1>6

\* After a seek, clock and sum of the gaps go on alike.
LEMMA SeekPlays ==
  ASSUME NEW G, ShortGaps(G), SeekInv(G), ReadChunk, drags = 1
  PROVE  LandsAt(m_CurTiming + delay)'
<1> DEFINE L == Len(play)
           T(i) == TimeOf(play, i)
           clock == m_CurTiming
<1>1. Fetch /\ play' = play /\ mode' = mode /\ m_CurTiming' = m_CurTiming
  BY DEF ReadChunk, loadVars
<1>2. dragging' = dragging /\ drags' = drags /\ ~dragging
  BY <1>1 DEF Fetch, Parked, ReadChunk, dragVars
<1>3. /\ Times(play, score, G) /\ FileInv(G) /\ LandsAt(m_CurTiming + delay)
      /\ m_CurTiming \in Nat /\ L \in Nat
  BY <1>2 DEF SeekInv, FileInv, PlayerInv, Times
<1>4. /\ delay' \in Nat /\ delay = 0
      /\ \/ /\ m_cur_ptr < Len(play) /\ delay' = play[m_cur_ptr + 1]
            /\ Played = m_cur_ptr /\ Played' = m_cur_ptr + 1
         \/ delay' = 0 /\ Played' = Played
  BY <1>1, <1>3, FetchSteps
<1>5. LandsAt(clock) /\ m_cur_ptr \in Nat
  BY <1>3, <1>4 DEF FileInv, PlayerInv
<1>6. CASE m_cur_ptr < L /\ delay' = play[m_cur_ptr + 1] /\ Played = m_cur_ptr
           /\ Played' = m_cur_ptr + 1
  <2> DEFINE n == m_cur_ptr
             q == play[n + 1]
  <2>1. n + 1 \in 1..L /\ n \in 0..L /\ (n + 1) - 1 = n
    BY <1>3, <1>5, <1>6
  <2>2. T(n + 1) = T(n) + q /\ q \in 0..G /\ T(n) \in Nat /\ T(n + 1) \in Nat
    <3>1. /\ \A i \in 0..L : TimeOf(play, i) \in Nat
          /\ \A i \in 1..L : TimeOf(play, i) = TimeOf(play, i - 1) + play[i] /\ play[i] \in 0..G
      BY <1>3, TimeSteps
    <3> QED
      BY <2>1, <3>1
  <2> HIDE DEF T
  <2>3. q \in Nat
    BY <2>2, Widths
  <2>4. clock >= T(n) /\ clock \in Nat
    BY <1>5, <1>6 DEF LandsAt, T
  <2>5. PICK i \in 0..L : clock - T(n) <= IF i = 0 THEN 0 ELSE play[i]
    BY <1>5, <1>6 DEF LandsAt, T
  <2>6. clock + q >= T(n + 1) /\ (clock + q) - T(n + 1) = clock - T(n) /\ clock + q \in Nat
    BY <2>2, <2>3, <2>4
  <2>7. (clock + q) - T(n + 1) <= IF i = 0 THEN 0 ELSE play[i]
    BY <2>5, <2>6
  <2>8. (m_CurTiming + delay)' = clock + q /\ Played' = n + 1
    BY <1>1, <1>6
  <2> QED
    BY <1>1, <2>6, <2>7, <2>8 DEF LandsAt, T
<1>7. CASE delay' = 0 /\ Played' = Played
  BY <1>1, <1>3, <1>4, <1>7 DEF LandsAt
<1> QED
  BY <1>4, <1>6, <1>7

\* And the clock does not wrap.
LEMMA LandsShort ==
  ASSUME NEW G, ShortGaps(G), Times(play, score, G), m_cur_ptr \in Nat,
         NEW clock, LandsAt(clock)
  PROVE  clock \in Nat /\ clock % ClockRange = clock
<1> DEFINE T(i) == TimeOf(play, i)
<1>1. /\ \A i \in 0..Len(play) : T(i) \in Nat /\ T(i) + G < ClockRange
      /\ \A i \in 1..Len(play) : play[i] \in 0..G
      /\ Len(play) \in Nat
  <2>1. /\ \A i \in 0..Len(play) : /\ TimeOf(play, i) \in Nat
                                   /\ TimeOf(play, i) + G < ClockRange
        /\ \A i \in 1..Len(play) : /\ TimeOf(play, i) = TimeOf(play, i - 1) + play[i]
                                   /\ play[i] \in 0..G
    BY TimeSteps
  <2>2. Len(play) \in Nat
    BY DEF Times
  <2> QED
    BY <2>1, <2>2
<1> HIDE DEF T
<1>2. Played \in 0..Len(play)
  BY PlayedFits
<1>3. PICK i \in 0..Len(play) : clock - T(Played) <= IF i = 0 THEN 0 ELSE play[i]
  BY DEF LandsAt, T
<1>4. clock \in Nat /\ G \in Nat /\ ClockRange \in Nat /\ ClockRange > 0
  BY Widths DEF LandsAt
<1>5. clock - T(Played) <= G
  BY <1>1, <1>2, <1>3, <1>4
<1>6. clock < ClockRange
  BY <1>1, <1>2, <1>4, <1>5
<1> QED
  BY <1>4, <1>6, ShortModulo

\* No file, nothing sought.
LEMMA SeekInit == ASSUME NEW G, ShortGaps(G), EpsInit PROVE SeekInv(G)
<1>1. FileInv(G)
  BY FileInit
<1>2. /\ mode = "USER" /\ asserted = FALSE /\ play = <<>> /\ Len(play) = 0
      /\ file.exists = FALSE /\ m_totaltime = 0 /\ drags = 0
  BY DEF EpsInit, NoFile
<1>3. TimeOf(play, 0) = 0
  BY <1>1, TimeSteps DEF FileInv
<1> QED
  BY <1>1, <1>2, <1>3 DEF SeekInv

\* Every step keeps the total and the clock right.
LEMMA SeekNext ==
  ASSUME NEW G, ShortGaps(G), SeekInv(G), [EpsNext]_fileVars
  PROVE  SeekInv(G)'
<1>1. FileInv(G)' /\ FileInv(G)
  BY FileNext DEF SeekInv
<1>2. mode # "PLAY_EPS" => drags = 0
  BY <1>1 DEF FileInv, PlayerInv
<1> USE <1>1, <1>2 DEF SeekInv, LandsAt, Played, loadVars, readVars, dragVars
<1>3. CASE ResetRecord
  BY <1>3 DEF ResetRecord, playVars
<1>4. CASE RecordEnd
  BY <1>4 DEF RecordEnd, playVars
<1>5. CASE \E d \in Gaps : AppendChunk(d)
  BY <1>5 DEF AppendChunk, playVars
<1>6. CASE WriteEPS
  BY <1>6 DEF WriteEPS, playVars
<1>7. CASE ReadEPS
  BY <1>7 DEF ReadEPS
<1>8. CASE ResetPlay
  BY <1>8 DEF ResetPlay
<1>9. CASE ReadChunk
  <2>1. drags = 1 => LandsAt(m_CurTiming + delay)' /\ ~dragging
    BY <1>9, SeekPlays DEF ReadChunk, Fetch, Parked
  <2> HIDE DEF LandsAt
  <2> QED
    BY <1>9, <2>1 DEF ReadChunk
<1>10. CASE AddTiming
  <2>1. ASSUME drags = 1 PROVE LandsAt(m_CurTiming + delay)'
    <3>1. ~dragging /\ delay' = 0 /\ m_CurTiming' = (m_CurTiming + delay) % ClockRange
      BY <1>10, <2>1 DEF AddTiming, Advance, Parked
    <3> DEFINE clock == m_CurTiming + delay
    <3> HIDE DEF LandsAt
    <3>2. LandsAt(clock) /\ m_cur_ptr \in Nat /\ Times(play, score, G)
      BY <2>1, <3>1 DEF FileInv, PlayerInv
    <3>3. clock \in Nat /\ clock % ClockRange = clock
      BY <3>2, LandsShort
    <3>4. (m_CurTiming + delay)' = clock
      BY <3>1, <3>3
    <3>5. play' = play /\ m_cur_ptr' = m_cur_ptr
      BY <1>10 DEF AddTiming
    <3> HIDE DEF clock
    <3>6. Played' = Played
      BY <3>5
    <3> HIDE DEF Played
    <3>7. /\ clock \in Nat /\ clock >= TimeOf(play, Played)
          /\ \E i \in 0..Len(play) :
               clock - TimeOf(play, Played) <= IF i = 0 THEN 0 ELSE play[i]
      BY <3>2 DEF LandsAt
    <3> QED
      BY <3>4, <3>5, <3>6, <3>7 DEF LandsAt
  <2> HIDE DEF LandsAt
  <2>2. drags = 1 => ~dragging
    BY <1>10 DEF AddTiming, Advance, Parked
  <2>3. UNCHANGED <<mode, file, play, m_totaltime, asserted, drags, dragging>>
    BY <1>10 DEF AddTiming
  <2> QED
    BY <2>1, <2>2, <2>3
<1>11. CASE SetPos
  <2>1. (asserted' => play = <<>>) /\ (drags' = 1 => LandsAt(ms)')
    BY <1>11, SeekSets
  <2> HIDE DEF LandsAt
  <2> QED
    BY <1>11, <2>1 DEF SetPos
<1>12. CASE SetTiming
  <2>1. ASSUME drags = 1 PROVE LandsAt(m_CurTiming + delay)'
    <3>1. dragging /\ turn = "poll" /\ delay = 0 /\ ms \in Nat
      BY <1>12, <2>1 DEF SetTiming, FileInv, PlayerInv, Parked
    <3>2. m_CurTiming' = ms /\ delay' = 0
      BY <1>12, <3>1 DEF SetTiming, Advance
    <3>3. (m_CurTiming + delay)' = ms
      BY <3>1, <3>2
    <3>4. LandsAt(ms) /\ play' = play /\ m_cur_ptr' = m_cur_ptr
      BY <1>12, <2>1, <3>1 DEF SetTiming
    <3>5. Played' = Played
      BY <3>4
    <3> HIDE DEF Played
    <3> QED
      BY <3>3, <3>4, <3>5
  <2> HIDE DEF LandsAt
  <2>2. /\ UNCHANGED <<mode, file, play, m_totaltime, asserted, drags>>
        /\ dragging' = FALSE
    BY <1>12 DEF SetTiming
  <2> QED
    BY <2>1, <2>2
<1>13. CASE StopPlay
  BY <1>13 DEF StopPlay, playVars
<1>14. CASE UNCHANGED fileVars
  <2>1. /\ UNCHANGED <<mode, file, play, m_cur_ptr, m_totaltime, m_CurTiming, delay>>
        /\ UNCHANGED <<dragging, ms, drags, asserted>>
    BY <1>14 DEF fileVars, playVars
  <2>2. Played' = Played
    BY <2>1
  <2> HIDE DEF Played
  <2> QED
    BY <2>1, <2>2
<1> QED
  BY <1>3, <1>4, <1>5, <1>6, <1>7, <1>8, <1>9, <1>10, <1>11, <1>12, <1>13, <1>14
  DEF EpsNext

\* Every position of the slider lies in a file that has a chunk, whatever the player
\* does beside SetPos, and the first drag leaves the clock less than a gap ahead of
\* the music (SetPos, do_play_eps and OnSlider).
THEOREM SeekCorrect ==
  ASSUME NEW G, ShortGaps(G)
  PROVE  EpsSpec => []SeekLands
<1>1. EpsInit => SeekInv(G)
  BY SeekInit
<1>2. SeekInv(G) /\ [EpsNext]_fileVars => SeekInv(G)'
  BY SeekNext
<1>3. SeekInv(G) => SeekLands
  <2>1. SUFFICES ASSUME SeekInv(G) PROVE SeekLands
    OBVIOUS
  <2>2. drags = 1 /\ ~dragging => LandsAt(Clock)
    <3>1. SUFFICES ASSUME drags = 1, ~dragging PROVE LandsAt(Clock)
      OBVIOUS
    <3>2. LandsAt(m_CurTiming + delay) /\ m_cur_ptr \in Nat /\ Times(play, score, G)
      BY <2>1, <3>1 DEF SeekInv, FileInv, PlayerInv
    <3>3. (m_CurTiming + delay) % ClockRange = m_CurTiming + delay
      BY <3>2, LandsShort
    <3> QED
      BY <3>2, <3>3 DEF Clock
  <2> QED
    BY <2>1, <2>2 DEF SeekInv, LandsAt, SeekLands
<1> QED
  BY <1>1, <1>2, <1>3, PTL DEF EpsSpec
=============================================================================
