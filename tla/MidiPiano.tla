------------------------------ MODULE MidiPiano ------------------------------
(***************************************************************************)
(* The midi_piano program: the window thread (CMainFrame and the Play and  *)
(* Record panel of CViewPlayRecordSettings), the player thread, the        *)
(* message queue between them and the two .eps buffers they share.         *)
(*                                                                         *)
(* The window thread runs one handler at a time.  The handlers that call   *)
(* CPlayerThread are the calls of PlayerThread with what they do before    *)
(* and after; the idle handlers pop the queue.  The queue is the set of    *)
(* the kinds of its messages: "raw" from do_play, "raw2" from do_play_eps, *)
(* each readable only by the pop_msg overload of its kind (the order and   *)
(* the number of the messages are in DikQueue).  A .eps buffer is its      *)
(* cursor and its chunk count.                                             *)
(***************************************************************************)
EXTENDS PlayerThread

CONSTANT MaxChunks      \* bound: chunks in a .eps buffer
ASSUME PianoBounds == MaxChunks \in Nat \ {0}

Kinds == {"raw", "raw2"}            \* of messages

Buffers == {"play", "record"}       \* m_eps_play, m_eps_record
Buttons == {"Load", "Save", "Record", "Play", "Slider"}

VARIABLES
  queue,            \* m_KeyMsgQueue: the kinds of its messages
  pop,              \* where the window thread is in a pop_msg; to the handshake
                    \* that is time outside every call
  popping,          \* the kinds of the messages a pop_msg in progress has detached
  attach,           \* m_AttachEps
  cur_ptr,          \* m_cur_ptr of each buffer
  readmax,          \* m_readmax of m_eps_play
  panel,            \* whether the Play and Record panel was created
  status,           \* m_ButtonPlayStatus, m_ButtonRecordStatus,
                    \* m_ButtonLoadFile, m_ButtonRecordStatusDone
  enabled,          \* the enabled controls of the panel
  m_bDragTrackBar,
  checked           \* the menu item ID_PLAY_BACKGROUND

popVars == <<pop, popping>>
epsVars == <<attach, cur_ptr, readmax>>
panelVars == <<panel, status, enabled, m_bDragTrackBar, checked>>
vars == <<threadVars, queue, popVars, epsVars, panelVars>>

\* m_readmax is set by nothing but ReadEPS, which is called for m_eps_play: until
\* then it is any value, and that of m_eps_record is any value at every read.
Init ==
  /\ ThreadInit
  /\ queue = {}
  /\ pop = "none" /\ popping = {}
  /\ attach = "none"
  /\ cur_ptr = [b \in Buffers |-> 0]
  /\ readmax \in 0..MaxChunks
  /\ panel = FALSE
  /\ status = [Play |-> 0, Record |-> 0, LoadFile |-> 0, Done |-> 0]
  /\ enabled = {}
  /\ m_bDragTrackBar = FALSE
  /\ checked = FALSE

(***************************************************************************)
(* The window thread.                                                      *)
(***************************************************************************)

\* Between two handlers.
InLoop == host = "idle" /\ ~m_HadSuspend /\ pop = "none"

\* OnViewPlayRecordSettings, the first time: the panel's OnCreate.
OnCreatePanel ==
  /\ InLoop /\ ~panel
  /\ panel' = TRUE
  /\ enabled' = {"Load", "Record"}
  /\ status' = [Play |-> 0, Record |-> 0, LoadFile |-> 0, Done |-> 0]
  /\ UNCHANGED <<threadVars, queue, popVars, epsVars, m_bDragTrackBar, checked>>

\* Mutant of OnPlayEps: setEps_attach is forgotten.
OnPlayEpsUnattached ==
  /\ InLoop /\ "Play" \in enabled
  /\ Call(IF status.Play = 0 THEN "PLAY_EPS" ELSE "PLAY")
  /\ UNCHANGED <<queue, popVars, epsVars, panelVars>>

\* OnPlayEps up to its call: start playing the loaded file, or stop.
OnPlayEps ==
  /\ InLoop /\ "Play" \in enabled
  /\ \/ /\ status.Play = 0
        /\ attach' = "play"
        /\ Call("PLAY_EPS")
     \/ /\ status.Play # 0
        /\ Call("PLAY")
        /\ UNCHANGED attach
  /\ UNCHANGED <<queue, popVars, cur_ptr, readmax, panelVars>>

OnSetRecord ==
  /\ InLoop /\ "Record" \in enabled
  /\ \/ /\ status.Record = 0
        /\ attach' = "record"
        /\ Call("RECORD_START")
     \/ /\ status.Record # 0
        /\ Call("RECORD_END")
        /\ UNCHANGED attach
  /\ UNCHANGED <<queue, popVars, cur_ptr, readmax, panelVars>>

OnResetPlayType ==
  /\ InLoop
  /\ Call(IF checked THEN "PLAY_FOREGROUND" ELSE "PLAY_BACKGROUND")
  /\ UNCHANGED <<queue, popVars, epsVars, panelVars>>

OnDestroy ==
  /\ InLoop
  /\ Call("EXIT")
  /\ UNCHANGED <<queue, popVars, epsVars, panelVars>>

\* OnSlider with TB_THUMBTRACK, and with TB_ENDTRACK up to suspend.
OnSliderTrack ==
  /\ InLoop /\ "Slider" \in enabled /\ "SUSPEND" \in Requests
  /\ m_bDragTrackBar' = TRUE
  /\ UNCHANGED <<threadVars, queue, popVars, epsVars, panel, status, enabled, checked>>

OnSliderEnd ==
  /\ InLoop /\ "Slider" \in enabled
  /\ Call("SUSPEND")
  /\ m_bDragTrackBar' = FALSE
  /\ UNCHANGED <<queue, popVars, epsVars, panel, status, enabled, checked>>

\* OnSlider between suspend and resume_: SetPos puts the cursor on a chunk of
\* the file (it asserts that there is one), then resume_ starts.  After the first
\* resume_ the player may still run, and overwrite the store (EpsFile).
OnSliderResume ==
  /\ ResumeCall
  /\ \/ \E id \in 0..readmax - 1 : cur_ptr' = [cur_ptr EXCEPT !["play"] = id]
     \/ (readmax = 0 \/ resumed) /\ UNCHANGED cur_ptr
  /\ UNCHANGED <<queue, popVars, attach, readmax, panelVars>>

\* EnableButtonALL and CheckRecordAndPlayEpsBut.
AllButtons(st) == {"Load", "Record"}
                  \cup (IF st.LoadFile # 0 THEN {"Play"} ELSE {})
                  \cup (IF st.Done # 0 THEN {"Save"} ELSE {})

\* Mutant of PanelAfter: the end of a recording leaves m_ButtonRecordStatus.
PanelAfterStuck(e) ==
  /\ status' = CASE e = "PLAY_EPS" -> [status EXCEPT !.Play = 1, !.Record = 0]
                 [] e = "PLAY" -> [status EXCEPT !.Play = 0]
                 [] e = "RECORD_START" -> [status EXCEPT !.Record = 1, !.Play = 0]
                 [] e = "RECORD_END" -> [status EXCEPT !.Done = 1]
                 [] OTHER -> status
  /\ UNCHANGED <<enabled, checked>>

\* What each handler does to the panel when its call has returned.
PanelAfter(e) ==
  CASE e = "PLAY_EPS" ->
         /\ status' = [status EXCEPT !.Play = 1, !.Record = 0]
         /\ enabled' = {"Play", "Slider"}
         /\ UNCHANGED checked
    [] e = "PLAY" ->
         /\ status' = [status EXCEPT !.Play = 0]
         /\ enabled' = AllButtons(status)
         /\ UNCHANGED checked
    [] e = "RECORD_START" ->
         /\ status' = [status EXCEPT !.Record = 1, !.Play = 0]
         /\ enabled' = {"Record"}
         /\ UNCHANGED checked
    [] e = "RECORD_END" ->
         /\ status' = [status EXCEPT !.Record = 0, !.Done = 1]
         /\ enabled' = AllButtons([status EXCEPT !.Done = 1])
                       \cup (enabled \cap {"Slider"})
         /\ UNCHANGED checked
    [] e \in {"PLAY_FOREGROUND", "PLAY_BACKGROUND"} ->
         /\ checked' = (e = "PLAY_BACKGROUND")
         /\ UNCHANGED <<status, enabled>>
    [] OTHER -> UNCHANGED <<status, enabled, checked>>

\* Mutant of HandlerReturn: the host does not wait for the answer.
HandlerReturnAtOnce ==
  /\ ReturnAtOnce
  /\ PanelAfter(asked)
  /\ UNCHANGED <<queue, popVars, epsVars, panel, m_bDragTrackBar>>

HandlerReturn ==
  /\ Return
  /\ PanelAfter(asked)
  /\ UNCHANGED <<queue, popVars, epsVars, panel, m_bDragTrackBar>>

\* OnLoadEps, after IDOK: the flag and the button are set whether ReadEPS
\* succeeds or not.
OnLoadEps ==
  /\ InLoop /\ "Load" \in enabled
  /\ status' = [status EXCEPT !.LoadFile = 1]
  /\ enabled' = enabled \cup {"Play"}
  /\ \/ readmax' \in 0..MaxChunks
     \/ UNCHANGED readmax
  /\ UNCHANGED <<threadVars, queue, popVars, attach, cur_ptr, panel, m_bDragTrackBar, checked>>

\* CMainFrame::OnIdle up to its pop_msg (DikRaw), when the mode allows it.
OnIdleMain ==
  /\ InLoop
  /\ m_cur_event \in {"USER", "RECORDING"}
  /\ pop' = "pop_raw"
  /\ UNCHANGED <<threadVars, queue, popping, epsVars, panelVars>>

\* CViewPlayRecordSettings::OnIdle up to its pop_msg (DikRaw2).
OnIdlePanel ==
  /\ InLoop
  /\ panel /\ ~m_bDragTrackBar /\ status.Play # 0
  /\ pop' = "pop_raw2"
  /\ UNCHANGED <<threadVars, queue, popping, epsVars, panelVars>>

\* pop_msg detaches the queue, then drains it and returns.
PopTake ==
  /\ pop \in {"pop_raw", "pop_raw2"}
  /\ popping' = queue
  /\ queue' = {}
  /\ pop' = IF pop = "pop_raw" THEN "drain_raw" ELSE "drain_raw2"
  /\ UNCHANGED <<threadVars, epsVars, panelVars>>

PopDone ==
  /\ pop \in {"drain_raw", "drain_raw2"}
  /\ popping' = {}
  /\ pop' = "none"
  /\ UNCHANGED <<threadVars, queue, epsVars, panelVars>>

(***************************************************************************)
(* The player thread.                                                      *)
(***************************************************************************)

windowVars == <<popVars, panelVars>>

\* A round of work in the given mode goes on after this step.
Working(mode) == player = "work" /\ m_cur_event = mode

PushMsg(kind) == queue' = queue \cup {kind}

\* do_play: one push_msg per block of up to three accepted key events; the
\* round ends (WorkDone) when the polled events are used up.
DoPlay ==
  /\ Working("USER") \/ Working("RECORDING")
  /\ PushMsg("raw")
  /\ UNCHANGED <<threadVars, attach, cur_ptr, readmax, windowVars>>

\* do_play_with_record: the same, and AppendChunk for every accepted event.
DoRecord ==
  /\ Working("RECORDING")
  /\ cur_ptr[attach] < MaxChunks
  /\ cur_ptr' = [cur_ptr EXCEPT ![attach] = @ + 1]
  /\ UNCHANGED <<threadVars, queue, attach, readmax, windowVars>>

\* What m_readmax of the attached buffer may be.
Readmax == IF attach = "play" THEN {readmax} ELSE 0..MaxChunks

\* do_play_eps: one chunk read and pushed.  A chunk with time 0 is followed by
\* the next one in the same round (goto pp).
DoPlayEps ==
  /\ Working("PLAY_EPS")
  /\ \E n \in Readmax : cur_ptr[attach] < n
  /\ cur_ptr' = [cur_ptr EXCEPT ![attach] = @ + 1]
  /\ PushMsg("raw2")
  /\ \/ UNCHANGED threadVars
     \/ WorkDone
  /\ UNCHANGED <<attach, readmax, windowVars>>

\* do_play_eps past the last chunk.  The cursor moves on at every attempt; the
\* bound stops it one past the end (EpsFile has its width).
DoPlayEpsEnd ==
  /\ Working("PLAY_EPS")
  /\ \E n \in Readmax : /\ cur_ptr[attach] >= n
                         /\ cur_ptr' = [cur_ptr EXCEPT ![attach] = IF @ > n THEN @ ELSE n + 1]
  /\ WorkDone
  /\ UNCHANGED <<queue, attach, readmax, windowVars>>

\* The round of the keyboard modes is over.
DoPlayDone ==
  /\ Working("USER") \/ Working("RECORDING")
  /\ WorkDone
  /\ UNCHANGED <<queue, attach, cur_ptr, readmax, windowVars>>

\* The cases of the switch: ClearQueue, and ResetPlay or ResetRecord.
Clears(e) == e \in {"PLAY", "PLAY_EPS", "RECORD_START"}
Rewinds(e) == e \in {"PLAY_EPS", "RECORD_START"}

\* Mutant of Serve: the queue is not cleared.
ServeUncleared ==
  /\ Switch
  /\ cur_ptr' = IF Rewinds(m_recv_event) THEN [cur_ptr EXCEPT ![attach] = 0] ELSE cur_ptr
  /\ UNCHANGED <<queue, attach, readmax, windowVars>>
Serve ==
  /\ Switch
  /\ queue' = IF Clears(m_recv_event) THEN {} ELSE queue
  /\ cur_ptr' = IF Rewinds(m_recv_event) THEN [cur_ptr EXCEPT ![attach] = 0] ELSE cur_ptr
  /\ UNCHANGED <<attach, readmax, windowVars>>

\* The steps of the two threads that touch no more than the handshake.
Apart == UNCHANGED <<queue, popVars, epsVars, panelVars>>
WindowHandshake == Apart /\ (Signal \/ Join \/ ResumeReturn)
PlayerHandshake ==
  Apart /\ \/ Poll \/ SwitchSuspend \/ Unpark \/ UnparkComplete
           \/ SwitchExit \/ Complete

\* What the user starts, and how a handler goes on.
Window == \/ OnCreatePanel \/ OnPlayEps \/ OnSetRecord \/ OnResetPlayType
          \/ OnDestroy \/ OnSliderTrack \/ OnSliderEnd \/ OnLoadEps
          \/ OnIdleMain \/ OnIdlePanel
WindowGoesOn == OnSliderResume \/ HandlerReturn \/ PopTake \/ PopDone \/ WindowHandshake
PlayerGoesOn == \/ DoPlay \/ DoRecord \/ DoPlayEps \/ DoPlayEpsEnd \/ DoPlayDone
                \/ Serve \/ PlayerHandshake

Next == \/ Window \/ WindowGoesOn \/ PlayerGoesOn
        \/ Finished /\ UNCHANGED vars

Spec == Init /\ [][Next]_vars

\* The player never stops between two statements, nor the window thread inside
\* a handler; OnSlider always resumes what it suspended.
FairSpec == Spec /\ WF_vars(WindowGoesOn) /\ WF_vars(PlayerGoesOn)

-----------------------------------------------------------------------------
(***************************************************************************)
(* Properties.  Those with "~resumed" hold up to the first time the user   *)
(* has dragged the slider.                                                 *)
(***************************************************************************)

\* The window thread is inside a pop_msg.
InPop == pop # "none"

\* The player's next step is ClearQueue.
AboutToClear == player = "switch" /\ Clears(m_recv_event)

\* ClearQueue frees the nodes without a CAS, so it must never run while the
\* window thread is in pop_msg: this is what DikQueue assumes of its callers
\* as Serialised.
ClearApart == ~(InPop /\ AboutToClear)
ClearExcludesPop == ~resumed => ClearApart

\* The overload of pop_msg that runs is the one for the messages it detaches:
\* no DikRaw2 node is decoded as a block of key slots, or the reverse, across
\* any change of mode.
KindsMatch ==
  /\ pop = "drain_raw" => popping \subseteq {"raw"}
  /\ pop = "drain_raw2" => popping \subseteq {"raw2"}
PopKindsMatch == ~resumed => KindsMatch

\* The player records into m_eps_record and plays m_eps_play, although the
\* window thread changes the one pointer m_AttachEps while the player runs.
RightBuffer ==
  ~resumed /\ player = "work" =>
    /\ m_cur_event = "RECORDING" => attach = "record"
    /\ m_cur_event = "PLAY_EPS" => attach = "play"

\* The buttons and the menu tell what the player is doing, and a record is
\* saved or a file loaded only while the player uses neither buffer; and what
\* was started can be stopped, the slider used only while it moves: the button
\* of the running mode stays enabled, after a drag too.
WindowAgrees ==
  InLoop =>
    /\ ~resumed =>
         /\ status.Play = 1 <=> m_cur_event = "PLAY_EPS"
         /\ status.Record = 1 <=> m_cur_event = "RECORDING"
         /\ checked <=> playType = "BACKGROUND"
         /\ enabled \cap {"Load", "Save"} # {} => m_cur_event = "USER"
    /\ status.Play = 1 => "Play" \in enabled
    /\ status.Record = 1 => "Record" \in enabled
    /\ "Slider" \in enabled => status.Play = 1
=============================================================================
