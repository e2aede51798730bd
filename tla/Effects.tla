------------------------------- MODULE Effects -------------------------------
(***************************************************************************)
(* The sound effects of midi_piano: the panels (EffectPanels), the array   *)
(* DSFX_vec_ of CDirectMusic2, the effect chain of the DirectSound buffer  *)
(* and the output port that plays through it.                              *)
(*                                                                         *)
(* The handlers run in the window thread, one at a time.  SetEffectEnable  *)
(* stops the port, replaces the whole chain and starts the port again; the *)
(* player thread stops and starts the same port in ClearNoise, which it    *)
(* calls after it has answered resume_ (PlayerThread, UnparkComplete), so  *)
(* while the window thread goes on to its next handler.                    *)
(*                                                                         *)
(* The device is external: a new chain holds new effects with default      *)
(* parameters and makes every interface to the old ones stale; it is       *)
(* refused while the port is active.  desc of DSFX_vec is left out: it is  *)
(* read only by the SetAllParameters that follows its memcpy.              *)
(*                                                                         *)
(* fresh is a history variable: the effects whose panel was applied to the *)
(* device since the chain was last replaced.                               *)
(***************************************************************************)
EXTENDS EffectPanels, FiniteSets

CONSTANTS
  Used,          \* the effects whose panels the user opens
  Moves          \* the controls of each that the user moves, and where to

ASSUME UsedAssumption ==
  /\ Used \subseteq AllEffects /\ Used # {}
  /\ \A e \in Used : \A m \in Moves[e] :
       \/ m[1] \in DOMAIN Sliders[e] /\ Within(m[2], Reach(e, m[1]))
       \/ m[1] \in Combos(e) /\ Within(m[2], Extent(e, m[1]))

VARIABLES
  checked,       \* the effects whose m_GuiCK_Enable is checked
  param,         \* the DSFX structure of each panel
  enable,        \* the effects whose DSFX_vec_[].enable is set
  object,        \* DSFX_vec_[].object: "NULL", "live" or "stale"
  device,        \* the effects of the chain, with their parameters
  active,        \* m_pOutPort is activated
  ui, pos,       \* where the window thread is, and the effect it is switching
  player,        \* where the player thread is in ClearNoise
  fresh          \* history

panelVars == <<checked, param>>
deviceVars == <<object, device, fresh>>
effectVars == <<panelVars, enable, deviceVars, active, ui, pos, player>>

EffectInit ==
  /\ checked = {} /\ enable = {}
  /\ param = [e \in Used |-> Default(e)]
  /\ object = [e \in Used |-> "NULL"]
  /\ device = [e \in {} |-> DefaultFX(e)]
  /\ active = TRUE
  /\ ui = "idle" /\ pos \in Used
  /\ player = "none"
  /\ fresh = {}

(***************************************************************************)
(* CDirectMusic2.                                                          *)
(***************************************************************************)

\* The objects of the effects that are not in on are released and set to NULL.
Released(on) == [e \in Used |-> IF e \in on THEN object[e] ELSE "NULL"]

\* SetEffectEnable up to the Activate (FALSE), when the flag changes; it returns
\* at once when it does not, which only the call in SetEffectDesc meets.
SetEffectEnable(e, on) ==
  /\ on # (e \in enable)
  /\ enable' = IF on THEN enable \cup {e} ELSE enable \ {e}
  /\ object' = Released(enable')
  /\ active' = FALSE
  /\ ui' = "setfx"
  /\ pos' = e
  /\ UNCHANGED <<device, fresh>>

\* Mutant of SetFX: GetObjectInPath for the switched effect only.
SetFXOne ==
  /\ ui = "setfx"
  /\ ~active
  /\ device' = [e \in enable |-> DefaultFX(e)]
  /\ object' = [e \in Used |-> IF e \in enable
                                 THEN IF e = pos THEN "live" ELSE "stale"
                                 ELSE object[e]]
  /\ fresh' = {}
  /\ ui' = "activate"
  /\ UNCHANGED <<panelVars, enable, active, pos, player>>

\* SetFX with the enabled effects, and GetObjectInPath for each of them.
SetFX ==
  /\ ui = "setfx"
  /\ ~active
  /\ device' = [e \in enable |-> DefaultFX(e)]
  /\ object' = [e \in Used |-> IF e \in enable THEN "live" ELSE object[e]]
  /\ fresh' = {}
  /\ ui' = "activate"
  /\ UNCHANGED <<panelVars, enable, active, pos, player>>

\* SetFX fails on an active port: the ATLASSERT after it ends the program.
SetFXFails ==
  /\ ui = "setfx"
  /\ active
  /\ ui' = "failed"
  /\ UNCHANGED <<panelVars, enable, deviceVars, active, pos, player>>

\* Mutant of SetEffectDesc: only an effect that is new to the chain is set.
SetEffectDescOnce(e, p) ==
  /\ device' = IF Accepted(e, p) /\ e \notin fresh
               THEN [device EXCEPT ![e] = p] ELSE device
  /\ fresh' = fresh \cup {e}

\* SetEffectDesc of an enabled effect: SetAllParameters, whose refusal nobody
\* looks at.
SetEffectDesc(e, p) ==
  /\ device' = IF Accepted(e, p) THEN [device EXCEPT ![e] = p] ELSE device
  /\ fresh' = fresh \cup {e}

\* Mutant of Activate: the return for an empty chain comes too early.
ActivateUnlessEmpty ==
  /\ ui = "activate"
  /\ active' = (enable # {})
  /\ ui' = "idle"
  /\ IF pos \in enable THEN SetEffectDesc(pos, param[pos])
                       ELSE UNCHANGED <<device, fresh>>
  /\ UNCHANGED <<panelVars, enable, object, pos, player>>

\* Activate (TRUE) at the end of SetEffectEnable; OnSetEnable goes on with
\* SetEffectDesc if the box was checked.
Activate ==
  /\ ui = "activate"
  /\ active' = TRUE
  /\ ui' = "idle"
  /\ IF pos \in enable THEN SetEffectDesc(pos, param[pos])
                       ELSE UNCHANGED <<device, fresh>>
  /\ UNCHANGED <<panelVars, enable, object, pos, player>>

(***************************************************************************)
(* The handlers of the panels.                                             *)
(***************************************************************************)

\* A click on m_GuiCK_Enable, and OnSetEnable.
OnSetEnable(e) ==
  /\ ui = "idle"
  /\ checked' = IF e \in checked THEN checked \ {e} ELSE checked \cup {e}
  /\ SetEffectEnable(e, e \in checked')
  /\ UNCHANGED <<param, player>>

\* The end of OnSlider and of the combo handlers.
Apply(e, p) == IF e \in checked THEN SetEffectDesc(e, p) ELSE UNCHANGED <<device, fresh>>

\* OnSlider, at TB_ENDTRACK or TB_THUMBTRACK.
OnSlider(e, s, v) ==
  /\ ui = "idle"
  /\ param' = [param EXCEPT ![e] = Moved(e, s, v, @)]
  /\ Apply(e, param'[e])
  /\ UNCHANGED <<checked, enable, object, active, ui, pos, player>>

\* OnSelCOmboItem of the chorus and the flanger, OnSelWave of the gargle.
OnSelCombo(e, f, v) ==
  /\ ui = "idle"
  /\ param' = [param EXCEPT ![e][f] = v]
  /\ Apply(e, param'[e])
  /\ UNCHANGED <<checked, enable, object, active, ui, pos, player>>

\* OnSelCOmboItem of the level-2 reverb: the device computes the parameters p
\* (SetQuality leaves them), Get_Reverb_L2 reads them back into the panel.
L2 == "reverb_level2"
OnSelReverbLevel2(p) ==
  /\ ui = "idle"
  /\ L2 \in checked
  /\ object[L2] = "live"
  /\ device' = [device EXCEPT ![L2] = p]
  /\ param' = [param EXCEPT ![L2] = p]
  /\ fresh' = fresh \cup {L2}
  /\ UNCHANGED <<checked, enable, object, active, ui, pos, player>>

SetReverb_L2Quality == L2 \in checked /\ OnSelReverbLevel2(device[L2])
SetReverb_L2Type(v) == OnSelReverbLevel2([f \in Fields(L2) |-> v])

\* ClearNoise, called by OnCommandEditEnter; AdjustInstructmentsIndex has the
\* same two calls.
ClearNoise ==
  /\ ui = "idle"
  /\ active' = FALSE
  /\ ui' = "noise"
  /\ UNCHANGED <<panelVars, enable, deviceVars, pos, player>>
ClearNoiseEnd ==
  /\ ui = "noise"
  /\ active' = TRUE
  /\ ui' = "idle"
  /\ UNCHANGED <<panelVars, enable, deviceVars, pos, player>>

(***************************************************************************)
(* The player thread.                                                      *)
(***************************************************************************)

\* OnSlider of the Play and Record panel: suspend and resume_ have returned,
\* the player is before its ClearNoise.
Seek ==
  /\ ui = "idle" /\ player = "none"
  /\ player' = "owes"
  /\ UNCHANGED <<panelVars, enable, deviceVars, active, ui, pos>>

PlayerNoise ==
  /\ player = "owes"
  /\ active' = FALSE
  /\ player' = "off"
  /\ UNCHANGED <<panelVars, enable, deviceVars, ui, pos>>

PlayerNoiseEnd ==
  /\ player = "off"
  /\ active' = TRUE
  /\ player' = "none"
  /\ UNCHANGED <<panelVars, enable, deviceVars, ui, pos>>

EffectPanel ==
  \/ \E e \in Used :
       \/ OnSetEnable(e)
       \/ \E m \in Moves[e] : IF m[1] \in DOMAIN Sliders[e]
                               THEN OnSlider(e, m[1], m[2])
                               ELSE OnSelCombo(e, m[1], m[2])
  \/ L2 \in Used /\ (SetReverb_L2Quality \/ \E v \in {0, 2} : SetReverb_L2Type(v))
EffectNext ==
  \/ EffectPanel
  \/ SetFX \/ SetFXFails \/ Activate \/ ClearNoise \/ ClearNoiseEnd
  \/ Seek \/ PlayerNoise \/ PlayerNoiseEnd

EffectSpec == EffectInit /\ [][EffectNext]_effectVars

-----------------------------------------------------------------------------
(***************************************************************************)
(* Properties.                                                             *)
(***************************************************************************)

\* Between two handlers the check boxes, the flags, the objects and the chain
\* of the device agree, whichever effects were switched before: no call goes
\* through an interface of a chain that was replaced.
ChainExact ==
  ui = "idle" =>
    /\ enable = checked
    /\ DOMAIN device = enable
    /\ \A e \in Used : object[e] = IF e \in enable THEN "live" ELSE "NULL"

\* An effect whose panel was used since the chain was last replaced sounds as
\* its panel says, unless the device refuses it; the others lost what their
\* panels say at that replacement and sound as the device's default.
SoundsAsPanel ==
  ui = "idle" =>
    \A e \in DOMAIN device :
      IF e \in fresh THEN Accepted(e, param[e]) => device[e] = param[e]
                     ELSE device[e] = DefaultFX(e)

\* Whenever neither thread is between its two calls the port plays, in every
\* order in which the two threads stop and start it.
PortEndsActive == ui = "idle" /\ player # "off" => active
=============================================================================
