---------------------------- MODULE EffectPanels ----------------------------
(***************************************************************************)
(* The nine effect panels of midi_piano (CViewDS_Effects*.inl): which      *)
(* field of its DSFX structure each control of a panel writes.             *)
(*                                                                         *)
(* A field has the extent and the default dsound.h gives it; only two      *)
(* extents that meet in one field are kept as numbers, the others are cut  *)
(* to 0..2 with the default 1.                                             *)
(***************************************************************************)
EXTENDS Integers, Functions

AllEffects == {"chorus", "compressor", "distortion", "echo", "flanger", "gargle",
               "paramEq", "reverb", "reverb_level2"}

\* OnSlider of each panel: the field each slider writes.
ChorusSliders ==
  [TryMix |-> "fWetDryMix", Depth |-> "fFeedback", Feedback |-> "fFeedback",
   Freq |-> "fFrequency", Delay |-> "fDelay"]
CompressorSliders ==
  [Gain |-> "fGain", Attack |-> "fAttack", Release |-> "fRelease",
   Thresold |-> "fThreshold", Ratio |-> "fRatio", Predelay |-> "fPredelay"]
DistortionSliders ==
  [Gain |-> "fGain", Edge |-> "fEdge", EqCenterFreq |-> "fPostEQCenterFrequency",
   EqBandWidth |-> "fPostEQBandwidth", PreLowpassCutoff |-> "fPreLowpassCutoff"]
EchoSliders ==
  [TryMix |-> "fWetDryMix", FeedBack |-> "fFeedback", LeftDelay |-> "fLeftDelay",
   RightDelay |-> "fRightDelay", PanDelay |-> "lPanDelay"]
FlangerSliders ==
  [TryMix |-> "fWetDryMix", Depth |-> "fFeedback", Feedback |-> "fFeedback",
   Freq |-> "fFrequency", Delay |-> "fDelay"]
GargleSliders == [Rate |-> "dwRateHz"]
ParamEQSliders ==
  [Center |-> "fCenter", BandWidth |-> "fBandwidth", Gain |-> "fGain"]
ReverbSliders ==
  [InGain |-> "fInGain", ReverbMix |-> "fReverbMix", ReverbTime |-> "fReverbTime",
   HighFreqRTRatio |-> "fHighFreqRTRatio"]
ReverbLevel2Sliders ==
  [Room |-> "lRoom", RoomHF |-> "lRoomHF", RoomRolloffFactor |-> "flRoomRolloffFactor",
   DecayTime |-> "flDecayTime", DecayHFRatio |-> "flDecayHFRatio",
   Reflections |-> "lReflections", ReflectionsDelay |-> "flReflectionsDelay",
   Reverb |-> "lReverb", ReverbDelay |-> "flReverbDelay",
   Diffustion |-> "flDiffusion", Density |-> "flDensity",
   HFReference |-> "flHFReference"]

Sliders == [chorus |-> ChorusSliders, compressor |-> CompressorSliders,
            distortion |-> DistortionSliders, echo |-> EchoSliders,
            flanger |-> FlangerSliders, gargle |-> GargleSliders,
            paramEq |-> ParamEQSliders, reverb |-> ReverbSliders,
            reverb_level2 |-> ReverbLevel2Sliders]

\* OnSelCOmboItem and OnSelWave: the fields the combo boxes write.  Those of
\* the level-2 reverb write none (OnSelQuality and OnSelType of Effects).
Combos(e) == CASE e \in {"chorus", "flanger"} -> {"lPhase", "lWaveform"}
               [] e = "gargle" -> {"dwWaveShape"}
               [] OTHER -> {}

\* A field no control writes: what the Depth sliders say they set.
Unwritten(e) == IF e \in {"chorus", "flanger"} THEN {"fDepth"} ELSE {}

Fields(e) == Range(Sliders[e]) \cup Combos(e) \cup Unwritten(e)

\* The extent of a field, and of the numbers a slider writes into it.
Extent(e, f) ==
  CASE e \in {"chorus", "flanger"} /\ f = "fFeedback" -> [min |-> -99, max |-> 99]
    [] e \in {"chorus", "flanger"} /\ f = "fDepth" -> [min |-> 0, max |-> 100]
    [] e = "paramEq" /\ f = "fBandwidth" -> [min |-> 1, max |-> 36]
    [] e = "paramEq" /\ f = "fGain" -> [min |-> -15, max |-> 15]
    [] OTHER -> [min |-> 0, max |-> 2]
Reach(e, s) ==
  IF e \in {"chorus", "flanger"} /\ s = "Depth" THEN Extent(e, "fDepth")
  ELSE Extent(e, Sliders[e][s])

Within(v, x) == x.min <= v /\ v <= x.max
Clamp(v, x) == IF v > x.max THEN x.max ELSE IF v < x.min THEN x.min ELSE v

\* The parameters of a new panel.
Default(e) ==
  [f \in Fields(e) |-> CASE e = "chorus" /\ f = "fFeedback" -> 25
                         [] e = "chorus" /\ f = "fDepth" -> 10
                         [] e = "flanger" /\ f = "fFeedback" -> 50
                         [] e = "flanger" /\ f = "fDepth" -> 100
                         [] f = "fBandwidth" -> 12
                         [] f = "fGain" /\ e = "paramEq" -> 0
                         [] OTHER -> 1]

\* Those of a new effect: they differ in the feedback of the flanger.
DefaultFX(e) ==
  IF e = "flanger" THEN [Default(e) EXCEPT !.fFeedback = -50] ELSE Default(e)

\* The device accepts a structure all of whose fields are in their extents.
Accepted(e, p) == \A f \in Fields(e) : Within(p[f], Extent(e, f))

\* The structure after the slider s was moved to v: the field is assigned and
\* clamped; the Gain slider of the equalizer clamps fBandwidth instead.
Moved(e, s, v, p) ==
  IF e = "paramEq" /\ s = "Gain"
  THEN [p EXCEPT !.fGain = v, !.fBandwidth = Clamp(@, Extent(e, "fGain"))]
  ELSE [p EXCEPT ![Sliders[e][s]] = Clamp(v, Reach(e, s))]
=============================================================================
