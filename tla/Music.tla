-------------------------------- MODULE Music --------------------------------
(***************************************************************************)
(* CDirectMusic2 as a whole: the effects and the instruments play through  *)
(* one output port.  A handler that downloads an instrument stops and      *)
(* starts the port (AdjustInstructmentsIndex) like ClearNoise; the window  *)
(* thread runs one handler at a time.                                      *)
(***************************************************************************)
EXTENDS Effects, Instruments

vars == <<effectVars, instrumentVars>>

Init == EffectInit /\ InstrumentInit

\* OnSelDLSCollect and OnSelInstrucetments.
AdjustInstructmentsIndex == AdjustHandlers /\ ClearNoise

\* OnButtonAddDls, and the end of OnSelDLSCollect.
ChangeList == ui = "idle" /\ ListHandlers /\ UNCHANGED effectVars

Next == \/ EffectNext /\ UNCHANGED instrumentVars
        \/ AdjustInstructmentsIndex
        \/ ChangeList

Spec == Init /\ [][Next]_vars

=============================================================================
