---------------------------- MODULE MCMidiPiano ----------------------------
(***************************************************************************)
(* Instances of MidiPiano for TLC.                                         *)
(***************************************************************************)
EXTENDS MidiPiano

AllRequests == RecvEvents
=============================================================================
