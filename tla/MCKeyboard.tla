----------------------------- MODULE MCKeyboard -----------------------------
(***************************************************************************)
(* An instance of Keyboard for TLC: a piano key, an octave key that moves  *)
(* it down an octave and an offset that moves it up by one.                *)
(***************************************************************************)
EXTENDS Keyboard

Positions == [k \in Keys |-> IF k = "Z" THEN -12 ELSE 0]
Octaves == [k \in OctaveKeys |-> IF k = "F6" THEN 6 ELSE 7]
=============================================================================
