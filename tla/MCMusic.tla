------------------------------- MODULE MCMusic -------------------------------
(***************************************************************************)
(* Instances of Music for TLC.                                             *)
(***************************************************************************)
EXTENDS Music

TwoEffects == {"chorus", "reverb_level2"}
SomeMoves == [chorus |-> {<<"Depth", 100>>, <<"Feedback", -99>>, <<"lPhase", 0>>},
              reverb_level2 |-> {<<"Room", 0>>}]
Counts == [c \in Collections |-> IF c = "default_dls" THEN 2 ELSE 1]
=============================================================================
