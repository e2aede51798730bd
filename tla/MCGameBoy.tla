----------------------------- MODULE MCGameBoy -----------------------------
(* Small instance of GameBoy: a frame of three lines, one of them V-blank. *)
EXTENDS GameBoy, TLC

MCTimerFreq == (0 :> 3 @@ 1 :> 2)
MCSpritesOn == (0 :> 1 @@ 1 :> 3)
MCStatWrites == {{"oam", "hbl", "lyc", "vbl"}}
MCEnableWrites == {{1, 5}, {2, 3}}
MCP1Writes == {{}}
MCKey1Writes == {{"prepare"}, {"prepare", "double"}}
MCOpClks == {1, 2}
=============================================================================
