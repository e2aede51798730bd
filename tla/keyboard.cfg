SPECIFICATION FairSpec
CONSTANTS
  Keys = {"Z"}
  midi_pos <- Positions
  OctaveKeys = {"F6"}
  octave_mid <- Octaves
  Offsets = {0, 12}
  sm_buffer_nums = 2
INVARIANTS SilentWhenLetGo
PROPERTIES FallsSilent
