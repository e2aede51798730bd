SPECIFICATION FairSpec
CONSTANTS
  Buttons = {"left", "right", "up", "down", "b", "a"}
  MaxQueue = 1
INVARIANTS Airborne HookSound
PROPERTIES StrikesOnce ComesToRest
