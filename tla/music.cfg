SPECIFICATION Spec
CONSTANTS
  Used <- TwoEffects
  Moves <- SomeMoves
  DlsFiles = {"a.dls"}
  InstrumentCount <- Counts
  MaxItems = 3
  MaxBoxes = 2
INVARIANTS ChainExact SoundsAsPanel PortEndsActive DlsShown
CHECK_DEADLOCK FALSE
