SPECIFICATION FairSpec
CONSTANTS
  ByteRange = 2
  DividerFreq = 1
  TimerFreq <- MCTimerFreq
  IdleClocks = 1
  LineCycles = 8
  Lines = 3
  VisibleLines = 2
  OamCycles = 2
  BgCycles = 2
  SpriteCycles = 1
  Columns = 3
  Scans = 2
  SpritesOn <- MCSpritesOn
  HdmaCycles = 2
  SpeedRatio = 1
  OpClks <- MCOpClks
  JoypadFreq = 2
  TacSelects = {1}
  ByteWrites = {1}
  LycWrites = {1}
  StatWrites <- MCStatWrites
  P1Writes <- MCP1Writes
  EnableWrites <- MCEnableWrites
  HdmaBlocks = {2}
  Key1Writes <- MCKey1Writes
  MaxWrites = 2
INVARIANTS LineComplete SpriteCacheFresh FrameOnce TimersOnTime InterruptPrompt
PROPERTIES HdmaOncePerLine HaltWakes
