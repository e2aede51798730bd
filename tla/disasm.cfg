SPECIFICATION Spec
CONSTANTS
  Entry = 0
  StackTop = 65534
  MaxOps = 6
  RomImages <- MCRomImages
  BankSize = 5
  promsize = 2
  PastFile = {0, 254}
INVARIANTS LabelsTrue
PROPERTIES FollowsListing DecimalExact
CHECK_DEADLOCK FALSE
