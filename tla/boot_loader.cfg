CONSTANTS
  Versions = {1, 2, 3}
  Blank = 0
  Junk = 9
  Blocks = 4
  Sectors = 2
  Sector <- MCSector
  Size <- MCSize
SPECIFICATION Spec
INVARIANTS
  TypeOK
  OneImageGood
  StartedWhole
  RunsExpected
PROPERTY
  BootsInTheEnd
CHECK_DEADLOCK FALSE
