SPECIFICATION FairSpec
CONSTANTS
  RingSizes <- SmallAndEnough
  LowWater = 0
  MaxQuantum = 2
  MaxCallback = 2
  MayStarve = TRUE
  MaxFrames = 8
  MaxStarts = 2
INVARIANTS SharedSafely NeverUnderflows NothingDropped
PROPERTY DriveGoesOn
