SPECIFICATION FairSpec
CONSTANTS
  Bundled <- PulseOnly
  MaxResumes = 2
CHECK_DEADLOCK FALSE
INVARIANTS NoOrphans InOneHand SessionKeepsDisplay
PROPERTY DeadNoticed
