SPECIFICATION FairSpec
CONSTANTS
  MaxMonitors = 2
  MaxWindows = 2
  MaxChanges = 1
  MaxResumes = 2
  RenderMayFail = FALSE
  WaitMayExpire = FALSE
CHECK_DEADLOCK FALSE
PROPERTIES WaitEnds SurfaceServed
