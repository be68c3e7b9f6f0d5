SPECIFICATION Spec
CONSTANTS
  MaxMonitors = 2
  MaxWindows = 2
  MaxChanges = 2
  MaxResumes = 2
  RenderMayFail = TRUE
  WaitMayExpire = TRUE
CHECK_DEADLOCK FALSE
INVARIANTS ReleasedForGood HeldIsInUse TargetFollowsBridge PresentationInStep
