SPECIFICATION Spec
CONSTANTS
  MaxMonitors = 1
  MaxWindows = 1
  MaxChanges = 1
  MaxResumes = 1
  RenderMayFail = FALSE
  WaitMayExpire = FALSE
CHECK_DEADLOCK FALSE
INVARIANT NoDrawAfterDestroy
