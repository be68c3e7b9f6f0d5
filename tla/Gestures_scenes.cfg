SPECIFICATION FairSpec
CONSTANTS
  f1 = f1
  f2 = f2
  f3 = f3
  Finger <- ThreeFingers
  Slop = 1
  Scenes <- AllScenes
  MaxReports = 2
INVARIANTS TypeOK ClicksAreTaps GestureEndsWithFingers NoStuckButton
PROPERTIES DragAfterLongPress LongPressArms
