SPECIFICATION Spec
CONSTANTS
  Client = {c1, c2}
  Faults <- EveryFault
  MaxTicks = 2
  MaxCount = 1
SYMMETRY ClientSymmetry
INVARIANTS DamageRemembered WorkRequestsTick WatcherHandshake SleepsSafely
PROPERTY ReleasedOnlyWhenShown
