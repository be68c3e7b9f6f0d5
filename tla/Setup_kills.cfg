SPECIFICATION FairSpec
CONSTANTS
    MaxAttempts = 2
    Kgsl = TRUE
    MaxKills = 3
    MaxFaults = 3
    MaxVersion = 2
CHECK_DEADLOCK FALSE
INVARIANTS DoneIsDone GuestIsReady PacmanRunsUnheld DesktopIsPrepared
PROPERTIES Orchestrates DesktopRuns
