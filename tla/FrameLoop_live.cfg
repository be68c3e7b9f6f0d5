SPECIFICATION FairSpec
CONSTANTS
  Client = {c1}
  Faults <- NoFaults
  MaxTicks = 2
  MaxCount = 3
INVARIANT PaceIsKept
PROPERTIES RequestsDispatched PacingFair
