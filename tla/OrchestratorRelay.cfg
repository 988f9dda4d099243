\* No late commits: the refinement of EventRelay.
CONSTANTS
  N = 4
  Kind <- MCKindMixed
  HighWater = 2
  LowWater = 2
  MaxRetries = 1
  LateCommits = FALSE
  MaxFaults = 4
  MaxStops = 2
SPECIFICATION Spec
PROPERTIES ImplementsRelay
\* The topic ends and a paused or stopped pipeline waits.
CHECK_DEADLOCK FALSE
