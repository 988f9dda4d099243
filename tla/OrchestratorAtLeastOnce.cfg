\* The retries of the code: four errors in a row.
CONSTANTS
  N = 2
  Kind <- MCKindEvents
  HighWater = 2
  LowWater = 1
  MaxRetries = 3
  LateCommits = FALSE
  MaxFaults = 4
  MaxStops = 0
SPECIFICATION Spec
INVARIANTS AtLeastOnce
\* The topic ends and a paused or stopped pipeline waits.
CHECK_DEADLOCK FALSE
