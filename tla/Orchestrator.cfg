\* Four records with a malformed and a poison one, late commits, two stops;
\* fair scheduling for EveryRecordSettles.
CONSTANTS
  N = 4
  Kind <- MCKindMixed
  HighWater = 2
  LowWater = 2
  MaxRetries = 1
  LateCommits = TRUE
  MaxFaults = 4
  MaxStops = 2
SPECIFICATION FairSpec
INVARIANTS TypeOK OncePerRecord OutputWithOffset NothingSkippedSilently QueueBounded
PROPERTIES CommittedNeverMovesBack PauseIsFinal EveryRecordSettles
\* The topic ends and a paused or stopped pipeline waits.
CHECK_DEADLOCK FALSE
