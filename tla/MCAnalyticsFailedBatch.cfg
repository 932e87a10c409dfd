\* A batch fails, a later one does not.
SPECIFICATION Spec
CONSTANTS
  processed = processed  dlq = dlq
  Partitions = {processed}
  Length = 3
  Kind <- MCKind
  BatchMaxSize = 1
  MaxSessions = 2
  MaxFaults = 1
INVARIANT FailedBatchIsRedelivered
CHECK_DEADLOCK FALSE
