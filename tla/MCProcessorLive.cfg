\* One worker: a session can wait behind a job of the one before.
SPECIFICATION Spec
CONSTANTS
  p1 = p1  w1 = w1  w2 = w2
  Partitions <- MCPartitions
  Length = 2
  Kind <- MCKindInvalid
  Workers = {w1}
  QueueSize = 1
  None = None
  MaxAttempts = 2
  MaxSessions = 2
  MaxFaults = 1
PROPERTIES
  ContractSpec
  SessionEnds
CHECK_DEADLOCK FALSE
