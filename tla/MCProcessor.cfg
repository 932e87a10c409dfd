\* Two workers: a redelivery can meet the job of the session before.
SPECIFICATION Spec
CONSTANTS
  p1 = p1  w1 = w1  w2 = w2
  Partitions <- MCPartitions
  Length = 2
  Kind <- MCKind
  Workers <- MCWorkers
  QueueSize = 1
  None = None
  MaxAttempts = 2
  MaxSessions = 2
  MaxFaults = 1
INVARIANTS
  TypeOK
  MarkedHasOutcome
  OneJobPerPartition
  NeverRejected
  OneOutcomePerRun
  LossIsLogged
CHECK_DEADLOCK FALSE
