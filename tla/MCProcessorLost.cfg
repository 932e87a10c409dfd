\* The group commits past a message without an outcome: one session, in which
\* the first message cannot be decoded.
SPECIFICATION Spec
CONSTANTS
  p1 = p1  w1 = w1  w2 = w2
  Partitions <- MCPartitions
  Length = 2
  Kind <- MCKindMalformedFirst
  Workers = {w1}
  QueueSize = 1
  None = None
  MaxAttempts = 2
  MaxSessions = 1
  MaxFaults = 1
INVARIANT NoLostMessage
CHECK_DEADLOCK FALSE
