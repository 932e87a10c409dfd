\* Three calls, two workers, a queue of one: senders block on a full channel.
SPECIFICATION Spec
CONSTANTS
  c1 = c1  c2 = c2  c3 = c3  w1 = w1  w2 = w2
  Calls <- MCCalls
  Workers <- MCWorkers
  QueueSize = 1
  None = None
INVARIANTS
  TypeOK
  NoSendOnClosed
  RunsAtMostOnce
  HonestReturn
  ShutdownDrains
PROPERTIES
  ShutdownReturns
  ExecuteReturns
CHECK_DEADLOCK FALSE
