\* Two messages in each partition, which make one full batch or two batches.
SPECIFICATION Spec
CONSTANTS
  processed = processed  dlq = dlq
  Partitions <- MCPartitions
  Length = 2
  Kind <- MCKind
  BatchMaxSize = 2
  MaxSessions = 2
  MaxFaults = 1
INVARIANTS
  TypeOK
  MarkedIsStored
  OneRowPerSession
  MarkStaysBehindBatch
PROPERTIES
  ContractSpec
CHECK_DEADLOCK FALSE
