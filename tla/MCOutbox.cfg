\* One task, as the relay's comments assume; two faults of any kind.
SPECIFICATION Spec
CONSTANTS
  r1 = r1  r2 = r2  r3 = r3  k1 = k1  k2 = k2  t1 = t1
  Requests <- MCRequests
  Keys <- MCKeys
  KeyOf <- MCKeyOf
  CreatedAt <- MCCreatedAt
  Tasks <- MCTasks
  Home <- MCHome
  BatchSize = 2
  MaxFaults = 2
INVARIANTS
  TypeOK
  PaymentHasEvent
  OnePaymentPerKey
  TruthfulResponses
  MarkedIsOnTopic
  DuplicatesExcused
PROPERTIES
  OutboxDrains
  EveryRequestAnswered
  FeedSpec
CHECK_DEADLOCK FALSE
