\* Two tasks (desired_count = 2) and no fault: duplicates all the same.
SPECIFICATION Spec
CONSTANTS
  r1 = r1  r2 = r2  k1 = k1  k2 = k2  t1 = t1  t2 = t2
  Requests <- MCRequests
  Keys <- MCKeys
  KeyOf <- MCKeyOf
  CreatedAt <- MCCreatedAt
  Tasks <- MCTasks
  Home <- MCHome
  BatchSize = 2
  MaxFaults = 0
INVARIANT DuplicatesExcused
CHECK_DEADLOCK FALSE
