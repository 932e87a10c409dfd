\* Two payments and one repetition or loss, anywhere on their way.
SPECIFICATION Spec
CONSTANTS
  pa = pa  pb = pb
  Payments <- MCPayments
  KeyOf <- MCKeyOf
  MaxFaults = 1
INVARIANTS
  DrainedMeansCounted
PROPERTIES
  EveryPaymentCounted
\* Clients stop asking, and every payment has its row.
CHECK_DEADLOCK FALSE
