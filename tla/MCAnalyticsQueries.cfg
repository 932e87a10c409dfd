CONSTANTS
  CO = CO
  US = US
  USD = USD
  COP = COP
  pa = pa
  pb = pb
  Completed = Completed
  Failed = Failed
  Absent = Absent
  Malformed = Malformed
  None = None
  Day = 2
  MaxRows = 2
  Values <- MCValues
  Rows <- MCRows
  Queries <- MCQueries
  Filters <- MCFilters

SPECIFICATION Spec

INVARIANT DaysAddUp
INVARIANT AnswersAgree
INVARIANT OverviewAccountable
