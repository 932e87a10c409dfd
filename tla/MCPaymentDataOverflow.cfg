CONSTANTS
  Requests <- MCRequests
  moneyScale = 2
  fxRateScaleDigits = 1
  IntWidth = 14
  ColumnDigits = 3
  TicksPerSecond = 3
  None = None

SPECIFICATION Spec

INVARIANT ConversionNeverOverflows

\* The payment's way ends in ClickHouse.
CHECK_DEADLOCK FALSE
