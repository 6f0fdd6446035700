SPECIFICATION Spec
CONSTANTS
  a = a
  b = b
  none = none
  Cells <- MCCells
  NoMap <- MCNoMap
  RetryTicks <- MCRetryTicks
  MaxSeq = 2
  MaxRequests = 3
  GuardTicks = 2
  RequestTicks = 3
  EmitTicks = 3
INVARIANTS FreshMeansFetched
\* A stopped client really stops.
CHECK_DEADLOCK FALSE
