SPECIFICATION Spec
CONSTANTS
  a = a
  b = b
  none = none
  Cells <- MCCells
  NoMap <- MCNoMap
  RetryTicks <- MCRetryTicks
  MaxSeq = 3
  MaxRequests = 3
  GuardTicks = 2
  RequestTicks = 3
  EmitTicks = 3
INVARIANTS GridFaithful ShownOrScheduled StopIsQuiet AsksUndisturbed
\* A stopped client really stops.
CHECK_DEADLOCK FALSE
