SPECIFICATION FairSpec
CONSTANTS
  s1 = s1
  s2 = s2
  s3 = s3
  none = none
  Sockets <- MCSockets
  NoSocket <- MCNoSocket
  BackoffSteps <- MCBackoffSteps
INVARIANTS TypeOK OneLink NeverGivesUp HostKnows
PROPERTIES BackoffHolds SilentLinkDropped KeepsPublishing KeepsDialling PromiseKept
\* A stopped client really stops.
CHECK_DEADLOCK FALSE
