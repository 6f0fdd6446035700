SPECIFICATION FairSpec
CONSTANTS
  u1 = u1
  u2 = u2
  none = none
  socket_ = socket_
  robots = robots
  t1 = t1
  t2 = t2
  other = other
  Sessions <- MCSessions
  NoSession = none
  Callers <- MCCallers
  MaxRefreshes = 1
  MaxUserSteps = 2
  Topics <- MCTopics
  Foreign = other
  PingTopic = t1
  Socket = socket_
  MaxFrames = 3
INVARIANTS StoredFollows OneRefresh NoClientLeft InOrder
PROPERTIES ContractKept EveryFrameLeaves
\* A closed socket without frames left has nothing to do.
CHECK_DEADLOCK FALSE
