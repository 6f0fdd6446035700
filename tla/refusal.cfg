SPECIFICATION Spec
CONSTANTS
  pause1 = pause1
  pause2 = pause2
  locate = locate
  Pause = Pause
  Yell = Yell
  noCommand = noCommand
  noTopic = noTopic
  noReply = noReply
  Topics <- MCTopics
  MaxLinks = 2
  NoCommand <- noCommand
  NoTopic <- noTopic
  NoReply <- noReply
  Commands <- MCCommands
  TopicOf <- MCTopicOf
  Confirmable <- MCConfirmable
  MaxQueued = 1
INVARIANTS RefusalAlwaysError
\* Every command is given once and the links are used up.
CHECK_DEADLOCK FALSE
