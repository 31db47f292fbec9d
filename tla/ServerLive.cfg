SPECIFICATION FairSpec
CONSTANTS
  f1 = f1
  f2 = f2
  Clients <- TwoClients
  Fds <- OneFd
  Chunk = 2
  SendRoom = 1
  Configs <- LiveConfigs
PROPERTIES
  AnsweredWhileQueueHasRoom
  ProtocolErrorCloses
CHECK_DEADLOCK FALSE
