SPECIFICATION FairSpec
CONSTANTS
  f1 = f1
  f2 = f2
  Clients <- TwoClients
  Fds <- OneFd
  Chunk = 3
  SendRoom = 1
  Configs <- OneConfig
PROPERTIES
  EveryCommandIsAnswered
CHECK_DEADLOCK FALSE
