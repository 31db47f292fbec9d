SPECIFICATION Spec
CONSTANTS
  f1 = f1
  f2 = f2
  Clients <- TwoClients
  Fds <- TwoFds
  Chunk = 2
  SendRoom = 1
  Configs <- SafetyConfigs
SYMMETRY FdSymmetry
INVARIANTS
  TypeOK
  RepliesMatchRequests
  CommandsRunInWireOrder
  InflightIsExact
  NoStrandedOutput
CHECK_DEADLOCK FALSE
