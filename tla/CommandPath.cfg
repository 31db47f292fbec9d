SPECIFICATION Spec
CONSTANTS
  nullopt = nullopt
  max_bulk_size = 5
  max_array_size = 4
  max_depth = 2
  max_buffer_size = 34
  Int64Max = 32767
  U16 = 1
  U32 = 2
  U64 = 2
  WalMagic <- Magic1
  SnapshotMagic <- Magic2
  version = 1
  Ms = 2
  Sec = 4
  SteadyMax = 17
  WallOffset = 1
  Scenarios <- AllScenarios
INVARIANTS
  TypeOK
  SplitIndependent
  DeliversWhatWasSent
  RepliesReachTheClient
  LogMatchesReplies
  DeadlinesFitTheClock
  ReplayRestoresTheStore
  RecoveryReadsWhatWasLogged
PROPERTIES
  ClientIsAnswered
CHECK_DEADLOCK FALSE
