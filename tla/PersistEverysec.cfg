SPECIFICATION FairSpec
CONSTANTS
  Keys = {k1, k2}
  Values = {v1}
  Ttls = {}
  FsyncMode = "everysec"
  Periodic = TRUE
  Absent = Absent
  NoRecord = NoRecord
  Never = 9
  MaxTime = 0
  MaxOps = 2
  MaxCrashes = 2
  MaxFaults = 1
INVARIANTS
  LogContinuesSnapshot
  RecoveredStateIsAPrefix
  AckedWritesSurviveAligned
PROPERTY
  AppendedIsFsynced
  EngineShutdownReturns
