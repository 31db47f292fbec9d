SPECIFICATION Spec
CONSTANTS
  Keys = {k1}
  Values = {v1}
  Ttls = {0, 2}
  FsyncMode = "always"
  Periodic = TRUE
  Absent = Absent
  NoRecord = NoRecord
  Never = 9
  MaxTime = 3
  MaxOps = 3
  MaxCrashes = 2
  MaxFaults = 0
INVARIANTS
  TypeOK
  ScanNeverThrows
  LogContinuesSnapshot
  RecoveredStateIsAPrefix
  AckedWritesSurviveAligned
