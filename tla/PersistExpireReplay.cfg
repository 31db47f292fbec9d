SPECIFICATION Spec
CONSTANTS
  Keys = {k1}
  Values = {v1}
  Ttls = {1, 3}
  FsyncMode = "always"
  Periodic = FALSE
  Absent = Absent
  NoRecord = NoRecord
  Never = 9
  MaxTime = 2
  MaxOps = 3
  MaxCrashes = 1
  MaxFaults = 0
INVARIANT
  AckedWritesSurvive
