SPECIFICATION Spec
CONSTANTS
  Keys = {k1}
  Values = {v1, v2}
  Ttls = {}
  FsyncMode = "always"
  Periodic = FALSE
  Absent = Absent
  NoRecord = NoRecord
  Never = 9
  MaxTime = 0
  MaxOps = 2
  MaxCrashes = 1
  MaxFaults = 0
INVARIANT
  AckedWritesSurvive
