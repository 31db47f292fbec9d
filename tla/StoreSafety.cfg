SPECIFICATION Spec
CONSTANTS
  k1 = k1
  k2 = k2
  Threads = {p1, p2}
  Keys = {k1, k2}
  Values = {1}
  Ttls = {0, 1}
  Sec = 2
  shard_count = 2
  shard_index <- TwoShards
  samples_per_shard = 1
  EntrySize = 2
  Configs <- SafetyConfigs
  Absent = Absent
  Nobody = Nobody
  NoRequest = NoRequest
  NoResult = NoResult
  Never = 9
  MaxTime = 1
  MaxCalls = 3
SYMMETRY Symmetry
INVARIANTS
  TypeOK
  MemoryIsAccounted
  EachExpiryCountedOnce
  ScanIsSound
  ExportIsACut
  NoCyclicWait
PROPERTIES
  Linearizable
CHECK_DEADLOCK FALSE
