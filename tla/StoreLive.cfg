SPECIFICATION FairSpec
CONSTANTS
  k1 = k1
  k2 = k2
  Threads = {p1, p2}
  Keys = {k1, k2}
  Values = {1}
  Ttls = {0}
  Sec = 1
  shard_count = 2
  shard_index <- TwoShards
  samples_per_shard = 1
  EntrySize = 2
  Configs <- LiveConfigs
  Absent = Absent
  Nobody = Nobody
  NoRequest = NoRequest
  NoResult = NoResult
  Never = 9
  MaxTime = 1
  MaxCalls = 3
PROPERTIES
  EveryCallReturns
CHECK_DEADLOCK FALSE
