SPECIFICATION FairSpec
CONSTANTS
  Workers = {w1, w2, w3}
  Clients = {c1, c2}
  max_queue_size = 2
  NoJob = NoJob
  MaxJobs = 4
INVARIANTS
  TypeOK
  AcceptedRunInOrder
  NoLostWakeup
PROPERTIES
  AcceptedJobsRun
  ShutdownReturns
CHECK_DEADLOCK FALSE
