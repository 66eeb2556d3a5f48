SPECIFICATION PoolSpec
CONSTANTS
  NumThreads = 2
  MAX_THREADS = 32
  m1 = m1
  m2 = m2
  Clients = {c1, c2}
  Masters <- OneMaster
  Uses <- BothUses
  NoJob = NoJob
PROPERTIES JobsGetDone
CHECK_DEADLOCK FALSE
