SPECIFICATION Spec
CONSTANTS
  Slots = {0, 1, 2}
  Addrs = {a1, a2}
  Ip <- SameIp
  MaxClientsPerIP = 2
  Codes = {k}
  NoCode = NoCode
  NoAddr = NoAddr
  NoPlayer = NoPlayer
  AsyncBufSize = 2
  AsyncLocalBufSize = 3
  MaxLine = 3
  MaxWritten = 7
  NumThreads = 2
  MAX_THREADS = 32
  m1 = m1
  m2 = m2
  Clients = {c1, c2}
  Masters <- TwoMasters
  Uses <- OneUse
  NoJob = NoJob
  RingSize = 7
  MaxItem = 7
  MAX_IDS = 4
  RestSeconds = 1
INVARIANTS SlotsTypeOK OneSlotPerAddress SlotsAgree AddressLimit NewClientsUnprotected
  AioKeepsAll SignalsMatchJobs RingIsQueue RingRejoins IdsAreShared
PROPERTIES AioEnds JobsGetDone IdsRest
CHECK_DEADLOCK FALSE
