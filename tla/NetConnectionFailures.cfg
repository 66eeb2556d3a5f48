SPECIFICATION Spec
CONSTANTS
  Client = Client
  Server = Server
  NET_MAX_SEQUENCE = 4
  BufferChunks = 1
  PacketChunks = 2
  CountModulus = 2
  Lifetime = 2
  MaxSend <- BothWays
  MaxPackets <- One
INVARIANTS TypeOK
PROPERTIES ImplementsChannel
CHECK_DEADLOCK FALSE
