SPECIFICATION Spec
CONSTANTS
  Client = Client
  Server = Server
  NET_MAX_SEQUENCE = 5
  BufferChunks = 2
  PacketChunks = 1
  CountModulus = 3
  Lifetime = 3
  MaxSend <- OneWay
  MaxPackets <- Wires
INVARIANTS InOrder NothingForgotten
CHECK_DEADLOCK FALSE
CONSTRAINT Undisturbed
