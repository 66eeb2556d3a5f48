SPECIFICATION FairSpec
CONSTANTS
  Client = Client
  Server = Server
  NET_MAX_SEQUENCE = 6
  BufferChunks = 2
  PacketChunks = 2
  CountModulus = 2
  Lifetime = 4
  MaxSend <- TwoOneWay
  MaxPackets <- One
PROPERTIES Delivery
CHECK_DEADLOCK FALSE
