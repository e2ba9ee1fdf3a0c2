SPECIFICATION Spec
CONSTANTS
  PacketInterval = 2
  Counts <- UpToTwo
  Starts <- AnyOutcome
  SendMayFail = TRUE
  MaxTime = 3
  MaxRequests = 3
INVARIANTS
  TypeOK
  OneSendPacket
  SocketThere
  SenderInv
  CountsAddUp
PROPERTIES
  DuePacketFirst
  PacesItself
