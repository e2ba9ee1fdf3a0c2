SPECIFICATION FairSpec
CONSTANTS
  PacketInterval = 3
  Counts <- UpToThree
  Starts <- Udp
  SendMayFail = TRUE
  MaxTime = 5
  MaxRequests = 3
INVARIANTS
  OnSchedule
PROPERTIES
  RequestsEnd
