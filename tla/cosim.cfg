SPECIFICATION CoFairSpec
CONSTANTS
  Programs <- GatewayProgram
  Stamps <- SmallStamps
  BadHeader = BadHeader
  Follows <- AnyOrder
  MaxMessages = 6
  Replies <- Always
  RecvMayFail = TRUE
  N = 2
  ServerArgs <- CommandLines
  Second = 5
  BroadcastEvery = 2
  PacketsPerSend = 3
  BusDelay = 1
  Uint16 = 4
  Uint32 = 32
INVARIANTS
  CoTypeOK
  WellRun
  InStep
  CountsReported
  CourseSeen
PROPERTIES
  BothEnd
