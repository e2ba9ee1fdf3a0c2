SPECIFICATION FairSpec
CONSTANTS
  Programs <- Early
  Stamps <- StampsTo3
  BadHeader = BadHeader
  Follows <- Increasing
  MaxMessages = 4
  Replies <- Never
  RecvMayFail = FALSE
INVARIANTS
  IncreasingAccepted
  DeliveredOnSchedule
  GrantNotBlocked
PROPERTIES
  UpdatesHappen
  CloseEnds
