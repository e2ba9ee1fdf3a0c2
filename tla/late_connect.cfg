SPECIFICATION Spec
CONSTANTS
  Programs <- Late
  Stamps <- StampsTo3
  BadHeader = BadHeader
  Follows <- Increasing
  MaxMessages = 3
  Replies <- Never
  RecvMayFail = FALSE
INVARIANTS
  IncreasingAccepted
