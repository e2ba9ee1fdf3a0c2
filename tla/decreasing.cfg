SPECIFICATION Spec
CONSTANTS
  Programs <- First
  Stamps <- StampsTo2
  BadHeader = BadHeader
  Follows <- Decreasing
  MaxMessages = 3
  Replies <- Never
  RecvMayFail = FALSE
INVARIANTS
  AcceptedIncrease
