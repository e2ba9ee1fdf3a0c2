SPECIFICATION Spec
CONSTANTS
  Programs <- First
  Stamps <- StampsTo2
  BadHeader = BadHeader
  Follows <- Increasing
  MaxMessages = 3
  Replies <- Always
  RecvMayFail = FALSE
INVARIANTS
  StoppedIsHarmless
