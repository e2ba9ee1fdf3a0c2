SPECIFICATION Spec
CONSTANTS
  Programs <- First
  Stamps <- StampsTo2
  BadHeader = BadHeader
  Follows <- NonDecreasing
  MaxMessages = 4
  Replies <- Never
  RecvMayFail = FALSE
INVARIANTS
  GrantNotBlocked
