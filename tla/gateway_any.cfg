SPECIFICATION Spec
CONSTANTS
  Programs <- EarlyOrLate
  Stamps <- StampsTo2
  BadHeader = BadHeader
  Follows <- AnyOrder
  MaxMessages = 3
  Replies <- Both
  RecvMayFail = TRUE
INVARIANTS
  TypeOK
  HeldInv
  TimeGranted
  QueueMatchesForwards
  NothingLost
  NothingLeftBehind
  ThreadGone
PROPERTIES
  FollowsTheLeader
