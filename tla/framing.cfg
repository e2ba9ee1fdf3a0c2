SPECIFICATION FairSpec
CONSTANTS
  DelimiterPairs <- SomeDelimiters
  Packets <- SomePackets
  Values <- SomeValues
  DataSize = 2
  BufferSize = 3
  Second = 10
  MaxInt = 10
  MaxLong = 100
  MaxPackets = 2
  MaxSets = 1
CHECK_DEADLOCK FALSE
INVARIANTS
  TypeOK
  NothingDropped
  MessagesAsSent
  ValuesAsSent
  StampAsSent
  ResponsesAsSet
PROPERTIES
  PacketsForwarded
