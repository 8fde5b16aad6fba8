CONSTANTS
  Streams <- MCStreams
  Datagrams <- MCDatagrams
  ChannelOf <- MCChannelOf
  Lengths <- MCLengths
  Refused <- MCRefused
  QueueSize = 2
  MaxBuffered = 2
  MaxChannels = 2
  None = 0
SPECIFICATION FairSpec
INVARIANTS TypeOK EachInOnePlace OrderIsKept
PROPERTIES EverythingIsDispatched DroppedIsReleased Transfers
CHECK_DEADLOCK FALSE
