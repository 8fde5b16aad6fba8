CONSTANTS
  Side = "server"
  ChannelIds <- MCOneId
  Channels <- MCChannels
  Kinds <- MCReliable
  MaxPayloads = 2
  Oversized <- NoPayload
  QueueSize = 1
  CreateQueueSize = 2
  MaxStreams = 1
  Window = 1
  None = None
SPECIFICATION FairSpec
INVARIANTS TypeOK OrderedDelivery NothingLost ClosedAfterTasks
PROPERTIES Transfers AcceptedIsSent DisconnectedIsClosed
CHECK_DEADLOCK FALSE
