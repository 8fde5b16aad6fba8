CONSTANTS
  Side = "client"
  ChannelIds <- MCOneId
  Channels <- MCChannels
  Kinds <- MCMixed
  MaxPayloads = 2
  Oversized <- SecondPayload
  QueueSize = 1
  CreateQueueSize = 2
  MaxStreams = 1
  Window = 1
  None = None
SPECIFICATION FairSpec
PROPERTIES Transfers DroppedIsReleased
CHECK_DEADLOCK FALSE
