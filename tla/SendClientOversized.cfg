CONSTANTS
  Side = "client"
  ChannelIds <- MCIds
  Channels <- MCChannels
  Kinds <- MCReliable
  MaxPayloads = 2
  Oversized <- FirstPayload
  QueueSize = 1
  CreateQueueSize = 2
  MaxStreams = 2
  Window = 1
  None = None
SPECIFICATION Spec
INVARIANTS ReliableIsDelivered
CHECK_DEADLOCK FALSE
