CONSTANTS
  Side = "server"
  ChannelIds <- MCIds
  Channels <- MCChannels
  Kinds <- MCReliable
  MaxPayloads = 1
  Oversized <- NoPayload
  QueueSize = 1
  CreateQueueSize = 2
  MaxStreams = 2
  Window = 1
  None = None
SPECIFICATION Spec
INVARIANTS DisconnectFlushesAll
CHECK_DEADLOCK FALSE
