CONSTANTS
  Peers <- MCPeers
  ChannelIds <- MCOneId
  InboxSize = 2
  None <- NoPeer
SPECIFICATION Spec
INVARIANTS ClosedForAll
CHECK_DEADLOCK FALSE
