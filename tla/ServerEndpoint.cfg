CONSTANTS
  Peers <- MCPeers
  ChannelIds <- MCIds
  InboxSize = 1
  None <- NoPeer
SPECIFICATION FairSpec
INVARIANTS TypeOK OpenedForAll FreeIdsAreUnregistered ClosedIsOwn EventsMakeSense
PROPERTIES LostClientIsRemoved EveryoneIsServed DroppedIsClosed
CHECK_DEADLOCK FALSE
