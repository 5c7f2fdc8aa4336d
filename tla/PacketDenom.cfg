SPECIFICATION DenomSpec
CONSTANTS
  LocalChannels = {"channel-0", "channel-2"}
  Peer <- MCPeer
  ChannelIds <- MCIds
  TextPrefix <- MCTextPrefix
  Text <- MCText
  Natives <- MCNatives
  Foreign <- MCForeign
  MaxSegments = 7
  MaxAway = 2
INVARIANTS
  RecvUsesCreditedDenom
  ReturnUsesKeyOfSend
CHECK_DEADLOCK FALSE
