SPECIFICATION FairSpec
CONSTANTS
  Channels = {"channel-0", "channel-1"}
  Contracts = {"listener"}
  Empty = "no-contract"
  Malformed = "malformed"
  AckErrors = {"error"}
  MaxPackets = 2
INVARIANTS
  ToldOnceAndTruly
  CallbackOnlyInFlight
  AcknowledgedIsTold
PROPERTIES
  SettlesUnlessCallbackFails
