SPECIFICATION RoutingSpec
CONSTANTS
  DestChannels = {"channel-0", "channel-1"}
  Senders = {"cosmos1"}
  Accounts = {"alice"}
  CallContracts = {"swap"}
  Memos <- MCMemos
  MaxRecvs = 3
INVARIANTS
  SuccessIffExecuted
  NothingStranded
CHECK_DEADLOCK FALSE
