SPECIFICATION Spec
CONSTANTS
  Users = {"alice", "bob"}
  Channels = {"channel-0", "channel-1"}
  Calls <- SmallCalls
  Outputs = {1, 2}
  Governors = {"gov", "dao"}
  None = None
  NoAddr = NoAddr
  MaxPackets = 3
  MaxGovernance = 2
INVARIANTS
  TracksForwardsInFlight
  RecoveriesAddUp
  HeldIsAccounted
CHECK_DEADLOCK FALSE
