SPECIFICATION HooksSpec
CONSTANTS
  Locks <- SmallLocks
  Sponsors = {"sponsor"}
  Receivers = {"carol"}
  MaxGauges = 2
  CreateGaugeFee = 1
  AddToGaugeFee = 1
  Dec = 1000
  ReductionFactor = 667
  ReductionPeriod = 2
  StartEpoch = 1
  Staking = 250
  PoolIncentives = 375
  DeveloperRewards = 375
  DeveloperReceivers <- SmallDevelopers
  Clocks <- DayAndWeek
  DistrIdentifier = 1
  MintIdentifier = 1
  GaugeMsgs <- SmallGaugeMsgs
  Rewards = {2}
  Proposals <- SmallProposals
  InitialBalance = 10
  InitialVesting = 6
  InitialProvisions = 8500
  MaxBlockTime = 5
  MaxMsgs = 4
INVARIANTS
  GaugesAreBacked
  OnlyDustRemains
  MintIsAccounted
  RecordsNeverBlockMint
PROPERTIES
  EpochEndIsAllOrNothing
  CatchesUp
CHECK_DEADLOCK FALSE
