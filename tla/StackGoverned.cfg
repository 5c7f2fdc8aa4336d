SPECIFICATION FairSpec
CONSTANTS
  None = None
  Absent = Absent
  MaxUint = 1000
  MaxTimestamp = 100
  Channels = {"channel-0"}
  Natives = {}
  Vouchers = {"ibc/atom"}
  IbcDenoms = {"ibc/atom"}
  Origin <- MCOrigin
  InitialSupply <- MCInitialSupply
  InitialQuotas <- MCInitialQuotas
  Amounts = {2}
  Lifetimes = {0}
  AckErrors = {"error"}
  ContractAddr = "rate-limiter"
  Contracts = {"rate-limiter", "not-a-contract"}
  Governance = {"SetParams", "AddPath", "RemovePath", "ResetPathQuota"}
  QuotaLists <- MCQuotaLists
  QuotaIds = {"daily"}
  MaxNow = 3
  MaxPackets = 2
  MaxRecvs = 1
  MaxSupply = 4
  MaxProposals = 2
INVARIANTS
  FlowMatchesTransfers
PROPERTIES
  CachedValueIsSupplyAtStart
  ImplementsRateLimiter
  EveryPacketSettles
CHECK_DEADLOCK FALSE
