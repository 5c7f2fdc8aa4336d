SPECIFICATION Spec
CONSTANTS
  None = None
  Absent = Absent
  MaxUint = 1000
  MaxTimestamp = 100
  Channels = {"channel-0", "channel-1"}
  Natives = {"uosmo"}
  Vouchers = {}
  IbcDenoms = {}
  Origin <- MCOrigin
  InitialSupply <- MCInitialSupply
  InitialQuotas <- MCInitialQuotas
  Amounts = {1, 2}
  Lifetimes = {0}
  AckErrors = {"error"}
  ContractAddr = "rate-limiter"
  Contracts = {"rate-limiter"}
  Governance = {}
  QuotaLists <- MCQuotaLists
  QuotaIds = {"daily"}
  MaxNow = 3
  MaxPackets = 2
  MaxRecvs = 2
  MaxSupply = 6
  MaxProposals = 2
INVARIANTS
  FlowMatchesTransfers
  EscrowBacksPackets
  UndoneExactlyIfRefunded
CHECK_DEADLOCK FALSE
