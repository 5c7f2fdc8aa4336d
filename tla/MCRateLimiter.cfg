SPECIFICATION Spec
CONSTANTS
  None = None
  Absent = Absent
  MaxUint = 500
  MaxTimestamp = 4
  Channels = {"channel-0"}
  Denoms = {"ibc/atom"}
  IbcDenoms = {"ibc/atom"}
  Amounts = {1, 2}
  Supplies = {4}
  QuotaLists <- MCQuotaLists
  Senders = {"gov", "ibc", "user"}
  GovModule = "gov"
  IbcModule = "ibc"
  QuotaIds = {"daily", "unknown"}
  MaxNow = 3
  MaxFlow = 2
INVARIANTS
  TypeOK
  OutflowWithinCapacity
  RoundTripIsNeutral
PROPERTIES
  PeriodIsKept
  InflowExceedsOnlyByUndo
