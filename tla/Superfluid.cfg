SPECIFICATION Spec
CONSTANTS
  Owners = {"alice"}
  Vals = {"val"}
  MaxDuration = 3
  MaxLocks = 3
  UnbondingTime = 2
  ForceUnlockers = {"alice"}
  Unpool = TRUE
  InitialShares = 2
  Multipliers <- SmallMultipliers
  RiskFactor <- Half
  SlashFactor <- Half
  MaxTime = 4
INVARIANTS
  LockedIsBackedAndCounted
  IndexIsExact
  ConnectedIffBonded
  DelegationMatchesLocks
  NeverHalts
  UnbondingIsSlashable
PROPERTIES
  UnbondingIsServed
  
