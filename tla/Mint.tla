-------------------------------- MODULE Mint --------------------------------
(***************************************************************************)
(* x/mint and x/pool-incentives at the end of an epoch: the epoch's        *)
(* provision is minted and divided between staking, pool incentives,       *)
(* developers and the community pool; the part of the pool incentives goes *)
(* on to the gauges that governance lists.                                 *)
(*                                                                         *)
(* Ratios and EpochProvisions are decimals, kept in units of 1/Dec.        *)
(***************************************************************************)
EXTENDS Incentives

CONSTANTS
  Dec,                  \* units of a decimal in 1 (10^18 in the code)
  ReductionFactor,
  ReductionPeriod,      \* ReductionPeriodInEpochs
  StartEpoch,           \* MintingRewardsDistributionStartEpoch
  Staking, PoolIncentives, DeveloperRewards,  \* DistributionProportions
  DeveloperReceivers    \* a sequence of [address, weight]; NoReceiver is the community pool

MintModule == "mint"
FeeCollector == "fee_collector"
PoolIncentivesModule == "poolincentives"
DeveloperVesting == "developer_vesting"

\* types/params.go: the proportions and the weights are not more than 1 together.
ASSUME ProportionsAssumption ==
  /\ {Dec, ReductionFactor, ReductionPeriod, StartEpoch, Staking, PoolIncentives, DeveloperRewards} \subseteq Nat
  /\ Dec > 0 /\ Staking + PoolIncentives + DeveloperRewards <= Dec

ASSUME DeveloperReceiversAssumption ==
  LET weights == [i \in DOMAIN DeveloperReceivers |-> DeveloperReceivers[i].weight]
  IN /\ IsFiniteSet(DOMAIN weights) /\ DOMAIN weights \subseteq Int
     /\ \A i \in DOMAIN weights : weights[i] \in Nat
     /\ SumFunctionOnSet(weights, DOMAIN weights) <= Dec

\* sdk.Dec (external): products and quotients are rounded half to even.
RoundedQuotient(a, b) ==
  LET q == a \div b
      r == 2 * (a % b)
  IN IF r > b \/ (r = b /\ q % 2 = 1) THEN q + 1 ELSE q

getProportions(amount, ratio) == (amount * ratio) \div Dec

\* A mint or a burn changes the supply, a supply offset what is reported of it.
MintCoins(st, amount) == [st EXCEPT !.bank[MintModule] = @ + amount, !.supply = @ + amount]
BurnCoins(st, amount) == [st EXCEPT !.bank[MintModule] = @ - amount, !.supply = @ - amount]
AddSupplyOffset(st, amount) == [st EXCEPT !.offset = @ + amount]

NextEpochProvisions(provisions) == RoundedQuotient(provisions * ReductionFactor, Dec)

PayDevelopers(st, amount) ==
  LET receiverOf(w) == IF w.address = NoReceiver THEN CommunityPool ELSE w.address
      portions == [i \in DOMAIN DeveloperReceivers |->
                     [to |-> receiverOf(DeveloperReceivers[i]),
                      amount |-> getProportions(amount, DeveloperReceivers[i].weight)]]
  IN IF DOMAIN DeveloperReceivers = {} THEN Send(st, DeveloperVesting, CommunityPool, amount)
     ELSE SendAll(st, DeveloperVesting, portions)

\* Mutant: the offset is taken from what was due, not from what was paid
distributeDeveloperRewardsDue(st, amount) ==
  LET burnt == BurnCoins(st, amount)
  IN AddSupplyOffset(PayDevelopers(burnt, amount), amount)

\* The offset hides the balance of the vesting account before and after.
distributeDeveloperRewards(st, amount) ==
  LET offset == AddSupplyOffset(BurnCoins(st, amount), st.bank[DeveloperVesting])
      paid == PayDevelopers(offset, amount)
  IN AddSupplyOffset(paid, -paid.bank[DeveloperVesting])

----------------------------------------------------------------------------
(* x/pool-incentives distr.go                                              *)

TotalWeight(records) == SumFunctionOnSet(records, DOMAIN records)

\* The weight is divided first, so that a third of 3 is nothing.
Allocation(st, id) ==
  (st.bank[PoolIncentivesModule] * RoundedQuotient(st.records[id] * Dec, TotalWeight(st.records))) \div Dec

\* Record 0 is the community pool; a gauge that is completed takes no more coins.
CanAllocate(st, now) ==
  TotalWeight(st.records) > 0 =>
    \A id \in DOMAIN st.records \ {0} : Allocation(st, id) > 0 => CanAddToGaugeRewards(st, id, now)

\* Rounded up, the weights may be more than 1 together: the bank refuses the excess.
AllocationFits(st) ==
  TotalWeight(st.records) > 0 =>
    SumFunctionOnSet([id \in DOMAIN st.records |-> Allocation(st, id)], DOMAIN st.records)
      <= st.bank[PoolIncentivesModule]

AllocateTo(st, id, amount) ==
  IF amount = 0 THEN st
  ELSE IF id = 0 THEN Send(st, PoolIncentivesModule, CommunityPool, amount)
  ELSE AddToGaugeRewards(st, PoolIncentivesModule, amount, id)

AllocateAsset(st) ==
  IF TotalWeight(st.records) = 0 THEN Send(st, PoolIncentivesModule, CommunityPool, st.bank[PoolIncentivesModule])
  ELSE InOrder(LAMBDA id, x : AllocateTo(x, id, Allocation(st, id)), st, DOMAIN st.records)

\* Mutant: any gauge may be listed
validateRecordsAny(st, records) == DOMAIN records \ {0} \subseteq DOMAIN st.gauges

\* Records pay to perpetual gauges that exist.
validateRecords(st, records) ==
  \A id \in DOMAIN records \ {0} : id \in DOMAIN st.gauges /\ st.gauges[id].perpetual

ReplaceDistrRecords(st, records) == [st EXCEPT !.records = records]

\* A record of weight zero is removed.
UpdateDistrRecords(st, records) ==
  LET all == [id \in DOMAIN records \cup DOMAIN st.records |->
                IF id \in DOMAIN records THEN records[id] ELSE st.records[id]]
  IN [st EXCEPT !.records = [id \in {i \in DOMAIN all : all[i] # 0} |-> all[id]]]

----------------------------------------------------------------------------
(* x/mint hooks.go, keeper.go                                              *)

\* setLastReductionEpochNum and the reduction
Reduced(st, epoch) ==
  LET last == IF epoch = StartEpoch THEN epoch ELSE st.lastReduction
  IN IF epoch >= ReductionPeriod + last
     THEN [st EXCEPT !.provisions = NextEpochProvisions(@), !.lastReduction = epoch]
     ELSE [st EXCEPT !.lastReduction = last]

\* All but the hook that allocates the part of the pools
DistributeMintedCoin(st, amount) ==
  LET staking == getProportions(amount, Staking)
      pool == getProportions(amount, PoolIncentives)
      dev == getProportions(amount, DeveloperRewards)
      given == Send(Send(st, MintModule, FeeCollector, staking), MintModule, PoolIncentivesModule, pool)
  IN Send(distributeDeveloperRewards(given, dev), MintModule, CommunityPool,
          amount - staking - pool - dev)

Provision(st, epoch) == Reduced(st, epoch).provisions \div Dec

VestingSuffices(st, epoch) ==
  st.bank[DeveloperVesting] >= getProportions(Provision(st, epoch), DeveloperRewards)

Minted(st, epoch) ==
  DistributeMintedCoin(MintCoins(Reduced(st, epoch), Provision(st, epoch)), Provision(st, epoch))

\* The hook, run by ApplyFuncIfNoError: without enough to vest (an error), or with a
\* part that its gauge or the bank refuses (a panic), nothing is minted and nothing kept.
MintAfterEpochEnd(st, epoch, now) ==
  LET minted == Minted(st, epoch)
  IN IF /\ epoch >= StartEpoch
        /\ VestingSuffices(st, epoch)
        /\ CanAllocate(minted, now) /\ AllocationFits(minted)
     THEN AllocateAsset(minted)
     ELSE st

=============================================================================
