----------------------------- MODULE EpochHooks -----------------------------
(***************************************************************************)
(* The ends of epochs and what hangs on them: x/epochs calls its hooks     *)
(* from the begin blocker, each undone as a whole when it fails;           *)
(* x/incentives pays the gauges, then x/mint mints and feeds the gauges of *)
(* the next end.  Between the blocks' beginnings come the messages that    *)
(* create and fill gauges, locks that come and go, and proposals that      *)
(* change the distribution records.                                        *)
(*                                                                         *)
(* One step is one begin blocker or one message.  Of the other hooks, the  *)
(* ones of x/txfees, x/twap, x/superfluid and x/protorev, none touches     *)
(* this state.                                                             *)
(***************************************************************************)
EXTENDS Mint, Epochs

CONSTANTS
  Clocks,             \* startTime and duration of each epoch, in the order of the store's keys
  DistrIdentifier,    \* DistrEpochIdentifier of x/incentives
  MintIdentifier,     \* EpochIdentifier of x/mint
  GaugeMsgs,          \* messages that create gauges
  Rewards,            \* amounts that are added to a gauge
  Proposals,          \* distribution records that governance may propose
  InitialBalance,     \* of a sponsor
  InitialVesting,     \* developerVestingAmount
  InitialProvisions,  \* GenesisEpochProvisions
  MaxBlockTime,       \* bound on time
  MaxMsgs             \* bound on the number of messages and proposals

VARIABLES
  blockTime, \* of the block
  epochs,    \* x/epochs
  st,        \* the stores of x/incentives, x/mint, x/pool-incentives and the bank
  locked,    \* the locks there are (x/lockup)
  receiver,  \* RewardReceiverAddress of each lock (x/lockup)
  msgs       \* number of messages so far

hooksVars == <<blockTime, epochs, st, locked, receiver, msgs>>

Identifiers == DOMAIN Clocks
Developers == {DeveloperReceivers[i].address : i \in DOMAIN DeveloperReceivers} \ {NoReceiver}
Users == Owners \cup Sponsors \cup Receivers \cup Developers
ModuleAccounts ==
  {Module, Pool, CommunityPool, MintModule, FeeCollector, PoolIncentivesModule, DeveloperVesting}
Accounts == Users \cup ModuleAccounts

ASSUME AccountsAssumption == Users \cap ModuleAccounts = {}

ASSUME ClocksAssumption ==
  /\ IsFiniteSet(Identifiers) /\ Identifiers \subseteq Int
  /\ DistrIdentifier \in Identifiers /\ MintIdentifier \in Identifiers
  /\ \A i \in Identifiers : Clocks[i].startTime \in Nat /\ Clocks[i].duration \in Nat \ {0}

\* ValidateBasic of the messages and of the proposals
ASSUME MessagesAssumption ==
  /\ GaugeMsgs \subseteq [perpetual : BOOLEAN, noLock : BOOLEAN, duration : Nat, coins : Nat,
                          startTime : Nat, numEpochs : Nat \ {0}]
  /\ \A m \in GaugeMsgs : m.perpetual => m.numEpochs = 1
  /\ Rewards \subseteq Nat
  /\ \A p \in Proposals : /\ IsFiniteSet(DOMAIN p) /\ DOMAIN p \subseteq Nat
                           /\ p = [id \in DOMAIN p |-> p[id]] /\ \A id \in DOMAIN p : p[id] \in Nat

ASSUME GenesisAssumption ==
  {InitialBalance, InitialVesting, InitialProvisions, MaxBlockTime, MaxMsgs} \subseteq Nat

HooksInit ==
  /\ blockTime = 0
  /\ epochs = [i \in Identifiers |-> NewEpochInfo(Clocks[i].startTime, Clocks[i].duration)]
  /\ st = [gauges |-> <<>>, upcoming |-> {}, active |-> {}, finished |-> {}, byDenom |-> {},
           provisions |-> InitialProvisions, lastReduction |-> 0, records |-> [id \in {} |-> 0],
           bank |-> [a \in Accounts |-> CASE a \in Sponsors -> InitialBalance
                                          [] a = DeveloperVesting -> InitialVesting
                                          [] OTHER -> 0],
           supply |-> InitialBalance * Cardinality(Sponsors) + InitialVesting,
           offset |-> -InitialVesting]
  /\ locked = DOMAIN Locks
  /\ receiver = [l \in DOMAIN Locks |-> NoReceiver]
  /\ msgs = 0

----------------------------------------------------------------------------
(* x/epochs                                                                *)

\* MultiEpochHooks in the order of app/keepers
AfterEpochEnd(s, i, epoch, t) ==
  LET paid == IF i = DistrIdentifier THEN IncentivesAfterEpochEnd(s, locked, receiver, t) ELSE s
  IN IF i = MintIdentifier THEN MintAfterEpochEnd(paid, epoch, t) ELSE paid

\* Several blocks fall into the same unit of time.
Tick(t) == blockTime' = t /\ epochs' = [i \in Identifiers |-> Advance(epochs[i], t)]

\* A hook sees the epochs as they were before: they are stored after it.
BeginBlocker(t) ==
  /\ Tick(t)
  /\ st' = InOrder(LAMBDA i, s : AfterEpochEnd(s, i, epochs[i].currentEpoch, t), st,
                   {i \in Identifiers : EpochEnds(epochs[i], t)})
  /\ UNCHANGED <<locked, receiver, msgs>>

----------------------------------------------------------------------------
(* Messages and proposals                                                  *)

Message == msgs < MaxMsgs /\ msgs' = msgs + 1

MsgCreateGauge(owner, msg) ==
  /\ Message
  /\ Len(st.gauges) < MaxGauges
  /\ CanPay(st, owner, msg.coins, CreateGaugeFee)
  /\ st' = CreateGauge(chargeFeeIfSufficientFeeDenomBalance(st, owner, CreateGaugeFee), owner, msg)
  /\ UNCHANGED <<blockTime, epochs, locked, receiver>>

MsgAddToGauge(owner, id, coins) ==
  /\ Message
  /\ CanAddToGaugeRewards(st, id, blockTime)
  /\ CanPay(st, owner, coins, AddToGaugeFee)
  /\ st' = AddToGaugeRewards(chargeFeeIfSufficientFeeDenomBalance(st, owner, AddToGaugeFee), owner, coins, id)
  /\ UNCHANGED <<blockTime, epochs, locked, receiver>>

\* x/lockup, as far as gauges see it: a lock ends, or tokens are locked again.  Module
\* Lockup has the stages in between.
LockOrUnlock(l) ==
  /\ Message
  /\ locked' = IF l \in locked THEN locked \ {l} ELSE locked \cup {l}
  /\ receiver' = [receiver EXCEPT ![l] = NoReceiver]
  /\ UNCHANGED <<blockTime, epochs, st>>

\* The owner is kept as no receiver; a change to the same receiver is refused.
SetLockRewardReceiverAddress(l, r) ==
  LET stored == IF r = Locks[l].owner THEN NoReceiver ELSE r
  IN /\ Message
     /\ l \in locked
     /\ receiver[l] # stored
     /\ receiver' = [receiver EXCEPT ![l] = stored]
     /\ UNCHANGED <<blockTime, epochs, st, locked>>

HandleReplacePoolIncentivesProposal(records) ==
  /\ Message
  /\ validateRecords(st, records)
  /\ st' = ReplaceDistrRecords(st, records)
  /\ UNCHANGED <<blockTime, epochs, locked, receiver>>

HandleUpdatePoolIncentivesProposal(records) ==
  /\ Message
  /\ validateRecords(st, records)
  /\ st' = UpdateDistrRecords(st, records)
  /\ UNCHANGED <<blockTime, epochs, locked, receiver>>

----------------------------------------------------------------------------

HooksNext ==
  \/ \E t \in blockTime .. MaxBlockTime : BeginBlocker(t)
  \/ \E o \in Sponsors, m \in GaugeMsgs : MsgCreateGauge(o, m)
  \/ \E o \in Sponsors, id \in GaugeIds, c \in Rewards : MsgAddToGauge(o, id, c)
  \/ \E l \in DOMAIN Locks : LockOrUnlock(l)
  \/ \E l \in DOMAIN Locks, r \in Owners \cup Receivers : SetLockRewardReceiverAddress(l, r)
  \/ \E p \in Proposals : HandleReplacePoolIncentivesProposal(p)
  \/ \E p \in Proposals : HandleUpdatePoolIncentivesProposal(p)

\* The chain goes on producing blocks (only a block ticks, and one that does not is idle).
HooksSpec == HooksInit /\ [][HooksNext]_hooksVars /\ WF_<<blockTime, epochs>>(\E t \in blockTime .. MaxBlockTime : Tick(t))

----------------------------------------------------------------------------
(* Properties                                                              *)

\* Every store keeps its shape, and no balance and no decimal falls below zero: no
\* transfer of the end of an epoch (distribute.go, mint keeper.go) exceeds its source.
HooksTypeOK ==
  /\ blockTime \in 0 .. MaxBlockTime
  /\ epochs \in [Identifiers -> EpochInfo]
  /\ \A id \in DOMAIN st.gauges : st.gauges[id] \in Gauge
  /\ st.bank \in [Accounts -> Nat]
  /\ {st.provisions, st.lastReduction, st.supply} \subseteq Nat
  /\ DOMAIN st.records \subseteq {0} \cup DOMAIN st.gauges
  /\ locked \subseteq DOMAIN Locks
  /\ receiver \in [DOMAIN Locks -> {NoReceiver} \cup Owners \cup Receivers]

\* What all gauges have yet to pay is what the module account of x/incentives holds,
\* through every distribution, failed hook, late addition and allocation of the mint.
GaugesAreBacked ==
  /\ \A id \in DOMAIN st.gauges : st.gauges[id].distributed <= st.gauges[id].coins
  /\ st.bank[Module] = SumFunctionOnSet([id \in DOMAIN st.gauges |-> remainCoins(st.gauges[id])], DOMAIN st.gauges)

\* A gauge that has paid all its epochs to locks has kept no more than what its last
\* division left over, less than one coin for each lock.
OnlyDustRemains ==
  \A id \in DOMAIN st.gauges :
    LET g == st.gauges[id]
    IN ~g.perpetual /\ g.filled = g.numEpochs =>
         IF g.noLock THEN remainCoins(g) = 0 ELSE remainCoins(g) < Cardinality(DOMAIN Locks)

\* The bank's supply is the sum of the balances, what the offset hides of it is exactly
\* what developers have yet to get, and the mint keeps nothing, roundings included.
MintIsAccounted ==
  /\ st.supply = SumFunctionOnSet(st.bank, Accounts)
  /\ st.offset = -st.bank[DeveloperVesting]
  /\ st.bank[MintModule] = 0

\* While developers can be paid, no state of the gauges stops the mint: a record that
\* governance could set never leads to a gauge that refuses its part (hooks.go panics).
RecordsNeverBlockMint ==
  LET epoch == epochs[MintIdentifier].currentEpoch
  IN VestingSuffices(st, epoch) => CanAllocate(Minted(st, epoch), blockTime)

\* Between two ends of the epoch of a gauge its paid epochs stand still; at an end, every
\* active gauge that has someone to pay is paid, or none is (a hook that fails is undone).
EpochEndIsAllOrNothing ==
  [][LET payable(id) == /\ id \in DOMAIN st.gauges \ st.finished
                        /\ st.gauges[id].startTime <= blockTime'
                        /\ st.gauges[id].noLock \/ QualifiedLocks(st.gauges[id], locked) # {}
         paid == {id \in DOMAIN st.gauges : st'.gauges[id].filled # st.gauges[id].filled}
     IN paid = {} \/ /\ EpochEnds(epochs[DistrIdentifier], blockTime')
                     /\ paid = {id \in DOMAIN st.gauges : payable(id)}]_hooksVars

\* A chain that was down makes up for every epoch it missed, one a block.
CatchesUp ==
  \A i \in Identifiers :
    []<>(epochs[i].countingStarted => blockTime <= epochs[i].currentEpochStartTime + Clocks[i].duration)

=============================================================================
