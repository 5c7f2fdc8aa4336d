----------------------------- MODULE Incentives -----------------------------
(***************************************************************************)
(* The gauges of x/incentives as operators on a store: gauges are created  *)
(* as upcoming, become active at the end of an epoch after their start     *)
(* time, pay the locks of a minimal duration (or a concentrated pool, for  *)
(* a gauge without lock) at each end of an epoch, and finish.              *)
(*                                                                         *)
(* There is one reward denomination and one locked denomination.  Gauges   *)
(* of synthetic denominations, which x/superfluid pays, are left out, as   *)
(* are gas, events and the estimates made for queries.                     *)
(***************************************************************************)
EXTENDS Integers, Sequences, FiniteSetsExt, Functions

CONSTANTS
  Locks,       \* the locks there can be: [owner, amount, duration], by identifier
  Sponsors,    \* accounts that create gauges and add to them
  Receivers,   \* accounts that owners may name to receive rewards
  MaxGauges,   \* bound on the number of gauges
  CreateGaugeFee,
  AddToGaugeFee

\* types/lock.go: locks come by duration, then by identifier (the order of the
\* index), so identifiers are given out in that order.
ASSUME LocksAssumption ==
  /\ IsFiniteSet(DOMAIN Locks) /\ DOMAIN Locks \subseteq Int
  /\ \A l \in DOMAIN Locks : Locks[l].amount \in Nat \ {0} /\ Locks[l].duration \in Nat
  /\ \A i, j \in DOMAIN Locks : i < j => Locks[i].duration <= Locks[j].duration

ASSUME SponsorsAssumption ==
  /\ IsFiniteSet(Sponsors) /\ IsFiniteSet(Receivers)
  /\ {CreateGaugeFee, AddToGaugeFee} \subseteq Nat

Owners == {Locks[l].owner : l \in DOMAIN Locks}
Module == "incentives"
Pool == "pool"
CommunityPool == "community"
NoReceiver == ""    \* DefaultOwnerReceiverPlaceholder

GaugeIds == 1 .. MaxGauges

Gauge == [perpetual : BOOLEAN, noLock : BOOLEAN, duration : Nat, coins : Nat, startTime : Nat,
          numEpochs : Nat \ {0}, filled : Nat, distributed : Nat]

\* A loop over the numbers of S, in their order
InOrder(op(_, _), base, S) == MapThenFoldSet(op, base, LAMBDA x : x, Max, S)

\* The bank (external); the callers check the balance.
Moved(bank, from, to, amount) == [bank EXCEPT ![from] = @ - amount, ![to] = @ + amount]
Send(st, from, to, amount) == [st EXCEPT !.bank = Moved(@, from, to, amount)]

\* Several sends from one account
SendAll(st, from, payments) ==
  FoldSet(LAMBDA k, s : Send(s, from, payments[k].to, payments[k].amount), st, DOMAIN payments)

----------------------------------------------------------------------------
(* types/gauge.go, gauge.go                                                *)

IsUpcomingGauge(g, now) == now < g.startTime
IsActiveGauge(g, now) == now >= g.startTime /\ (g.perpetual \/ g.filled < g.numEpochs)
IsFinishedGauge(g, now) == ~IsUpcomingGauge(g, now) /\ ~IsActiveGauge(g, now)

chargeFeeIfSufficientFeeDenomBalance(st, owner, fee) == Send(st, owner, CommunityPool, fee)

CanPay(st, owner, coins, fee) == st.bank[owner] >= coins + fee

\* A gauge starts in the upcoming queue, whatever its start time.
CreateGauge(st, owner, msg) ==
  LET id == Len(st.gauges) + 1
      new == [perpetual |-> msg.perpetual, noLock |-> msg.noLock, duration |-> msg.duration,
              coins |-> msg.coins, startTime |-> msg.startTime, numEpochs |-> msg.numEpochs,
              filled |-> 0, distributed |-> 0]
  IN [Send(st, owner, Module, msg.coins) EXCEPT
        !.gauges = Append(@, new), !.upcoming = @ \cup {id}, !.byDenom = @ \cup {id}]

CanAddToGaugeRewards(st, id, now) ==
  id \in DOMAIN st.gauges /\ ~IsFinishedGauge(st.gauges[id], now)

AddToGaugeRewards(st, owner, coins, id) ==
  [Send(st, owner, Module, coins) EXCEPT !.gauges[id].coins = @ + coins]

----------------------------------------------------------------------------
(* distribute.go                                                           *)

moveUpcomingGaugeToActiveGauge(st, ids) ==
  [st EXCEPT !.upcoming = @ \ ids, !.active = @ \cup ids]

moveActiveGaugeToFinishedGauge(st, ids) ==
  [st EXCEPT !.active = @ \ ids, !.finished = @ \cup ids, !.byDenom = @ \ ids]

remainCoins(g) == g.coins - g.distributed

\* Mutant: the epoch that is paid is counted once more
remainEpochsOneMore(g) == IF g.perpetual THEN 1 ELSE g.numEpochs - g.filled + 1

remainEpochs(g) == IF g.perpetual THEN 1 ELSE g.numEpochs - g.filled

\* getDistributeToBaseLocks: a gauge that never had coins gets no locks.
QualifiedLocks(g, locked) == {l \in locked : g.coins > 0 /\ Locks[l].duration >= g.duration}

SumLocks(ls) == SumFunctionOnSet([l \in ls |-> Locks[l].amount], ls)

\* What a lock is due of a gauge at the end of an epoch
ShareOf(g, l, locked) ==
  (remainCoins(g) * Locks[l].amount) \div (SumLocks(QualifiedLocks(g, locked)) * remainEpochs(g))

\* Mutant: what was handed out before is handed out again
updateGaugePostDistributeForgets(st, id, amount) == [st EXCEPT !.gauges[id].filled = @ + 1]

updateGaugePostDistribute(st, id, amount) ==
  [st EXCEPT !.gauges[id].filled = @ + 1, !.gauges[id].distributed = @ + amount]

\* distributionInfo: by owner, the receiver of the first lock that earns and the sum
addLockRewards(info, owner, receiver, amount) ==
  [info EXCEPT ![owner] = [to |-> IF @.amount = 0 THEN receiver ELSE @.to, amount |-> @.amount + amount]]

RewardReceiver(l, receiver) == IF receiver[l] = NoReceiver THEN Locks[l].owner ELSE receiver[l]

addAllLockRewards(info, g, locked, receiver) ==
  LET add(l, x) == IF ShareOf(g, l, locked) = 0 THEN x
                   ELSE addLockRewards(x, Locks[l].owner, RewardReceiver(l, receiver),
                                       ShareOf(g, l, locked))
  IN InOrder(add, info, QualifiedLocks(g, locked))

\* d is the state of the loop over the gauges: store, pending sends, no error so far.
payPool(d, id, amount) ==
  [d EXCEPT !.st = updateGaugePostDistribute(Send(@, Module, Pool, amount), id, amount)]

\* Mutant: a gauge that cannot be paid is passed over
distributeNoLockSkips(d, id) ==
  LET g == d.st.gauges[id]
      amount == remainCoins(g) \div remainEpochs(g)
  IN IF remainCoins(g) > 0 /\ amount = 0 THEN d ELSE payPool(d, id, amount)

\* CreateIncentive refuses a coin of nothing, and is not called when nothing remains.
\* It refuses nothing else here: the gauge was created for an existing concentrated pool,
\* pools stay, the module has the coin (GaugesAreBacked), a coin of one or more emits, and
\* the default uptime is authorised (a parameter that governance is taken not to change).
distributeNoLock(d, id) ==
  LET g == d.st.gauges[id]
      amount == remainCoins(g) \div remainEpochs(g)
  IN IF remainCoins(g) > 0 /\ amount = 0 THEN [d EXCEPT !.ok = FALSE] ELSE payPool(d, id, amount)

distributeToLocks(d, id, locked, receiver) ==
  LET g == d.st.gauges[id]
      ls == QualifiedLocks(g, locked)
      total == SumFunctionOnSet([l \in ls |-> ShareOf(g, l, locked)], ls)
  IN IF ls = {} THEN d
     ELSE [d EXCEPT !.st = updateGaugePostDistribute(@, id, total),
                    !.info = addAllLockRewards(@, g, locked, receiver)]

distributeInternal(d, id, locked, receiver) ==
  IF ~d.ok THEN d
  ELSE IF remainEpochs(d.st.gauges[id]) = 0 THEN [d EXCEPT !.ok = FALSE]
  ELSE IF d.st.gauges[id].noLock THEN distributeNoLock(d, id)
  ELSE distributeToLocks(d, id, locked, receiver)

doDistributionSends(d) ==
  SendAll(d.st, Module, [o \in {p \in Owners : d.info[p].amount > 0} |-> d.info[o]])

\* checkFinishDistribution, on the gauges as they were before the distribution
Finishes(g) == ~g.perpetual /\ g.numEpochs <= g.filled + 1

\* The index gives gauges by start time, then in the order they were added.
LastGauge(gauges, ids) ==
  LET latest == Max({gauges[id].startTime : id \in ids})
  IN Max({id \in ids : gauges[id].startTime = latest})

Distribute(st, ids, locked, receiver) ==
  LET start == [st |-> st, ok |-> TRUE, info |-> [o \in Owners |-> [to |-> NoReceiver, amount |-> 0]]]
      d == MapThenFoldSet(LAMBDA id, x : distributeInternal(x, id, locked, receiver), start,
                          LAMBDA id : id, LAMBDA s : LastGauge(st.gauges, s), ids)
  IN [ok |-> d.ok,
      st |-> moveActiveGaugeToFinishedGauge(doDistributionSends(d), {id \in ids : Finishes(st.gauges[id])})]

\* hooks.go, run by ApplyFuncIfNoError: an error undoes all of it
IncentivesAfterEpochEnd(st, locked, receiver, now) ==
  LET started == moveUpcomingGaugeToActiveGauge(st, {id \in st.upcoming : st.gauges[id].startTime <= now})
      d == Distribute(started, started.active, locked, receiver)
  IN IF d.ok THEN d.st ELSE st

=============================================================================
