----------------------------- MODULE Superfluid -----------------------------
(***************************************************************************)
(* x/superfluid on x/lockup: the messages of both modules, validator       *)
(* slashing, the epoch, governance over the asset, and the end of a block. *)
(*                                                                         *)
(* A transaction that fails changes nothing, so a message is an action     *)
(* whose guard is that none of its steps fails.  There is one intermediary *)
(* account for each validator, and it holds nothing before the first       *)
(* delegation; its creation, its gauge and the rewards are left out.       *)
(* Concentrated-liquidity positions and their migration are left out.      *)
(***************************************************************************)
EXTENDS Lockup

CONSTANTS
  UnbondingTime,  \* staking's unbonding time
  ForceUnlockers, \* the owners that the parameters allow to force unlock
  Unpool,         \* whether governance allows to unpool the share
  InitialShares,  \* shares every owner starts with
  Multipliers,    \* <<n, d>>: osmo a share is worth, as the pool may have it
  RiskFactor,     \* <<n, d>>: MinimumRiskFactor, the part of it that is not staked
  SlashFactor,    \* <<n, d>>: a slash takes n / d of a lock
  MaxTime         \* bound on the block time

None == "none"
ZeroDec == <<0, 1>>

ASSUME SuperfluidAssumption ==
  /\ UnbondingTime \in Durations
  /\ ForceUnlockers \subseteq Owners
  /\ None \notin Vals
  /\ InitialShares \in Nat
  /\ \A m \in Multipliers \cup {RiskFactor} : m[1] \in Nat /\ m[2] \in Nat \ {0}
  /\ SlashFactor[1] \in Nat /\ SlashFactor[2] \in Nat /\ SlashFactor[1] < SlashFactor[2]

VARIABLES
  store,       \* x/lockup and the bank
  now,         \* block time
  connection,  \* the validator a lock is superfluid delegated to, by lock
  delegation,  \* osmo delegated by the intermediary account of a validator
  multiplier,  \* OsmoEquivalentMultiplier of the share
  registered,  \* whether the share is a superfluid asset
  settled,     \* history: the asset has not been set or removed since the last refresh
  unbondedAt,  \* history: when the stake of a lock was last undelegated
  halted       \* a panic in BeginBlock or EndBlock

vars == <<store, now, connection, delegation, multiplier, registered, settled, unbondedAt, halted>>

EndTimes == 0 .. (MaxTime + MaxDuration)

TypeOK ==
  /\ DOMAIN store.locks \subseteq Ids
  /\ \A id \in DOMAIN store.locks : store.locks[id] \in PeriodLock(EndTimes) /\ store.locks[id].amount > 0
  /\ store.synths \subseteq SyntheticLock(EndTimes)
  /\ store.lastLockID \in Ids \cup {0}
  /\ \A a \in Accounts, d \in Denoms : store.bank[a][d] \in Nat
  /\ now \in 1 .. MaxTime
  /\ connection \in [Ids -> Vals \cup {None}]
  /\ delegation \in [Vals -> Nat]
  /\ multiplier \in Multipliers \cup {ZeroDec}
  /\ unbondedAt \in [Ids -> 0 .. MaxTime]
  /\ registered \in BOOLEAN /\ settled \in BOOLEAN /\ halted \in BOOLEAN

----------------------------------------------------------------------------
(* twap_price.go, stake.go                                                 *)

\* RoundInt of n * amount / d: to the nearest, a half to the even
RoundInt(x, amount) ==
  LET n == x[1] * amount
      q == n \div x[2]
      rest == 2 * (n % x[2])
  IN IF rest > x[2] \/ (rest = x[2] /\ q % 2 = 1) THEN q + 1 ELSE q

GetRiskAdjustedOsmoValue(amount) == amount - RoundInt(RiskFactor, amount)

OSMOTokens(m, amount) == GetRiskAdjustedOsmoValue(RoundInt(m, amount))

GetSuperfluidOSMOTokens(amount) == OSMOTokens(multiplier, amount)

GetTotalSyntheticAssetsLocked(st, denom) == GetPeriodLocksAccumulation(st, denom, UnbondingTime)

GetExpectedDelegationAmount(st, val, m) ==
  OSMOTokens(m, GetTotalSyntheticAssetsLocked(st, stakingSyntheticDenom(val)))

\* Without a delegation there is nothing to undelegate, and that is no error.
forceUndelegateAndBurnOsmoTokens(del, val, osmo) ==
  IF del[val] = 0 THEN del ELSE [del EXCEPT ![val] = @ - osmo]

CanBurn(del, val, osmo) == del[val] = 0 \/ osmo <= del[val]

mintOsmoTokensAndDelegate(del, val, osmo) == [del EXCEPT ![val] = @ + osmo]

createSyntheticLockup(st, id, val, status) ==
  IF status = "unlocking"
  THEN CreateSyntheticLockup(st, id, unstakingSyntheticDenom(val), UnbondingTime, TRUE, now)
  ELSE CreateSyntheticLockup(st, id, stakingSyntheticDenom(val), UnbondingTime, FALSE, now)

BondOf(st, id, val) == {s \in SynthsOf(st, id) : s.denom = stakingSyntheticDenom(val)}
UnbondOf(st, id, val) == {s \in SynthsOf(st, id) : s.denom = unstakingSyntheticDenom(val)}

alreadySuperfluidStaking(st, conn, id) == conn[id] # None \/ HasAnySyntheticLockups(st, id)

\* validateLockForSFDelegate, and an amount that is worth something
CanDelegate(st, conn, id) ==
  /\ registered
  /\ st.locks[id].denom = Share
  /\ ~IsUnlocking(st.locks[id])
  /\ st.locks[id].duration >= UnbondingTime
  /\ ~alreadySuperfluidStaking(st, conn, id)
  /\ GetSuperfluidOSMOTokens(st.locks[id].amount) # 0

Delegated(st, id, val) == createSyntheticLockup(st, id, val, "bonded")

\* undelegateCommon: the lock has a connection and its synthetic lock exists
CanUndelegate(st, conn, del, id) ==
  /\ conn[id] # None
  /\ BondOf(st, id, conn[id]) # {}
  /\ CanBurn(del, conn[id], GetSuperfluidOSMOTokens(st.locks[id].amount))

undelegateCommon(st, id, val) ==
  DeleteSyntheticLockup(st, GetSyntheticLockup(st, id, stakingSyntheticDenom(val)))

Burned(st, del, id, val) ==
  forceUndelegateAndBurnOsmoTokens(del, val, GetSuperfluidOSMOTokens(st.locks[id].amount))

----------------------------------------------------------------------------

Init ==
  /\ store = EmptyStore([a \in Accounts |-> [d \in Denoms |->
                           IF a \in Owners /\ d = Share THEN InitialShares ELSE 0]])
  /\ now = 1
  /\ connection = [id \in Ids |-> None]
  /\ delegation = [v \in Vals |-> 0]
  /\ multiplier \in Multipliers
  /\ registered = TRUE
  /\ settled = TRUE
  /\ unbondedAt = [id \in Ids |-> 0]
  /\ halted = FALSE

\* What LockTokens does to the store, and the lock it ends in
Existing(owner, duration) == GetAccountLockedDurationNotUnlockingOnly(store, owner, Share, duration)

CanLock(owner, amount, duration) ==
  /\ amount <= store.bank[owner][Share]
  /\ Existing(owner, duration) # {} \/ CanCreateLock(store)

Locked(owner, amount, duration) ==
  IF Existing(owner, duration) = {}
  THEN [st |-> CreateLock(store, owner, Share, amount, duration), id |-> store.lastLockID + 1]
  ELSE LET id == Min(Existing(owner, duration))
       IN [st |-> AddTokensToLockByID(store, id, amount), id |-> id]

\* Mutant: no hook
AfterAddTokensToLockIgnored(id, amount) == delegation

\* The hook of x/superfluid: IncreaseSuperfluidDelegation
AfterAddTokensToLock(id, amount) ==
  IF connection[id] = None THEN delegation
  ELSE mintOsmoTokensAndDelegate(delegation, connection[id], GetSuperfluidOSMOTokens(amount))

LockTokens(owner, amount, duration) ==
  /\ CanLock(owner, amount, duration)
  /\ LET new == Locked(owner, amount, duration)
     IN /\ store' = new.st
        /\ delegation' = AfterAddTokensToLock(new.id, amount)
  /\ UNCHANGED <<now, connection, multiplier, registered, settled, unbondedAt, halted>>

\* A lock that is split off inherits the history of its origin.
Inherit(new, id) == unbondedAt' = [unbondedAt EXCEPT ![new] = unbondedAt[id]]

BeginUnlocking(id, amount) ==
  /\ CanBeginUnlock(store, id, amount)
  /\ LET new == beginUnlock(store, id, amount, now)
     IN store' = new.st /\ Inherit(new.id, id)
  /\ UNCHANGED <<now, connection, delegation, multiplier, registered, settled, halted>>

BeginUnlockingAll(owner) ==
  LET ids == OwnedBy(store, owner,
                     UNION {LocksByDuration(store, FALSE, d, 0 .. MaxDuration) : d \in Denoms})
  IN /\ ids # {}
     /\ \A id \in ids : CanBeginUnlock(store, id, 0)
     /\ store' = FoldSet(LAMBDA id, x : beginUnlock(x, id, 0, now).st, store, ids)
     /\ UNCHANGED <<now, connection, delegation, multiplier, registered, settled, unbondedAt, halted>>

MsgExtendLockup(id, duration) ==
  /\ ~IsUnlocking(store.locks[id])
  /\ ~HasAnySyntheticLockups(store, id)
  /\ duration > store.locks[id].duration
  /\ store' = ExtendLockup(store, id, duration)
  /\ UNCHANGED <<now, connection, delegation, multiplier, registered, settled, unbondedAt, halted>>

\* Mutant: a lock with a synthetic lock is force unlocked too
MsgForceUnlockAny(id, amount) ==
  /\ store.locks[id].owner \in ForceUnlockers
  /\ CanSplit(store, id, amount)
  /\ store' = PartialForceUnlock(store, id, amount, now)
  /\ UNCHANGED <<now, connection, delegation, multiplier, registered, settled, unbondedAt, halted>>

\* The split lock leaves in the same step.
MsgForceUnlock(id, amount) ==
  /\ store.locks[id].owner \in ForceUnlockers
  /\ ~HasAnySyntheticLockups(store, id)
  /\ CanSplit(store, id, amount)
  /\ store' = PartialForceUnlock(store, id, amount, now)
  /\ UNCHANGED <<now, connection, delegation, multiplier, registered, settled, unbondedAt, halted>>

SuperfluidDelegate(id, val) ==
  /\ CanDelegate(store, connection, id)
  /\ connection' = [connection EXCEPT ![id] = val]
  /\ store' = Delegated(store, id, val)
  /\ delegation' = mintOsmoTokensAndDelegate(delegation, val, GetSuperfluidOSMOTokens(store.locks[id].amount))
  /\ UNCHANGED <<now, multiplier, registered, settled, unbondedAt, halted>>

LockAndSuperfluidDelegate(owner, amount, val) ==
  /\ CanLock(owner, amount, UnbondingTime)
  /\ LET new == Locked(owner, amount, UnbondingTime)
     IN /\ CanDelegate(new.st, connection, new.id)
        /\ connection' = [connection EXCEPT ![new.id] = val]
        /\ store' = Delegated(new.st, new.id, val)
        /\ delegation' = mintOsmoTokensAndDelegate(AfterAddTokensToLock(new.id, amount), val,
                           GetSuperfluidOSMOTokens(new.st.locks[new.id].amount))
  /\ UNCHANGED <<now, multiplier, registered, settled, unbondedAt, halted>>

SuperfluidUndelegate(id) ==
  LET val == connection[id]
  IN /\ CanUndelegate(store, connection, delegation, id)
     /\ LET free == undelegateCommon(store, id, val)
        IN /\ CanCreateSyntheticLockup(free, id, UnbondingTime, TRUE)
           /\ store' = createSyntheticLockup(free, id, val, "unlocking")
     /\ connection' = [connection EXCEPT ![id] = None]
     /\ delegation' = Burned(store, delegation, id, val)
     /\ unbondedAt' = [unbondedAt EXCEPT ![id] = now]
     /\ UNCHANGED <<now, multiplier, registered, settled, halted>>

\* Mutant: a lock whose stake is delegated may start to unlock
SuperfluidUnbondLockBonded(id) ==
  /\ HasAnySyntheticLockups(store, id)
  /\ CanBeginForceUnlock(store, id, 0)
  /\ store' = beginUnlock(store, id, 0, now).st
  /\ UNCHANGED <<now, connection, delegation, multiplier, registered, settled, unbondedAt, halted>>

\* unbondLock: only a lock whose stake is undelegated may start to unlock
SuperfluidUnbondLock(id) ==
  /\ \E s \in SynthsOf(store, id) : IsUnlocking(s)
  /\ CanBeginForceUnlock(store, id, 0)
  /\ store' = beginUnlock(store, id, 0, now).st
  /\ UNCHANGED <<now, connection, delegation, multiplier, registered, settled, unbondedAt, halted>>

\* Mutant: the part that unbonds gets no synthetic lock of its own
UndelegateAndUnbondPartUnsynthed(unbonding, new, id, val) ==
  LET free == DeleteSyntheticLockup(unbonding,
                GetSyntheticLockup(unbonding, id, unstakingSyntheticDenom(val)))
  IN Delegated(free, id, val)

\* The rest is delegated again, and the part that unbonds gets a synthetic lock.
UndelegateAndUnbondPart(unbonding, new, id, val) ==
  LET free == DeleteSyntheticLockup(unbonding,
                GetSyntheticLockup(unbonding, id, unstakingSyntheticDenom(val)))
  IN createSyntheticLockup(Delegated(free, id, val), new, val, "unlocking")

SuperfluidUndelegateAndUnbondLock(id, amount) ==
  LET val == connection[id]
      full == amount = store.locks[id].amount
  IN /\ amount > 0
     /\ CanUndelegate(store, connection, delegation, id)
     /\ UnbondingTime <= store.locks[id].duration
     /\ LET undelegated == createSyntheticLockup(undelegateCommon(store, id, val), id, val, "unlocking")
            burned == Burned(store, delegation, id, val)
        IN /\ CanBeginForceUnlock(undelegated, id, amount)
           /\ LET new == beginUnlock(undelegated, id, amount, now)
                  rest == new.st.locks[id].amount
              IN /\ unbondedAt' = [unbondedAt EXCEPT ![id] = now, ![new.id] = now]
                 /\ \/ /\ full
                       /\ store' = new.st
                       /\ delegation' = burned
                       /\ connection' = [connection EXCEPT ![id] = None]
                    \/ /\ ~full
                       /\ registered /\ GetSuperfluidOSMOTokens(rest) # 0
                       /\ store' = UndelegateAndUnbondPart(new.st, new.id, id, val)
                       /\ delegation' = mintOsmoTokensAndDelegate(burned, val, GetSuperfluidOSMOTokens(rest))
                       /\ UNCHANGED connection
     /\ UNCHANGED <<now, multiplier, registered, settled, halted>>

----------------------------------------------------------------------------
(* unpool.go: every lock of the owner becomes an unlocking lock of what    *)
(* the pool pays out                                                       *)

getExistingLockRemainingDuration(l) == IF IsUnlocking(l) THEN l.endTime - now ELSE l.duration

\* ExitPool of x/gamm: the shares are burnt and the pool pays.  It pays a coin of
\* one asset for a share; one of several assets makes a lock for each of them.
ExitPool(st, owner, amount) ==
  [st EXCEPT !.bank[owner][Share] = @ - amount, !.bank[owner][Asset] = @ + amount]

\* UnpoolAllowedPools for one lock; u is the state of the loop over the locks.
UnpoolLock(u, id, owner) ==
  LET l == store.locks[id]
      val == connection[id]
      staked == val # None
      undelegated == IF staked
                     THEN createSyntheticLockup(undelegateCommon(u.st, id, val), id, val, "unlocking")
                     ELSE u.st
      exited == ExitPool(ForceUnlock(undelegated, id, now), owner, l.amount)
      new == CreateLock(exited, owner, Asset, l.amount, getExistingLockRemainingDuration(l))
  IN [st |-> beginUnlock(new, new.lastLockID, 0, now).st,
      del |-> IF staked THEN Burned(store, u.del, id, val) ELSE u.del,
      ok |-> u.ok /\ (staked => CanUndelegate(store, connection, u.del, id)),
      at |-> [u.at EXCEPT ![new.lastLockID] = IF staked THEN now ELSE unbondedAt[id]]]

\* The order of the iteration: the locks that do not unlock come first, each kind by
\* duration.
UnpoolOrder(a, b) ==
  LET x == store.locks[a]
      y == store.locks[b]
  IN \/ ~IsUnlocking(x) /\ IsUnlocking(y)
     \/ /\ IsUnlocking(x) <=> IsUnlocking(y)
        /\ x.duration < y.duration \/ (x.duration = y.duration /\ a < b)

UnpoolLast(ids) == CHOOSE id \in ids : \A other \in ids \ {id} : UnpoolOrder(other, id)

UnPoolWhitelistedPool(owner) ==
  LET ids == OwnedBy(store, owner, GetLocksLongerThanDurationDenom(store, Share, 1))
  IN /\ Unpool
     /\ ids # {}
     /\ store.lastLockID + Cardinality(ids) <= MaxLocks
     /\ LET u == MapThenFoldSet(LAMBDA id, x : UnpoolLock(x, id, owner),
                                [st |-> store, del |-> delegation, ok |-> TRUE, at |-> unbondedAt],
                                LAMBDA id : id, UnpoolLast, ids)
        IN /\ u.ok
           /\ store' = u.st
           /\ delegation' = u.del
           /\ unbondedAt' = u.at
     /\ connection' = [id \in Ids |-> IF id \in ids THEN None ELSE connection[id]]
     /\ UNCHANGED <<now, multiplier, registered, settled, halted>>

----------------------------------------------------------------------------
(* epoch.go, slash.go, hooks.go, gov.go, abci.go                           *)

\* Mutant: an amount that is too high is not reduced
RefreshOnlyMints(st, m) ==
  /\ delegation' = [val \in Vals |-> LET expected == GetExpectedDelegationAmount(st, val, m)
                                   IN IF delegation[val] > expected THEN delegation[val] ELSE expected]
  /\ settled' = TRUE

RefreshIntermediaryDelegationAmounts(st, m) ==
  /\ delegation' = [val \in Vals |-> GetExpectedDelegationAmount(st, val, m)]
  /\ settled' = TRUE

BeginUnwindSuperfluidAsset == registered' = FALSE /\ multiplier' = ZeroDec

\* Without its asset a multiplier is an error that leaves no amount to compare
\* with, and the comparison panics.
RefreshPanics == multiplier # ZeroDec /\ ~registered

\* AfterEpochStartBeginBlock: the multiplier follows the pool, then the refresh.
\* Before them the code moves the rewards of the delegations to gauges and distributes
\* those, which touches nothing of this module unless the distribution fails: then the
\* block panics (epoch.go:105).  Module EpochHooks has that distribution.
EpochStart(m) ==
  /\ IF RefreshPanics
     THEN halted' = TRUE /\ UNCHANGED <<multiplier, delegation, settled>>
     ELSE /\ multiplier' = IF registered THEN m ELSE multiplier
          /\ RefreshIntermediaryDelegationAmounts(store, multiplier')
          /\ UNCHANGED halted
  /\ UNCHANGED <<store, now, connection, registered, unbondedAt>>

\* The pool is gone or holds no osmo: the asset unwinds, and there is no refresh.
EpochStartPoolFails ==
  /\ registered
  /\ BeginUnwindSuperfluidAsset
  /\ settled' = FALSE
  /\ UNCHANGED <<store, now, connection, delegation, unbondedAt, halted>>

HandleSetSuperfluidAssetsProposal(m) ==
  /\ registered' = TRUE
  /\ multiplier' = m
  /\ settled' = FALSE
  /\ UNCHANGED <<store, now, connection, delegation, unbondedAt, halted>>

HandleRemoveSuperfluidAssetsProposal ==
  /\ registered
  /\ BeginUnwindSuperfluidAsset
  /\ settled' = FALSE
  /\ UNCHANGED <<store, now, connection, delegation, unbondedAt, halted>>

\* A slash that rounds to nothing panics on its empty coins and is dropped.
slashSynthLock(st, id) ==
  LET amount == (st.locks[id].amount * SlashFactor[1]) \div SlashFactor[2]
  IN IF amount = 0 THEN st ELSE SlashTokensFromLockByID(st, id, amount)

SlashedLocks(st, val) ==
  {id \in GetLocksLongerThanDurationDenom(st, Share, 1) :
     BondOf(st, id, val) \cup UnbondOf(st, id, val) # {}}

SlashLockupsForValidatorSlash(st, val) ==
  FoldSet(LAMBDA id, x : slashSynthLock(x, id), st, SlashedLocks(st, val))

\* BeforeValidatorSlashed, the slash of staking, AfterValidatorSlashed
SlashValidator(val) ==
  /\ ~RefreshPanics
  /\ store' = SlashLockupsForValidatorSlash(store, val)
  /\ RefreshIntermediaryDelegationAmounts(store', multiplier)
  /\ UNCHANGED <<now, connection, multiplier, registered, unbondedAt, halted>>

EndBlock ==
  LET end == EndBlocker(store, now)
  IN /\ now < MaxTime
     /\ store' = end.st
     /\ halted' = end.panics
     /\ now' = now + 1
     /\ UNCHANGED <<connection, delegation, multiplier, registered, settled, unbondedAt>>

Next ==
  /\ ~halted
  /\ \/ \E o \in Owners, a \in 1 .. InitialShares, d \in Durations : LockTokens(o, a, d)
     \/ \E o \in Owners : BeginUnlockingAll(o) \/ UnPoolWhitelistedPool(o)
     \/ \E o \in Owners, a \in 1 .. InitialShares, v \in Vals : LockAndSuperfluidDelegate(o, a, v)
     \/ \E id \in DOMAIN store.locks :
          \/ \E a \in 0 .. InitialShares :
               \/ BeginUnlocking(id, a)
               \/ MsgForceUnlock(id, a)
               \/ SuperfluidUndelegateAndUnbondLock(id, a)
          \/ \E d \in Durations : MsgExtendLockup(id, d)
          \/ \E v \in Vals : SuperfluidDelegate(id, v)
          \/ SuperfluidUndelegate(id)
          \/ SuperfluidUnbondLock(id)
     \/ \E m \in Multipliers : EpochStart(m) \/ HandleSetSuperfluidAssetsProposal(m)
     \/ EpochStartPoolFails
     \/ HandleRemoveSuperfluidAssetsProposal
     \/ \E v \in Vals : SlashValidator(v)
     \/ EndBlock

Spec == Init /\ [][Next]_vars

----------------------------------------------------------------------------
(* Properties                                                              *)

AmountOf(ids) == SumFunctionOnSet([id \in ids |-> store.locks[id].amount], ids)

\* The registered invariants of x/lockup (invariants.go), for every duration: the
\* module account holds exactly what is locked, and the accumulation store, which
\* rewards are computed from, sums the locks that the index finds.
LockedIsBackedAndCounted ==
  \A denom \in Denoms :
    /\ store.bank[Module][denom] =
         AmountOf({id \in DOMAIN store.locks : store.locks[id].denom = denom})
    /\ \A d \in 0 .. MaxDuration :
         GetPeriodLocksAccumulation(store, denom, d) =
           AmountOf(GetLocksLongerThanDurationDenom(store, denom, d))

\* The reference index lists every lock and every synthetic lock exactly where it
\* is to be found, and nothing else: a stale reference would panic the EndBlocker
\* or unlock a lock twice.
IndexIsExact ==
  store.refs = (UNION {RefsOf(id, store.locks[id]) : id \in DOMAIN store.locks})
               \cup (UNION {syntheticLockRefKeys(s) : s \in store.synths})

\* A lock is connected to an intermediary account exactly while it carries a bonded
\* synthetic lock of that validator, and such a lock does not unlock.
ConnectedIffBonded ==
  \A id \in Ids, v \in Vals :
    (connection[id] = v) <=> (Exists(store, id) /\ BondOf(store, id, v) # {}
                              /\ ~IsUnlocking(store.locks[id]))

\* What the intermediary accounts have delegated is what the accumulation store
\* expects, and that is what the locks delegated through them are worth.
DelegatesWorth ==
  \A v \in Vals :
    /\ delegation[v] = GetExpectedDelegationAmount(store, v, multiplier)
    /\ delegation[v] = GetSuperfluidOSMOTokens(AmountOf({id \in Ids : connection[id] = v}))

\* Any number of shares is worth a whole amount, so that nothing is rounded.
IsWhole(m) == RiskFactor[1] <= RiskFactor[2] /\ m[2] = 1 /\ m[1] % RiskFactor[2] = 0

\* The invariant of the superfluid README ("total minted/delegated" is the worth of
\* the locks): it holds after every message, as long as the multiplier needs no
\* rounding and governance has not changed the asset since the refresh.
DelegationMatchesLocks == settled /\ IsWhole(multiplier) => DelegatesWorth

\* With any multiplier, what messages left too much or too little by rounding, and
\* what governance, a change of the multiplier or a slash moved, is made good by
\* every start of an epoch and every slash.
RefreshSettles ==
  [][(\E m \in Multipliers : EpochStart(m)) \/ (\E v \in Vals : SlashValidator(v))
       => DelegatesWorth']_vars

\* The refresh in BeginBlock and the EndBlock never panic: no synthetic lock outlives
\* its lock, no reference outlives what it refers to, no multiplier outlives its asset.
NeverHalts == ~halted

\* Stake that was undelegated stays locked for the unbonding time, through splits,
\* a slash or an exit from the pool: when a lock is paid out at the end of a block,
\* or a share is force unlocked, its stake was undelegated at least that long ago.
\* (A step that creates locks is an exit from the pool, not a payment.)
UnbondingIsServed ==
  [][\A id \in Ids :
       /\ Exists(store, id) /\ ~Exists(store, id)'
       /\ store'.lastLockID = store.lastLockID
       /\ now' # now \/ store.locks[id].denom = Share
       => unbondedAt[id] = 0 \/ now >= unbondedAt[id] + UnbondingTime]_vars

\* Stake that was undelegated can be slashed for the unbonding time: a share that is
\* still unbonding carries the synthetic lock that SlashLockupsForValidatorSlash
\* finds it by, whichever way it was undelegated and split.
UnbondingIsSlashable ==
  \A id \in DOMAIN store.locks :
    store.locks[id].denom = Share /\ unbondedAt[id] > 0 /\ now < unbondedAt[id] + UnbondingTime
    => HasAnySyntheticLockups(store, id)

=============================================================================
