------------------------------- MODULE Lockup -------------------------------
(***************************************************************************)
(* The keeper of x/lockup as operators on its store: locks, the reference  *)
(* index they are found by, the accumulation store rewards are computed    *)
(* from, and the synthetic locks that x/superfluid puts on top of a lock.  *)
(*                                                                         *)
(* A lock holds one coin (MsgLockTokens.ValidateBasic), so its coins are a *)
(* denomination and an amount.  Of the eight index keys of a lock, which   *)
(* differ only in repeating its owner and denomination, one is kept by     *)
(* duration and one by end time.  The accumulation kept under the empty    *)
(* denomination for locks without a synthetic lock is read by nobody and   *)
(* left out, as are events and the reward receiver.                        *)
(***************************************************************************)
EXTENDS Integers, FiniteSetsExt, Functions

CONSTANTS
  Owners,       \* accounts that lock tokens
  Vals,         \* validators
  MaxDuration,  \* the longest lock
  MaxLocks      \* bound on the lock identifiers

Module == "lockup"
CommunityPool == "community"

ASSUME LockupAssumption ==
  /\ MaxDuration \in Nat \ {0}
  /\ MaxLocks \in Nat
  /\ {Module, CommunityPool} \cap Owners = {}

NoTime == 0     \* time.Time{}; block times are positive
Durations == 1 .. MaxDuration
Ids == 1 .. MaxLocks
Accounts == Owners \cup {Module, CommunityPool}

\* The pool share that is locked and may be superfluid staked, and what the pool
\* pays out for it
Share == <<"share", "native">>
Asset == <<"asset", "native">>
Denoms == {Share, Asset}
SynthDenoms == {"superbonding", "superunbonding"} \X Vals

stakingSyntheticDenom(val) == <<"superbonding", val>>
unstakingSyntheticDenom(val) == <<"superunbonding", val>>

PeriodLock(endTimes) ==
  [owner : Owners, denom : Denoms, amount : Nat, duration : 0 .. MaxDuration, endTime : endTimes]

SyntheticLock(endTimes) ==
  [id : Ids, denom : SynthDenoms, duration : Durations, endTime : endTimes]

EmptyStore(balances) ==
  [locks |-> <<>>, lastLockID |-> 0, refs |-> {}, synths |-> {},
   accumulation |-> [d \in Denoms \cup SynthDenoms |-> [t \in 0 .. MaxDuration |-> 0]],
   bank |-> balances]

----------------------------------------------------------------------------
(* The bank (external), with the balance checked by the callers            *)

Send(st, from, to, denom, amount) ==
  [st EXCEPT !.bank[from][denom] = @ - amount, !.bank[to][denom] = @ + amount]

----------------------------------------------------------------------------
(* store.go, lock_refs.go, utils.go                                        *)

IsUnlocking(l) == l.endTime # NoTime

Ref(unlocking, by, at, denom, id) ==
  [unlocking |-> unlocking, by |-> by, at |-> at, denom |-> denom, id |-> id]

durationLockRefKeys(unlocking, id, l) == {Ref(unlocking, "duration", l.duration, l.denom, id)}

lockRefKeys(unlocking, id, l) ==
  durationLockRefKeys(unlocking, id, l) \cup {Ref(unlocking, "time", l.endTime, l.denom, id)}

RefsOf(id, l) ==
  IF IsUnlocking(l) THEN lockRefKeys(TRUE, id, l) ELSE durationLockRefKeys(FALSE, id, l)

syntheticLockRefKeys(s) == lockRefKeys(IsUnlocking(s), s.id, s)

addLockRefs(st, id) == [st EXCEPT !.refs = @ \cup RefsOf(id, st.locks[id])]

deleteLockRefs(st, unlocking, id, l) == [st EXCEPT !.refs = @ \ lockRefKeys(unlocking, id, l)]

Put(f, x, v) == [y \in DOMAIN f \cup {x} |-> IF y = x THEN v ELSE f[y]]

setLock(st, id, l) == [st EXCEPT !.locks = Put(@, id, l)]

deleteLock(st, id) == [st EXCEPT !.locks = Restrict(@, DOMAIN @ \ {id})]

Exists(st, id) == id \in DOMAIN st.locks

\* Increase of the accumulation store; a negative amount is a decrease
Increase(st, denom, duration, amount) ==
  [st EXCEPT !.accumulation[denom][duration] = @ + amount]

GetPeriodLocksAccumulation(st, denom, duration) ==
  SumFunctionOnSet(st.accumulation[denom], duration .. MaxDuration)

\* The iterators over the index give identifiers of locks.
LocksByDuration(st, unlocking, denom, durations) ==
  {r.id : r \in {x \in st.refs : /\ x.by = "duration" /\ x.unlocking = unlocking
                                 /\ x.denom = denom /\ x.at \in durations}}

LockIteratorBeforeTime(st, now) ==
  {r.id : r \in {x \in st.refs : x.by = "time" /\ x.unlocking /\ x.at <= now /\ x.denom \in Denoms}}

GetLocksLongerThanDurationDenom(st, denom, duration) ==
  UNION {LocksByDuration(st, u, denom, duration .. MaxDuration) : u \in BOOLEAN}

OwnedBy(st, owner, ids) == {id \in ids : st.locks[id].owner = owner}

\* The locks LockTokens would add to
GetAccountLockedDurationNotUnlockingOnly(st, owner, denom, duration) ==
  OwnedBy(st, owner, LocksByDuration(st, FALSE, denom, {duration}))

SynthsOf(st, id) == {s \in st.synths : s.id = id}

HasAnySyntheticLockups(st, id) == SynthsOf(st, id) # {}

\* A lock has at most one (CreateSyntheticLockup).
GetSyntheticLockupByUnderlyingLockId(st, id) == CHOOSE s \in st.synths : s.id = id

GetSyntheticLockup(st, id, denom) == CHOOSE s \in st.synths : s.id = id /\ s.denom = denom

----------------------------------------------------------------------------
(* lock.go                                                                 *)

\* The coins must be in the module account.
lock(st, id, l, amount) == Increase(setLock(st, id, l), l.denom, l.duration, amount)

CanCreateLock(st) == st.lastLockID < MaxLocks

CreateLock(st, owner, denom, amount, duration) ==
  LET id == st.lastLockID + 1
      l == [owner |-> owner, denom |-> denom, amount |-> amount,
            duration |-> duration, endTime |-> NoTime]
      locked == lock(Send(st, owner, Module, denom, amount), id, l, amount)
  IN [addLockRefs(locked, id) EXCEPT !.lastLockID = id]

AddTokensToLockByID(st, id, amount) ==
  LET l == st.locks[id]
      locked == lock(Send(st, l.owner, Module, l.denom, amount), id,
                     [l EXCEPT !.amount = @ + amount], amount)
      s == GetSyntheticLockupByUnderlyingLockId(st, id)
  IN IF HasAnySyntheticLockups(st, id) THEN Increase(locked, s.denom, s.duration, amount) ELSE locked

\* The part that is split off is a new lock that no index refers to yet.
SplitLock(st, id, amount) ==
  LET new == st.lastLockID + 1
      rest == setLock(st, id, [st.locks[id] EXCEPT !.amount = @ - amount])
  IN [setLock(rest, new, [st.locks[id] EXCEPT !.amount = amount]) EXCEPT !.lastLockID = new]

\* Amount 0 stands for empty coins, the whole lock.
IsPart(st, id, amount) == amount \notin {0, st.locks[id].amount}

CanSplit(st, id, amount) ==
  /\ amount <= st.locks[id].amount
  /\ IsPart(st, id, amount) => CanCreateLock(st)

\* Mutant: the reference in the queue of locks that do not unlock stays
beginUnlockKeepsRef(st, id, amount, now) ==
  LET split == IF IsPart(st, id, amount) THEN SplitLock(st, id, amount) ELSE st
      new == IF IsPart(st, id, amount) THEN split.lastLockID ELSE id
      l == split.locks[new]
  IN [id |-> new,
      st |-> addLockRefs(setLock(split, new, [l EXCEPT !.endTime = now + l.duration]), new)]

\* The store and the lock that unlocks
beginUnlock(st, id, amount, now) ==
  LET split == IF IsPart(st, id, amount) THEN SplitLock(st, id, amount) ELSE st
      new == IF IsPart(st, id, amount) THEN split.lastLockID ELSE id
      l == split.locks[new]
      unref == deleteLockRefs(split, FALSE, new, l)
  IN [id |-> new,
      st |-> addLockRefs(setLock(unref, new, [l EXCEPT !.endTime = now + l.duration]), new)]

CanBeginForceUnlock(st, id, amount) ==
  CanSplit(st, id, amount) /\ ~IsUnlocking(st.locks[id])

CanBeginUnlock(st, id, amount) ==
  CanBeginForceUnlock(st, id, amount) /\ ~HasAnySyntheticLockups(st, id)

unlockMaturedLockInternalLogic(st, id) ==
  LET l == st.locks[id]
      paid == deleteLock(Send(st, Module, l.owner, l.denom, l.amount), id)
  IN Increase(deleteLockRefs(paid, TRUE, id, l), l.denom, l.duration, -l.amount)

CanUnlockMatured(st, id, now) ==
  Exists(st, id) /\ IsUnlocking(st.locks[id]) /\ st.locks[id].endTime <= now

\* Mutant: what is locked stays counted under the old duration
ExtendLockupNotMoved(st, id, duration) ==
  LET l == st.locks[id]
      unref == deleteLockRefs(st, FALSE, id, l)
  IN addLockRefs(setLock(unref, id, [l EXCEPT !.duration = duration]), id)

ExtendLockup(st, id, duration) ==
  LET l == st.locks[id]
      unref == deleteLockRefs(st, FALSE, id, l)
      moved == Increase(Increase(unref, l.denom, l.duration, -l.amount), l.denom, duration, l.amount)
  IN addLockRefs(setLock(moved, id, [l EXCEPT !.duration = duration]), id)

\* Slashed tokens go to the community pool, and out of the synthetic lock too.
SlashTokensFromLockByID(st, id, amount) ==
  LET l == st.locks[id]
      taken == Send(st, Module, CommunityPool, l.denom, amount)
      less == Increase(setLock(taken, id, [l EXCEPT !.amount = @ - amount]),
                       l.denom, l.duration, -amount)
      s == GetSyntheticLockupByUnderlyingLockId(st, id)
  IN IF HasAnySyntheticLockups(st, id) THEN Increase(less, s.denom, s.duration, -amount) ELSE less

----------------------------------------------------------------------------
(* synthetic_lock.go                                                       *)

CanCreateSyntheticLockup(st, id, duration, isUnlocking) ==
  /\ ~HasAnySyntheticLockups(st, id)
  /\ isUnlocking => duration <= st.locks[id].duration

CreateSyntheticLockup(st, id, denom, duration, isUnlocking, now) ==
  LET s == [id |-> id, denom |-> denom, duration |-> duration,
            endTime |-> IF isUnlocking THEN now + duration ELSE NoTime]
      set == [st EXCEPT !.synths = @ \cup {s}, !.refs = @ \cup syntheticLockRefKeys(s)]
  IN Increase(set, denom, duration, st.locks[id].amount)

\* The accumulation is decreased at the duration, and by the amount, of the lock.
DeleteSyntheticLockup(st, s) ==
  LET l == st.locks[s.id]
      unset == [st EXCEPT !.synths = @ \ {s}, !.refs = @ \ syntheticLockRefKeys(s)]
  IN Increase(unset, s.denom, l.duration, -l.amount)

MaturedSynths(st, now) == {s \in st.synths : IsUnlocking(s) /\ s.endTime <= now}

DeleteAllMaturedSyntheticLocks(st, now) ==
  FoldSet(LAMBDA s, x : DeleteSyntheticLockup(x, s), st, MaturedSynths(st, now))

----------------------------------------------------------------------------
(* Operations made of the ones above                                       *)

\* ForceUnlock breaks the synthetic lock first.
ForceUnlock(st, id, now) ==
  LET free == IF HasAnySyntheticLockups(st, id)
              THEN DeleteSyntheticLockup(st, GetSyntheticLockupByUnderlyingLockId(st, id))
              ELSE st
      unlocking == IF IsUnlocking(st.locks[id]) THEN free ELSE beginUnlock(free, id, 0, now).st
  IN unlockMaturedLockInternalLogic(unlocking, id)

PartialForceUnlock(st, id, amount, now) ==
  IF IsPart(st, id, amount)
  THEN ForceUnlock(SplitLock(st, id, amount), st.lastLockID + 1, now)
  ELSE ForceUnlock(st, id, now)

WithdrawAllMaturedLocks(st, now) ==
  FoldSet(LAMBDA id, x : unlockMaturedLockInternalLogic(x, id), st, LockIteratorBeforeTime(st, now))

\* Mutant: locks are withdrawn before the synthetic locks are deleted
EndBlockerLocksFirst(st, now) ==
  LET withdrawn == WithdrawAllMaturedLocks(st, now)
      panics == \E s \in MaturedSynths(withdrawn, now) : ~Exists(withdrawn, s.id)
  IN [panics |-> panics,
      st |-> IF panics THEN st ELSE DeleteAllMaturedSyntheticLocks(withdrawn, now)]

\* abci.go.  An error of any step is a panic, which stops the chain.
EndBlocker(st, now) ==
  LET orphaned == \E s \in MaturedSynths(st, now) : ~Exists(st, s.id)
      free == DeleteAllMaturedSyntheticLocks(st, now)
      panics == \/ orphaned
                \/ \E id \in LockIteratorBeforeTime(free, now) : ~CanUnlockMatured(free, id, now)
  IN [panics |-> panics, st |-> IF panics THEN st ELSE WithdrawAllMaturedLocks(free, now)]

=============================================================================
