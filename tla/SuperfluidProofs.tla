-------------------------- MODULE SuperfluidProofs --------------------------
(***************************************************************************)
(* x/lockup and x/superfluid keep tokens, index, accumulation, synthetic   *)
(* locks and connections consistent, make undelegated stake serve its time *)
(* and never panic, for any owners, validators, durations and amounts; and *)
(* delegate what the locks are worth: after every refresh, and after every *)
(* message too if no worth is rounded.                                     *)
(***************************************************************************)
EXTENDS Superfluid, Sums

----------------------------------------------------------------------------
(* The inductive invariant                                                 *)

Lock == [owner : Owners, denom : Denoms, amount : Nat \ {0}, duration : 0 .. MaxDuration, endTime : Nat]
Synth == [id : Ids, denom : SynthDenoms, duration : Durations, endTime : Nat]
RefType == [unlocking : BOOLEAN, by : {"duration", "time"}, at : Nat,
            denom : Denoms \cup SynthDenoms, id : Ids]
PartialLocks == UNION {[D -> Lock] : D \in SUBSET Ids}
Accumulations == [Denoms \cup SynthDenoms -> [0 .. MaxDuration -> Int]]
Balances == [Accounts -> [Denoms -> Int]]

Stores ==
  [locks : PartialLocks, lastLockID : 0 .. MaxLocks, refs : SUBSET RefType,
   synths : SUBSET Synth, accumulation : Accumulations, bank : Balances]

\* What a lock counts for under a denomination, from a duration on
Weight(l, d, e) == IF l.denom = d /\ l.duration >= e THEN l.amount ELSE 0
WeightOf(locks, id, d, e) == IF id \in DOMAIN locks THEN Weight(locks[id], d, e) ELSE 0
Weights(locks, d, e) == [id \in Ids |-> WeightOf(locks, id, d, e)]
Total(locks, d, e) == SumFunctionOnSet(Weights(locks, d, e), Ids)

Numbered(st) == DOMAIN st.locks \subseteq 1 .. st.lastLockID

Backed(st) == \A d \in Denoms : st.bank[Module][d] = Total(st.locks, d, 0)

Counted(st) ==
  \A d \in Denoms, e \in 0 .. MaxDuration :
    GetPeriodLocksAccumulation(st, d, e) = Total(st.locks, d, e)

\* What is delegated to a validator, and that its synthetic denomination counts it
Bonded(st, id, v) == \E s \in st.synths : s.id = id /\ s.denom = stakingSyntheticDenom(v)
BondWeight(st, id, v) == IF id \in DOMAIN st.locks /\ Bonded(st, id, v) THEN st.locks[id].amount ELSE 0
BondWeights(st, v) == [id \in Ids |-> BondWeight(st, id, v)]
BondTotal(st, v) == SumFunctionOnSet(BondWeights(st, v), Ids)

BondCounted(st) ==
  \A v \in Vals : GetTotalSyntheticAssetsLocked(st, stakingSyntheticDenom(v)) = BondTotal(st, v)

\* The locks D have no references yet.
Indexed(st, D) ==
  \A r \in RefType : r.denom \in Denoms =>
    (r \in st.refs <=> r.id \in DOMAIN st.locks \ D /\ r \in RefsOf(r.id, st.locks[r.id]))

SynthsIndexed(st) ==
  \A r \in RefType : r.denom \in SynthDenoms =>
    (r \in st.refs <=> \E s \in st.synths : r \in syntheticLockRefKeys(s))

\* A synthetic lock has a lock of shares that is locked for longer, and if the lock
\* unlocks, it does so after the stake is unbonded.
SynthOK(s, l) ==
  /\ l.denom = Share
  /\ s.duration = UnbondingTime
  /\ UnbondingTime <= l.duration
  /\ IF IsUnlocking(s) THEN \E v \in Vals : s.denom = unstakingSyntheticDenom(v)
     ELSE ~IsUnlocking(l) /\ \E v \in Vals : s.denom = stakingSyntheticDenom(v)
  /\ IsUnlocking(l) => s.endTime <= l.endTime

SynthsOK(st) ==
  /\ \A s \in st.synths : s.id \in DOMAIN st.locks /\ SynthOK(s, st.locks[s.id])
  /\ \A s, t \in st.synths : s.id = t.id => s = t

TimesOK(st, t) ==
  /\ \A id \in DOMAIN st.locks :
       IsUnlocking(st.locks[id]) => st.locks[id].endTime \in t .. (t + MaxDuration)
  /\ \A s \in st.synths : s.endTime <= t + UnbondingTime

StoreOK(st, D, t) ==
  /\ st \in Stores
  /\ Numbered(st)
  /\ Backed(st)
  /\ Counted(st)
  /\ BondCounted(st)
  /\ Indexed(st, D)
  /\ SynthsIndexed(st)
  /\ SynthsOK(st)
  /\ TimesOK(st, t)

ConnectionsOK(st, conn) ==
  \A id \in Ids, v \in Vals :
    (conn[id] = v) <=> \E s \in st.synths : s.id = id /\ s.denom = stakingSyntheticDenom(v)

\* Stake of a lock that was undelegated at a is unbonded, or the lock is held until it is.
Served(l, s, a, t) ==
  \/ a = 0
  \/ t >= a + UnbondingTime
  \/ l.denom = Asset /\ IsUnlocking(l) /\ l.endTime >= a + UnbondingTime
  \/ \E x \in s : ~IsUnlocking(x) \/ x.endTime >= a + UnbondingTime

UnbondingOK(st, at, t) ==
  /\ \A id \in Ids : at[id] \in 0 .. t
  /\ \A id \in Ids : id > st.lastLockID => at[id] = 0
  /\ \A id \in DOMAIN st.locks : Served(st.locks[id], SynthsOf(st, id), at[id], t)

IInv ==
  /\ now \in Nat \ {0}
  /\ StoreOK(store, {}, now)
  /\ connection \in [Ids -> Vals \cup {None}]
  /\ unbondedAt \in [Ids -> Nat]
  /\ ConnectionsOK(store, connection)
  /\ UnbondingOK(store, unbondedAt, now)
  /\ multiplier # ZeroDec => registered
  /\ registered \in BOOLEAN
  /\ halted = FALSE

----------------------------------------------------------------------------
(* The store and what the helpers of x/lockup change of it                 *)

LEMMA DenomFacts ==
  /\ Share # Asset
  /\ \A d \in Denoms : d \notin SynthDenoms
  /\ \A u, v \in Vals : stakingSyntheticDenom(u) # unstakingSyntheticDenom(v)
  /\ \A u, v \in Vals : stakingSyntheticDenom(u) = stakingSyntheticDenom(v) => u = v
  /\ \A u, v \in Vals : unstakingSyntheticDenom(u) = unstakingSyntheticDenom(v) => u = v
  /\ \A v \in Vals : stakingSyntheticDenom(v) \in SynthDenoms /\ unstakingSyntheticDenom(v) \in SynthDenoms
BY DEF Share, Asset, Denoms, SynthDenoms, stakingSyntheticDenom, unstakingSyntheticDenom

LEMMA AccountFacts ==
  /\ Module \in Accounts /\ CommunityPool \in Accounts /\ Module # CommunityPool
  /\ \A o \in Owners : o \in Accounts /\ o # Module /\ o # CommunityPool
BY LockupAssumption DEF Accounts, Module, CommunityPool

LEMMA UnbondingTimeFacts ==
  /\ UnbondingTime \in 0 .. MaxDuration /\ UnbondingTime \in Nat \ {0}
  /\ MaxDuration \in Nat /\ MaxLocks \in Nat
BY LockupAssumption, SuperfluidAssumption DEF Durations

LEMMA LocksAre ==
  ASSUME NEW f \in PartialLocks
  PROVE  f \in [DOMAIN f -> Lock] /\ DOMAIN f \subseteq Ids
BY DEF PartialLocks

LEMMA LocksIntro ==
  ASSUME NEW D \in SUBSET Ids, NEW f \in [D -> Lock]
  PROVE  f \in PartialLocks
BY DEF PartialLocks

LEMMA PutFacts ==
  ASSUME NEW f \in PartialLocks, NEW x \in Ids, NEW l \in Lock
  PROVE  /\ Put(f, x, l) \in PartialLocks
         /\ DOMAIN Put(f, x, l) = DOMAIN f \cup {x}
         /\ Put(f, x, l)[x] = l
         /\ \A y \in DOMAIN f : y # x => Put(f, x, l)[y] = f[y]
<1>1. f \in [DOMAIN f -> Lock] /\ DOMAIN f \subseteq Ids
  BY LocksAre
<1>2. Put(f, x, l) \in [DOMAIN f \cup {x} -> Lock] /\ DOMAIN f \cup {x} \in SUBSET Ids
  BY <1>1 DEF Put
<1>3. Put(f, x, l) \in PartialLocks
  BY <1>2, LocksIntro
<1> QED
  BY <1>1, <1>3 DEF Put

LEMMA PutAt ==
  ASSUME NEW f, NEW x, NEW l
  PROVE  x \in DOMAIN Put(f, x, l) /\ Put(f, x, l)[x] = l
BY DEF Put


Without(f, x) == Restrict(f, DOMAIN f \ {x})

LEMMA WithoutFacts ==
  ASSUME NEW f \in PartialLocks, NEW x
  PROVE  /\ Without(f, x) \in PartialLocks
         /\ DOMAIN Without(f, x) = DOMAIN f \ {x}
         /\ \A y \in DOMAIN f \ {x} : Without(f, x)[y] = f[y]
<1>1. f \in [DOMAIN f -> Lock] /\ DOMAIN f \subseteq Ids
  BY LocksAre
<1>2. Without(f, x) \in [DOMAIN f \ {x} -> Lock] /\ DOMAIN f \ {x} \in SUBSET Ids
  BY <1>1 DEF Without, Restrict
<1>3. Without(f, x) \in PartialLocks
  BY <1>2, LocksIntro
<1> QED
  BY <1>3 DEF Without, Restrict

LEMMA StoreFields ==
  ASSUME NEW st \in Stores
  PROVE  /\ st.locks \in PartialLocks /\ st.lastLockID \in 0 .. MaxLocks
         /\ st.refs \subseteq RefType /\ st.synths \subseteq Synth
         /\ st.accumulation \in Accumulations /\ st.bank \in Balances
BY DEF Stores

LEMMA StoreLock ==
  ASSUME NEW st \in Stores, NEW id \in DOMAIN st.locks
  PROVE  /\ st.locks[id] \in Lock /\ id \in Ids
         /\ st.locks[id].owner \in Owners /\ st.locks[id].denom \in Denoms
         /\ st.locks[id].amount \in Nat \ {0} /\ st.locks[id].duration \in 0 .. MaxDuration
         /\ st.locks[id].endTime \in Nat
BY StoreFields, LocksAre DEF Lock

\* The fields that a helper leaves alone
SameBank(r, st) == r.bank = st.bank
SameCount(r, st) == r.accumulation = st.accumulation
SameIndex(r, st) == r.refs = st.refs
SameLocks(r, st) == r.locks = st.locks /\ r.lastLockID = st.lastLockID
SameSynths(r, st) == r.synths = st.synths

LEMMA SendFacts ==
  ASSUME NEW st \in Stores, NEW from \in Accounts, NEW to \in Accounts, from # to,
         NEW d \in Denoms, NEW a \in Int
  PROVE  LET r == Send(st, from, to, d, a)
         IN  /\ r \in Stores
             /\ SameCount(r, st) /\ SameIndex(r, st) /\ SameLocks(r, st) /\ SameSynths(r, st)
             /\ \A x \in Denoms : r.bank[Module][x] =
                  IF x # d THEN st.bank[Module][x]
                  ELSE IF from = Module THEN st.bank[Module][x] - a
                  ELSE IF to = Module THEN st.bank[Module][x] + a
                  ELSE st.bank[Module][x]
<1> DEFINE r == Send(st, from, to, d, a)
<1>1. st.bank \in [Accounts -> [Denoms -> Int]]
  BY StoreFields DEF Balances
<1>2. /\ r.bank = [st.bank EXCEPT ![from] = [st.bank[from] EXCEPT ![d] = st.bank[from][d] - a],
                                  ![to] = [st.bank[to] EXCEPT ![d] = st.bank[to][d] + a]]
      /\ r = [st EXCEPT !.bank = r.bank]
  BY <1>1 DEF Stores, Send
<1>3. r.bank \in Balances
  <2> DEFINE f == [st.bank[from] EXCEPT ![d] = st.bank[from][d] - a]
             g == [st.bank[to] EXCEPT ![d] = st.bank[to][d] + a]
  <2>1. st.bank[from] \in [Denoms -> Int] /\ st.bank[to] \in [Denoms -> Int]
    BY <1>1
  <2>2. f \in [Denoms -> Int] /\ g \in [Denoms -> Int]
    BY <2>1
  <2>3. r.bank = [st.bank EXCEPT ![from] = f, ![to] = g]
    BY <1>2
  <2> HIDE DEF f, g, r
  <2> QED
    BY <1>1, <2>2, <2>3 DEF Balances
<1>4. r \in Stores /\ SameCount(r, st) /\ SameIndex(r, st) /\ SameLocks(r, st) /\ SameSynths(r, st)
  BY <1>2, <1>3 DEF Stores, SameCount, SameIndex, SameLocks, SameSynths
<1>5. ASSUME NEW x \in Denoms
      PROVE  r.bank[Module][x] =
                  IF x # d THEN st.bank[Module][x]
                  ELSE IF from = Module THEN st.bank[Module][x] - a
                  ELSE IF to = Module THEN st.bank[Module][x] + a
                  ELSE st.bank[Module][x]
  BY <1>1, <1>2, AccountFacts
<1> QED
  BY <1>4, <1>5

LEMMA IncreaseFacts ==
  ASSUME NEW st \in Stores, NEW d \in Denoms \cup SynthDenoms, NEW t \in 0 .. MaxDuration, NEW a \in Int
  PROVE  LET r == Increase(st, d, t, a)
         IN  /\ r \in Stores
             /\ SameBank(r, st) /\ SameIndex(r, st) /\ SameLocks(r, st) /\ SameSynths(r, st)
             /\ \A x \in Denoms \cup SynthDenoms, e \in 0 .. MaxDuration :
                  GetPeriodLocksAccumulation(r, x, e) =
                    GetPeriodLocksAccumulation(st, x, e) + (IF x = d /\ e <= t THEN a ELSE 0)
<1> DEFINE r == Increase(st, d, t, a)
<1>1. st.accumulation \in [Denoms \cup SynthDenoms -> [0 .. MaxDuration -> Int]]
  BY StoreFields DEF Accumulations
<1>2. /\ r.accumulation = [st.accumulation EXCEPT ![d] = [st.accumulation[d] EXCEPT ![t] = st.accumulation[d][t] + a]]
      /\ r = [st EXCEPT !.accumulation = r.accumulation]
  BY <1>1 DEF Stores, Increase
<1>3. r.accumulation \in Accumulations
  <2> DEFINE f == [st.accumulation[d] EXCEPT ![t] = st.accumulation[d][t] + a]
  <2>1. st.accumulation[d] \in [0 .. MaxDuration -> Int]
    BY <1>1
  <2>2. f \in [0 .. MaxDuration -> Int]
    <3> DEFINE h == st.accumulation[d]
               b == h[t] + a
               T == 0 .. MaxDuration
    <3>1. h \in [T -> Int]
      BY <2>1
    <3>0. t \in T
      OBVIOUS
    <3> HIDE DEF h, T
    <3>3. b \in Int
      BY <3>0, <3>1
    <3> HIDE DEF b
    <3>2. [h EXCEPT ![t] = b] \in [T -> Int]
      BY <3>1, <3>3
    <3> QED
      BY <3>2 DEF h, b, T
  <2>3. r.accumulation = [st.accumulation EXCEPT ![d] = f]
    BY <1>2
  <2> HIDE DEF f, r
  <2> QED
    BY <1>1, <2>2, <2>3 DEF Accumulations
<1>4. r \in Stores /\ SameBank(r, st) /\ SameIndex(r, st) /\ SameLocks(r, st) /\ SameSynths(r, st)
  BY <1>2, <1>3 DEF Stores, SameBank, SameIndex, SameLocks, SameSynths
<1>5. ASSUME NEW x \in Denoms \cup SynthDenoms, NEW e \in 0 .. MaxDuration
      PROVE  GetPeriodLocksAccumulation(r, x, e) =
               GetPeriodLocksAccumulation(st, x, e) + (IF x = d /\ e <= t THEN a ELSE 0)
  <2> DEFINE S == e .. MaxDuration
             f == st.accumulation[x]
             g == r.accumulation[x]
  <2>1. IsFiniteSet(S)
    BY FS_Interval, LockupAssumption
  <2>2. \A y \in S : y \in 0 .. MaxDuration /\ f[y] \in Int
    BY <1>1, LockupAssumption
  <2>3. SumFunctionOnSet(f, S) \in Int
    BY <2>1, <2>2, SumInt
  <2>4. CASE x = d /\ e <= t
    <3>1. t \in S /\ g[t] = f[t] + a /\ \A y \in S \ {t} : g[y] = f[y]
      BY <1>1, <1>2, <2>2, <2>4, LockupAssumption
    <3>2. g[t] \in Int
      BY <3>1, <2>2
    <3> HIDE DEF S, f, g
    <3>3. SumFunctionOnSet(g, S) = SumFunctionOnSet(f, S) + g[t] - f[t]
      BY <2>1, <2>2, <3>1, <3>2, SumUpdate
    <3>4. f[t] \in Int
      BY <2>2, <3>1
    <3>5. SumFunctionOnSet(g, S) = SumFunctionOnSet(f, S) + a
      BY <2>3, <3>1, <3>3, <3>4
    <3> QED
      BY <2>4, <3>5 DEF GetPeriodLocksAccumulation, S, f, g
  <2>5. CASE ~ (x = d /\ e <= t)
    <3>1. \A y \in S : g[y] = f[y]
      BY <1>1, <1>2, <2>2, <2>5, LockupAssumption
    <3> HIDE DEF S, f, g
    <3>2. SumFunctionOnSet(f, S) = SumFunctionOnSet(g, S)
      BY <2>1, <3>1, SumEqual
    <3> QED
      BY <2>3, <2>5, <3>2 DEF GetPeriodLocksAccumulation, S, f, g
  <2> QED
    BY <2>4, <2>5
<1> QED
  BY <1>4, <1>5

LEMMA SetLockFacts ==
  ASSUME NEW st \in Stores, NEW id \in Ids, NEW l \in Lock
  PROVE  LET r == setLock(st, id, l)
         IN  /\ r \in Stores
             /\ SameBank(r, st) /\ SameCount(r, st) /\ SameIndex(r, st) /\ SameSynths(r, st)
             /\ r.locks = Put(st.locks, id, l) /\ r.lastLockID = st.lastLockID
<1>1. Put(st.locks, id, l) \in PartialLocks
  BY StoreFields, PutFacts
<1> QED
  BY <1>1 DEF Stores, setLock, SameBank, SameCount, SameIndex, SameSynths

LEMMA DeleteLockFacts ==
  ASSUME NEW st \in Stores, NEW id
  PROVE  LET r == deleteLock(st, id)
         IN  /\ r \in Stores
             /\ SameBank(r, st) /\ SameCount(r, st) /\ SameIndex(r, st) /\ SameSynths(r, st)
             /\ r.locks = Without(st.locks, id) /\ r.lastLockID = st.lastLockID
<1>1. Without(st.locks, id) \in PartialLocks
  BY StoreFields, WithoutFacts
<1> QED
  BY <1>1 DEF Stores, deleteLock, Without, SameBank, SameCount, SameIndex, SameSynths

LEMMA RefKeys ==
  ASSUME NEW id \in Ids, NEW l, l.denom \in Denoms \cup SynthDenoms, l.duration \in Nat, l.endTime \in Nat
  PROVE  /\ \A u \in BOOLEAN : \A x \in lockRefKeys(u, id, l) : x \in RefType /\ x.id = id /\ x.denom = l.denom
         /\ RefsOf(id, l) \subseteq lockRefKeys(IsUnlocking(l), id, l)
<1>1. ASSUME NEW u \in BOOLEAN, NEW b \in {"duration", "time"}, NEW t \in Nat
      PROVE  /\ Ref(u, b, t, l.denom, id) \in RefType
             /\ Ref(u, b, t, l.denom, id).id = id
             /\ Ref(u, b, t, l.denom, id).denom = l.denom
  BY <1>1 DEF RefType, Ref
<1>2. ASSUME NEW u \in BOOLEAN, NEW x \in lockRefKeys(u, id, l)
      PROVE  x \in RefType /\ x.id = id /\ x.denom = l.denom
  <2>1. x = Ref(u, "duration", l.duration, l.denom, id) \/ x = Ref(u, "time", l.endTime, l.denom, id)
    BY <1>2 DEF lockRefKeys, durationLockRefKeys
  <2> QED
    BY <1>1, <2>1
<1>3. RefsOf(id, l) \subseteq lockRefKeys(IsUnlocking(l), id, l)
  <2>1. CASE IsUnlocking(l)
    <3>1. IsUnlocking(l) = TRUE
      BY <2>1 DEF IsUnlocking
    <3> QED
      BY <2>1, <3>1, Zenon DEF RefsOf
  <2>2. CASE ~ IsUnlocking(l)
    <3>1. IsUnlocking(l) = FALSE
      BY <2>2 DEF IsUnlocking
    <3> QED
      BY <2>2, <3>1, Zenon DEF RefsOf, lockRefKeys
  <2> QED
    BY <2>1, <2>2
<1> QED
  BY <1>2, <1>3

LEMMA LockRefKeys ==
  ASSUME NEW id \in Ids, NEW l \in Lock
  PROVE  /\ \A u \in BOOLEAN : \A x \in lockRefKeys(u, id, l) : x \in RefType /\ x.id = id /\ x.denom \in Denoms
         /\ RefsOf(id, l) \subseteq lockRefKeys(IsUnlocking(l), id, l)
         /\ IsUnlocking(l) \in BOOLEAN
<1>1. l.denom \in Denoms /\ l.duration \in Nat /\ l.endTime \in Nat
  BY LockupAssumption DEF Lock
<1> QED
  BY <1>1, RefKeys DEF IsUnlocking

LEMMA SynthRefKeys ==
  ASSUME NEW s \in Synth
  PROVE  \A x \in syntheticLockRefKeys(s) : x \in RefType /\ x.id = s.id /\ x.denom = s.denom /\ x.denom \in SynthDenoms
<1>1. s.id \in Ids /\ s.denom \in SynthDenoms /\ s.duration \in Nat /\ s.endTime \in Nat
  BY LockupAssumption DEF Synth, Durations
<1>2. IsUnlocking(s) \in BOOLEAN
  BY DEF IsUnlocking
<1> QED
  BY <1>1, <1>2, RefKeys DEF syntheticLockRefKeys

LEMMA RefsFacts ==
  ASSUME NEW st \in Stores, NEW R \in SUBSET RefType
  PROVE  LET r == [st EXCEPT !.refs = R]
         IN  /\ r \in Stores /\ r.refs = R
             /\ SameBank(r, st) /\ SameCount(r, st) /\ SameLocks(r, st) /\ SameSynths(r, st)
BY DEF Stores, SameBank, SameCount, SameLocks, SameSynths

LEMMA AddLockRefsFacts ==
  ASSUME NEW st \in Stores, NEW id \in DOMAIN st.locks
  PROVE  LET r == addLockRefs(st, id)
         IN  /\ r \in Stores /\ r.refs = st.refs \cup RefsOf(id, st.locks[id])
             /\ SameBank(r, st) /\ SameCount(r, st) /\ SameLocks(r, st) /\ SameSynths(r, st)
<1>1. st.locks[id] \in Lock /\ id \in Ids
  BY StoreLock
<1>2. RefsOf(id, st.locks[id]) \subseteq RefType /\ st.refs \subseteq RefType
  BY <1>1, LockRefKeys, StoreFields
<1>3. addLockRefs(st, id) = [st EXCEPT !.refs = st.refs \cup RefsOf(id, st.locks[id])]
  BY DEF addLockRefs
<1> QED
  BY <1>2, <1>3, RefsFacts

LEMMA DeleteLockRefsFacts ==
  ASSUME NEW st \in Stores, NEW u, NEW id, NEW l
  PROVE  LET r == deleteLockRefs(st, u, id, l)
         IN  /\ r \in Stores /\ r.refs = st.refs \ lockRefKeys(u, id, l)
             /\ SameBank(r, st) /\ SameCount(r, st) /\ SameLocks(r, st) /\ SameSynths(r, st)
<1>1. st.refs \ lockRefKeys(u, id, l) \in SUBSET RefType
  BY StoreFields
<1>2. deleteLockRefs(st, u, id, l) = [st EXCEPT !.refs = st.refs \ lockRefKeys(u, id, l)]
  BY DEF deleteLockRefs
<1> QED
  BY <1>1, <1>2, RefsFacts

----------------------------------------------------------------------------
(* What is locked, as a sum over the locks                                 *)

LEMMA IdsFinite == IsFiniteSet(Ids)
BY LockupAssumption, FS_Interval DEF Ids

LEMMA WeightInt ==
  ASSUME NEW l \in Lock, NEW d, NEW e
  PROVE  Weight(l, d, e) \in Int
BY DEF Weight, Lock

LEMMA WeightOfInt ==
  ASSUME NEW f \in PartialLocks, NEW d, NEW e
  PROVE  \A id \in Ids : Weights(f, d, e)[id] = WeightOf(f, id, d, e) /\ WeightOf(f, id, d, e) \in Int
<1>1. ASSUME NEW id \in Ids PROVE WeightOf(f, id, d, e) \in Int
  <2>1. CASE id \in DOMAIN f
    BY <2>1, LocksAre, WeightInt DEF WeightOf
  <2>2. CASE id \notin DOMAIN f
    BY <2>2 DEF WeightOf
  <2> QED
    BY <2>1, <2>2
<1> QED
  BY <1>1 DEF Weights

LEMMA TotalInt ==
  ASSUME NEW f \in PartialLocks, NEW d, NEW e
  PROVE  Total(f, d, e) \in Int
<1> HIDE DEF Weights
<1> QED
  BY WeightOfInt, IdsFinite, SumInt DEF Total

LEMMA TotalChange ==
  ASSUME NEW f \in PartialLocks, NEW g \in PartialLocks, NEW id \in Ids, NEW d, NEW e,
         \A y \in Ids \ {id} : y \in DOMAIN f <=> y \in DOMAIN g,
         \A y \in DOMAIN f \ {id} : g[y] = f[y]
  PROVE  Total(g, d, e) = Total(f, d, e) + WeightOf(g, id, d, e) - WeightOf(f, id, d, e)
<1> DEFINE F == Weights(f, d, e)
           G == Weights(g, d, e)
<1>1. \A y \in Ids : F[y] = WeightOf(f, y, d, e) /\ F[y] \in Int
  BY WeightOfInt
<1>2. \A y \in Ids : G[y] = WeightOf(g, y, d, e) /\ G[y] \in Int
  BY WeightOfInt
<1>3. \A y \in Ids \ {id} : G[y] = F[y]
  BY <1>1, <1>2 DEF WeightOf
<1> HIDE DEF F, G
<1>4. SumFunctionOnSet(G, Ids) = SumFunctionOnSet(F, Ids) + G[id] - F[id]
  BY <1>1, <1>2, <1>3, IdsFinite, SumUpdate
<1>5. Total(g, d, e) = Total(f, d, e) + G[id] - F[id]
  BY <1>4 DEF Total, F, G
<1> QED
  BY <1>1, <1>2, <1>5

LEMMA TotalPut ==
  ASSUME NEW f \in PartialLocks, NEW id \in Ids, NEW l \in Lock, NEW d, NEW e
  PROVE  Total(Put(f, id, l), d, e) = Total(f, d, e) + Weight(l, d, e) - WeightOf(f, id, d, e)
<1> DEFINE g == Put(f, id, l)
<1>1. /\ g \in PartialLocks /\ DOMAIN g = DOMAIN f \cup {id} /\ g[id] = l
      /\ \A y \in DOMAIN f : y # id => g[y] = f[y]
  BY PutFacts
<1>2. WeightOf(g, id, d, e) = Weight(l, d, e)
  BY <1>1 DEF WeightOf
<1> HIDE DEF g
<1>3. Total(g, d, e) = Total(f, d, e) + WeightOf(g, id, d, e) - WeightOf(f, id, d, e)
  BY <1>1, TotalChange
<1> QED
  BY <1>2, <1>3 DEF g

LEMMA TotalWithout ==
  ASSUME NEW f \in PartialLocks, NEW id \in DOMAIN f, NEW d, NEW e
  PROVE  Total(Without(f, id), d, e) = Total(f, d, e) - Weight(f[id], d, e)
<1> DEFINE g == Without(f, id)
<1>1. /\ g \in PartialLocks /\ DOMAIN g = DOMAIN f \ {id}
      /\ \A y \in DOMAIN f \ {id} : g[y] = f[y]
  BY WithoutFacts
<1>2. WeightOf(g, id, d, e) = 0 /\ WeightOf(f, id, d, e) = Weight(f[id], d, e) /\ id \in Ids
  BY <1>1, LocksAre DEF WeightOf
<1> HIDE DEF g
<1>3. Total(g, d, e) = Total(f, d, e) + WeightOf(g, id, d, e) - WeightOf(f, id, d, e)
  BY <1>1, <1>2, TotalChange
<1>4. Total(f, d, e) \in Int /\ Weight(f[id], d, e) \in Int
  BY LocksAre, WeightInt, TotalInt
<1> QED
  BY <1>2, <1>3, <1>4 DEF g

LEMMA BondWeightInt ==
  ASSUME NEW st \in Stores, NEW v
  PROVE  \A id \in Ids : BondWeights(st, v)[id] = BondWeight(st, id, v) /\ BondWeight(st, id, v) \in Int
<1>1. ASSUME NEW id \in Ids PROVE BondWeight(st, id, v) \in Int
  <2>1. CASE id \in DOMAIN st.locks
    BY <2>1, StoreLock DEF BondWeight
  <2>2. CASE id \notin DOMAIN st.locks
    BY <2>2 DEF BondWeight
  <2> QED
    BY <2>1, <2>2
<1> QED
  BY <1>1 DEF BondWeights

LEMMA BondTotalInt ==
  ASSUME NEW st \in Stores, NEW v
  PROVE  BondTotal(st, v) \in Int
BY BondWeightInt, IdsFinite, SumInt DEF BondTotal

LEMMA BondTotalChange ==
  ASSUME NEW st \in Stores, NEW r \in Stores, NEW id \in Ids, NEW v,
         \A y \in Ids \ {id} : y \in DOMAIN st.locks <=> y \in DOMAIN r.locks,
         \A y \in DOMAIN st.locks \ {id} : r.locks[y] = st.locks[y],
         \A s : s.id # id => (s \in st.synths <=> s \in r.synths)
  PROVE  BondTotal(r, v) = BondTotal(st, v) + BondWeight(r, id, v) - BondWeight(st, id, v)
<1> DEFINE F == BondWeights(st, v)
           G == BondWeights(r, v)
<1>1. \A y \in Ids : F[y] = BondWeight(st, y, v) /\ F[y] \in Int
  BY BondWeightInt
<1>2. \A y \in Ids : G[y] = BondWeight(r, y, v) /\ G[y] \in Int
  BY BondWeightInt
<1>3. ASSUME NEW y \in Ids \ {id} PROVE G[y] = F[y]
  <2>1. Bonded(st, y, v) <=> Bonded(r, y, v)
    BY DEF Bonded
  <2>2. BondWeight(st, y, v) = BondWeight(r, y, v)
    BY <2>1 DEF BondWeight
  <2> QED
    BY <1>1, <1>2, <2>2
<1> HIDE DEF F, G
<1>4. SumFunctionOnSet(G, Ids) = SumFunctionOnSet(F, Ids) + G[id] - F[id]
  BY <1>1, <1>2, <1>3, IdsFinite, SumUpdate
<1>5. BondTotal(r, v) = BondTotal(st, v) + G[id] - F[id]
  BY <1>4 DEF BondTotal, F, G
<1> QED
  BY <1>1, <1>2, <1>5

----------------------------------------------------------------------------
(* A step that changes one lock keeps the store in order                   *)

\* From st to r, the references of lock id become R and the others stay.
Reindexed(st, r, id, R) ==
  \A x \in RefType :
    x \in r.refs <=> IF x.denom \in Denoms /\ x.id = id THEN x \in R ELSE x \in st.refs

\* The balance of the module and the accumulation grow by what lock id counts for more.
Moved(st, r, id) ==
  /\ \A d \in Denoms :
       r.bank[Module][d] = st.bank[Module][d] + WeightOf(r.locks, id, d, 0) - WeightOf(st.locks, id, d, 0)
  /\ \A d \in Denoms, e \in 0 .. MaxDuration :
       GetPeriodLocksAccumulation(r, d, e) =
         GetPeriodLocksAccumulation(st, d, e) + WeightOf(r.locks, id, d, e) - WeightOf(st.locks, id, d, e)
  /\ \A v \in Vals :
       GetTotalSyntheticAssetsLocked(r, stakingSyntheticDenom(v)) =
         GetTotalSyntheticAssetsLocked(st, stakingSyntheticDenom(v)) + BondWeight(r, id, v) - BondWeight(st, id, v)

LEMMA DenomsSplit ==
  ASSUME NEW x \in RefType
  PROVE  x.denom \in Denoms \/ x.denom \in SynthDenoms
BY DEF RefType

LEMMA SynthsKept ==
  ASSUME NEW st \in Stores, NEW r \in Stores, NEW id, NEW R, SynthsIndexed(st), Reindexed(st, r, id, R),
         r.synths = st.synths
  PROVE  SynthsIndexed(r)
BY DenomFacts DEF SynthsIndexed, Reindexed

LEMMA BalanceKept ==
  ASSUME NEW st \in Stores, NEW r \in Stores, NEW id \in Ids, Backed(st), Counted(st), Moved(st, r, id),
         \A y \in Ids \ {id} : y \in DOMAIN st.locks <=> y \in DOMAIN r.locks,
         \A y \in DOMAIN st.locks \ {id} : r.locks[y] = st.locks[y],
         BondCounted(st), \A s : s.id # id => (s \in st.synths <=> s \in r.synths)
  PROVE  Backed(r) /\ Counted(r) /\ BondCounted(r)
<1>1. st.locks \in PartialLocks /\ r.locks \in PartialLocks
  BY StoreFields
<1>2. ASSUME NEW d, NEW e
      PROVE  Total(r.locks, d, e) =
               Total(st.locks, d, e) + WeightOf(r.locks, id, d, e) - WeightOf(st.locks, id, d, e)
  BY <1>1, TotalChange
<1>3. 0 \in 0 .. MaxDuration
  BY LockupAssumption
<1>4. Backed(r)
  BY <1>2 DEF Backed, Moved
<1>5. Counted(r)
  BY <1>2 DEF Counted, Moved
<1>6. ASSUME NEW v \in Vals
      PROVE  BondTotal(r, v) = BondTotal(st, v) + BondWeight(r, id, v) - BondWeight(st, id, v)
  BY BondTotalChange
<1>7. BondCounted(r)
  BY <1>6 DEF BondCounted, Moved
<1> QED
  BY <1>4, <1>5, <1>7

LEMMA SetLockOK ==
  ASSUME NEW t \in Nat \ {0}, NEW st, NEW id \in Ids, NEW D, D \subseteq {id}, StoreOK(st, D, t),
         NEW l \in Lock, NEW r \in Stores, r.locks = Put(st.locks, id, l), r.synths = st.synths,
         st.lastLockID <= r.lastLockID, id <= r.lastLockID,
         Moved(st, r, id), Reindexed(st, r, id, RefsOf(id, l)),
         \A s \in st.synths : s.id = id => SynthOK(s, l),
         IsUnlocking(l) => l.endTime \in t .. (t + MaxDuration)
  PROVE  StoreOK(r, {}, t)
<1>1. st \in Stores /\ st.locks \in PartialLocks
  BY StoreFields DEF StoreOK
<1>2. /\ DOMAIN r.locks = DOMAIN st.locks \cup {id} /\ r.locks[id] = l
      /\ \A y \in DOMAIN st.locks : y # id => r.locks[y] = st.locks[y]
  <2>1. /\ DOMAIN Put(st.locks, id, l) = DOMAIN st.locks \cup {id} /\ Put(st.locks, id, l)[id] = l
        /\ \A y \in DOMAIN st.locks : y # id => Put(st.locks, id, l)[y] = st.locks[y]
    BY ONLY <1>1, PutFacts, l \in Lock, id \in Ids
  <2> QED
    BY <2>1, Zenon
<1>3. st.lastLockID \in 0 .. MaxLocks /\ r.lastLockID \in 0 .. MaxLocks
  BY <1>1, StoreFields
<1>4. Numbered(r)
  BY <1>2, <1>3 DEF Numbered, StoreOK, Ids
<1>5. Backed(r) /\ Counted(r) /\ BondCounted(r)
  BY <1>1, <1>2, BalanceKept DEF StoreOK
<1>6. SynthsIndexed(r)
  BY <1>1, SynthsKept DEF StoreOK
<1>7. Indexed(r, {})
  BY <1>2 DEF Indexed, Reindexed, StoreOK
<1>8. SynthsOK(r)
  BY <1>2 DEF SynthsOK, StoreOK
<1>9. TimesOK(r, t)
  BY <1>2 DEF TimesOK, StoreOK
<1> QED
  BY <1>4, <1>5, <1>6, <1>7, <1>8, <1>9 DEF StoreOK

LEMMA RemoveLockOK ==
  ASSUME NEW t \in Nat \ {0}, NEW st, NEW D, NEW id \in DOMAIN st.locks, D \subseteq {id}, StoreOK(st, D, t),
         NEW r \in Stores, r.locks = Without(st.locks, id), r.synths = st.synths,
         r.lastLockID = st.lastLockID, Moved(st, r, id), Reindexed(st, r, id, {}),
         \A s \in st.synths : s.id # id
  PROVE  StoreOK(r, {}, t)
<1>1. st \in Stores /\ st.locks \in PartialLocks /\ id \in Ids
  BY StoreFields, LocksAre DEF StoreOK
<1>2. /\ DOMAIN r.locks = DOMAIN st.locks \ {id}
      /\ \A y \in DOMAIN st.locks \ {id} : r.locks[y] = st.locks[y]
  <2>1. /\ DOMAIN Without(st.locks, id) = DOMAIN st.locks \ {id}
        /\ \A y \in DOMAIN st.locks \ {id} : Without(st.locks, id)[y] = st.locks[y]
    BY <1>1, WithoutFacts
  <2> QED
    BY <2>1, Zenon
<1>4. Numbered(r)
  BY <1>2 DEF Numbered, StoreOK, Ids
<1>5. Backed(r) /\ Counted(r) /\ BondCounted(r)
  BY <1>1, <1>2, BalanceKept DEF StoreOK
<1>6. SynthsIndexed(r)
  BY <1>1, SynthsKept DEF StoreOK
<1>7. Indexed(r, {})
  BY <1>2 DEF Indexed, Reindexed, StoreOK
<1>8. SynthsOK(r)
  BY <1>2 DEF SynthsOK, StoreOK
<1>9. TimesOK(r, t)
  BY <1>2 DEF TimesOK, StoreOK
<1> QED
  BY <1>4, <1>5, <1>6, <1>7, <1>8, <1>9 DEF StoreOK

----------------------------------------------------------------------------
(* lock.go: each operation keeps the store in order                        *)

LEMMA LastLockFacts ==
  ASSUME NEW st \in Stores, NEW n \in 0 .. MaxLocks
  PROVE  LET r == [st EXCEPT !.lastLockID = n]
         IN  /\ r \in Stores /\ r.lastLockID = n /\ r.locks = st.locks
             /\ SameBank(r, st) /\ SameCount(r, st) /\ SameIndex(r, st) /\ SameSynths(r, st)
BY DEF Stores, SameBank, SameCount, SameIndex, SameSynths

LEMMA SameCounted ==
  ASSUME NEW r, NEW st, SameCount(r, st)
  PROVE  \A d, e : GetPeriodLocksAccumulation(r, d, e) = GetPeriodLocksAccumulation(st, d, e)
BY DEF SameCount, GetPeriodLocksAccumulation

LEMMA CountInt ==
  ASSUME NEW st \in Stores, NEW d \in Denoms \cup SynthDenoms, NEW e \in 0 .. MaxDuration
  PROVE  GetPeriodLocksAccumulation(st, d, e) \in Int
<1> DEFINE S == e .. MaxDuration
<1>1. st.accumulation \in [Denoms \cup SynthDenoms -> [0 .. MaxDuration -> Int]]
  BY StoreFields DEF Accumulations
<1>2. IsFiniteSet(S)
  BY FS_Interval, LockupAssumption
<1>3. \A y \in S : y \in 0 .. MaxDuration
  BY LockupAssumption
<1>4. \A y \in S : st.accumulation[d][y] \in Int
  BY <1>1, <1>3
<1> HIDE DEF S
<1>5. SumFunctionOnSet(st.accumulation[d], S) \in Int
  BY <1>2, <1>4, SumInt
<1> QED
  BY <1>5 DEF GetPeriodLocksAccumulation, S

LEMMA BalanceInt ==
  ASSUME NEW st \in Stores, NEW d \in Denoms
  PROVE  st.bank[Module][d] \in Int
BY StoreFields, AccountFacts DEF Balances

\* The references of a lock, for a lock that has none and for one that has
LEMMA RefsOfLock ==
  ASSUME NEW t, NEW st, NEW D, StoreOK(st, D, t), NEW id \in Ids, NEW x \in RefType, x.denom \in Denoms, x.id = id,
         x \in st.refs
  PROVE  id \in DOMAIN st.locks \ D /\ x \in RefsOf(id, st.locks[id])
BY DEF StoreOK, Indexed

LEMMA AddedRefs ==
  ASSUME NEW t, NEW st, NEW D, StoreOK(st, D, t), NEW id \in Ids, NEW l \in Lock, NEW r,
         id \in D \/ id \notin DOMAIN st.locks, r.refs = st.refs \cup RefsOf(id, l)
  PROVE  Reindexed(st, r, id, RefsOf(id, l))
<1> SUFFICES ASSUME NEW x \in RefType
             PROVE  x \in r.refs <=> IF x.denom \in Denoms /\ x.id = id THEN x \in RefsOf(id, l) ELSE x \in st.refs
  BY DEF Reindexed
<1>1. x \in RefsOf(id, l) => x.denom \in Denoms /\ x.id = id
  BY LockRefKeys
<1>2. x.denom \in Denoms /\ x.id = id => x \notin st.refs
  BY RefsOfLock
<1> QED
  BY <1>1, <1>2

LEMMA ReplacedRefs ==
  ASSUME NEW t, NEW st, NEW D, StoreOK(st, D, t), NEW id \in DOMAIN st.locks, NEW l \in Lock, NEW r,
         r.refs = (st.refs \ lockRefKeys(IsUnlocking(st.locks[id]), id, st.locks[id])) \cup RefsOf(id, l)
  PROVE  Reindexed(st, r, id, RefsOf(id, l))
<1>0. st.locks[id] \in Lock /\ id \in Ids
  BY StoreLock DEF StoreOK
<1> SUFFICES ASSUME NEW x \in RefType
             PROVE  x \in r.refs <=> IF x.denom \in Denoms /\ x.id = id THEN x \in RefsOf(id, l) ELSE x \in st.refs
  BY DEF Reindexed
<1>1. x \in RefsOf(id, l) => x.denom \in Denoms /\ x.id = id
  BY <1>0, LockRefKeys
<1>2. x \in lockRefKeys(IsUnlocking(st.locks[id]), id, st.locks[id]) => x.denom \in Denoms /\ x.id = id
  BY <1>0, LockRefKeys
<1>3. x.denom \in Denoms /\ x.id = id /\ x \in st.refs => x \in lockRefKeys(IsUnlocking(st.locks[id]), id, st.locks[id])
  BY <1>0, RefsOfLock, LockRefKeys
<1> QED
  BY <1>1, <1>2, <1>3

LEMMA RemovedRefs ==
  ASSUME NEW t, NEW st, NEW D, StoreOK(st, D, t), NEW id \in DOMAIN st.locks, NEW r,
         r.refs = st.refs \ lockRefKeys(IsUnlocking(st.locks[id]), id, st.locks[id])
  PROVE  Reindexed(st, r, id, {})
<1>0. st.locks[id] \in Lock /\ id \in Ids
  BY StoreLock DEF StoreOK
<1> SUFFICES ASSUME NEW x \in RefType
             PROVE  x \in r.refs <=> IF x.denom \in Denoms /\ x.id = id THEN x \in {} ELSE x \in st.refs
  BY DEF Reindexed
<1>2. x \in lockRefKeys(IsUnlocking(st.locks[id]), id, st.locks[id]) => x.denom \in Denoms /\ x.id = id
  BY <1>0, LockRefKeys
<1>3. x.denom \in Denoms /\ x.id = id /\ x \in st.refs => x \in lockRefKeys(IsUnlocking(st.locks[id]), id, st.locks[id])
  BY <1>0, RefsOfLock, LockRefKeys
<1> QED
  BY <1>2, <1>3

LEMMA KeptRefs ==
  ASSUME NEW t, NEW st, StoreOK(st, {}, t), NEW id \in DOMAIN st.locks, NEW r, SameIndex(r, st), NEW l,
         RefsOf(id, l) = RefsOf(id, st.locks[id])
  PROVE  Reindexed(st, r, id, RefsOf(id, l))
<1>0. id \in Ids
  BY StoreLock DEF StoreOK
<1> SUFFICES ASSUME NEW x \in RefType
             PROVE  x \in r.refs <=> IF x.denom \in Denoms /\ x.id = id THEN x \in RefsOf(id, l) ELSE x \in st.refs
  BY DEF Reindexed
<1>1. x.denom \in Denoms /\ x.id = id => (x \in st.refs <=> x \in RefsOf(id, st.locks[id]))
  BY DEF StoreOK, Indexed
<1> QED
  BY <1>1 DEF SameIndex

NewLock(owner, denom, amount, duration) ==
  [owner |-> owner, denom |-> denom, amount |-> amount, duration |-> duration, endTime |-> NoTime]

LEMMA CreateLockOK ==
  ASSUME NEW t \in Nat \ {0}, NEW st, StoreOK(st, {}, t), NEW o \in Owners, NEW d \in Denoms, NEW a \in Nat \ {0},
         NEW u \in 0 .. MaxDuration, st.lastLockID < MaxLocks
  PROVE  LET r == CreateLock(st, o, d, a, u)
         IN  /\ StoreOK(r, {}, t)
             /\ r.locks = Put(st.locks, st.lastLockID + 1, NewLock(o, d, a, u))
             /\ r.synths = st.synths /\ r.lastLockID = st.lastLockID + 1
             /\ st.lastLockID + 1 \notin DOMAIN st.locks
<1> DEFINE id == st.lastLockID + 1
           l == NewLock(o, d, a, u)
           s1 == Send(st, o, Module, d, a)
           s2 == setLock(s1, id, l)
           s3 == Increase(s2, d, u, a)
           s4 == addLockRefs(s3, id)
           r == [s4 EXCEPT !.lastLockID = id]
<1>1. CreateLock(st, o, d, a, u) = r
  BY DEF CreateLock, lock, NewLock
<1>2. st \in Stores /\ st.lastLockID \in 0 .. MaxLocks /\ st.locks \in PartialLocks
  BY StoreFields DEF StoreOK
<1>3. l \in Lock /\ l.denom = d /\ l.duration = u /\ l.amount = a /\ ~ IsUnlocking(l)
  BY DEF NewLock, Lock, NoTime, IsUnlocking
<1>4. id \in Ids /\ id \in 0 .. MaxLocks /\ id \notin DOMAIN st.locks
  BY <1>2, LockupAssumption DEF Ids, StoreOK, Numbered
<1>5. \A s \in st.synths : s.id # id
  BY <1>4 DEF StoreOK, SynthsOK
<1> HIDE DEF id, l
<1>6. /\ s1 \in Stores /\ SameCount(s1, st) /\ SameIndex(s1, st) /\ SameLocks(s1, st) /\ SameSynths(s1, st)
      /\ \A x \in Denoms : s1.bank[Module][x] = IF x # d THEN st.bank[Module][x] ELSE st.bank[Module][x] + a
  BY <1>2, AccountFacts, SendFacts, SMTT(30)
<1> HIDE DEF s1
<1>7. /\ s2 \in Stores /\ SameBank(s2, s1) /\ SameCount(s2, s1) /\ SameIndex(s2, s1) /\ SameSynths(s2, s1)
      /\ s2.locks = Put(s1.locks, id, l)
  BY <1>3, <1>4, <1>6, SetLockFacts
<1> HIDE DEF s2
<1>8. /\ s3 \in Stores /\ SameBank(s3, s2) /\ SameIndex(s3, s2) /\ SameLocks(s3, s2) /\ SameSynths(s3, s2)
      /\ \A x \in Denoms \cup SynthDenoms, e \in 0 .. MaxDuration :
           GetPeriodLocksAccumulation(s3, x, e) =
             GetPeriodLocksAccumulation(s2, x, e) + (IF x = d /\ e <= u THEN a ELSE 0)
  BY <1>7, IncreaseFacts
<1> HIDE DEF s3
<1>9. s3.locks = Put(st.locks, id, l) /\ id \in DOMAIN s3.locks /\ s3.locks[id] = l
  BY <1>6, <1>7, <1>8, PutAt DEF SameLocks
<1>10. /\ s4 \in Stores /\ s4.refs = s3.refs \cup RefsOf(id, l)
       /\ SameBank(s4, s3) /\ SameCount(s4, s3) /\ SameLocks(s4, s3) /\ SameSynths(s4, s3)
  BY <1>8, <1>9, AddLockRefsFacts
<1> HIDE DEF s4
<1>11. /\ r \in Stores /\ r.lastLockID = id /\ r.locks = s4.locks
       /\ SameBank(r, s4) /\ SameCount(r, s4) /\ SameIndex(r, s4) /\ SameSynths(r, s4)
  BY <1>4, <1>10, LastLockFacts
<1> HIDE DEF r
<1>12. r.locks = Put(st.locks, id, l) /\ r.synths = st.synths /\ r.refs = st.refs \cup RefsOf(id, l)
  BY <1>6, <1>7, <1>8, <1>9, <1>10, <1>11 DEF SameLocks, SameSynths, SameIndex
<1>13. Moved(st, r, id)
  <2>1. id \in DOMAIN r.locks /\ r.locks[id] = l
    BY <1>9, <1>10, <1>11 DEF SameLocks
  <2>2. ASSUME NEW x, NEW e
        PROVE  WeightOf(r.locks, id, x, e) = (IF d = x /\ u >= e THEN a ELSE 0) /\ WeightOf(st.locks, id, x, e) = 0
    BY <1>3, <1>4, <2>1 DEF WeightOf, Weight
  <2>3. ASSUME NEW x \in Denoms
        PROVE  r.bank[Module][x] = st.bank[Module][x] + WeightOf(r.locks, id, x, 0) - WeightOf(st.locks, id, x, 0)
    <3>1. r.bank[Module][x] = IF x # d THEN st.bank[Module][x] ELSE st.bank[Module][x] + a
      BY <1>6, <1>7, <1>8, <1>10, <1>11 DEF SameBank
    <3>2. st.bank[Module][x] \in Int
      BY <1>2, BalanceInt
    <3> QED
      BY <2>2, <3>1, <3>2
  <2>4. ASSUME NEW x \in Denoms, NEW e \in 0 .. MaxDuration
        PROVE  GetPeriodLocksAccumulation(r, x, e) =
                 GetPeriodLocksAccumulation(st, x, e) + WeightOf(r.locks, id, x, e) - WeightOf(st.locks, id, x, e)
    <3>1. GetPeriodLocksAccumulation(r, x, e) =
            GetPeriodLocksAccumulation(st, x, e) + (IF x = d /\ e <= u THEN a ELSE 0)
      BY <1>6, <1>7, <1>8, <1>10, <1>11, SameCounted
    <3>2. GetPeriodLocksAccumulation(st, x, e) \in Int
      BY <1>2, CountInt
    <3> QED
      BY <2>2, <3>1, <3>2
  <2>5. ASSUME NEW v \in Vals
        PROVE  GetTotalSyntheticAssetsLocked(r, stakingSyntheticDenom(v)) =
                 GetTotalSyntheticAssetsLocked(st, stakingSyntheticDenom(v))
                   + BondWeight(r, id, v) - BondWeight(st, id, v)
    <3>1. stakingSyntheticDenom(v) \in SynthDenoms /\ stakingSyntheticDenom(v) # d
      BY DenomFacts
    <3>2. UnbondingTime \in 0 .. MaxDuration
      BY UnbondingTimeFacts
    <3>3. GetPeriodLocksAccumulation(r, stakingSyntheticDenom(v), UnbondingTime) =
            GetPeriodLocksAccumulation(st, stakingSyntheticDenom(v), UnbondingTime) + 0
      BY <3>1, <3>2, <1>6, <1>7, <1>8, <1>10, <1>11, SameCounted
    <3>4. GetPeriodLocksAccumulation(st, stakingSyntheticDenom(v), UnbondingTime) \in Int
      BY <1>2, <3>1, <3>2, CountInt
    <3>5. BondWeight(r, id, v) = 0 /\ BondWeight(st, id, v) = 0
      BY <1>5, <1>12 DEF BondWeight, Bonded
    <3> QED
      BY <3>3, <3>4, <3>5 DEF GetTotalSyntheticAssetsLocked
  <2> QED
    BY <2>3, <2>4, <2>5 DEF Moved
<1>14. Reindexed(st, r, id, RefsOf(id, l))
  BY <1>3, <1>4, <1>12, AddedRefs
<1>15. st.lastLockID <= r.lastLockID /\ id <= r.lastLockID
  BY <1>2, <1>11, <1>4 DEF id
<1>16. StoreOK(r, {}, t)
  BY <1>3, <1>4, <1>5, <1>11, <1>12, <1>13, <1>14, <1>15, SetLockOK
<1> QED
  BY <1>1, <1>4, <1>11, <1>12, <1>16 DEF id, l

WithAmount(l, a) == [l EXCEPT !.amount = a]

LEMMA WithAmountFacts ==
  ASSUME NEW l \in Lock, NEW a \in Nat \ {0}
  PROVE  /\ WithAmount(l, a) \in Lock /\ WithAmount(l, a).amount = a
         /\ WithAmount(l, a).owner = l.owner /\ WithAmount(l, a).denom = l.denom
         /\ WithAmount(l, a).duration = l.duration /\ WithAmount(l, a).endTime = l.endTime
         /\ IsUnlocking(WithAmount(l, a)) = IsUnlocking(l)
         /\ \A id : RefsOf(id, WithAmount(l, a)) = RefsOf(id, l)
         /\ \A s : SynthOK(s, l) => SynthOK(s, WithAmount(l, a))
<1>1. /\ WithAmount(l, a) \in Lock /\ WithAmount(l, a).amount = a
      /\ WithAmount(l, a).owner = l.owner /\ WithAmount(l, a).denom = l.denom
      /\ WithAmount(l, a).duration = l.duration /\ WithAmount(l, a).endTime = l.endTime
  BY DEF WithAmount, Lock
<1> QED
  BY <1>1 DEF IsUnlocking, RefsOf, lockRefKeys, durationLockRefKeys, SynthOK

LEMMA SynthOfLock ==
  ASSUME NEW t, NEW D, NEW st, StoreOK(st, D, t), NEW id, HasAnySyntheticLockups(st, id)
  PROVE  LET s == GetSyntheticLockupByUnderlyingLockId(st, id)
         IN  /\ s \in st.synths /\ s \in Synth /\ s.id = id
             /\ s.denom \in SynthDenoms /\ s.duration = UnbondingTime
             /\ \A x \in st.synths : x.id = id => x = s
<1> DEFINE s == GetSyntheticLockupByUnderlyingLockId(st, id)
<1>1. s \in st.synths /\ s.id = id
  BY DEF HasAnySyntheticLockups, SynthsOf, GetSyntheticLockupByUnderlyingLockId
<1> HIDE DEF s
<1>2. s \in Synth
  BY <1>1, StoreFields DEF StoreOK
<1>3. s.denom \in SynthDenoms
  BY <1>2 DEF Synth
<1>4. s.duration = UnbondingTime /\ \A x \in st.synths : x.id = id => x = s
  BY <1>1 DEF StoreOK, SynthsOK, SynthOK
<1> QED
  BY <1>1, <1>2, <1>3, <1>4 DEF s

\* What a change of the amount of a lock by a leads to
AmountGrows(st, r, id, a) ==
  LET l == st.locks[id]
  IN  /\ r \in Stores
      /\ r.locks = Put(st.locks, id, WithAmount(l, l.amount + a)) /\ r.lastLockID = st.lastLockID
      /\ SameIndex(r, st) /\ SameSynths(r, st)
      /\ \A x \in Denoms : r.bank[Module][x] = st.bank[Module][x] + (IF x = l.denom THEN a ELSE 0)
      /\ \A x \in Denoms \cup SynthDenoms, e \in 0 .. MaxDuration :
           GetPeriodLocksAccumulation(r, x, e) =
             GetPeriodLocksAccumulation(st, x, e) + (IF x = l.denom /\ e <= l.duration THEN a ELSE 0)

SynthGrows(st, s1, id, a) ==
  LET s == GetSyntheticLockupByUnderlyingLockId(st, id)
  IN  IF HasAnySyntheticLockups(st, id) THEN Increase(s1, s.denom, s.duration, a) ELSE s1

LEMMA AmountOK ==
  ASSUME NEW t \in Nat \ {0}, NEW st, StoreOK(st, {}, t), NEW id \in DOMAIN st.locks, NEW a \in Int,
         st.locks[id].amount + a \in Nat \ {0}, NEW s1, AmountGrows(st, s1, id, a)
  PROVE  LET r == SynthGrows(st, s1, id, a)
         IN  /\ StoreOK(r, {}, t)
             /\ r.locks = Put(st.locks, id, WithAmount(st.locks[id], st.locks[id].amount + a))
             /\ r.synths = st.synths /\ r.lastLockID = st.lastLockID
<1> DEFINE l == st.locks[id]
           m == WithAmount(l, l.amount + a)
           s == GetSyntheticLockupByUnderlyingLockId(st, id)
           r == SynthGrows(st, s1, id, a)
<1>1. /\ st \in Stores /\ id \in Ids /\ l \in Lock /\ l.denom \in Denoms /\ l.duration \in 0 .. MaxDuration
      /\ l.amount \in Nat /\ id <= st.lastLockID /\ st.lastLockID \in Nat
  BY StoreLock, StoreFields, UnbondingTimeFacts DEF StoreOK, Numbered
<1>2. /\ m \in Lock /\ m.amount = l.amount + a /\ m.denom = l.denom /\ m.duration = l.duration
      /\ m.endTime = l.endTime /\ IsUnlocking(m) = IsUnlocking(l) /\ RefsOf(id, m) = RefsOf(id, l)
      /\ \A x : SynthOK(x, l) => SynthOK(x, m)
  BY <1>1, WithAmountFacts, SMTT(30)
<1>3. /\ s1 \in Stores /\ s1.locks = Put(st.locks, id, m) /\ s1.lastLockID = st.lastLockID
      /\ SameIndex(s1, st) /\ SameSynths(s1, st)
      /\ \A x \in Denoms : s1.bank[Module][x] = st.bank[Module][x] + (IF x = l.denom THEN a ELSE 0)
      /\ \A x \in Denoms \cup SynthDenoms, e \in 0 .. MaxDuration :
           GetPeriodLocksAccumulation(s1, x, e) =
             GetPeriodLocksAccumulation(st, x, e) + (IF x = l.denom /\ e <= l.duration THEN a ELSE 0)
  BY DEF AmountGrows
<1> HIDE DEF l, m
<1>4. /\ r \in Stores /\ SameBank(r, s1) /\ SameIndex(r, s1) /\ SameLocks(r, s1) /\ SameSynths(r, s1)
      /\ \A x \in Denoms \cup SynthDenoms, e \in 0 .. MaxDuration :
           GetPeriodLocksAccumulation(r, x, e) =
             GetPeriodLocksAccumulation(s1, x, e)
               + (IF HasAnySyntheticLockups(st, id) /\ x = s.denom /\ e <= UnbondingTime THEN a ELSE 0)
  <2>1. CASE HasAnySyntheticLockups(st, id)
    <3>1. s.denom \in SynthDenoms /\ s.duration = UnbondingTime /\ s.duration \in 0 .. MaxDuration
      BY <2>1, SynthOfLock, UnbondingTimeFacts
    <3>2. r = Increase(s1, s.denom, s.duration, a)
      BY <2>1 DEF SynthGrows
    <3> HIDE DEF r, s
    <3> QED
      BY <1>3, <2>1, <3>1, <3>2, IncreaseFacts
  <2>2. CASE ~ HasAnySyntheticLockups(st, id)
    <3>1. r = s1
      BY <2>2 DEF SynthGrows
    <3>2. \A x \in Denoms \cup SynthDenoms, e \in 0 .. MaxDuration : GetPeriodLocksAccumulation(s1, x, e) \in Int
      BY <1>3, CountInt
    <3> HIDE DEF r, s
    <3> QED
      BY <1>3, <2>2, <3>1, <3>2 DEF SameBank, SameIndex, SameLocks, SameSynths
  <2> QED
    BY <2>1, <2>2
<1>5. HasAnySyntheticLockups(st, id) =>
        s \in st.synths /\ s.id = id /\ s.denom \in SynthDenoms /\ \A x \in st.synths : x.id = id => x = s
  BY SynthOfLock
<1> HIDE DEF r, s
<1>6. /\ r.locks = Put(st.locks, id, m) /\ r.synths = st.synths /\ r.refs = st.refs
      /\ r.lastLockID = st.lastLockID /\ id \in DOMAIN r.locks /\ r.locks[id] = m
  BY <1>3, <1>4, PutAt DEF SameLocks, SameSynths, SameIndex
<1>7. Moved(st, r, id)
  <2>2. ASSUME NEW x \in Denoms, NEW e \in 0 .. MaxDuration
        PROVE  WeightOf(r.locks, id, x, e) - WeightOf(st.locks, id, x, e) =
                 (IF x = l.denom /\ e <= l.duration THEN a ELSE 0)
    BY <1>1, <1>2, <1>6 DEF WeightOf, Weight, l
  <2>3. ASSUME NEW x \in Denoms
        PROVE  r.bank[Module][x] = st.bank[Module][x] + WeightOf(r.locks, id, x, 0) - WeightOf(st.locks, id, x, 0)
    <3>1. r.bank[Module][x] = st.bank[Module][x] + (IF x = l.denom THEN a ELSE 0)
      BY <1>3, <1>4 DEF SameBank
    <3>2. st.bank[Module][x] \in Int /\ 0 \in 0 .. MaxDuration /\ 0 <= l.duration
      BY <1>1, BalanceInt, UnbondingTimeFacts
    <3>3. WeightOf(r.locks, id, x, 0) \in Int /\ WeightOf(st.locks, id, x, 0) \in Int
      BY <1>1, <1>4, StoreFields, WeightOfInt
    <3> QED
      BY <2>2, <3>1, <3>2, <3>3
  <2>4. ASSUME NEW x \in Denoms, NEW e \in 0 .. MaxDuration
        PROVE  GetPeriodLocksAccumulation(r, x, e) =
                 GetPeriodLocksAccumulation(st, x, e) + WeightOf(r.locks, id, x, e) - WeightOf(st.locks, id, x, e)
    <3>0. ~ (HasAnySyntheticLockups(st, id) /\ x = s.denom)
      BY <1>5, DenomFacts
    <3>1. GetPeriodLocksAccumulation(r, x, e) =
            GetPeriodLocksAccumulation(st, x, e) + (IF x = l.denom /\ e <= l.duration THEN a ELSE 0) + 0
      BY <1>3, <1>4, <3>0
    <3>2. GetPeriodLocksAccumulation(st, x, e) \in Int
      BY <1>1, CountInt
    <3>3. WeightOf(r.locks, id, x, e) \in Int /\ WeightOf(st.locks, id, x, e) \in Int
      BY <1>1, <1>4, StoreFields, WeightOfInt
    <3> QED
      BY <2>2, <3>1, <3>2, <3>3
  <2>5. ASSUME NEW v \in Vals
        PROVE  GetTotalSyntheticAssetsLocked(r, stakingSyntheticDenom(v)) =
                 GetTotalSyntheticAssetsLocked(st, stakingSyntheticDenom(v))
                   + BondWeight(r, id, v) - BondWeight(st, id, v)
    <3> DEFINE z == stakingSyntheticDenom(v)
    <3>1. z \in SynthDenoms /\ z # l.denom
      BY <1>1, DenomFacts
    <3>2. Bonded(st, id, v) <=> HasAnySyntheticLockups(st, id) /\ z = s.denom
      BY <1>5 DEF Bonded, HasAnySyntheticLockups, SynthsOf
    <3>3. Bonded(r, id, v) <=> Bonded(st, id, v)
      BY <1>6 DEF Bonded
    <3> HIDE DEF z
    <3>4. GetPeriodLocksAccumulation(r, z, UnbondingTime) =
            GetPeriodLocksAccumulation(st, z, UnbondingTime) + 0 + (IF Bonded(st, id, v) THEN a ELSE 0)
      BY <1>3, <1>4, <3>1, <3>2, UnbondingTimeFacts
    <3>5. GetPeriodLocksAccumulation(st, z, UnbondingTime) \in Int
      BY <1>1, <3>1, CountInt, UnbondingTimeFacts
    <3>6. BondWeight(r, id, v) = (IF Bonded(st, id, v) THEN l.amount + a ELSE 0)
      BY <1>2, <1>6, <3>3 DEF BondWeight
    <3>7. BondWeight(st, id, v) = (IF Bonded(st, id, v) THEN l.amount ELSE 0)
      BY DEF BondWeight, l
    <3>8. GetPeriodLocksAccumulation(r, z, UnbondingTime) =
            GetPeriodLocksAccumulation(st, z, UnbondingTime) + BondWeight(r, id, v) - BondWeight(st, id, v)
      BY <1>1, <3>4, <3>5, <3>6, <3>7
    <3> QED
      BY <3>8 DEF GetTotalSyntheticAssetsLocked, z
  <2> QED
    BY <2>3, <2>4, <2>5 DEF Moved
<1>8. Reindexed(st, r, id, RefsOf(id, m))
  BY <1>2, <1>6, KeptRefs DEF SameIndex, l
<1>9. \A x \in st.synths : x.id = id => SynthOK(x, m)
  BY <1>2 DEF StoreOK, SynthsOK, l
<1>10. IsUnlocking(m) => m.endTime \in t .. (t + MaxDuration)
  BY <1>2 DEF StoreOK, TimesOK, l
<1>11. StoreOK(r, {}, t)
  BY <1>1, <1>2, <1>4, <1>6, <1>7, <1>8, <1>9, <1>10, SetLockOK
<1> QED
  BY <1>6, <1>11 DEF r, l, m

LEMMA AddTokensOK ==
  ASSUME NEW t \in Nat \ {0}, NEW st, StoreOK(st, {}, t), NEW id \in DOMAIN st.locks, NEW a \in Nat \ {0}
  PROVE  LET r == AddTokensToLockByID(st, id, a)
         IN  /\ StoreOK(r, {}, t)
             /\ r.locks = Put(st.locks, id, WithAmount(st.locks[id], st.locks[id].amount + a))
             /\ r.synths = st.synths /\ r.lastLockID = st.lastLockID
<1> DEFINE l == st.locks[id]
           m == WithAmount(l, l.amount + a)
           s1 == Send(st, l.owner, Module, l.denom, a)
           s2 == setLock(s1, id, m)
           s3 == Increase(s2, l.denom, l.duration, a)
<1>1. /\ st \in Stores /\ id \in Ids /\ l \in Lock /\ l.denom \in Denoms /\ l.duration \in 0 .. MaxDuration
      /\ l.amount \in Nat /\ l.owner \in Owners
  BY StoreLock DEF StoreOK
<1>0. l.amount + a \in Nat \ {0}
  BY <1>1
<1>2. m \in Lock /\ m.denom = l.denom /\ m.duration = l.duration
  BY <1>0, <1>1, WithAmountFacts
<1>3. AddTokensToLockByID(st, id, a) = SynthGrows(st, s3, id, a)
  BY <1>2 DEF AddTokensToLockByID, lock, SynthGrows, WithAmount
<1> HIDE DEF l, m
<1>4. /\ s1 \in Stores /\ SameCount(s1, st) /\ SameIndex(s1, st) /\ SameLocks(s1, st) /\ SameSynths(s1, st)
      /\ \A x \in Denoms : s1.bank[Module][x] = IF x # l.denom THEN st.bank[Module][x] ELSE st.bank[Module][x] + a
  <2>1. l.owner \in Accounts /\ Module \in Accounts /\ l.owner # Module /\ a \in Int
    BY <1>1, AccountFacts
  <2> QED
    BY <1>1, <2>1, SendFacts
<1> HIDE DEF s1
<1>5. /\ s2 \in Stores /\ SameBank(s2, s1) /\ SameCount(s2, s1) /\ SameIndex(s2, s1) /\ SameSynths(s2, s1)
      /\ s2.locks = Put(s1.locks, id, m) /\ s2.lastLockID = s1.lastLockID
  BY <1>1, <1>2, <1>4, SetLockFacts
<1> HIDE DEF s2
<1>6. /\ s3 \in Stores /\ SameBank(s3, s2) /\ SameIndex(s3, s2) /\ SameLocks(s3, s2) /\ SameSynths(s3, s2)
      /\ \A x \in Denoms \cup SynthDenoms, e \in 0 .. MaxDuration :
           GetPeriodLocksAccumulation(s3, x, e) =
             GetPeriodLocksAccumulation(s2, x, e) + (IF x = l.denom /\ e <= l.duration THEN a ELSE 0)
  BY <1>1, <1>5, IncreaseFacts
<1> HIDE DEF s3
<1>7. AmountGrows(st, s3, id, a)
  <2>1. /\ s3.locks = Put(st.locks, id, m) /\ s3.lastLockID = st.lastLockID
        /\ SameIndex(s3, st) /\ SameSynths(s3, st)
    BY <1>4, <1>5, <1>6 DEF SameLocks, SameIndex, SameSynths
  <2>2. ASSUME NEW x \in Denoms
        PROVE  s3.bank[Module][x] = st.bank[Module][x] + (IF x = l.denom THEN a ELSE 0)
    <3>1. st.bank[Module][x] \in Int
      BY <1>1, BalanceInt
    <3> QED
      BY <1>4, <1>5, <1>6, <3>1 DEF SameBank
  <2>3. ASSUME NEW x \in Denoms \cup SynthDenoms, NEW e \in 0 .. MaxDuration
        PROVE  GetPeriodLocksAccumulation(s3, x, e) =
                 GetPeriodLocksAccumulation(st, x, e) + (IF x = l.denom /\ e <= l.duration THEN a ELSE 0)
    BY <1>4, <1>5, <1>6, SameCounted
  <2> QED
    BY <1>6, <2>1, <2>2, <2>3 DEF AmountGrows, l, m
<1> QED
  BY <1>0, <1>2, <1>3, <1>7, AmountOK DEF l

LEMMA SlashTokensOK ==
  ASSUME NEW t \in Nat \ {0}, NEW st, StoreOK(st, {}, t), NEW id \in DOMAIN st.locks, NEW n \in Nat,
         n < st.locks[id].amount
  PROVE  LET r == SlashTokensFromLockByID(st, id, n)
         IN  /\ StoreOK(r, {}, t)
             /\ r.locks = Put(st.locks, id, WithAmount(st.locks[id], st.locks[id].amount - n))
             /\ r.synths = st.synths /\ r.lastLockID = st.lastLockID
<1> DEFINE l == st.locks[id]
           a == -n
           m == WithAmount(l, l.amount + a)
           s1 == Send(st, Module, CommunityPool, l.denom, n)
           s2 == setLock(s1, id, m)
           s3 == Increase(s2, l.denom, l.duration, a)
<1>1. /\ st \in Stores /\ id \in Ids /\ l \in Lock /\ l.denom \in Denoms /\ l.duration \in 0 .. MaxDuration
      /\ l.amount \in Nat /\ l.owner \in Owners
  BY StoreLock DEF StoreOK
<1>0. a \in Int /\ l.amount + a = l.amount - n /\ l.amount + a \in Nat \ {0}
  BY <1>1
<1>2. m \in Lock /\ m.denom = l.denom /\ m.duration = l.duration /\ m = WithAmount(l, l.amount - n)
  BY <1>0, <1>1, WithAmountFacts
<1>3. SlashTokensFromLockByID(st, id, n) = SynthGrows(st, s3, id, a)
  <2>1. SlashTokensFromLockByID(st, id, n) =
          SynthGrows(st, Increase(setLock(s1, id, WithAmount(l, l.amount - n)), l.denom, l.duration, a), id, a)
    BY DEF SlashTokensFromLockByID, SynthGrows, WithAmount
  <2> HIDE DEF l, m, s1, a
  <2> QED
    BY <1>2, <2>1
<1> HIDE DEF l, m, a
<1>4. /\ s1 \in Stores /\ SameCount(s1, st) /\ SameIndex(s1, st) /\ SameLocks(s1, st) /\ SameSynths(s1, st)
      /\ \A x \in Denoms : s1.bank[Module][x] = IF x # l.denom THEN st.bank[Module][x] ELSE st.bank[Module][x] - n
  BY <1>1, AccountFacts, SendFacts, SMTT(30)
<1> HIDE DEF s1
<1>5. /\ s2 \in Stores /\ SameBank(s2, s1) /\ SameCount(s2, s1) /\ SameIndex(s2, s1) /\ SameSynths(s2, s1)
      /\ s2.locks = Put(s1.locks, id, m) /\ s2.lastLockID = s1.lastLockID
  BY <1>1, <1>2, <1>4, SetLockFacts
<1> HIDE DEF s2
<1>6. /\ s3 \in Stores /\ SameBank(s3, s2) /\ SameIndex(s3, s2) /\ SameLocks(s3, s2) /\ SameSynths(s3, s2)
      /\ \A x \in Denoms \cup SynthDenoms, e \in 0 .. MaxDuration :
           GetPeriodLocksAccumulation(s3, x, e) =
             GetPeriodLocksAccumulation(s2, x, e) + (IF x = l.denom /\ e <= l.duration THEN a ELSE 0)
  BY <1>0, <1>1, <1>5, IncreaseFacts, SMTT(30)
<1> HIDE DEF s3
<1>7. AmountGrows(st, s3, id, a)
  <2>1. /\ s3.locks = Put(st.locks, id, m) /\ s3.lastLockID = st.lastLockID
        /\ SameIndex(s3, st) /\ SameSynths(s3, st)
    BY <1>4, <1>5, <1>6 DEF SameLocks, SameIndex, SameSynths
  <2>2. ASSUME NEW x \in Denoms
        PROVE  s3.bank[Module][x] = st.bank[Module][x] + (IF x = l.denom THEN a ELSE 0)
    <3>1. st.bank[Module][x] \in Int
      BY <1>1, BalanceInt
    <3> QED
      BY <1>4, <1>5, <1>6, <3>1 DEF SameBank, a
  <2>3. ASSUME NEW x \in Denoms \cup SynthDenoms, NEW e \in 0 .. MaxDuration
        PROVE  GetPeriodLocksAccumulation(s3, x, e) =
                 GetPeriodLocksAccumulation(st, x, e) + (IF x = l.denom /\ e <= l.duration THEN a ELSE 0)
    BY <1>4, <1>5, <1>6, SameCounted
  <2> QED
    BY <1>6, <2>1, <2>2, <2>3 DEF AmountGrows, l, m
<1>8. LET r == SynthGrows(st, s3, id, a)
      IN  /\ StoreOK(r, {}, t) /\ r.locks = Put(st.locks, id, m)
          /\ r.synths = st.synths /\ r.lastLockID = st.lastLockID
  BY <1>0, <1>7, AmountOK DEF l, m
<1> QED
  BY <1>2, <1>3, <1>8 DEF l

\* A step that neither moves tokens nor changes what a lock counts for
LEMMA NothingMoved ==
  ASSUME NEW st \in Stores, NEW r \in Stores, NEW id \in DOMAIN st.locks, SameBank(r, st), SameCount(r, st),
         SameSynths(r, st), NEW m, r.locks = Put(st.locks, id, m), m.denom = st.locks[id].denom,
         m.duration = st.locks[id].duration, m.amount = st.locks[id].amount
  PROVE  Moved(st, r, id)
<1>1. id \in Ids /\ id \in DOMAIN r.locks /\ r.locks[id] = m
  BY StoreLock, PutAt
<1>2. \A x, e : WeightOf(r.locks, id, x, e) = WeightOf(st.locks, id, x, e)
  BY <1>1 DEF WeightOf, Weight
<1>3. \A v : BondWeight(r, id, v) = BondWeight(st, id, v)
  BY <1>1 DEF BondWeight, Bonded, SameSynths
<1>4. \A d \in Denoms, e \in 0 .. MaxDuration :
        WeightOf(st.locks, id, d, e) \in Int /\ GetPeriodLocksAccumulation(st, d, e) \in Int
  BY <1>1, StoreFields, WeightOfInt, CountInt
<1>5. \A v \in Vals : BondWeight(st, id, v) \in Int
                      /\ GetPeriodLocksAccumulation(st, stakingSyntheticDenom(v), UnbondingTime) \in Int
  BY <1>1, BondWeightInt, CountInt, UnbondingTimeFacts, DenomFacts
<1>6. \A d \in Denoms : st.bank[Module][d] \in Int /\ r.bank[Module][d] = st.bank[Module][d]
  BY BalanceInt DEF SameBank
<1>7. 0 \in 0 .. MaxDuration
  BY UnbondingTimeFacts
<1>8. \A d, e : GetPeriodLocksAccumulation(r, d, e) = GetPeriodLocksAccumulation(st, d, e)
  BY SameCounted
<1> QED
  BY <1>2, <1>3, <1>4, <1>5, <1>6, <1>7, <1>8 DEF Moved, GetTotalSyntheticAssetsLocked

\* beginUnlock of a whole lock
StartUnlock(st, id, t) ==
  LET l == st.locks[id]
      unref == deleteLockRefs(st, FALSE, id, l)
  IN  addLockRefs(setLock(unref, id, [l EXCEPT !.endTime = t + l.duration]), id)

WithEnd(l, t) == [l EXCEPT !.endTime = t]

LEMMA StartUnlockOK ==
  ASSUME NEW t \in Nat \ {0}, NEW st, NEW D, NEW id \in DOMAIN st.locks, D \subseteq {id}, StoreOK(st, D, t),
         ~ IsUnlocking(st.locks[id]), \A s \in st.synths : s.id = id => IsUnlocking(s)
  PROVE  LET r == StartUnlock(st, id, t)
         IN  /\ StoreOK(r, {}, t)
             /\ r.locks = Put(st.locks, id, WithEnd(st.locks[id], t + st.locks[id].duration))
             /\ r.synths = st.synths /\ r.lastLockID = st.lastLockID
<1> DEFINE l == st.locks[id]
           m == WithEnd(l, t + l.duration)
           s1 == deleteLockRefs(st, FALSE, id, l)
           s2 == setLock(s1, id, m)
           r == addLockRefs(s2, id)
<1>1. /\ st \in Stores /\ id \in Ids /\ l \in Lock /\ l.denom \in Denoms /\ l.duration \in 0 .. MaxDuration
      /\ id <= st.lastLockID
  BY StoreLock DEF StoreOK, Numbered
<1>2. /\ m \in Lock /\ m.denom = l.denom /\ m.duration = l.duration /\ m.amount = l.amount
      /\ m.endTime = t + l.duration /\ IsUnlocking(m) /\ m.endTime \in t .. (t + MaxDuration)
  BY <1>1, UnbondingTimeFacts DEF WithEnd, Lock, IsUnlocking, NoTime
<1>3. StartUnlock(st, id, t) = r
  BY DEF StartUnlock, WithEnd
<1> HIDE DEF m
<1>4. /\ s1 \in Stores /\ s1.refs = st.refs \ lockRefKeys(FALSE, id, l)
      /\ SameBank(s1, st) /\ SameCount(s1, st) /\ SameLocks(s1, st) /\ SameSynths(s1, st)
  BY <1>1, DeleteLockRefsFacts
<1> HIDE DEF s1
<1>5. /\ s2 \in Stores /\ SameBank(s2, s1) /\ SameCount(s2, s1) /\ SameIndex(s2, s1) /\ SameSynths(s2, s1)
      /\ s2.locks = Put(s1.locks, id, m) /\ s2.lastLockID = s1.lastLockID
  BY <1>1, <1>2, <1>4, SetLockFacts
<1> HIDE DEF s2
<1>6. id \in DOMAIN s2.locks /\ s2.locks[id] = m
  BY <1>5, PutAt
<1>7. /\ r \in Stores /\ r.refs = s2.refs \cup RefsOf(id, m)
      /\ SameBank(r, s2) /\ SameCount(r, s2) /\ SameLocks(r, s2) /\ SameSynths(r, s2)
  BY <1>5, <1>6, AddLockRefsFacts
<1> HIDE DEF r
<1>8. /\ r.locks = Put(st.locks, id, m) /\ r.synths = st.synths /\ r.lastLockID = st.lastLockID
      /\ r.refs = (st.refs \ lockRefKeys(FALSE, id, l)) \cup RefsOf(id, m)
      /\ SameBank(r, st) /\ SameCount(r, st) /\ SameSynths(r, st)
  BY <1>4, <1>5, <1>7 DEF SameLocks, SameSynths, SameIndex, SameBank, SameCount
<1>9. Reindexed(st, r, id, RefsOf(id, m))
  <2>1. IsUnlocking(st.locks[id]) = FALSE
    BY DEF IsUnlocking
  <2> QED
    BY <1>2, <1>8, <2>1, ReplacedRefs
<1>10. Moved(st, r, id)
  BY <1>1, <1>2, <1>7, <1>8, NothingMoved
<1>11. ASSUME NEW s \in st.synths, s.id = id
       PROVE  SynthOK(s, m)
  <2>1. SynthOK(s, l) /\ IsUnlocking(s) /\ s.endTime <= t + UnbondingTime
    BY <1>11 DEF StoreOK, SynthsOK, TimesOK
  <2>2. s.endTime \in Nat
    BY <1>1, StoreFields DEF Synth
  <2>3. s.endTime <= m.endTime
    BY <1>1, <1>2, <2>1, <2>2, UnbondingTimeFacts DEF SynthOK
  <2> HIDE DEF l
  <2> QED
    BY <1>2, <2>1, <2>3 DEF SynthOK
<1>12. st.lastLockID <= r.lastLockID /\ id <= r.lastLockID
  BY <1>1, <1>8, StoreFields
<1>13. StoreOK(r, {}, t)
  BY <1>1, <1>2, <1>7, <1>8, <1>9, <1>10, <1>11, <1>12, SetLockOK
<1> QED
  BY <1>3, <1>8, <1>13 DEF m

LEMMA UnlockMaturedOK ==
  ASSUME NEW t \in Nat \ {0}, NEW st, NEW D, NEW id \in DOMAIN st.locks, D \subseteq {id}, StoreOK(st, D, t),
         IsUnlocking(st.locks[id]), \A s \in st.synths : s.id # id
  PROVE  LET r == unlockMaturedLockInternalLogic(st, id)
         IN  /\ StoreOK(r, {}, t) /\ r.locks = Without(st.locks, id)
             /\ r.synths = st.synths /\ r.lastLockID = st.lastLockID
<1> DEFINE l == st.locks[id]
           a == l.amount
           s1 == Send(st, Module, l.owner, l.denom, a)
           s2 == deleteLock(s1, id)
           s3 == deleteLockRefs(s2, TRUE, id, l)
           r == Increase(s3, l.denom, l.duration, -a)
<1>1. /\ st \in Stores /\ id \in Ids /\ l \in Lock /\ l.denom \in Denoms /\ l.duration \in 0 .. MaxDuration
      /\ l.amount \in Nat /\ l.owner \in Owners
  BY StoreLock DEF StoreOK
<1>2. unlockMaturedLockInternalLogic(st, id) = r
  BY DEF unlockMaturedLockInternalLogic
<1>3. /\ s1 \in Stores /\ SameCount(s1, st) /\ SameIndex(s1, st) /\ SameLocks(s1, st) /\ SameSynths(s1, st)
      /\ \A x \in Denoms : s1.bank[Module][x] = IF x # l.denom THEN st.bank[Module][x] ELSE st.bank[Module][x] - a
  <2>1. l.owner \in Accounts /\ Module \in Accounts /\ l.owner # Module /\ a \in Int
    BY <1>1, AccountFacts
  <2> HIDE DEF l
  <2> QED
    BY <1>1, <2>1, SendFacts
<1> HIDE DEF s1
<1>4. /\ s2 \in Stores /\ SameBank(s2, s1) /\ SameCount(s2, s1) /\ SameIndex(s2, s1) /\ SameSynths(s2, s1)
      /\ s2.locks = Without(s1.locks, id) /\ s2.lastLockID = s1.lastLockID
  BY <1>3, DeleteLockFacts
<1> HIDE DEF s2
<1>5. /\ s3 \in Stores /\ s3.refs = s2.refs \ lockRefKeys(TRUE, id, l)
      /\ SameBank(s3, s2) /\ SameCount(s3, s2) /\ SameLocks(s3, s2) /\ SameSynths(s3, s2)
  BY <1>4, DeleteLockRefsFacts
<1> HIDE DEF s3
<1>6. /\ r \in Stores /\ SameBank(r, s3) /\ SameIndex(r, s3) /\ SameLocks(r, s3) /\ SameSynths(r, s3)
      /\ \A x \in Denoms \cup SynthDenoms, e \in 0 .. MaxDuration :
           GetPeriodLocksAccumulation(r, x, e) =
             GetPeriodLocksAccumulation(s3, x, e) + (IF x = l.denom /\ e <= l.duration THEN -a ELSE 0)
  <2>1. -a \in Int
    BY <1>1
  <2> HIDE DEF l, a
  <2> QED
    BY <1>1, <1>5, <2>1, IncreaseFacts
<1> HIDE DEF r
<1>7. /\ r.locks = Without(st.locks, id) /\ r.synths = st.synths /\ r.lastLockID = st.lastLockID
      /\ r.refs = st.refs \ lockRefKeys(TRUE, id, l)
  BY <1>3, <1>4, <1>5, <1>6 DEF SameLocks, SameSynths, SameIndex
<1>8. Reindexed(st, r, id, {})
  <2>1. IsUnlocking(st.locks[id]) = TRUE
    BY DEF IsUnlocking
  <2> QED
    BY <1>7, <2>1, RemovedRefs
<1>9. id \notin DOMAIN r.locks
  BY <1>7 DEF Without, Restrict
<1>10. Moved(st, r, id)
  <2>2. ASSUME NEW x \in Denoms, NEW e \in 0 .. MaxDuration
        PROVE  WeightOf(r.locks, id, x, e) - WeightOf(st.locks, id, x, e) =
                 (IF x = l.denom /\ e <= l.duration THEN -a ELSE 0)
    BY <1>1, <1>9 DEF WeightOf, Weight
  <2>3. ASSUME NEW x \in Denoms
        PROVE  r.bank[Module][x] = st.bank[Module][x] + WeightOf(r.locks, id, x, 0) - WeightOf(st.locks, id, x, 0)
    <3>1. r.bank[Module][x] = IF x # l.denom THEN st.bank[Module][x] ELSE st.bank[Module][x] - a
      BY <1>3, <1>4, <1>5, <1>6 DEF SameBank
    <3>2. st.bank[Module][x] \in Int /\ 0 \in 0 .. MaxDuration /\ 0 <= l.duration
      BY <1>1, BalanceInt, UnbondingTimeFacts
    <3>3. WeightOf(r.locks, id, x, 0) \in Int /\ WeightOf(st.locks, id, x, 0) \in Int
      BY <1>1, <1>6, StoreFields, WeightOfInt
    <3> HIDE DEF l
    <3> QED
      BY <1>1, <2>2, <3>1, <3>2, <3>3
  <2>4. ASSUME NEW x \in Denoms, NEW e \in 0 .. MaxDuration
        PROVE  GetPeriodLocksAccumulation(r, x, e) =
                 GetPeriodLocksAccumulation(st, x, e) + WeightOf(r.locks, id, x, e) - WeightOf(st.locks, id, x, e)
    <3>1. GetPeriodLocksAccumulation(r, x, e) =
            GetPeriodLocksAccumulation(st, x, e) + (IF x = l.denom /\ e <= l.duration THEN -a ELSE 0)
      BY <1>3, <1>4, <1>5, <1>6, SameCounted
    <3>2. GetPeriodLocksAccumulation(st, x, e) \in Int
      BY <1>1, CountInt
    <3>3. WeightOf(r.locks, id, x, e) \in Int /\ WeightOf(st.locks, id, x, e) \in Int
      BY <1>1, <1>6, StoreFields, WeightOfInt
    <3> HIDE DEF l
    <3> QED
      BY <1>1, <2>2, <3>1, <3>2, <3>3
  <2>5. ASSUME NEW v \in Vals
        PROVE  GetTotalSyntheticAssetsLocked(r, stakingSyntheticDenom(v)) =
                 GetTotalSyntheticAssetsLocked(st, stakingSyntheticDenom(v))
                   + BondWeight(r, id, v) - BondWeight(st, id, v)
    <3>1. stakingSyntheticDenom(v) \in SynthDenoms /\ stakingSyntheticDenom(v) # l.denom
      BY <1>1, DenomFacts
    <3>3. GetPeriodLocksAccumulation(r, stakingSyntheticDenom(v), UnbondingTime) =
            GetPeriodLocksAccumulation(st, stakingSyntheticDenom(v), UnbondingTime) + 0
      BY <3>1, <1>3, <1>4, <1>5, <1>6, SameCounted, UnbondingTimeFacts
    <3>4. GetPeriodLocksAccumulation(st, stakingSyntheticDenom(v), UnbondingTime) \in Int
      BY <1>1, <3>1, CountInt, UnbondingTimeFacts
    <3>5. BondWeight(r, id, v) = 0 /\ BondWeight(st, id, v) = 0
      BY <1>7 DEF BondWeight, Bonded
    <3> QED
      BY <3>3, <3>4, <3>5 DEF GetTotalSyntheticAssetsLocked
  <2> QED
    BY <2>3, <2>4, <2>5 DEF Moved
<1>11. StoreOK(r, {}, t)
  BY <1>6, <1>7, <1>8, <1>10, RemoveLockOK
<1> QED
  BY <1>2, <1>7, <1>11

WithDuration(l, u) == [l EXCEPT !.duration = u]

LEMMA ExtendLockupOK ==
  ASSUME NEW t \in Nat \ {0}, NEW st, NEW id \in DOMAIN st.locks, StoreOK(st, {}, t), NEW u \in 0 .. MaxDuration,
         ~ IsUnlocking(st.locks[id]), \A s \in st.synths : s.id # id
  PROVE  LET r == ExtendLockup(st, id, u)
         IN  /\ StoreOK(r, {}, t) /\ r.locks = Put(st.locks, id, WithDuration(st.locks[id], u))
             /\ r.synths = st.synths /\ r.lastLockID = st.lastLockID
<1> DEFINE l == st.locks[id]
           a == l.amount
           m == WithDuration(l, u)
           s1 == deleteLockRefs(st, FALSE, id, l)
           s2 == Increase(s1, l.denom, l.duration, -a)
           s3 == Increase(s2, l.denom, u, a)
           s4 == setLock(s3, id, m)
           r == addLockRefs(s4, id)
<1>1. /\ st \in Stores /\ id \in Ids /\ l \in Lock /\ l.denom \in Denoms /\ l.duration \in 0 .. MaxDuration
      /\ a \in Nat /\ -a \in Int /\ id <= st.lastLockID
  BY StoreLock DEF StoreOK, Numbered
<1>2. /\ m \in Lock /\ m.denom = l.denom /\ m.duration = u /\ m.amount = a
      /\ m.endTime = l.endTime /\ ~ IsUnlocking(m)
  BY <1>1 DEF WithDuration, Lock, IsUnlocking
<1>3. ExtendLockup(st, id, u) = r
  BY DEF ExtendLockup, WithDuration
<1> HIDE DEF m, a
<1>4. /\ s1 \in Stores /\ s1.refs = st.refs \ lockRefKeys(FALSE, id, l)
      /\ SameBank(s1, st) /\ SameCount(s1, st) /\ SameLocks(s1, st) /\ SameSynths(s1, st)
  BY <1>1, DeleteLockRefsFacts
<1> HIDE DEF s1
<1>5. /\ s2 \in Stores /\ SameBank(s2, s1) /\ SameIndex(s2, s1) /\ SameLocks(s2, s1) /\ SameSynths(s2, s1)
      /\ \A x \in Denoms \cup SynthDenoms, e \in 0 .. MaxDuration :
           GetPeriodLocksAccumulation(s2, x, e) =
             GetPeriodLocksAccumulation(s1, x, e) + (IF x = l.denom /\ e <= l.duration THEN -a ELSE 0)
  <2> HIDE DEF l
  <2> QED
    BY <1>1, <1>4, IncreaseFacts, SMTT(30)
<1> HIDE DEF s2
<1>6. /\ s3 \in Stores /\ SameBank(s3, s2) /\ SameIndex(s3, s2) /\ SameLocks(s3, s2) /\ SameSynths(s3, s2)
      /\ \A x \in Denoms \cup SynthDenoms, e \in 0 .. MaxDuration :
           GetPeriodLocksAccumulation(s3, x, e) =
             GetPeriodLocksAccumulation(s2, x, e) + (IF x = l.denom /\ e <= u THEN a ELSE 0)
  <2> HIDE DEF l
  <2> QED
    BY <1>1, <1>5, IncreaseFacts, SMTT(30)
<1> HIDE DEF s3
<1>7. /\ s4 \in Stores /\ SameBank(s4, s3) /\ SameCount(s4, s3) /\ SameIndex(s4, s3) /\ SameSynths(s4, s3)
      /\ s4.locks = Put(s3.locks, id, m) /\ s4.lastLockID = s3.lastLockID
  BY <1>1, <1>2, <1>6, SetLockFacts
<1> HIDE DEF s4
<1>8. id \in DOMAIN s4.locks /\ s4.locks[id] = m
  BY <1>7, PutAt
<1>9. /\ r \in Stores /\ r.refs = s4.refs \cup RefsOf(id, m)
      /\ SameBank(r, s4) /\ SameCount(r, s4) /\ SameLocks(r, s4) /\ SameSynths(r, s4)
  BY <1>7, <1>8, AddLockRefsFacts
<1> HIDE DEF r
<1>10. /\ r.locks = Put(st.locks, id, m) /\ r.synths = st.synths /\ r.lastLockID = st.lastLockID
       /\ r.refs = (st.refs \ lockRefKeys(FALSE, id, l)) \cup RefsOf(id, m)
       /\ r.bank = st.bank
  BY <1>4, <1>5, <1>6, <1>7, <1>9 DEF SameLocks, SameSynths, SameIndex, SameBank
<1>11. Reindexed(st, r, id, RefsOf(id, m))
  <2>1. IsUnlocking(st.locks[id]) = FALSE
    BY DEF IsUnlocking
  <2> QED
    BY <1>2, <1>10, <2>1, ReplacedRefs
<1>12. Moved(st, r, id)
  <2>1. id \in DOMAIN r.locks /\ r.locks[id] = m
    BY <1>8, <1>9 DEF SameLocks
  <2>2. ASSUME NEW x \in Denoms, NEW e \in 0 .. MaxDuration
        PROVE  /\ WeightOf(r.locks, id, x, e) = (IF x = l.denom /\ e <= u THEN a ELSE 0)
               /\ WeightOf(st.locks, id, x, e) = (IF x = l.denom /\ e <= l.duration THEN a ELSE 0)
    BY <1>1, <1>2, <2>1 DEF WeightOf, Weight, a
  <2>3. ASSUME NEW x \in Denoms
        PROVE  r.bank[Module][x] = st.bank[Module][x] + WeightOf(r.locks, id, x, 0) - WeightOf(st.locks, id, x, 0)
    <3>1. r.bank[Module][x] = st.bank[Module][x] /\ st.bank[Module][x] \in Int
      BY <1>1, <1>10, BalanceInt
    <3>2. 0 \in 0 .. MaxDuration /\ 0 <= l.duration /\ 0 <= u
      BY <1>1, UnbondingTimeFacts
    <3> HIDE DEF l
    <3> QED
      BY <1>1, <2>2, <3>1, <3>2
  <2>4. ASSUME NEW x \in Denoms, NEW e \in 0 .. MaxDuration
        PROVE  GetPeriodLocksAccumulation(r, x, e) =
                 GetPeriodLocksAccumulation(st, x, e) + WeightOf(r.locks, id, x, e) - WeightOf(st.locks, id, x, e)
    <3>1. GetPeriodLocksAccumulation(r, x, e) =
            GetPeriodLocksAccumulation(st, x, e) + (IF x = l.denom /\ e <= l.duration THEN -a ELSE 0)
              + (IF x = l.denom /\ e <= u THEN a ELSE 0)
      BY <1>4, <1>5, <1>6, <1>7, <1>9, SameCounted
    <3>2. GetPeriodLocksAccumulation(st, x, e) \in Int
      BY <1>1, CountInt
    <3> HIDE DEF l
    <3> QED
      BY <1>1, <2>2, <3>1, <3>2
  <2>5. ASSUME NEW v \in Vals
        PROVE  GetTotalSyntheticAssetsLocked(r, stakingSyntheticDenom(v)) =
                 GetTotalSyntheticAssetsLocked(st, stakingSyntheticDenom(v))
                   + BondWeight(r, id, v) - BondWeight(st, id, v)
    <3>1. stakingSyntheticDenom(v) \in SynthDenoms /\ stakingSyntheticDenom(v) # l.denom
      BY <1>1, DenomFacts
    <3>3. GetPeriodLocksAccumulation(r, stakingSyntheticDenom(v), UnbondingTime) =
            GetPeriodLocksAccumulation(st, stakingSyntheticDenom(v), UnbondingTime) + 0 + 0
      BY <3>1, <1>4, <1>5, <1>6, <1>7, <1>9, SameCounted, UnbondingTimeFacts
    <3>4. GetPeriodLocksAccumulation(st, stakingSyntheticDenom(v), UnbondingTime) \in Int
      BY <1>1, <3>1, CountInt, UnbondingTimeFacts
    <3>5. BondWeight(r, id, v) = 0 /\ BondWeight(st, id, v) = 0
      BY <1>10 DEF BondWeight, Bonded
    <3> QED
      BY <3>3, <3>4, <3>5 DEF GetTotalSyntheticAssetsLocked
  <2> QED
    BY <2>3, <2>4, <2>5 DEF Moved
<1>13. st.lastLockID <= r.lastLockID /\ id <= r.lastLockID
  BY <1>1, <1>10, StoreFields
<1>14. StoreOK(r, {}, t)
  BY <1>1, <1>2, <1>9, <1>10, <1>11, <1>12, <1>13, SetLockOK
<1> QED
  BY <1>3, <1>10, <1>14 DEF m

LEMMA SplitLockOK ==
  ASSUME NEW t \in Nat \ {0}, NEW st, NEW id \in DOMAIN st.locks, StoreOK(st, {}, t), NEW a \in Nat \ {0},
         a < st.locks[id].amount, st.lastLockID < MaxLocks, \A s \in st.synths : s.id = id => IsUnlocking(s)
  PROVE  LET r == SplitLock(st, id, a)
             new == st.lastLockID + 1
         IN  /\ StoreOK(r, {new}, t) /\ new \in Ids /\ new \notin DOMAIN st.locks
             /\ r.locks = Put(Put(st.locks, id, WithAmount(st.locks[id], st.locks[id].amount - a)),
                              new, WithAmount(st.locks[id], a))
             /\ r.synths = st.synths /\ r.lastLockID = new
<1> DEFINE l == st.locks[id]
           b == l.amount - a
           new == st.lastLockID + 1
           s1 == setLock(st, id, WithAmount(l, b))
           s2 == setLock(s1, new, WithAmount(l, a))
           r == [s2 EXCEPT !.lastLockID = new]
<1>1. /\ st \in Stores /\ id \in Ids /\ l \in Lock /\ l.denom \in Denoms /\ l.duration \in 0 .. MaxDuration
      /\ l.amount \in Nat /\ id <= st.lastLockID /\ st.lastLockID \in 0 .. MaxLocks /\ st.locks \in PartialLocks
  BY StoreLock, StoreFields DEF StoreOK, Numbered
<1>2. b \in Nat \ {0} /\ a + b = l.amount
  BY <1>1
<1>3. new \in Ids /\ new \notin DOMAIN st.locks /\ new # id /\ new \in 0 .. MaxLocks
  BY <1>1, UnbondingTimeFacts DEF Ids, StoreOK, Numbered
<1>4. \A s \in st.synths : s.id # new
  BY <1>3 DEF StoreOK, SynthsOK
<1>5. SplitLock(st, id, a) = r
  BY DEF SplitLock, WithAmount
<1>6. /\ WithAmount(l, b) \in Lock /\ WithAmount(l, a) \in Lock
      /\ WithAmount(l, b).amount = b /\ WithAmount(l, a).amount = a
      /\ WithAmount(l, b).denom = l.denom /\ WithAmount(l, a).denom = l.denom
      /\ WithAmount(l, b).duration = l.duration /\ WithAmount(l, a).duration = l.duration
      /\ WithAmount(l, b).endTime = l.endTime /\ WithAmount(l, a).endTime = l.endTime
      /\ IsUnlocking(WithAmount(l, b)) = IsUnlocking(l) /\ IsUnlocking(WithAmount(l, a)) = IsUnlocking(l)
      /\ RefsOf(id, WithAmount(l, b)) = RefsOf(id, l)
      /\ \A s : SynthOK(s, l) => SynthOK(s, WithAmount(l, b))
  <2> HIDE DEF l, b
  <2>1. /\ WithAmount(l, b) \in Lock /\ WithAmount(l, b).amount = b /\ WithAmount(l, b).denom = l.denom
        /\ WithAmount(l, b).duration = l.duration /\ WithAmount(l, b).endTime = l.endTime
        /\ IsUnlocking(WithAmount(l, b)) = IsUnlocking(l)
        /\ RefsOf(id, WithAmount(l, b)) = RefsOf(id, l)
        /\ \A s : SynthOK(s, l) => SynthOK(s, WithAmount(l, b))
    BY <1>1, <1>2, WithAmountFacts
  <2>2. /\ WithAmount(l, a) \in Lock /\ WithAmount(l, a).amount = a /\ WithAmount(l, a).denom = l.denom
        /\ WithAmount(l, a).duration = l.duration /\ WithAmount(l, a).endTime = l.endTime
        /\ IsUnlocking(WithAmount(l, a)) = IsUnlocking(l)
    BY <1>1, WithAmountFacts
  <2> QED
    BY <2>1, <2>2
<1> HIDE DEF b, new
<1>7. /\ s1 \in Stores /\ SameBank(s1, st) /\ SameCount(s1, st) /\ SameIndex(s1, st) /\ SameSynths(s1, st)
      /\ s1.locks = Put(st.locks, id, WithAmount(l, b))
  BY <1>1, <1>6, SetLockFacts
<1> HIDE DEF s1
<1>8. /\ s2 \in Stores /\ SameBank(s2, s1) /\ SameCount(s2, s1) /\ SameIndex(s2, s1) /\ SameSynths(s2, s1)
      /\ s2.locks = Put(s1.locks, new, WithAmount(l, a))
  BY <1>3, <1>6, <1>7, SetLockFacts
<1> HIDE DEF s2
<1>9. /\ r \in Stores /\ r.lastLockID = new /\ r.locks = s2.locks
      /\ SameBank(r, s2) /\ SameCount(r, s2) /\ SameIndex(r, s2) /\ SameSynths(r, s2)
  BY <1>3, <1>8, LastLockFacts
<1> HIDE DEF r
<1>10. r.synths = st.synths /\ r.refs = st.refs /\ r.bank = st.bank /\ SameCount(r, st) /\ s1.synths = st.synths
  BY <1>7, <1>8, <1>9 DEF SameBank, SameCount, SameIndex, SameSynths
<1>11. s1.locks \in PartialLocks /\ r.locks \in PartialLocks
  BY <1>7, <1>9, StoreFields
<1>12. /\ DOMAIN s1.locks = DOMAIN st.locks /\ s1.locks[id] = WithAmount(l, b)
       /\ \A y \in DOMAIN st.locks : y # id => s1.locks[y] = st.locks[y]
  <2> DEFINE m == WithAmount(l, b)
             f == st.locks
  <2>0. m \in Lock /\ f \in PartialLocks /\ id \in Ids
    BY <1>1, <1>6
  <2> HIDE DEF l, m, f
  <2>1. /\ DOMAIN Put(f, id, m) = DOMAIN f \cup {id} /\ Put(f, id, m)[id] = m
        /\ \A y \in DOMAIN f : y # id => Put(f, id, m)[y] = f[y]
    BY ONLY <2>0, PutFacts, ZenonT(60)
  <2>2. s1.locks = Put(f, id, m)
    BY <1>7 DEF m, f
  <2>3. id \in DOMAIN f
    BY DEF f
  <2>4. /\ DOMAIN s1.locks = DOMAIN f /\ s1.locks[id] = m
        /\ \A y \in DOMAIN f : y # id => s1.locks[y] = f[y]
    BY ONLY <2>1, <2>2, <2>3
  <2> QED
    BY <2>4 DEF m, f
<1>13. /\ DOMAIN r.locks = DOMAIN st.locks \cup {new} /\ r.locks[new] = WithAmount(l, a)
       /\ \A y \in DOMAIN st.locks : r.locks[y] = s1.locks[y]
  <2> DEFINE m == WithAmount(l, a)
             f == s1.locks
  <2>0. m \in Lock /\ f \in PartialLocks /\ new \in Ids
    BY <1>3, <1>6, <1>11
  <2>2. r.locks = Put(f, new, m) /\ DOMAIN f = DOMAIN st.locks
    BY <1>8, <1>9, <1>12
  <2> HIDE DEF l, m, f
  <2>1. /\ DOMAIN Put(f, new, m) = DOMAIN f \cup {new} /\ Put(f, new, m)[new] = m
        /\ \A y \in DOMAIN f : y # new => Put(f, new, m)[y] = f[y]
    BY ONLY <2>0, PutFacts
  <2>4. /\ DOMAIN r.locks = DOMAIN st.locks \cup {new} /\ r.locks[new] = m
        /\ \A y \in DOMAIN st.locks : r.locks[y] = f[y]
    BY ONLY <1>3, <2>1, <2>2
  <2> QED
    BY <2>4 DEF m, f
<1>14. ASSUME NEW d, NEW e PROVE Total(r.locks, d, e) = Total(st.locks, d, e)
  <2>1. Total(s1.locks, d, e) = Total(st.locks, d, e) + Weight(WithAmount(l, b), d, e) - WeightOf(st.locks, id, d, e)
    BY <1>1, <1>6, <1>7, TotalPut
  <2>2. Total(r.locks, d, e) = Total(s1.locks, d, e) + Weight(WithAmount(l, a), d, e) - WeightOf(s1.locks, new, d, e)
    BY <1>3, <1>6, <1>8, <1>9, <1>11, TotalPut
  <2>3. WeightOf(s1.locks, new, d, e) = 0 /\ WeightOf(st.locks, id, d, e) = Weight(l, d, e)
    BY <1>3, <1>12 DEF WeightOf
  <2>4. Weight(l, d, e) = Weight(WithAmount(l, b), d, e) + Weight(WithAmount(l, a), d, e)
    BY <1>2, <1>6 DEF Weight
  <2>5. Total(st.locks, d, e) \in Int /\ Weight(WithAmount(l, b), d, e) \in Int /\ Weight(WithAmount(l, a), d, e) \in Int
    BY <1>1, <1>6, TotalInt, WeightInt
  <2> HIDE DEF l
  <2> QED
    BY <2>1, <2>2, <2>3, <2>4, <2>5
<1>15. Backed(r) /\ Counted(r)
  BY <1>10, <1>14, SameCounted DEF StoreOK, Backed, Counted
<1>16. BondCounted(r)
  <2>1. ASSUME NEW v \in Vals PROVE BondTotal(r, v) = BondTotal(st, v)
    <3>0. \A s \in st.synths : s.id = id => s.denom # stakingSyntheticDenom(v)
      BY DenomFacts DEF StoreOK, SynthsOK, SynthOK
    <3>1. BondTotal(s1, v) = BondTotal(st, v) + BondWeight(s1, id, v) - BondWeight(st, id, v)
      BY <1>1, <1>7, <1>10, <1>12, BondTotalChange
    <3>2. BondTotal(r, v) = BondTotal(s1, v) + BondWeight(r, new, v) - BondWeight(s1, new, v)
      BY <1>3, <1>7, <1>9, <1>10, <1>12, <1>13, BondTotalChange
    <3>3. BondWeight(s1, id, v) = 0 /\ BondWeight(st, id, v) = 0
      BY <1>10, <3>0 DEF BondWeight, Bonded
    <3>4. BondWeight(r, new, v) = 0 /\ BondWeight(s1, new, v) = 0
      BY <1>4, <1>10 DEF BondWeight, Bonded
    <3>5. BondTotal(st, v) \in Int
      BY <1>1, BondTotalInt
    <3> QED
      BY <3>1, <3>2, <3>3, <3>4, <3>5
  <2> QED
    BY <1>10, <2>1, SameCounted DEF StoreOK, BondCounted, GetTotalSyntheticAssetsLocked
<1>17. Numbered(r)
  BY <1>1, <1>9, <1>13 DEF Numbered, StoreOK, new
<1>18. SynthsIndexed(r)
  BY <1>10 DEF SynthsIndexed, StoreOK
<1>19. \A y \in DOMAIN st.locks : RefsOf(y, r.locks[y]) = RefsOf(y, st.locks[y])
  BY <1>6, <1>12, <1>13
<1>20. Indexed(r, {new})
  BY <1>3, <1>10, <1>13, <1>19 DEF Indexed, StoreOK
<1>21. SynthsOK(r)
  <2>1. ASSUME NEW s \in r.synths PROVE s.id \in DOMAIN r.locks /\ SynthOK(s, r.locks[s.id])
    <3>1. s.id \in DOMAIN st.locks /\ SynthOK(s, st.locks[s.id])
      BY <1>10 DEF StoreOK, SynthsOK
    <3> QED
      BY <1>6, <1>12, <1>13, <3>1
  <2>2. \A s, x \in r.synths : s.id = x.id => s = x
    BY <1>10 DEF StoreOK, SynthsOK
  <2> QED
    BY <2>1, <2>2 DEF SynthsOK
<1>22. TimesOK(r, t)
  <2>1. ASSUME NEW y \in DOMAIN r.locks, IsUnlocking(r.locks[y]) PROVE r.locks[y].endTime \in t .. (t + MaxDuration)
    <3>1. CASE y = new
      BY <1>6, <1>13, <2>1, <3>1 DEF StoreOK, TimesOK
    <3>2. CASE y = id
      BY <1>6, <1>12, <1>13, <2>1, <3>2 DEF StoreOK, TimesOK
    <3>3. CASE y # id /\ y # new
      BY <1>12, <1>13, <2>1, <3>3 DEF StoreOK, TimesOK
    <3> QED
      BY <3>1, <3>2, <3>3
  <2>2. \A s \in r.synths : s.endTime <= t + UnbondingTime
    BY <1>10 DEF StoreOK, TimesOK
  <2> QED
    BY <2>1, <2>2 DEF TimesOK
<1>23. StoreOK(r, {new}, t)
  BY <1>9, <1>15, <1>16, <1>17, <1>18, <1>20, <1>21, <1>22 DEF StoreOK
<1>24. r.locks = Put(Put(st.locks, id, WithAmount(l, b)), new, WithAmount(l, a))
  BY <1>7, <1>8, <1>9
<1> QED
  BY <1>3, <1>5, <1>9, <1>10, <1>23, <1>24 DEF new, b

----------------------------------------------------------------------------
(* synthetic_lock.go                                                       *)

NewSynth(id, denom, u, t) ==
  [id |-> id, denom |-> denom, duration |-> UnbondingTime, endTime |-> IF u THEN t + UnbondingTime ELSE NoTime]

WithSynths(st, S, R) == [st EXCEPT !.synths = S, !.refs = R]

LEMMA SynthStoreFacts ==
  ASSUME NEW st \in Stores, NEW S \in SUBSET Synth, NEW R \in SUBSET RefType
  PROVE  LET r == WithSynths(st, S, R)
         IN  /\ r \in Stores /\ r.synths = S /\ r.refs = R
             /\ SameBank(r, st) /\ SameCount(r, st) /\ SameLocks(r, st)
BY DEF Stores, WithSynths, SameBank, SameCount, SameLocks

\* Locks and tokens stay, and one synthetic lock comes or goes.
LEMMA SynthChangeOK ==
  ASSUME NEW t, NEW D, NEW st, StoreOK(st, D, t), NEW r \in Stores, SameBank(r, st), SameLocks(r, st),
         NEW id \in Ids, \A s : s.id # id => (s \in st.synths <=> s \in r.synths),
         NEW z \in SynthDenoms, NEW a \in Int, NEW u \in 0 .. MaxDuration, UnbondingTime <= u,
         \A x \in Denoms \cup SynthDenoms, e \in 0 .. MaxDuration :
           GetPeriodLocksAccumulation(r, x, e) = GetPeriodLocksAccumulation(st, x, e) + (IF x = z /\ e <= u THEN a ELSE 0),
         \A v \in Vals : BondWeight(r, id, v) - BondWeight(st, id, v) = (IF stakingSyntheticDenom(v) = z THEN a ELSE 0),
         \A x \in RefType : x.denom \in Denoms => (x \in r.refs <=> x \in st.refs)
  PROVE  Backed(r) /\ Counted(r) /\ BondCounted(r) /\ Numbered(r) /\ Indexed(r, D)
<1>1. st \in Stores /\ r.locks = st.locks
  BY DEF StoreOK, SameLocks
<1>2. Moved(st, r, id)
  <2>1. ASSUME NEW d \in Denoms, NEW e \in 0 .. MaxDuration
        PROVE  /\ WeightOf(st.locks, id, d, e) \in Int /\ GetPeriodLocksAccumulation(st, d, e) \in Int
               /\ GetPeriodLocksAccumulation(r, d, e) = GetPeriodLocksAccumulation(st, d, e) + 0
    BY <1>1, StoreFields, WeightOfInt, CountInt, DenomFacts
  <2>2. ASSUME NEW d \in Denoms
        PROVE  st.bank[Module][d] \in Int /\ r.bank[Module][d] = st.bank[Module][d]
    BY <1>1, BalanceInt DEF SameBank
  <2>3. 0 \in 0 .. MaxDuration
    BY UnbondingTimeFacts
  <2>4. ASSUME NEW v \in Vals
        PROVE  GetTotalSyntheticAssetsLocked(r, stakingSyntheticDenom(v)) =
                 GetTotalSyntheticAssetsLocked(st, stakingSyntheticDenom(v))
                   + BondWeight(r, id, v) - BondWeight(st, id, v)
    <3>1. stakingSyntheticDenom(v) \in SynthDenoms
      BY DenomFacts
    <3>2. GetPeriodLocksAccumulation(r, stakingSyntheticDenom(v), UnbondingTime) =
            GetPeriodLocksAccumulation(st, stakingSyntheticDenom(v), UnbondingTime)
              + (IF stakingSyntheticDenom(v) = z THEN a ELSE 0)
      BY <3>1, UnbondingTimeFacts
    <3>3. GetPeriodLocksAccumulation(st, stakingSyntheticDenom(v), UnbondingTime) \in Int
      BY <1>1, <3>1, CountInt, UnbondingTimeFacts
    <3>4. BondWeight(r, id, v) \in Int /\ BondWeight(st, id, v) \in Int
      BY <1>1, BondWeightInt
    <3> QED
      BY <3>2, <3>3, <3>4 DEF GetTotalSyntheticAssetsLocked
  <2> QED
    BY <1>1, <2>1, <2>2, <2>3, <2>4 DEF Moved
<1>3. Backed(r) /\ Counted(r) /\ BondCounted(r)
  BY <1>1, <1>2, BalanceKept DEF StoreOK
<1>4. Numbered(r) /\ Indexed(r, D)
  BY <1>1 DEF Numbered, Indexed, StoreOK, SameLocks
<1> QED
  BY <1>3, <1>4

LEMMA CreateSynthOK ==
  ASSUME NEW t \in Nat \ {0}, NEW D, NEW st, StoreOK(st, D, t), NEW id \in DOMAIN st.locks, NEW v \in Vals,
         NEW u \in BOOLEAN, NEW z, z = (IF u THEN unstakingSyntheticDenom(v) ELSE stakingSyntheticDenom(v)),
         st.locks[id].denom = Share, UnbondingTime <= st.locks[id].duration, \A s \in st.synths : s.id # id,
         ~ u => ~ IsUnlocking(st.locks[id]),
         IsUnlocking(st.locks[id]) => t + UnbondingTime <= st.locks[id].endTime
  PROVE  LET r == CreateSyntheticLockup(st, id, z, UnbondingTime, u, t)
         IN  /\ StoreOK(r, D, t) /\ r.locks = st.locks /\ r.lastLockID = st.lastLockID
             /\ r.synths = st.synths \cup {NewSynth(id, z, u, t)}
<1> DEFINE l == st.locks[id]
           s == NewSynth(id, z, u, t)
           R == st.refs \cup syntheticLockRefKeys(s)
           S == st.synths \cup {s}
           s1 == WithSynths(st, S, R)
           a == l.amount
           r == Increase(s1, z, UnbondingTime, a)
<1>1. /\ st \in Stores /\ id \in Ids /\ l \in Lock /\ a \in Nat \ {0} /\ a \in Int /\ l.duration \in 0 .. MaxDuration
      /\ st.synths \subseteq Synth /\ st.refs \subseteq RefType
  BY StoreLock, StoreFields DEF StoreOK
<1>2. z \in SynthDenoms /\ z \notin Denoms
  BY DenomFacts
<1>3. /\ s \in Synth /\ s.id = id /\ s.denom = z /\ s.duration = UnbondingTime
      /\ s.endTime = (IF u THEN t + UnbondingTime ELSE 0)
  BY <1>1, <1>2, SuperfluidAssumption, UnbondingTimeFacts DEF NewSynth, Synth, NoTime
<1>4. CreateSyntheticLockup(st, id, z, UnbondingTime, u, t) = r
  BY DEF CreateSyntheticLockup, NewSynth, WithSynths
<1>5. SynthOK(s, l)
  <2>1. IsUnlocking(s) <=> u
    BY <1>3, UnbondingTimeFacts DEF IsUnlocking, NoTime
  <2> HIDE DEF s
  <2>2. CASE u
    BY <1>3, <2>1, <2>2 DEF SynthOK
  <2>3. CASE ~ u
    BY <1>3, <2>1, <2>3 DEF SynthOK
  <2> QED
    BY <2>2, <2>3
<1>6. s.endTime <= t + UnbondingTime
  BY <1>3, UnbondingTimeFacts
<1>0. \A x \in syntheticLockRefKeys(s) : x \in RefType /\ x.denom \in SynthDenoms
  BY <1>3, SynthRefKeys
<1>7. R \in SUBSET RefType /\ S \in SUBSET Synth
  BY <1>0, <1>1, <1>3
<1> HIDE DEF s, R, S, l, a
<1>8. s1 \in Stores /\ s1.synths = S /\ s1.refs = R /\ SameBank(s1, st) /\ SameCount(s1, st) /\ SameLocks(s1, st)
  BY ONLY <1>1, <1>7, SynthStoreFacts
<1> HIDE DEF s1
<1>9. /\ r \in Stores /\ SameBank(r, s1) /\ SameIndex(r, s1) /\ SameLocks(r, s1) /\ SameSynths(r, s1)
      /\ \A x \in Denoms \cup SynthDenoms, e \in 0 .. MaxDuration :
           GetPeriodLocksAccumulation(r, x, e) =
             GetPeriodLocksAccumulation(s1, x, e) + (IF x = z /\ e <= UnbondingTime THEN a ELSE 0)
  BY ONLY <1>1, <1>2, <1>8, IncreaseFacts, UnbondingTimeFacts, SMTT(30)
<1> HIDE DEF r
<1>10. /\ r.locks = st.locks /\ r.lastLockID = st.lastLockID /\ r.synths = S /\ r.refs = R
       /\ SameBank(r, st) /\ SameLocks(r, st)
  BY <1>8, <1>9 DEF SameBank, SameLocks, SameSynths, SameIndex
<1>11. ASSUME NEW w \in Vals
       PROVE  BondWeight(r, id, w) - BondWeight(st, id, w) = (IF stakingSyntheticDenom(w) = z THEN a ELSE 0)
  <2>1. BondWeight(st, id, w) = 0
    BY DEF BondWeight, Bonded
  <2>2. Bonded(r, id, w) <=> stakingSyntheticDenom(w) = z
    BY <1>3, <1>10 DEF Bonded, S
  <2> QED
    BY <1>1, <1>10, <2>1, <2>2 DEF BondWeight, l, a
<1>12. \A x \in Denoms \cup SynthDenoms, e \in 0 .. MaxDuration :
           GetPeriodLocksAccumulation(r, x, e) =
             GetPeriodLocksAccumulation(st, x, e) + (IF x = z /\ e <= UnbondingTime THEN a ELSE 0)
  BY <1>8, <1>9, SameCounted
<1>13. \A x \in RefType : x.denom \in Denoms => (x \in r.refs <=> x \in st.refs)
  BY <1>0, <1>10, DenomFacts DEF R
<1>14. \A y : y.id # id => (y \in st.synths <=> y \in r.synths)
  BY <1>3, <1>10 DEF S
<1>15. Backed(r) /\ Counted(r) /\ BondCounted(r) /\ Numbered(r) /\ Indexed(r, D)
  <2>1. UnbondingTime \in 0 .. MaxDuration /\ UnbondingTime <= UnbondingTime
    BY UnbondingTimeFacts
  <2> QED
    BY <2>1, <1>1, <1>2, <1>9, <1>10, <1>11, <1>12, <1>13, <1>14, SynthChangeOK
<1>16. SynthsIndexed(r)
  BY <1>10 DEF SynthsIndexed, StoreOK, R, S
<1>17. SynthsOK(r)
  BY <1>3, <1>5, <1>10 DEF SynthsOK, StoreOK, S, l
<1>18. TimesOK(r, t)
  BY <1>6, <1>10 DEF TimesOK, StoreOK, S
<1>19. StoreOK(r, D, t)
  BY <1>9, <1>15, <1>16, <1>17, <1>18 DEF StoreOK
<1> QED
  BY <1>4, <1>10, <1>19 DEF S, s

LEMMA DeleteSynthOK ==
  ASSUME NEW t \in Nat \ {0}, NEW D, NEW st, StoreOK(st, D, t), NEW s \in st.synths
  PROVE  LET r == DeleteSyntheticLockup(st, s)
         IN  /\ StoreOK(r, D, t) /\ r.locks = st.locks /\ r.lastLockID = st.lastLockID
             /\ r.synths = st.synths \ {s}
<1> DEFINE id == s.id
           l == st.locks[id]
           a == -l.amount
           R == st.refs \ syntheticLockRefKeys(s)
           S == st.synths \ {s}
           s1 == WithSynths(st, S, R)
           r == Increase(s1, s.denom, l.duration, a)
<1>0. st \in Stores /\ s \in Synth /\ id \in DOMAIN st.locks /\ SynthOK(s, l) /\ \A x \in st.synths : x.id = id => x = s
  BY StoreFields DEF StoreOK, SynthsOK
<1>1. /\ id \in Ids /\ l.amount \in Nat \ {0} /\ a \in Int /\ l.duration \in 0 .. MaxDuration
      /\ UnbondingTime <= l.duration /\ st.synths \subseteq Synth /\ st.refs \subseteq RefType
  BY <1>0, StoreLock, StoreFields DEF SynthOK
<1>2. s.denom \in SynthDenoms /\ \A x \in syntheticLockRefKeys(s) : x \in RefType /\ x.id = id /\ x.denom \in SynthDenoms
  BY <1>0, SynthRefKeys DEF Synth
<1>3. R \in SUBSET RefType /\ S \in SUBSET Synth
  BY <1>1
<1>4. DeleteSyntheticLockup(st, s) = r
  BY DEF DeleteSyntheticLockup, WithSynths
<1> HIDE DEF id, l, a, R, S
<1>8. s1 \in Stores /\ s1.synths = S /\ s1.refs = R /\ SameBank(s1, st) /\ SameCount(s1, st) /\ SameLocks(s1, st)
  BY ONLY <1>0, <1>3, SynthStoreFacts
<1> HIDE DEF s1
<1>9. /\ r \in Stores /\ SameBank(r, s1) /\ SameIndex(r, s1) /\ SameLocks(r, s1) /\ SameSynths(r, s1)
      /\ \A x \in Denoms \cup SynthDenoms, e \in 0 .. MaxDuration :
           GetPeriodLocksAccumulation(r, x, e) =
             GetPeriodLocksAccumulation(s1, x, e) + (IF x = s.denom /\ e <= l.duration THEN a ELSE 0)
  BY <1>1, <1>2, <1>8, IncreaseFacts
<1> HIDE DEF r
<1>10. /\ r.locks = st.locks /\ r.lastLockID = st.lastLockID /\ r.synths = S /\ r.refs = R
       /\ SameBank(r, st) /\ SameLocks(r, st)
  BY <1>8, <1>9 DEF SameBank, SameLocks, SameSynths, SameIndex
<1>11. ASSUME NEW w \in Vals
       PROVE  BondWeight(r, id, w) - BondWeight(st, id, w) = (IF stakingSyntheticDenom(w) = s.denom THEN a ELSE 0)
  <2>1. BondWeight(r, id, w) = 0
    BY <1>0, <1>10 DEF BondWeight, Bonded, S
  <2>2. Bonded(st, id, w) <=> stakingSyntheticDenom(w) = s.denom
    BY <1>0 DEF Bonded, id
  <2>3. BondWeight(st, id, w) = (IF stakingSyntheticDenom(w) = s.denom THEN l.amount ELSE 0)
    BY <1>0, <2>2 DEF BondWeight, l
  <2> QED
    BY <1>1, <2>1, <2>3 DEF a
<1>12. \A x \in Denoms \cup SynthDenoms, e \in 0 .. MaxDuration :
           GetPeriodLocksAccumulation(r, x, e) =
             GetPeriodLocksAccumulation(st, x, e) + (IF x = s.denom /\ e <= l.duration THEN a ELSE 0)
  BY <1>8, <1>9, SameCounted
<1>13. \A x \in RefType : x.denom \in Denoms => (x \in r.refs <=> x \in st.refs)
  BY <1>2, <1>10, DenomFacts DEF R
<1>14. \A y : y.id # id => (y \in st.synths <=> y \in r.synths)
  BY <1>10 DEF S, id
<1>15. Backed(r) /\ Counted(r) /\ BondCounted(r) /\ Numbered(r) /\ Indexed(r, D)
  BY <1>1, <1>2, <1>9, <1>10, <1>11, <1>12, <1>13, <1>14, SynthChangeOK
<1>16. SynthsIndexed(r)
  <2> SUFFICES ASSUME NEW x \in RefType, x.denom \in SynthDenoms
               PROVE  x \in R <=> \E y \in S : x \in syntheticLockRefKeys(y)
    BY <1>10 DEF SynthsIndexed
  <2>1. x \in st.refs <=> \E y \in st.synths : x \in syntheticLockRefKeys(y)
    BY DEF StoreOK, SynthsIndexed
  <2>2. \A y \in S : x \in syntheticLockRefKeys(y) => x \notin syntheticLockRefKeys(s)
    <3>1. \A y \in S : x \in syntheticLockRefKeys(y) => x.id = y.id
      BY <1>3, SynthRefKeys
    <3>2. \A y \in S : y.id # id
      BY <1>0 DEF S
    <3> QED
      BY <1>2, <3>1, <3>2
  <2> QED
    BY <2>1, <2>2 DEF R, S
<1>17. SynthsOK(r)
  BY <1>10 DEF SynthsOK, StoreOK, S
<1>18. TimesOK(r, t)
  BY <1>10 DEF TimesOK, StoreOK, S
<1>19. StoreOK(r, D, t)
  BY <1>9, <1>15, <1>16, <1>17, <1>18 DEF StoreOK
<1> QED
  BY <1>4, <1>10, <1>19 DEF S

----------------------------------------------------------------------------
(* Operations of x/lockup made of those above                              *)

LEMMA BeginUnlockWhole ==
  ASSUME NEW st, NEW id, NEW a, NEW t, ~ IsPart(st, id, a)
  PROVE  beginUnlock(st, id, a, t).id = id /\ beginUnlock(st, id, a, t).st = StartUnlock(st, id, t)
BY DEF beginUnlock, StartUnlock

LEMMA BeginUnlockPart ==
  ASSUME NEW st, NEW id, NEW a, NEW t, IsPart(st, id, a)
  PROVE  LET split == SplitLock(st, id, a)
         IN  /\ beginUnlock(st, id, a, t).id = split.lastLockID
             /\ beginUnlock(st, id, a, t).st = StartUnlock(split, split.lastLockID, t)
BY DEF beginUnlock, StartUnlock

LEMMA WithoutPut ==
  ASSUME NEW f \in PartialLocks, NEW x \in Ids, NEW l \in Lock
  PROVE  Without(Put(f, x, l), x) = Without(f, x)
<1> DEFINE g == Put(f, x, l)
<1>1. g \in PartialLocks /\ DOMAIN g = DOMAIN f \cup {x} /\ \A y \in DOMAIN f : y # x => g[y] = f[y]
  BY PutFacts
<1> HIDE DEF g
<1>2. DOMAIN g \ {x} = DOMAIN f \ {x} /\ \A y \in DOMAIN f \ {x} : g[y] = f[y]
  BY <1>1
<1>3. Without(g, x) = Without(f, x)
  BY <1>2 DEF Without, Restrict
<1> QED
  BY <1>3 DEF g

LEMMA ForceUnlockOK ==
  ASSUME NEW t \in Nat \ {0}, NEW st, NEW D, NEW id \in DOMAIN st.locks, D \subseteq {id}, StoreOK(st, D, t)
  PROVE  LET r == ForceUnlock(st, id, t)
         IN  /\ StoreOK(r, {}, t) /\ r.locks = Without(st.locks, id) /\ r.lastLockID = st.lastLockID
             /\ r.synths = {s \in st.synths : s.id # id}
<1> DEFINE free == IF HasAnySyntheticLockups(st, id)
                   THEN DeleteSyntheticLockup(st, GetSyntheticLockupByUnderlyingLockId(st, id)) ELSE st
           unl == IF IsUnlocking(st.locks[id]) THEN free ELSE beginUnlock(free, id, 0, t).st
           r == unlockMaturedLockInternalLogic(unl, id)
<1>1. ForceUnlock(st, id, t) = r
  BY DEF ForceUnlock
<1>2. /\ StoreOK(free, D, t) /\ free.locks = st.locks /\ free.lastLockID = st.lastLockID
      /\ free.synths = {s \in st.synths : s.id # id}
  <2>1. CASE HasAnySyntheticLockups(st, id)
    <3> DEFINE s == GetSyntheticLockupByUnderlyingLockId(st, id)
    <3>1. s \in st.synths /\ s.id = id /\ \A x \in st.synths : x.id = id => x = s
      BY <2>1, SynthOfLock
    <3>2. free = DeleteSyntheticLockup(st, s)
      BY <2>1
    <3> HIDE DEF s, free
    <3>3. /\ StoreOK(free, D, t) /\ free.locks = st.locks /\ free.lastLockID = st.lastLockID
          /\ free.synths = st.synths \ {s}
      BY <3>1, <3>2, DeleteSynthOK
    <3> QED
      BY <3>1, <3>3
  <2>2. CASE ~ HasAnySyntheticLockups(st, id)
    BY <2>2 DEF HasAnySyntheticLockups, SynthsOf
  <2> QED
    BY <2>1, <2>2
<1> HIDE DEF free
<1>3. st \in Stores /\ st.locks[id] \in Lock /\ id \in Ids /\ st.locks \in PartialLocks
  BY StoreLock, StoreFields DEF StoreOK
<1>4. /\ StoreOK(unl, D, t) \/ StoreOK(unl, {}, t)
      /\ id \in DOMAIN unl.locks /\ IsUnlocking(unl.locks[id])
      /\ Without(unl.locks, id) = Without(st.locks, id)
      /\ unl.lastLockID = st.lastLockID /\ unl.synths = free.synths
  <2>1. CASE IsUnlocking(st.locks[id])
    BY <1>2, <2>1
  <2>2. CASE ~ IsUnlocking(st.locks[id])
    <3>1. unl = StartUnlock(free, id, t)
      <4>1. ~ IsPart(free, id, 0)
        BY DEF IsPart
      <4> QED
        BY <2>2, <4>1, BeginUnlockWhole
    <3> DEFINE m == WithEnd(st.locks[id], t + st.locks[id].duration)
    <3> HIDE DEF unl
    <3>2. /\ StoreOK(unl, {}, t) /\ unl.locks = Put(st.locks, id, m)
          /\ unl.lastLockID = st.lastLockID /\ unl.synths = free.synths
      BY <1>2, <2>2, <3>1, StartUnlockOK
    <3>3. m \in Lock /\ IsUnlocking(m)
      BY <1>3, UnbondingTimeFacts DEF WithEnd, Lock, IsUnlocking, NoTime
    <3> HIDE DEF m
    <3>4. id \in DOMAIN unl.locks /\ unl.locks[id] = m
      BY <3>2, PutAt
    <3>5. Without(unl.locks, id) = Without(st.locks, id)
      BY <1>3, <3>2, <3>3, WithoutPut
    <3> QED
      BY <3>2, <3>3, <3>4, <3>5
  <2> QED
    BY <2>1, <2>2
<1>5. \A s \in unl.synths : s.id # id
  BY <1>2, <1>4
<1> HIDE DEF unl
<1>6. /\ StoreOK(r, {}, t) /\ r.locks = Without(unl.locks, id)
      /\ r.synths = unl.synths /\ r.lastLockID = unl.lastLockID
  BY <1>4, <1>5, UnlockMaturedOK
<1> QED
  BY <1>1, <1>2, <1>4, <1>6

\* What a step may do to a lock: it may begin to unlock.
LockKept(l, m) == m.denom = l.denom /\ (m.endTime = l.endTime \/ ~ IsUnlocking(l))
Kept(st, r) == \A y \in DOMAIN st.locks : y \in DOMAIN r.locks => LockKept(st.locks[y], r.locks[y])

LEMMA PutKept ==
  ASSUME NEW st \in Stores, NEW r, NEW id \in Ids, NEW m \in Lock, r.locks = Put(st.locks, id, m),
         id \in DOMAIN st.locks => LockKept(st.locks[id], m)
  PROVE  /\ Kept(st, r) /\ DOMAIN r.locks = DOMAIN st.locks \cup {id} /\ r.locks[id] = m
         /\ \A y \in DOMAIN st.locks : y # id => r.locks[y] = st.locks[y]
<1> DEFINE f == st.locks
<1>1. f \in PartialLocks
  BY StoreFields
<1> HIDE DEF f
<1>2. /\ DOMAIN Put(f, id, m) = DOMAIN f \cup {id} /\ Put(f, id, m)[id] = m
      /\ \A y \in DOMAIN f : y # id => Put(f, id, m)[y] = f[y]
  BY <1>1, PutFacts, ZenonT(60)
<1>3. r.locks = Put(f, id, m)
  BY DEF f
<1>4. /\ DOMAIN r.locks = DOMAIN f \cup {id} /\ r.locks[id] = m
      /\ \A y \in DOMAIN f : y # id => r.locks[y] = f[y]
  BY <1>2, <1>3
<1>5. \A y \in DOMAIN f : y # id => LockKept(f[y], r.locks[y])
  BY <1>4 DEF LockKept
<1> QED
  BY <1>4, <1>5 DEF Kept, f

LEMMA WithEndFacts ==
  ASSUME NEW l \in Lock, NEW t \in Nat \ {0}
  PROVE  /\ WithEnd(l, t) \in Lock /\ WithEnd(l, t).endTime = t /\ WithEnd(l, t).denom = l.denom
         /\ WithEnd(l, t).duration = l.duration /\ WithEnd(l, t).amount = l.amount
         /\ WithEnd(l, t).owner = l.owner /\ IsUnlocking(WithEnd(l, t))
BY DEF WithEnd, Lock, IsUnlocking, NoTime

LEMMA BeginWholeOK ==
  ASSUME NEW t \in Nat \ {0}, NEW st, NEW id \in DOMAIN st.locks, StoreOK(st, {}, t), NEW a,
         ~ IsPart(st, id, a), ~ IsUnlocking(st.locks[id]), \A s \in st.synths : s.id = id => IsUnlocking(s)
  PROVE  LET r == beginUnlock(st, id, a, t)
         IN  /\ r.id = id /\ StoreOK(r.st, {}, t) /\ r.st.synths = st.synths /\ r.st.lastLockID = st.lastLockID
             /\ r.st.locks = Put(st.locks, id, WithEnd(st.locks[id], t + st.locks[id].duration))
             /\ Kept(st, r.st) /\ DOMAIN r.st.locks = DOMAIN st.locks
             /\ \A y \in DOMAIN st.locks : y # id => r.st.locks[y] = st.locks[y]
<1> DEFINE r == beginUnlock(st, id, a, t).st
           m == WithEnd(st.locks[id], t + st.locks[id].duration)
<1>1. beginUnlock(st, id, a, t).id = id /\ r = StartUnlock(st, id, t)
  BY BeginUnlockWhole
<1> HIDE DEF r
<1>2. /\ StoreOK(r, {}, t) /\ r.synths = st.synths /\ r.lastLockID = st.lastLockID
      /\ r.locks = Put(st.locks, id, m)
  BY <1>1, StartUnlockOK
<1>3. st \in Stores /\ id \in Ids /\ st.locks[id] \in Lock /\ t + st.locks[id].duration \in Nat \ {0}
  BY StoreLock DEF StoreOK
<1>4. m \in Lock /\ LockKept(st.locks[id], m)
  BY <1>3, WithEndFacts DEF LockKept
<1> HIDE DEF m
<1>0. /\ st \in Stores /\ id \in Ids /\ m \in Lock /\ r.locks = Put(st.locks, id, m)
      /\ LockKept(st.locks[id], m)
  BY <1>2, <1>3, <1>4
<1>5. /\ Kept(st, r) /\ DOMAIN r.locks = DOMAIN st.locks \cup {id}
      /\ \A y \in DOMAIN st.locks : y # id => r.locks[y] = st.locks[y]
  BY ONLY <1>0, PutKept, SMTT(30)
<1> QED
  BY <1>1, <1>2, <1>5 DEF r, m

Splits(f, id, b, new, a) == Put(Put(f, id, WithAmount(f[id], b)), new, WithAmount(f[id], a))

Shares(l, a) == WithAmount(l, a) \in Lock /\ LockKept(l, WithAmount(l, a))

LEMMA SharesIntro ==
  ASSUME NEW l \in Lock, NEW a \in Nat \ {0}
  PROVE  Shares(l, a)
BY WithAmountFacts DEF Shares, LockKept

IsSplit(f, h, id, b, new, a) ==
  /\ DOMAIN h = DOMAIN f \cup {new} /\ h[id] = WithAmount(f[id], b) /\ h[new] = WithAmount(f[id], a)
  /\ \A y \in DOMAIN f : LockKept(f[y], h[y])
  /\ \A y \in DOMAIN f : y # id => h[y] = f[y]

LEMMA SplitsFacts ==
  ASSUME NEW f \in PartialLocks, NEW id \in DOMAIN f, NEW new \in Ids, new \notin DOMAIN f,
         NEW a, NEW b, Shares(f[id], a), Shares(f[id], b)
  PROVE  IsSplit(f, Splits(f, id, b, new, a), id, b, new, a)
<1> DEFINE m == WithAmount(f[id], b)
           n == WithAmount(f[id], a)
           g == Put(f, id, m)
           h == Put(g, new, n)
<1>1. id \in Ids /\ id # new /\ f[id] \in Lock
  BY LocksAre
<1>2. m \in Lock /\ n \in Lock
  BY DEF Shares
<1>3. LockKept(f[id], m) /\ Splits(f, id, b, new, a) = h
  BY DEF Shares, Splits
<1> HIDE DEF m, n
<1>4. /\ g \in PartialLocks /\ DOMAIN g = DOMAIN f \cup {id} /\ g[id] = m
      /\ \A y \in DOMAIN f : y # id => g[y] = f[y]
  BY ONLY <1>1, <1>2, PutFacts, f \in PartialLocks, ZenonT(60)
<1> HIDE DEF g
<1>5. /\ DOMAIN h = DOMAIN g \cup {new} /\ h[new] = n
      /\ \A y \in DOMAIN g : y # new => h[y] = g[y]
  <2>1. g \in PartialLocks /\ new \in Ids /\ n \in Lock
    BY <1>2, <1>4
  <2> QED
    BY ONLY <2>1, PutFacts, ZenonT(60)
<1> HIDE DEF h
<1>6. DOMAIN h = DOMAIN f \cup {new} /\ h[id] = m /\ \A y \in DOMAIN f : y # id => h[y] = f[y]
  BY <1>1, <1>3, <1>4, <1>5
<1>7. \A y \in DOMAIN f : LockKept(f[y], h[y])
  BY <1>3, <1>6 DEF LockKept
<1> QED
  BY <1>3, <1>5, <1>6, <1>7 DEF m, n, IsSplit

LEMMA SplitLockKept ==
  ASSUME NEW t \in Nat \ {0}, NEW st, NEW id \in DOMAIN st.locks, StoreOK(st, {}, t), NEW a \in Nat \ {0},
         a < st.locks[id].amount, st.lastLockID < MaxLocks, \A s \in st.synths : s.id = id => IsUnlocking(s)
  PROVE  LET r == SplitLock(st, id, a)
             new == st.lastLockID + 1
         IN  /\ Kept(st, r) /\ DOMAIN r.locks = DOMAIN st.locks \cup {new}
             /\ r.locks[id] = WithAmount(st.locks[id], st.locks[id].amount - a)
             /\ r.locks[new] = WithAmount(st.locks[id], a)
             /\ \A y \in DOMAIN st.locks : y # id => r.locks[y] = st.locks[y]
<1> DEFINE l == st.locks[id]
           b == l.amount - a
           new == st.lastLockID + 1
           f == st.locks
           h == Splits(f, id, b, new, a)
           r == SplitLock(st, id, a)
<1>1. st \in Stores /\ l \in Lock /\ b \in Nat \ {0}
  BY StoreLock DEF StoreOK
<1>2. new \in Ids /\ new \notin DOMAIN st.locks /\ r.locks = h
  BY SplitLockOK, ZenonT(60) DEF Splits
<1>3. Shares(l, a) /\ Shares(l, b)
  <2> HIDE DEF l, b
  <2> QED
    BY <1>1, SharesIntro
<1> HIDE DEF r
<1>4. /\ f \in PartialLocks /\ id \in DOMAIN f /\ new \in Ids /\ new \notin DOMAIN f
      /\ Shares(f[id], a) /\ Shares(f[id], b)
  BY <1>1, <1>2, <1>3, StoreFields
<1> HIDE DEF b, f, new
<1>5. /\ DOMAIN h = DOMAIN f \cup {new} /\ h[id] = WithAmount(f[id], b) /\ h[new] = WithAmount(f[id], a)
      /\ \A y \in DOMAIN f : LockKept(f[y], h[y])
      /\ \A y \in DOMAIN f : y # id => h[y] = f[y]
  <2>1. IsSplit(f, h, id, b, new, a)
    BY ONLY <1>4, SplitsFacts
  <2> HIDE DEF h
  <2> QED
    BY <2>1 DEF IsSplit
<1> HIDE DEF h
<1>6. Kept(st, r)
  BY <1>2, <1>5 DEF Kept, f
<1> QED
  BY <1>2, <1>5, <1>6 DEF r, b, new, f

LEMMA PartAmount ==
  ASSUME NEW st \in Stores, NEW id \in DOMAIN st.locks, NEW a \in Nat, CanSplit(st, id, a), IsPart(st, id, a)
  PROVE  /\ a \in Nat \ {0} /\ a < st.locks[id].amount /\ st.locks[id].amount - a \in Nat \ {0}
         /\ st.lastLockID < MaxLocks
<1>1. st.locks[id].amount \in Nat
  BY StoreLock
<1> QED
  BY <1>1 DEF CanSplit, IsPart, CanCreateLock

LEMMA BeginPartOK ==
  ASSUME NEW t \in Nat \ {0}, NEW st, NEW id \in DOMAIN st.locks, StoreOK(st, {}, t), NEW a \in Nat,
         CanSplit(st, id, a), IsPart(st, id, a), ~ IsUnlocking(st.locks[id]),
         \A s \in st.synths : s.id = id => IsUnlocking(s)
  PROVE  LET r == beginUnlock(st, id, a, t)
             l == st.locks[id]
         IN  /\ r.id = st.lastLockID + 1 /\ r.id \in Ids /\ r.id \notin DOMAIN st.locks
             /\ StoreOK(r.st, {}, t) /\ r.st.synths = st.synths /\ r.st.lastLockID = r.id
             /\ Kept(st, r.st) /\ DOMAIN r.st.locks = DOMAIN st.locks \cup {r.id}
             /\ r.st.locks[id] = WithAmount(l, l.amount - a)
             /\ r.st.locks[r.id] = WithEnd(WithAmount(l, a), t + l.duration)
             /\ \A y \in DOMAIN st.locks : y # id => r.st.locks[y] = st.locks[y]
<1> DEFINE l == st.locks[id]
           b == l.amount - a
           new == st.lastLockID + 1
           s1 == SplitLock(st, id, a)
           m == WithEnd(WithAmount(l, a), t + l.duration)
           r == StartUnlock(s1, new, t)
<1>1. st \in Stores /\ id \in Ids /\ l \in Lock /\ t + l.duration \in Nat \ {0}
  BY StoreLock DEF StoreOK
<1>2. a \in Nat \ {0} /\ b \in Nat \ {0} /\ a < l.amount /\ st.lastLockID < MaxLocks
  BY <1>1, PartAmount
<1>3. /\ StoreOK(s1, {new}, t) /\ new \in Ids /\ new \notin DOMAIN st.locks
      /\ s1.locks = Splits(st.locks, id, b, new, a)
      /\ s1.synths = st.synths /\ s1.lastLockID = new
  BY <1>2, SplitLockOK DEF Splits
<1>4. beginUnlock(st, id, a, t).id = new /\ beginUnlock(st, id, a, t).st = r
  BY <1>3, BeginUnlockPart
<1> HIDE DEF b, new, s1
<1>5. /\ Kept(st, s1) /\ DOMAIN s1.locks = DOMAIN st.locks \cup {new}
      /\ s1.locks[id] = WithAmount(l, b) /\ s1.locks[new] = WithAmount(l, a)
      /\ \A y \in DOMAIN st.locks : y # id => s1.locks[y] = st.locks[y]
  BY <1>2, SplitLockKept DEF b, new, s1
<1>6. /\ WithAmount(l, a) \in Lock /\ WithAmount(l, a).duration = l.duration
      /\ IsUnlocking(WithAmount(l, a)) = IsUnlocking(l)
  BY <1>1, <1>2, WithAmountFacts
<1>7. \A s \in s1.synths : s.id # new
  BY <1>3 DEF StoreOK, SynthsOK
<1>8. s1.locks[new].duration = l.duration /\ ~ IsUnlocking(s1.locks[new]) /\ new \in DOMAIN s1.locks
  BY <1>5, <1>6
<1>9. /\ StoreOK(r, {}, t) /\ r.locks = Put(s1.locks, new, m)
      /\ r.synths = s1.synths /\ r.lastLockID = s1.lastLockID
  <2> HIDE DEF l
  <2>1. /\ StoreOK(r, {}, t) /\ r.locks = Put(s1.locks, new, WithEnd(s1.locks[new], t + s1.locks[new].duration))
        /\ r.synths = s1.synths /\ r.lastLockID = s1.lastLockID
    BY <1>3, <1>7, <1>8, StartUnlockOK
  <2> QED
    BY <1>5, <1>8, <2>1
<1>10. m \in Lock
  BY <1>1, <1>6, WithEndFacts
<1>11. s1 \in Stores /\ LockKept(s1.locks[new], m)
  BY <1>1, <1>3, <1>5, <1>6, <1>8, WithEndFacts DEF StoreOK, LockKept
<1> HIDE DEF r, m, l
<1>12. /\ DOMAIN r.locks = DOMAIN s1.locks \cup {new} /\ r.locks[new] = m
       /\ \A y \in DOMAIN s1.locks : y # new => r.locks[y] = s1.locks[y]
  BY ONLY <1>3, <1>9, <1>10, <1>11, PutKept
<1>13. DOMAIN r.locks = DOMAIN st.locks \cup {new} /\ r.locks[id] = WithAmount(l, b)
       /\ \A y \in DOMAIN st.locks : r.locks[y] = s1.locks[y]
  BY <1>3, <1>5, <1>12
<1>14. Kept(st, r)
  BY <1>5, <1>13 DEF Kept
<1>15. \A y \in DOMAIN st.locks : y # id => r.locks[y] = st.locks[y]
  BY <1>5, <1>13
<1> QED
  BY <1>3, <1>4, <1>9, <1>12, <1>13, <1>14, <1>15 DEF m, l, b, new

\* A message that force unlocks a lock, or a part of it, that has no synthetic lock
LEMMA PartialForceUnlockOK ==
  ASSUME NEW t \in Nat \ {0}, NEW st, NEW id \in DOMAIN st.locks, StoreOK(st, {}, t), NEW a \in Nat,
         CanSplit(st, id, a), \A s \in st.synths : s.id # id
  PROVE  LET r == PartialForceUnlock(st, id, a, t)
         IN  /\ StoreOK(r, {}, t) /\ r.synths = st.synths /\ Kept(st, r)
             /\ DOMAIN r.locks \subseteq DOMAIN st.locks /\ DOMAIN st.locks \ {id} \subseteq DOMAIN r.locks
             /\ r.lastLockID \in {st.lastLockID, st.lastLockID + 1}
             /\ \A y \in DOMAIN st.locks \ {id} : r.locks[y] = st.locks[y]
<1> DEFINE r == PartialForceUnlock(st, id, a, t)
<1>1. st \in Stores /\ id \in Ids /\ st.locks \in PartialLocks
  BY StoreLock, StoreFields DEF StoreOK
<1>2. CASE ~ IsPart(st, id, a)
  <2>1. r = ForceUnlock(st, id, t)
    BY <1>2 DEF PartialForceUnlock
  <2> HIDE DEF r
  <2>2. /\ StoreOK(r, {}, t) /\ r.locks = Without(st.locks, id) /\ r.lastLockID = st.lastLockID
        /\ r.synths = {s \in st.synths : s.id # id}
    BY <2>1, ForceUnlockOK
  <2>3. DOMAIN r.locks = DOMAIN st.locks \ {id} /\ \A y \in DOMAIN st.locks \ {id} : r.locks[y] = st.locks[y]
    <3> DEFINE f == st.locks
    <3>1. f \in PartialLocks
      BY <1>1
    <3>2. r.locks = Without(f, id)
      BY <2>2
    <3> HIDE DEF f
    <3>3. DOMAIN r.locks = DOMAIN f \ {id} /\ \A y \in DOMAIN f \ {id} : r.locks[y] = f[y]
      BY ONLY <3>2 DEF Without, Restrict
    <3> QED
      BY <3>3 DEF f
  <2>4. Kept(st, r)
    BY <2>3 DEF Kept, LockKept
  <2>5. r.synths = st.synths
    BY <2>2
  <2> QED
    BY <2>2, <2>3, <2>4, <2>5 DEF r
<1>3. CASE IsPart(st, id, a)
  <2> DEFINE l == st.locks[id]
             b == l.amount - a
             new == st.lastLockID + 1
             s1 == SplitLock(st, id, a)
  <2>1. a \in Nat \ {0} /\ b \in Nat \ {0} /\ a < l.amount /\ st.lastLockID < MaxLocks
    BY <1>1, <1>3, PartAmount
  <2>2. /\ StoreOK(s1, {new}, t) /\ new \in Ids /\ new \notin DOMAIN st.locks
        /\ s1.locks = Splits(st.locks, id, b, new, a)
        /\ s1.synths = st.synths /\ s1.lastLockID = new
    BY <2>1, SplitLockOK, ZenonT(60) DEF Splits
  <2>3. r = ForceUnlock(s1, new, t)
    BY <1>3 DEF PartialForceUnlock
  <2> HIDE DEF b, new, s1, r
  <2>4. /\ Kept(st, s1) /\ DOMAIN s1.locks = DOMAIN st.locks \cup {new}
        /\ \A y \in DOMAIN st.locks : y # id => s1.locks[y] = st.locks[y]
    BY <2>1, SplitLockKept DEF b, new, s1
  <2>5. /\ StoreOK(r, {}, t) /\ r.locks = Without(s1.locks, new) /\ r.lastLockID = new
        /\ r.synths = {s \in s1.synths : s.id # new}
    BY <2>2, <2>3, <2>4, ForceUnlockOK
  <2>6. DOMAIN r.locks = DOMAIN st.locks /\ \A y \in DOMAIN st.locks : r.locks[y] = s1.locks[y]
    <3> DEFINE f == s1.locks
    <3>1. f \in PartialLocks /\ DOMAIN f = DOMAIN st.locks \cup {new}
      BY <2>2, <2>4, StoreFields DEF StoreOK
    <3>2. r.locks = Without(f, new)
      BY <2>5
    <3> HIDE DEF f
    <3>3. DOMAIN r.locks = DOMAIN f \ {new} /\ \A y \in DOMAIN f \ {new} : r.locks[y] = f[y]
      BY ONLY <3>2 DEF Without, Restrict
    <3> QED
      BY <2>2, <3>1, <3>3 DEF f
  <2>7. Kept(st, r)
    BY <2>4, <2>6 DEF Kept
  <2>8. r.synths = st.synths
    <3>1. \A s \in st.synths : s.id # new
      BY <2>2 DEF StoreOK, SynthsOK
    <3> QED
      BY <2>2, <2>5, <3>1
  <2>9. \A y \in DOMAIN st.locks \ {id} : r.locks[y] = st.locks[y]
    BY <2>4, <2>6
  <2> QED
    BY <2>5, <2>6, <2>7, <2>8, <2>9 DEF r, new
<1> QED
  BY <1>2, <1>3

----------------------------------------------------------------------------
(* The loops over locks and synthetic locks                                *)

LEMMA SynthsFinite ==
  ASSUME NEW t, NEW D, NEW st, StoreOK(st, D, t)
  PROVE  IsFiniteSet(st.synths)
<1> DEFINE f == [s \in st.synths |-> s.id]
<1>1. st.synths \subseteq Synth
  BY StoreFields DEF StoreOK
<1>2. f \in [st.synths -> Ids]
  BY <1>1 DEF Synth
<1>3. \A x, y \in st.synths : f[x] = f[y] => x = y
  BY DEF StoreOK, SynthsOK
<1>4. f \in Injection(st.synths, Ids)
  <2> HIDE DEF f
  <2> QED
    BY <1>2, <1>3 DEF Injection, IsInjective
<1> HIDE DEF f
<1> QED
  BY <1>4, IdsFinite, FS_Injection

\* The element that FoldSet takes next
Chosen(S) == [s \in SUBSET S |-> CHOOSE x \in s : TRUE]

LEMMA ChosenIn ==
  ASSUME NEW S
  PROVE  /\ \A s \in SUBSET S : Chosen(S)[s] = CHOOSE x \in s : TRUE
         /\ \A s \in SUBSET S : s # {} => Chosen(S)[s] \in s
BY DEF Chosen

DeletesAll(S, st, run) ==
  run = [s \in SUBSET S |-> IF s = {} THEN st
                            ELSE DeleteSyntheticLockup(run[s \ {CHOOSE x \in s : TRUE}], CHOOSE x \in s : TRUE)]

LEMMA DeletesAllDef ==
  ASSUME NEW st, NEW t
  PROVE  DeleteAllMaturedSyntheticLocks(st, t) =
           (CHOOSE run : DeletesAll(MaturedSynths(st, t), st, run))[MaturedSynths(st, t)]
BY DEF DeleteAllMaturedSyntheticLocks, FoldSet, MapThenFoldSet, DeletesAll

LEMMA DeleteAllOK ==
  ASSUME NEW t \in Nat \ {0}, NEW st, StoreOK(st, {}, t)
  PROVE  LET r == DeleteAllMaturedSyntheticLocks(st, t)
         IN  /\ StoreOK(r, {}, t) /\ r.locks = st.locks /\ r.lastLockID = st.lastLockID
             /\ r.synths = st.synths \ MaturedSynths(st, t)
<1> DEFINE S == MaturedSynths(st, t)
           Good(s, x) == /\ StoreOK(x, {}, t) /\ x.locks = st.locks /\ x.lastLockID = st.lastLockID
                         /\ x.synths = st.synths \ s
           Q == {q \in (SUBSET S) \X Stores : Good(q[1], q[2])}
           F == [p \in S \X Stores |-> DeleteSyntheticLockup(p[2], p[1])]
           pick == Chosen(S)
<1>1. S \subseteq st.synths /\ IsFiniteSet(S)
  BY SynthsFinite, FS_Subset DEF MaturedSynths
<1>2. /\ \A s \in SUBSET S : pick[s] = CHOOSE x \in s : TRUE
      /\ \A s \in SUBSET S : s # {} => pick[s] \in s
  BY ChosenIn
<1> HIDE DEF S, pick
<1>3. \A s \in SUBSET S, x \in Stores : <<s, x>> \in Q <=> Good(s, x)
  BY DEF Good
<1>4. <<{}, st>> \in Q
  BY <1>3 DEF StoreOK
<1>5. ASSUME NEW s \in SUBSET S, NEW x, s # {}, <<s \ {pick[s]}, x>> \in Q
      PROVE  <<s, F[<<pick[s], x>>]>> \in Q /\ F[<<pick[s], x>>] = DeleteSyntheticLockup(x, pick[s])
  <2> DEFINE e == pick[s]
             r == DeleteSyntheticLockup(x, e)
  <2>1. e \in s /\ e \in S
    BY <1>2, <1>5
  <2>2. x \in Stores /\ Good(s \ {e}, x)
    BY <1>5
  <2>3. F[<<e, x>>] = r
    BY <2>1, <2>2
  <2>4. e \in x.synths
    BY <1>1, <2>1, <2>2
  <2> HIDE DEF e, r, F, Q
  <2>5. StoreOK(r, {}, t) /\ r.locks = x.locks /\ r.lastLockID = x.lastLockID /\ r.synths = x.synths \ {e}
    BY <2>2, <2>4, DeleteSynthOK DEF r
  <2>6. Good(s, r) /\ r \in Stores
    BY <2>1, <2>2, <2>5 DEF StoreOK
  <2> QED
    BY <1>3, <2>3, <2>6 DEF e, r
<1> HIDE DEF Q, F, Good
<1>0. Picks(pick, S) /\ Preserves(F, st, pick, S, Q)
  BY <1>2, <1>4, <1>5 DEF Picks, Preserves
<1>6. \A run : DeletesAll(S, st, run) => \A s \in SUBSET S : <<s, run[s]>> \in Q
  <2> SUFFICES ASSUME NEW run, DeletesAll(S, st, run) PROVE \A s \in SUBSET S : <<s, run[s]>> \in Q
    OBVIOUS
  <2>1. run[{}] = st
    BY DEF DeletesAll
  <2>2. ASSUME NEW s \in SUBSET S, s # {}, <<s \ {pick[s]}, run[s \ {pick[s]}]>> \in Q
        PROVE  run[s] = F[<<pick[s], run[s \ {pick[s]}]>>]
    <3>1. run[s] = DeleteSyntheticLockup(run[s \ {pick[s]}], pick[s])
      BY <1>2, <2>2, ZenonT(60) DEF DeletesAll
    <3> QED
      BY <1>5, <2>2, <3>1
  <2>3. Follows(F, st, pick, S, Q, run)
    BY <2>1, <2>2 DEF Follows
  <2> QED
    BY <1>0, <1>1, <2>3, FoldInvariant
<1>7. \E run : DeletesAll(S, st, run)
  <2>1. PICK run : IsFold(F, st, pick, S, run)
    BY <1>1, <1>2, FoldExists
  <2>2. run[{}] = st /\ \A s \in SUBSET S : s # {} => run[s] = F[<<pick[s], run[s \ {pick[s]}]>>]
    BY <2>1 DEF IsFold
  <2>3. \A s \in SUBSET S : <<s, run[s]>> \in Q
    <3>1. Follows(F, st, pick, S, Q, run)
      BY <2>2 DEF Follows
    <3> QED
      BY <1>0, <1>1, <3>1, FoldInvariant
  <2>4. ASSUME NEW s \in SUBSET S, s # {}
        PROVE  run[s] = DeleteSyntheticLockup(run[s \ {pick[s]}], pick[s])
    BY <1>5, <2>2, <2>3, <2>4
  <2>5. run = [s \in SUBSET S |-> run[s]]
    BY <2>1 DEF IsFold
  <2>6. \A s \in SUBSET S :
          run[s] = IF s = {} THEN st
                   ELSE DeleteSyntheticLockup(run[s \ {CHOOSE x \in s : TRUE}], CHOOSE x \in s : TRUE)
    BY <1>2, <2>2, <2>4
  <2>7. DeletesAll(S, st, run)
    BY <2>5, <2>6 DEF DeletesAll
  <2> QED
    BY <2>7
<1>8. <<S, DeleteAllMaturedSyntheticLocks(st, t)>> \in Q
  <2>1. DeletesAll(S, st, CHOOSE run : DeletesAll(S, st, run))
    BY <1>7
  <2>2. DeleteAllMaturedSyntheticLocks(st, t) = (CHOOSE run : DeletesAll(S, st, run))[S]
    BY DeletesAllDef DEF S
  <2> QED
    BY <1>6, <2>1, <2>2
<1> QED
  BY <1>8 DEF Q, Good, S

WithdrawsAll(S, st, run) ==
  run = [s \in SUBSET S |-> IF s = {} THEN st
                            ELSE unlockMaturedLockInternalLogic(run[s \ {CHOOSE x \in s : TRUE}], CHOOSE x \in s : TRUE)]

LEMMA WithdrawsAllDef ==
  ASSUME NEW st, NEW t
  PROVE  WithdrawAllMaturedLocks(st, t) =
           (CHOOSE run : WithdrawsAll(LockIteratorBeforeTime(st, t), st, run))[LockIteratorBeforeTime(st, t)]
BY DEF WithdrawAllMaturedLocks, FoldSet, MapThenFoldSet, WithdrawsAll

\* The locks of r are those of st but the ones in s.
LocksBut(st, r, s) ==
  /\ DOMAIN r.locks = DOMAIN st.locks \ s
  /\ \A y \in DOMAIN r.locks : r.locks[y] = st.locks[y]

LEMMA WithdrawAllOK ==
  ASSUME NEW t \in Nat \ {0}, NEW st, StoreOK(st, {}, t),
         \A id \in LockIteratorBeforeTime(st, t) :
           id \in DOMAIN st.locks /\ IsUnlocking(st.locks[id]) /\ \A s \in st.synths : s.id # id
  PROVE  LET r == WithdrawAllMaturedLocks(st, t)
         IN  /\ StoreOK(r, {}, t) /\ LocksBut(st, r, LockIteratorBeforeTime(st, t))
             /\ r.lastLockID = st.lastLockID /\ r.synths = st.synths
<1> DEFINE S == LockIteratorBeforeTime(st, t)
           Good(s, x) == /\ StoreOK(x, {}, t) /\ LocksBut(st, x, s) /\ x.lastLockID = st.lastLockID
                         /\ x.synths = st.synths
           Q == {q \in (SUBSET S) \X Stores : Good(q[1], q[2])}
           F == [p \in S \X Stores |-> unlockMaturedLockInternalLogic(p[2], p[1])]
           pick == Chosen(S)
<1>1. S \subseteq Ids /\ S \subseteq DOMAIN st.locks /\ IsFiniteSet(S)
  <2>1. S \subseteq DOMAIN st.locks
    OBVIOUS
  <2>2. DOMAIN st.locks \subseteq Ids
    BY StoreFields, LocksAre DEF StoreOK
  <2> HIDE DEF S
  <2> QED
    BY <2>1, <2>2, IdsFinite, FS_Subset
<1>2. /\ \A s \in SUBSET S : pick[s] = CHOOSE x \in s : TRUE
      /\ \A s \in SUBSET S : s # {} => pick[s] \in s
  BY ChosenIn
<1>9. \A id \in S : IsUnlocking(st.locks[id]) /\ \A s \in st.synths : s.id # id
  OBVIOUS
<1> HIDE DEF S, pick
<1>3. \A s \in SUBSET S, x \in Stores : <<s, x>> \in Q <=> Good(s, x)
  BY DEF Good
<1>4. <<{}, st>> \in Q
  BY <1>3 DEF StoreOK, LocksBut
<1>5. ASSUME NEW s \in SUBSET S, NEW x, s # {}, <<s \ {pick[s]}, x>> \in Q
      PROVE  <<s, F[<<pick[s], x>>]>> \in Q /\ F[<<pick[s], x>>] = unlockMaturedLockInternalLogic(x, pick[s])
  <2> DEFINE e == pick[s]
             r == unlockMaturedLockInternalLogic(x, e)
  <2>1. e \in s /\ e \in S
    BY <1>2, <1>5
  <2>2. x \in Stores /\ Good(s \ {e}, x)
    BY <1>5
  <2>3. F[<<e, x>>] = r
    BY <2>1, <2>2
  <2> HIDE DEF e, r, F, Q
  <2>4. e \in DOMAIN x.locks /\ IsUnlocking(x.locks[e]) /\ \A y \in x.synths : y.id # e
    BY <1>1, <1>9, <2>1, <2>2 DEF LocksBut
  <2>5. StoreOK(r, {}, t) /\ r.locks = Without(x.locks, e) /\ r.lastLockID = x.lastLockID /\ r.synths = x.synths
    BY <2>2, <2>4, UnlockMaturedOK DEF r
  <2>6. DOMAIN r.locks = DOMAIN x.locks \ {e} /\ \A y \in DOMAIN r.locks : r.locks[y] = x.locks[y]
    <3> DEFINE f == x.locks
    <3>1. r.locks = Without(f, e)
      BY <2>5
    <3> HIDE DEF f
    <3>2. DOMAIN r.locks = DOMAIN f \ {e} /\ \A y \in DOMAIN r.locks : r.locks[y] = f[y]
      BY ONLY <3>1 DEF Without, Restrict
    <3> QED
      BY <3>2 DEF f
  <2>7. LocksBut(st, r, s)
    BY <2>1, <2>2, <2>6 DEF LocksBut
  <2>8. Good(s, r) /\ r \in Stores
    BY <2>2, <2>5, <2>7 DEF StoreOK
  <2> QED
    BY <1>3, <2>3, <2>8 DEF e, r
<1> HIDE DEF Q, F, Good
<1>0. Picks(pick, S) /\ Preserves(F, st, pick, S, Q)
  BY <1>2, <1>4, <1>5 DEF Picks, Preserves
<1>6. \A run : WithdrawsAll(S, st, run) => \A s \in SUBSET S : <<s, run[s]>> \in Q
  <2> SUFFICES ASSUME NEW run, WithdrawsAll(S, st, run) PROVE \A s \in SUBSET S : <<s, run[s]>> \in Q
    OBVIOUS
  <2>1. run[{}] = st
    BY DEF WithdrawsAll
  <2>2. ASSUME NEW s \in SUBSET S, s # {}, <<s \ {pick[s]}, run[s \ {pick[s]}]>> \in Q
        PROVE  run[s] = F[<<pick[s], run[s \ {pick[s]}]>>]
    <3>1. run[s] = unlockMaturedLockInternalLogic(run[s \ {pick[s]}], pick[s])
      BY <1>2, <2>2, ZenonT(60) DEF WithdrawsAll
    <3> QED
      BY <1>5, <2>2, <3>1
  <2>3. Follows(F, st, pick, S, Q, run)
    BY <2>1, <2>2 DEF Follows
  <2> QED
    BY <1>0, <1>1, <2>3, FoldInvariant
<1>7. \E run : WithdrawsAll(S, st, run)
  <2>1. PICK run : IsFold(F, st, pick, S, run)
    BY <1>1, <1>2, FoldExists
  <2>2. run[{}] = st /\ \A s \in SUBSET S : s # {} => run[s] = F[<<pick[s], run[s \ {pick[s]}]>>]
    BY <2>1 DEF IsFold
  <2>3. \A s \in SUBSET S : <<s, run[s]>> \in Q
    <3>1. Follows(F, st, pick, S, Q, run)
      BY <2>2 DEF Follows
    <3> QED
      BY <1>0, <1>1, <3>1, FoldInvariant
  <2>4. ASSUME NEW s \in SUBSET S, s # {}
        PROVE  run[s] = unlockMaturedLockInternalLogic(run[s \ {pick[s]}], pick[s])
    BY <1>5, <2>2, <2>3, <2>4
  <2>5. run = [s \in SUBSET S |-> run[s]]
    BY <2>1 DEF IsFold
  <2>6. \A s \in SUBSET S :
          run[s] = IF s = {} THEN st
                   ELSE unlockMaturedLockInternalLogic(run[s \ {CHOOSE x \in s : TRUE}], CHOOSE x \in s : TRUE)
    BY <1>2, <2>2, <2>4
  <2>7. WithdrawsAll(S, st, run)
    BY <2>5, <2>6 DEF WithdrawsAll
  <2> QED
    BY <2>7
<1>8. <<S, WithdrawAllMaturedLocks(st, t)>> \in Q
  <2>1. WithdrawsAll(S, st, CHOOSE run : WithdrawsAll(S, st, run))
    BY <1>7
  <2>2. WithdrawAllMaturedLocks(st, t) = (CHOOSE run : WithdrawsAll(S, st, run))[S]
    BY WithdrawsAllDef DEF S
  <2> QED
    BY <1>6, <2>1, <2>2
<1> QED
  BY <1>8 DEF Q, Good, S

BeginsAll(S, st, t, run) ==
  run = [s \in SUBSET S |-> IF s = {} THEN st
                            ELSE beginUnlock(run[s \ {CHOOSE x \in s : TRUE}], CHOOSE x \in s : TRUE, 0, t).st]

BeginAll(S, st, t) == FoldSet(LAMBDA id, x : beginUnlock(x, id, 0, t).st, st, S)

LEMMA BeginsAllDef ==
  ASSUME NEW st, NEW t, NEW S
  PROVE  BeginAll(S, st, t) = (CHOOSE run : BeginsAll(S, st, t, run))[S]
BY DEF BeginAll, FoldSet, MapThenFoldSet, BeginsAll

LEMMA BeginAllOK ==
  ASSUME NEW t \in Nat \ {0}, NEW st, StoreOK(st, {}, t), NEW S \in SUBSET DOMAIN st.locks,
         \A id \in S : ~ IsUnlocking(st.locks[id]) /\ \A s \in st.synths : s.id # id
  PROVE  LET r == BeginAll(S, st, t)
         IN  /\ StoreOK(r, {}, t) /\ Kept(st, r) /\ DOMAIN r.locks = DOMAIN st.locks
             /\ r.lastLockID = st.lastLockID /\ r.synths = st.synths
             /\ \A y \in DOMAIN st.locks \ S : r.locks[y] = st.locks[y]
<1> DEFINE Good(s, x) == /\ StoreOK(x, {}, t) /\ Kept(st, x) /\ DOMAIN x.locks = DOMAIN st.locks
                         /\ \A y \in DOMAIN st.locks \ s : x.locks[y] = st.locks[y]
                         /\ x.lastLockID = st.lastLockID /\ x.synths = st.synths
           Q == {q \in (SUBSET S) \X Stores : Good(q[1], q[2])}
           F == [p \in S \X Stores |-> beginUnlock(p[2], p[1], 0, t).st]
           pick == Chosen(S)
<1>1. S \subseteq Ids /\ IsFiniteSet(S)
  <2>2. DOMAIN st.locks \subseteq Ids
    BY StoreFields, LocksAre DEF StoreOK
  <2> QED
    BY <2>2, IdsFinite, FS_Subset
<1>2. /\ \A s \in SUBSET S : pick[s] = CHOOSE x \in s : TRUE
      /\ \A s \in SUBSET S : s # {} => pick[s] \in s
  BY ChosenIn
<1> HIDE DEF pick
<1>3. \A s \in SUBSET S, x \in Stores : <<s, x>> \in Q <=> Good(s, x)
  BY DEF Good
<1>4. <<{}, st>> \in Q
  BY <1>3 DEF StoreOK, Kept, LockKept
<1>5. ASSUME NEW s \in SUBSET S, NEW x, s # {}, <<s \ {pick[s]}, x>> \in Q
      PROVE  <<s, F[<<pick[s], x>>]>> \in Q /\ F[<<pick[s], x>>] = beginUnlock(x, pick[s], 0, t).st
  <2> DEFINE e == pick[s]
             r == beginUnlock(x, e, 0, t).st
  <2>1. e \in s /\ e \in S
    BY <1>2, <1>5
  <2>2. x \in Stores /\ Good(s \ {e}, x)
    BY <1>5
  <2>3. F[<<e, x>>] = r
    BY <2>1, <2>2
  <2> HIDE DEF e, r, F, Q
  <2>4. /\ e \in DOMAIN x.locks /\ ~ IsUnlocking(x.locks[e]) /\ ~ IsPart(x, e, 0)
        /\ \A y \in x.synths : y.id = e => IsUnlocking(y)
    BY <2>1, <2>2 DEF IsPart
  <2>5. /\ StoreOK(r, {}, t) /\ r.synths = x.synths /\ r.lastLockID = x.lastLockID
        /\ Kept(x, r) /\ DOMAIN r.locks = DOMAIN x.locks
        /\ \A y \in DOMAIN x.locks : y # e => r.locks[y] = x.locks[y]
    BY <2>2, <2>4, BeginWholeOK DEF r
  <2>6. Kept(st, r)
    <3> SUFFICES ASSUME NEW y \in DOMAIN st.locks PROVE LockKept(st.locks[y], r.locks[y])
      BY DEF Kept
    <3>1. LockKept(st.locks[y], x.locks[y]) /\ LockKept(x.locks[y], r.locks[y])
      BY <2>2, <2>5 DEF Kept
    <3> QED
      BY <3>1 DEF LockKept, IsUnlocking
  <2>8. Good(s, r) /\ r \in Stores
    BY <2>1, <2>2, <2>5, <2>6 DEF StoreOK
  <2> QED
    BY <1>3, <2>3, <2>8 DEF e, r
<1> HIDE DEF Q, F, Good
<1>0. Picks(pick, S) /\ Preserves(F, st, pick, S, Q)
  BY <1>2, <1>4, <1>5 DEF Picks, Preserves
<1>6. \A run : BeginsAll(S, st, t, run) => \A s \in SUBSET S : <<s, run[s]>> \in Q
  <2> SUFFICES ASSUME NEW run, BeginsAll(S, st, t, run) PROVE \A s \in SUBSET S : <<s, run[s]>> \in Q
    OBVIOUS
  <2>1. run[{}] = st
    BY DEF BeginsAll
  <2>2. ASSUME NEW s \in SUBSET S, s # {}, <<s \ {pick[s]}, run[s \ {pick[s]}]>> \in Q
        PROVE  run[s] = F[<<pick[s], run[s \ {pick[s]}]>>]
    <3>0. run[s] = beginUnlock(run[s \ {CHOOSE x \in s : TRUE}], CHOOSE x \in s : TRUE, 0, t).st
      BY <2>2 DEF BeginsAll
    <3>1. run[s] = beginUnlock(run[s \ {pick[s]}], pick[s], 0, t).st
      <4>1. pick[s] = CHOOSE x \in s : TRUE
        BY <1>2
      <4> QED
        BY ONLY <3>0, <4>1
    <3> QED
      BY <1>5, <2>2, <3>1
  <2>3. Follows(F, st, pick, S, Q, run)
    BY <2>1, <2>2 DEF Follows
  <2> QED
    BY <1>0, <1>1, <2>3, FoldInvariant
<1>7. \E run : BeginsAll(S, st, t, run)
  <2>1. PICK run : IsFold(F, st, pick, S, run)
    BY <1>1, <1>2, FoldExists
  <2>2. run[{}] = st /\ \A s \in SUBSET S : s # {} => run[s] = F[<<pick[s], run[s \ {pick[s]}]>>]
    BY <2>1 DEF IsFold
  <2>3. \A s \in SUBSET S : <<s, run[s]>> \in Q
    <3>1. Follows(F, st, pick, S, Q, run)
      BY <2>2 DEF Follows
    <3> QED
      BY <1>0, <1>1, <3>1, FoldInvariant
  <2>4. ASSUME NEW s \in SUBSET S, s # {}
        PROVE  run[s] = beginUnlock(run[s \ {pick[s]}], pick[s], 0, t).st
    BY <1>5, <2>2, <2>3, <2>4
  <2>5. run = [s \in SUBSET S |-> run[s]]
    BY <2>1 DEF IsFold
  <2>6. \A s \in SUBSET S :
          run[s] = IF s = {} THEN st
                   ELSE beginUnlock(run[s \ {CHOOSE x \in s : TRUE}], CHOOSE x \in s : TRUE, 0, t).st
    BY <1>2, <2>2, <2>4
  <2>7. BeginsAll(S, st, t, run)
    BY <2>5, <2>6 DEF BeginsAll
  <2> QED
    BY <2>7
<1>8. <<S, BeginAll(S, st, t)>> \in Q
  <2>1. BeginsAll(S, st, t, CHOOSE run : BeginsAll(S, st, t, run))
    BY <1>7
  <2> QED
    BY <1>6, <2>1, BeginsAllDef
<1> QED
  BY <1>8 DEF Q, Good

LEMMA SlashFraction ==
  ASSUME NEW a \in Nat \ {0}, NEW n \in Nat, NEW d \in Nat, n < d
  PROVE  (a * n) \div d \in Nat /\ (a * n) \div d < a
<1> DEFINE p == a * n
           q == p \div d
<1>1. d > 0 /\ p \in Nat
  OBVIOUS
<1>2. p < a * d
  BY <1>1
<1> HIDE DEF p
<1>3. q \in Nat /\ q * d <= p
  BY <1>1
<1> HIDE DEF q
<1>4. ~ (q >= a)
  <2> SUFFICES ASSUME q >= a PROVE FALSE
    OBVIOUS
  <2>1. q * d >= a * d
    BY <1>1, <1>3
  <2>2. q * d \in Nat /\ a * d \in Nat
    BY <1>3
  <2> QED
    BY <1>1, <1>2, <1>3, <2>1, <2>2
<1> QED
  BY <1>3, <1>4 DEF p, q

LEMMA SlashSynthLockOK ==
  ASSUME NEW t \in Nat \ {0}, NEW st, StoreOK(st, {}, t), NEW id \in DOMAIN st.locks
  PROVE  LET r == slashSynthLock(st, id)
         IN  /\ StoreOK(r, {}, t) /\ Kept(st, r) /\ DOMAIN r.locks = DOMAIN st.locks
             /\ r.lastLockID = st.lastLockID /\ r.synths = st.synths
<1> DEFINE l == st.locks[id]
           n == (l.amount * SlashFactor[1]) \div SlashFactor[2]
           m == WithAmount(l, l.amount - n)
           r == slashSynthLock(st, id)
<1>1. st \in Stores /\ id \in Ids /\ l \in Lock /\ l.amount \in Nat \ {0}
  BY StoreLock DEF StoreOK
<1>2. n \in Nat /\ n < l.amount
  <2> HIDE DEF l
  <2> QED
    BY <1>1, SlashFraction, SuperfluidAssumption
<1>3. CASE n = 0
  <2>1. r = st
    BY <1>3 DEF slashSynthLock
  <2> QED
    BY <2>1 DEF Kept, LockKept
<1>4. CASE n # 0
  <2>1. r = SlashTokensFromLockByID(st, id, n)
    BY <1>4 DEF slashSynthLock
  <2> HIDE DEF n, r
  <2>2. /\ StoreOK(r, {}, t) /\ r.locks = Put(st.locks, id, m)
        /\ r.synths = st.synths /\ r.lastLockID = st.lastLockID
    BY <1>2, <2>1, SlashTokensOK
  <2>3. l.amount - n \in Nat \ {0}
    BY <1>1, <1>2
  <2>4. m \in Lock /\ LockKept(l, m)
    <3> DEFINE b == l.amount - n
    <3> HIDE DEF b, l
    <3> QED
      BY <1>1, <2>3, WithAmountFacts DEF LockKept, b
  <2> HIDE DEF m
  <2>5. Kept(st, r) /\ DOMAIN r.locks = DOMAIN st.locks \cup {id}
    BY ONLY <1>1, <2>2, <2>4, PutKept
  <2> QED
    BY <2>2, <2>5 DEF r
<1> QED
  BY <1>3, <1>4

SlashesAll(S, st, run) ==
  run = [s \in SUBSET S |-> IF s = {} THEN st
                            ELSE slashSynthLock(run[s \ {CHOOSE x \in s : TRUE}], CHOOSE x \in s : TRUE)]

LEMMA SlashesAllDef ==
  ASSUME NEW st, NEW val
  PROVE  SlashLockupsForValidatorSlash(st, val) =
           (CHOOSE run : SlashesAll(SlashedLocks(st, val), st, run))[SlashedLocks(st, val)]
BY DEF SlashLockupsForValidatorSlash, FoldSet, MapThenFoldSet, SlashesAll

LEMMA KeptTransitive ==
  ASSUME NEW st, NEW x, NEW r, DOMAIN x.locks = DOMAIN st.locks, DOMAIN r.locks = DOMAIN st.locks,
         Kept(st, x), Kept(x, r)
  PROVE  Kept(st, r)
<1> SUFFICES ASSUME NEW y \in DOMAIN st.locks PROVE LockKept(st.locks[y], r.locks[y])
  BY DEF Kept
<1>1. LockKept(st.locks[y], x.locks[y]) /\ LockKept(x.locks[y], r.locks[y])
  BY DEF Kept
<1> QED
  BY <1>1 DEF LockKept, IsUnlocking

LEMMA SlashAllOK ==
  ASSUME NEW t \in Nat \ {0}, NEW st, StoreOK(st, {}, t), NEW val, SlashedLocks(st, val) \subseteq DOMAIN st.locks
  PROVE  LET r == SlashLockupsForValidatorSlash(st, val)
         IN  /\ StoreOK(r, {}, t) /\ Kept(st, r) /\ DOMAIN r.locks = DOMAIN st.locks
             /\ r.lastLockID = st.lastLockID /\ r.synths = st.synths
<1> DEFINE S == SlashedLocks(st, val)
           Good(x) == /\ StoreOK(x, {}, t) /\ Kept(st, x) /\ DOMAIN x.locks = DOMAIN st.locks
                      /\ x.lastLockID = st.lastLockID /\ x.synths = st.synths
           Q == {q \in (SUBSET S) \X Stores : Good(q[2])}
           F == [p \in S \X Stores |-> slashSynthLock(p[2], p[1])]
           pick == Chosen(S)
<1>1. S \subseteq DOMAIN st.locks /\ IsFiniteSet(S)
  <2>1. S \subseteq DOMAIN st.locks
    OBVIOUS
  <2>2. DOMAIN st.locks \subseteq Ids
    BY StoreFields, LocksAre DEF StoreOK
  <2> HIDE DEF S
  <2> QED
    BY <2>1, <2>2, IdsFinite, FS_Subset
<1>2. /\ \A s \in SUBSET S : pick[s] = CHOOSE x \in s : TRUE
      /\ \A s \in SUBSET S : s # {} => pick[s] \in s
  BY ChosenIn
<1> HIDE DEF S, pick
<1>3. \A s \in SUBSET S, x \in Stores : <<s, x>> \in Q <=> Good(x)
  BY DEF Good
<1>4. <<{}, st>> \in Q
  BY <1>3 DEF StoreOK, Kept, LockKept
<1>5. ASSUME NEW s \in SUBSET S, NEW x, s # {}, <<s \ {pick[s]}, x>> \in Q
      PROVE  <<s, F[<<pick[s], x>>]>> \in Q /\ F[<<pick[s], x>>] = slashSynthLock(x, pick[s])
  <2> DEFINE e == pick[s]
             r == slashSynthLock(x, e)
  <2>1. e \in s /\ e \in S
    BY <1>2, <1>5
  <2>2. x \in Stores /\ Good(x)
    BY <1>5
  <2>3. F[<<e, x>>] = r
    BY <2>1, <2>2
  <2> HIDE DEF e, r, F, Q
  <2>4. e \in DOMAIN x.locks
    BY <1>1, <2>1, <2>2
  <2>5. /\ StoreOK(r, {}, t) /\ r.synths = x.synths /\ r.lastLockID = x.lastLockID
        /\ Kept(x, r) /\ DOMAIN r.locks = DOMAIN x.locks
    BY <2>2, <2>4, SlashSynthLockOK DEF r
  <2>6. Kept(st, r)
    BY <2>2, <2>5, KeptTransitive
  <2>8. Good(r) /\ r \in Stores
    BY <2>2, <2>5, <2>6 DEF StoreOK
  <2> QED
    BY <1>3, <2>3, <2>8 DEF e, r
<1> HIDE DEF Q, F, Good
<1>0. Picks(pick, S) /\ Preserves(F, st, pick, S, Q)
  BY <1>2, <1>4, <1>5 DEF Picks, Preserves
<1>6. \A run : SlashesAll(S, st, run) => \A s \in SUBSET S : <<s, run[s]>> \in Q
  <2> SUFFICES ASSUME NEW run, SlashesAll(S, st, run) PROVE \A s \in SUBSET S : <<s, run[s]>> \in Q
    OBVIOUS
  <2>1. run[{}] = st
    BY DEF SlashesAll
  <2>2. ASSUME NEW s \in SUBSET S, s # {}, <<s \ {pick[s]}, run[s \ {pick[s]}]>> \in Q
        PROVE  run[s] = F[<<pick[s], run[s \ {pick[s]}]>>]
    <3>1. run[s] = slashSynthLock(run[s \ {pick[s]}], pick[s])
      BY <1>2, <2>2 DEF SlashesAll
    <3> QED
      BY <1>5, <2>2, <3>1
  <2>3. Follows(F, st, pick, S, Q, run)
    BY <2>1, <2>2 DEF Follows
  <2> QED
    BY <1>0, <1>1, <2>3, FoldInvariant
<1>7. \E run : SlashesAll(S, st, run)
  <2>1. PICK run : IsFold(F, st, pick, S, run)
    BY <1>1, <1>2, FoldExists
  <2>2. run[{}] = st /\ \A s \in SUBSET S : s # {} => run[s] = F[<<pick[s], run[s \ {pick[s]}]>>]
    BY <2>1 DEF IsFold
  <2>3. \A s \in SUBSET S : <<s, run[s]>> \in Q
    <3>1. Follows(F, st, pick, S, Q, run)
      BY <2>2 DEF Follows
    <3> QED
      BY <1>0, <1>1, <3>1, FoldInvariant
  <2>4. ASSUME NEW s \in SUBSET S, s # {}
        PROVE  run[s] = slashSynthLock(run[s \ {pick[s]}], pick[s])
    BY <1>5, <2>2, <2>3, <2>4
  <2>5. run = [s \in SUBSET S |-> run[s]]
    BY <2>1 DEF IsFold
  <2>6. \A s \in SUBSET S :
          run[s] = IF s = {} THEN st
                   ELSE slashSynthLock(run[s \ {CHOOSE x \in s : TRUE}], CHOOSE x \in s : TRUE)
    BY <1>2, <2>2, <2>4
  <2>7. SlashesAll(S, st, run)
    BY <2>5, <2>6 DEF SlashesAll
  <2> QED
    BY <2>7
<1>8. <<S, SlashLockupsForValidatorSlash(st, val)>> \in Q
  <2>1. SlashesAll(S, st, CHOOSE run : SlashesAll(S, st, run))
    BY <1>7
  <2>2. SlashLockupsForValidatorSlash(st, val) = (CHOOSE run : SlashesAll(S, st, run))[S]
    BY SlashesAllDef DEF S
  <2> QED
    BY <1>6, <2>1, <2>2
<1> QED
  BY <1>8 DEF Q, Good, S

----------------------------------------------------------------------------
(* What the iterators over the index find                                  *)

LEMMA RefFields ==
  ASSUME NEW u, NEW b, NEW t, NEW d, NEW id
  PROVE  /\ Ref(u, b, t, d, id).unlocking = u /\ Ref(u, b, t, d, id).by = b /\ Ref(u, b, t, d, id).at = t
         /\ Ref(u, b, t, d, id).denom = d /\ Ref(u, b, t, d, id).id = id
BY DEF Ref

LEMMA RefElements ==
  ASSUME NEW id, NEW l, NEW x
  PROVE  x \in RefsOf(id, l) <=> \/ x = Ref(IsUnlocking(l), "duration", l.duration, l.denom, id)
                                 \/ IsUnlocking(l) /\ x = Ref(TRUE, "time", l.endTime, l.denom, id)
<1>1. CASE IsUnlocking(l)
  <2>1. IsUnlocking(l) = TRUE
    BY <1>1 DEF IsUnlocking
  <2> QED
    BY <1>1, <2>1, Zenon DEF RefsOf, lockRefKeys, durationLockRefKeys
<1>2. CASE ~ IsUnlocking(l)
  <2>1. IsUnlocking(l) = FALSE
    BY <1>2 DEF IsUnlocking
  <2> QED
    BY <1>2, <2>1, Zenon DEF RefsOf, durationLockRefKeys
<1> QED
  BY <1>1, <1>2

\* The reference of a lock by duration is in the index, and the one by end time if it unlocks.
LEMMA IndexFinds ==
  ASSUME NEW t, NEW st, StoreOK(st, {}, t), NEW id \in DOMAIN st.locks
  PROVE  LET l == st.locks[id]
         IN  /\ Ref(IsUnlocking(l), "duration", l.duration, l.denom, id) \in st.refs
             /\ IsUnlocking(l) => Ref(TRUE, "time", l.endTime, l.denom, id) \in st.refs
<1> DEFINE l == st.locks[id]
<1>1. l \in Lock /\ id \in Ids /\ l.denom \in Denoms /\ IsUnlocking(l) \in BOOLEAN
  BY StoreLock DEF StoreOK, IsUnlocking
<1>2. \A x \in RefsOf(id, l) : x \in RefType /\ x.id = id /\ x.denom \in Denoms
  BY <1>1, LockRefKeys
<1>3. \A x \in RefsOf(id, l) : x \in st.refs
  BY <1>2 DEF StoreOK, Indexed
<1> HIDE DEF l
<1> QED
  BY <1>3, RefElements DEF l

LEMMA FoundInIndex ==
  ASSUME NEW t, NEW st, StoreOK(st, {}, t), NEW x \in st.refs, x.denom \in Denoms
  PROVE  LET l == st.locks[x.id]
         IN  /\ x.id \in DOMAIN st.locks /\ l.denom = x.denom /\ x.unlocking = IsUnlocking(l)
             /\ x.by = "duration" => x.at = l.duration
             /\ x.by = "time" => IsUnlocking(l) /\ x.at = l.endTime
<1> DEFINE l == st.locks[x.id]
<1>1. x \in RefType
  BY StoreFields DEF StoreOK
<1>2. x.id \in DOMAIN st.locks /\ x \in RefsOf(x.id, l)
  BY <1>1 DEF StoreOK, Indexed
<1> HIDE DEF l
<1>3. \/ x = Ref(IsUnlocking(l), "duration", l.duration, l.denom, x.id)
      \/ IsUnlocking(l) /\ x = Ref(TRUE, "time", l.endTime, l.denom, x.id)
  BY <1>2, RefElements
<1>4. CASE x = Ref(IsUnlocking(l), "duration", l.duration, l.denom, x.id)
  <2>1. x.unlocking = IsUnlocking(l) /\ x.by = "duration" /\ x.at = l.duration /\ x.denom = l.denom
    BY <1>4, RefFields
  <2> QED
    BY <1>2, <2>1 DEF l
<1>5. CASE IsUnlocking(l) /\ x = Ref(TRUE, "time", l.endTime, l.denom, x.id)
  <2>1. x.unlocking = TRUE /\ x.by = "time" /\ x.at = l.endTime /\ x.denom = l.denom
    <3> DEFINE y == Ref(TRUE, "time", l.endTime, l.denom, x.id)
    <3>1. y.unlocking = TRUE /\ y.by = "time" /\ y.at = l.endTime /\ y.denom = l.denom
      BY Zenon DEF Ref
    <3>2. x = y
      BY <1>5
    <3> HIDE DEF y
    <3> QED
      BY <3>1, <3>2
  <2>2. IsUnlocking(l) = TRUE
    BY <1>5 DEF IsUnlocking
  <2> QED
    BY <1>2, <2>1, <2>2 DEF l
<1> QED
  BY <1>3, <1>4, <1>5

ByDuration(st, u, d, T) ==
  {id \in DOMAIN st.locks : /\ st.locks[id].denom = d /\ IsUnlocking(st.locks[id]) = u
                            /\ st.locks[id].duration \in T}

LEMMA ByDurationAre ==
  ASSUME NEW t, NEW st, StoreOK(st, {}, t), NEW u \in BOOLEAN, NEW d \in Denoms, NEW T
  PROVE  LocksByDuration(st, u, d, T) = ByDuration(st, u, d, T)
<1> DEFINE Found == {x \in st.refs : x.by = "duration" /\ x.unlocking = u /\ x.denom = d /\ x.at \in T}
<1>1. LocksByDuration(st, u, d, T) = {x.id : x \in Found}
  BY DEF LocksByDuration
<1>2. ASSUME NEW x \in Found
      PROVE  /\ x.id \in DOMAIN st.locks /\ st.locks[x.id].denom = d /\ IsUnlocking(st.locks[x.id]) = u
             /\ st.locks[x.id].duration \in T
  <2>1. x \in st.refs /\ x.denom \in Denoms /\ x.by = "duration" /\ x.unlocking = u /\ x.denom = d /\ x.at \in T
    OBVIOUS
  <2>2. /\ x.id \in DOMAIN st.locks /\ st.locks[x.id].denom = x.denom /\ x.unlocking = IsUnlocking(st.locks[x.id])
        /\ x.at = st.locks[x.id].duration
    BY <2>1, FoundInIndex
  <2> QED
    BY <2>1, <2>2
<1>3. ASSUME NEW id \in DOMAIN st.locks, st.locks[id].denom = d, IsUnlocking(st.locks[id]) = u,
             st.locks[id].duration \in T
      PROVE  \E x \in Found : id = x.id
  <2> DEFINE x == Ref(IsUnlocking(st.locks[id]), "duration", st.locks[id].duration, st.locks[id].denom, id)
  <2>1. x \in st.refs
    BY IndexFinds
  <2>2. /\ x.unlocking = IsUnlocking(st.locks[id]) /\ x.by = "duration" /\ x.at = st.locks[id].duration
        /\ x.denom = st.locks[id].denom /\ x.id = id
    BY RefFields
  <2> HIDE DEF x
  <2>3. x \in Found
    BY <1>3, <2>1, <2>2
  <2> QED
    BY <2>2, <2>3
<1> HIDE DEF Found
<1> QED
  BY <1>1, <1>2, <1>3 DEF ByDuration

LEMMA MaturedLocksAre ==
  ASSUME NEW t, NEW st, StoreOK(st, {}, t), NEW n
  PROVE  LockIteratorBeforeTime(st, n) =
           {id \in DOMAIN st.locks : IsUnlocking(st.locks[id]) /\ st.locks[id].endTime <= n}
<1> DEFINE Found == {x \in st.refs : x.by = "time" /\ x.unlocking /\ x.at <= n /\ x.denom \in Denoms}
<1>1. LockIteratorBeforeTime(st, n) = {x.id : x \in Found}
  BY DEF LockIteratorBeforeTime
<1>2. ASSUME NEW x \in Found
      PROVE  x.id \in DOMAIN st.locks /\ IsUnlocking(st.locks[x.id]) /\ st.locks[x.id].endTime <= n
  <2>1. x \in st.refs /\ x.denom \in Denoms /\ x.by = "time" /\ x.at <= n
    OBVIOUS
  <2>2. x.id \in DOMAIN st.locks /\ IsUnlocking(st.locks[x.id]) /\ x.at = st.locks[x.id].endTime
    BY <2>1, FoundInIndex
  <2> QED
    BY <2>1, <2>2
<1>3. ASSUME NEW id \in DOMAIN st.locks, IsUnlocking(st.locks[id]), st.locks[id].endTime <= n
      PROVE  \E x \in Found : id = x.id
  <2> DEFINE x == Ref(TRUE, "time", st.locks[id].endTime, st.locks[id].denom, id)
  <2>1. x \in st.refs
    BY <1>3, IndexFinds
  <2>2. /\ x.unlocking = TRUE /\ x.by = "time" /\ x.at = st.locks[id].endTime
        /\ x.denom = st.locks[id].denom /\ x.id = id
    BY Zenon DEF Ref
  <2>4. st.locks[id].denom \in Denoms
    BY StoreLock DEF StoreOK
  <2> HIDE DEF x
  <2>3. x \in Found
    BY <1>3, <2>1, <2>2, <2>4
  <2> QED
    BY <2>2, <2>3
<1> HIDE DEF Found
<1> QED
  BY <1>1, <1>2, <1>3

LEMMA LongerThanIs ==
  ASSUME NEW t, NEW st, StoreOK(st, {}, t), NEW d \in Denoms, NEW e \in 0 .. MaxDuration
  PROVE  GetLocksLongerThanDurationDenom(st, d, e) =
           {id \in DOMAIN st.locks : st.locks[id].denom = d /\ st.locks[id].duration >= e}
<1> DEFINE By(u) == LocksByDuration(st, u, d, e .. MaxDuration)
<1>1. GetLocksLongerThanDurationDenom(st, d, e) = By(TRUE) \cup By(FALSE)
  BY DEF GetLocksLongerThanDurationDenom
<1>2. ASSUME NEW u \in BOOLEAN
      PROVE  By(u) = {id \in DOMAIN st.locks : /\ st.locks[id].denom = d /\ IsUnlocking(st.locks[id]) = u
                                               /\ st.locks[id].duration \in e .. MaxDuration}
  <2>1. u \in BOOLEAN /\ d \in Denoms /\ StoreOK(st, {}, t)
    OBVIOUS
  <2>2. By(u) = ByDuration(st, u, d, e .. MaxDuration)
    BY <2>1, ByDurationAre, Zenon
  <2> QED
    BY <2>2 DEF ByDuration
<1> HIDE DEF By
<1>3. \A id \in DOMAIN st.locks : /\ st.locks[id].duration \in 0 .. MaxDuration
                                  /\ IsUnlocking(st.locks[id]) = TRUE \/ IsUnlocking(st.locks[id]) = FALSE
  BY StoreLock DEF StoreOK, IsUnlocking
<1>4. \A id \in DOMAIN st.locks : st.locks[id].duration \in e .. MaxDuration <=> st.locks[id].duration >= e
  BY <1>3, UnbondingTimeFacts
<1>5. /\ By(TRUE) = {id \in DOMAIN st.locks : /\ st.locks[id].denom = d /\ IsUnlocking(st.locks[id]) = TRUE
                                              /\ st.locks[id].duration \in e .. MaxDuration}
      /\ By(FALSE) = {id \in DOMAIN st.locks : /\ st.locks[id].denom = d /\ IsUnlocking(st.locks[id]) = FALSE
                                               /\ st.locks[id].duration \in e .. MaxDuration}
  BY <1>2
<1> QED
  BY <1>1, <1>3, <1>4, <1>5

----------------------------------------------------------------------------
(* Undelegated stake serves its time                                       *)

LEMMA ServedKept ==
  ASSUME NEW l, NEW m, NEW s, NEW r, NEW a, NEW t, Served(l, s, a, t), LockKept(l, m), s \subseteq r
  PROVE  Served(m, r, a, t)
BY DEF Served, LockKept, IsUnlocking

\* A lock of r is one of st with its history, or serves its time.
ServedOn(st, r, at, bt, t, id) ==
  \/ /\ id \in DOMAIN st.locks /\ bt[id] = at[id]
     /\ LockKept(st.locks[id], r.locks[id])
     /\ SynthsOf(st, id) \subseteq SynthsOf(r, id)
  \/ Served(r.locks[id], SynthsOf(r, id), bt[id], t)

LEMMA UnbondingKept ==
  ASSUME NEW st, NEW r, NEW at, NEW bt, NEW t, UnbondingOK(st, at, t),
         \A id \in Ids : bt[id] \in 0 .. t,
         \A id \in Ids : id > r.lastLockID => bt[id] = 0,
         \A id \in DOMAIN r.locks : ServedOn(st, r, at, bt, t, id)
  PROVE  UnbondingOK(r, bt, t)
<1>1. ASSUME NEW id \in DOMAIN r.locks
      PROVE  Served(r.locks[id], SynthsOf(r, id), bt[id], t)
  <2>1. ServedOn(st, r, at, bt, t, id)
    OBVIOUS
  <2>2. CASE /\ id \in DOMAIN st.locks /\ bt[id] = at[id]
             /\ LockKept(st.locks[id], r.locks[id])
             /\ SynthsOf(st, id) \subseteq SynthsOf(r, id)
    <3>1. Served(st.locks[id], SynthsOf(st, id), bt[id], t)
      BY <2>2 DEF UnbondingOK
    <3> QED
      BY <2>2, <3>1, ServedKept
  <2> QED
    BY <2>1, <2>2 DEF ServedOn
<1> QED
  BY <1>1 DEF UnbondingOK

\* The history and the synthetic locks stay, and a new lock has no history yet.
LEMMA UnbondingSame ==
  ASSUME NEW st \in Stores, NEW r \in Stores, NEW at, NEW t, UnbondingOK(st, at, t), Numbered(r), Kept(st, r),
         st.lastLockID <= r.lastLockID, st.synths \subseteq r.synths,
         \A id \in DOMAIN r.locks \ DOMAIN st.locks : id > st.lastLockID
  PROVE  UnbondingOK(r, at, t)
<1>1. st.lastLockID \in Nat /\ r.lastLockID \in Nat /\ DOMAIN r.locks \subseteq Ids /\ Ids \subseteq Nat
  BY StoreFields, LocksAre, UnbondingTimeFacts DEF Ids
<1>2. \A id \in Ids : id > r.lastLockID => at[id] = 0
  BY <1>1 DEF UnbondingOK
<1>3. ASSUME NEW id \in DOMAIN r.locks
      PROVE  ServedOn(st, r, at, at, t, id)
  <2>1. CASE id \in DOMAIN st.locks
    BY <2>1 DEF Kept, ServedOn, SynthsOf
  <2>2. CASE id \notin DOMAIN st.locks
    <3>1. at[id] = 0
      BY <1>1, <2>2 DEF UnbondingOK
    <3> QED
      BY <3>1 DEF ServedOn, Served
  <2> QED
    BY <2>1, <2>2
<1> QED
  BY <1>2, <1>3, UnbondingKept DEF UnbondingOK

\* What the store has to satisfy for the invariant to hold, and what a step keeps of it
LEMMA InvFacts ==
  ASSUME IInv
  PROVE  /\ now \in Nat \ {0} /\ StoreOK(store, {}, now) /\ store \in Stores
         /\ DOMAIN store.locks \subseteq 1 .. store.lastLockID /\ DOMAIN store.locks \subseteq Ids
         /\ store.lastLockID \in Nat /\ store.lastLockID <= MaxLocks
         /\ connection \in [Ids -> Vals \cup {None}] /\ unbondedAt \in [Ids -> Nat]
         /\ ConnectionsOK(store, connection) /\ UnbondingOK(store, unbondedAt, now)
<1>1. StoreOK(store, {}, now) /\ store \in Stores
  BY DEF IInv, StoreOK
<1>2. DOMAIN store.locks \subseteq 1 .. store.lastLockID
  BY <1>1 DEF StoreOK, Numbered
<1>3. DOMAIN store.locks \subseteq Ids /\ store.lastLockID \in Nat /\ store.lastLockID <= MaxLocks
  BY <1>1, StoreFields, LocksAre, UnbondingTimeFacts
<1> QED
  BY <1>1, <1>2, <1>3 DEF IInv

\* Only the end of a block, a forced unlock and an exit from the pool remove locks.
KeepsLocks == DOMAIN store.locks \subseteq DOMAIN store'.locks

\* A step that leaves time, multiplier, asset and halt alone
LEMMA InvIntro ==
  ASSUME IInv, StoreOK(store', {}, now), UNCHANGED <<now, multiplier, registered, halted>>,
         connection' \in [Ids -> Vals \cup {None}], unbondedAt' \in [Ids -> Nat],
         ConnectionsOK(store', connection'), UnbondingOK(store', unbondedAt', now)
  PROVE  IInv'
BY DEF IInv, StoreOK, ConnectionsOK, UnbondingOK

LEMMA SameConnections ==
  ASSUME NEW st, NEW r, NEW conn, ConnectionsOK(st, conn), r.synths = st.synths
  PROVE  ConnectionsOK(r, conn)
BY DEF ConnectionsOK

\* A step that leaves connections, history and synthetic locks alone
LEMMA InvSame ==
  ASSUME IInv, StoreOK(store', {}, now), UNCHANGED <<now, connection, multiplier, registered, unbondedAt, halted>>,
         Kept(store, store'), store.lastLockID <= store'.lastLockID, store'.synths = store.synths,
         \A id \in DOMAIN store'.locks \ DOMAIN store.locks : id > store.lastLockID
  PROVE  IInv'
<1>1. StoreOK(store', {}, now) /\ store' \in Stores /\ Numbered(store')
  BY DEF StoreOK
<1>2. UnbondingOK(store', unbondedAt, now)
  BY <1>1, InvFacts, UnbondingSame
<1>3. ConnectionsOK(store', connection)
  BY InvFacts, SameConnections
<1> QED
  BY <1>1, <1>2, <1>3, InvFacts, InvIntro

----------------------------------------------------------------------------
(* The messages                                                            *)

LEMMA MinIn ==
  ASSUME NEW S \in SUBSET Ids, S # {}
  PROVE  Min(S) \in S
<1>1. S \subseteq Nat
  BY UnbondingTimeFacts DEF Ids
<1>2. \E m \in S : \A k \in S : m <= k
  BY <1>1, LeastNatural
<1> QED
  BY <1>2 DEF Min

LEMMA ExistingAre ==
  ASSUME IInv, NEW o, NEW u
  PROVE  Existing(o, u) \subseteq DOMAIN store.locks
<1>1. LocksByDuration(store, FALSE, Share, {u}) = ByDuration(store, FALSE, Share, {u})
  <2>1. FALSE \in BOOLEAN /\ Share \in Denoms /\ StoreOK(store, {}, now)
    BY InvFacts DEF Denoms
  <2> QED
    BY <2>1, ByDurationAre, Zenon
<1> QED
  BY <1>1 DEF Existing, GetAccountLockedDurationNotUnlockingOnly, OwnedBy, ByDuration

\* What LockTokens leaves: a new lock, or more in one that was there
LockedWell(r) ==
  /\ StoreOK(r.st, {}, now) /\ Kept(store, r.st) /\ r.st.synths = store.synths
  /\ store.lastLockID <= r.st.lastLockID /\ DOMAIN r.st.locks = DOMAIN store.locks \cup {r.id}
  /\ r.id \in Ids /\ (r.id \in DOMAIN store.locks \/ r.id > store.lastLockID)

LockedAmounts(r, a) ==
  /\ \A y \in DOMAIN store.locks \ {r.id} : r.st.locks[y] = store.locks[y]
  /\ r.st.locks[r.id].amount = a + (IF r.id \in DOMAIN store.locks THEN store.locks[r.id].amount ELSE 0)

LEMMA LockedOK ==
  ASSUME IInv, NEW o \in Owners, NEW a \in Nat \ {0}, NEW u \in Durations, CanLock(o, a, u)
  PROVE  LockedWell(Locked(o, a, u)) /\ LockedAmounts(Locked(o, a, u), a)
<1> DEFINE r == Locked(o, a, u)
<1>0. Share \in Denoms /\ u \in 0 .. MaxDuration
  BY LockupAssumption DEF Denoms, Durations
<1>1. CASE Existing(o, u) = {}
  <2> DEFINE s == CreateLock(store, o, Share, a, u)
             l == NewLock(o, Share, a, u)
             n == store.lastLockID + 1
  <2>1. r.st = s /\ r.id = n
    BY <1>1 DEF Locked
  <2>2. store.lastLockID < MaxLocks
    BY <1>1 DEF CanLock, CanCreateLock
  <2>3. StoreOK(s, {}, now) /\ s.locks = Put(store.locks, n, l) /\ s.synths = store.synths /\ s.lastLockID = n
        /\ n \notin DOMAIN store.locks
    BY <1>0, <2>2, InvFacts, CreateLockOK
  <2>4. n \in Ids /\ l \in Lock /\ store.lastLockID < n /\ store.lastLockID <= n
    BY <1>0, <2>2, InvFacts, UnbondingTimeFacts DEF Ids, Lock, NewLock, NoTime
  <2>6. l.amount = a
    BY DEF NewLock
  <2> HIDE DEF s, l, n, r
  <2>5. /\ Kept(store, s) /\ DOMAIN s.locks = DOMAIN store.locks \cup {n} /\ s.locks[n] = l
        /\ \A y \in DOMAIN store.locks : y # n => s.locks[y] = store.locks[y]
    <3>1. /\ store \in Stores /\ n \in Ids /\ l \in Lock /\ s.locks = Put(store.locks, n, l)
          /\ n \in DOMAIN store.locks => LockKept(store.locks[n], l)
      BY <2>3, <2>4, InvFacts
    <3> QED
      BY ONLY <3>1, PutKept, SMTT(30)
  <2>7. LockedAmounts(r, a)
    BY <2>1, <2>3, <2>5, <2>6 DEF LockedAmounts
  <2> QED
    BY <2>1, <2>3, <2>4, <2>5, <2>7, InvFacts DEF r, LockedWell
<1>2. CASE Existing(o, u) # {}
  <2> DEFINE n == Min(Existing(o, u))
             s == AddTokensToLockByID(store, n, a)
             b == store.locks[n].amount + a
             m == WithAmount(store.locks[n], b)
  <2>1. r.st = s /\ r.id = n
    BY <1>2 DEF Locked
  <2>2. n \in DOMAIN store.locks /\ n \in Ids
    <3>1. Existing(o, u) \in SUBSET Ids
      BY ExistingAre, InvFacts
    <3> QED
      BY <1>2, <3>1, MinIn, ExistingAre
  <2> HIDE DEF n
  <2>3. StoreOK(s, {}, now) /\ s.locks = Put(store.locks, n, m) /\ s.synths = store.synths
        /\ s.lastLockID = store.lastLockID
    BY <2>2, InvFacts, AddTokensOK
  <2>4. b \in Nat \ {0} /\ store.locks[n] \in Lock
    BY <2>2, InvFacts, StoreLock
  <2> HIDE DEF s, r, b
  <2>5. m \in Lock /\ LockKept(store.locks[n], m) /\ m.amount = b
    BY <2>4, WithAmountFacts DEF LockKept
  <2> HIDE DEF m
  <2>7. /\ store \in Stores /\ n \in Ids /\ m \in Lock /\ s.locks = Put(store.locks, n, m)
        /\ n \in DOMAIN store.locks => LockKept(store.locks[n], m)
    BY <2>2, <2>3, <2>5, InvFacts
  <2>6. /\ Kept(store, s) /\ DOMAIN s.locks = DOMAIN store.locks \cup {n} /\ s.locks[n] = m
        /\ \A y \in DOMAIN store.locks : y # n => s.locks[y] = store.locks[y]
    BY ONLY <2>7, PutKept, SMTT(30)
  <2>8. LockedAmounts(r, a)
    <3>1. b = a + store.locks[n].amount
      BY <2>4 DEF b, Lock
    <3> QED
      BY <2>1, <2>2, <2>5, <2>6, <3>1 DEF LockedAmounts
  <2> QED
    BY <2>1, <2>2, <2>3, <2>6, <2>8, InvFacts DEF r, LockedWell
<1> QED
  BY <1>1, <1>2

LEMMA LockTokensInv ==
  ASSUME IInv, NEW o \in Owners, NEW a \in 1 .. InitialShares, NEW u \in Durations, LockTokens(o, a, u)
  PROVE  IInv' /\ KeepsLocks
<1> DEFINE r == Locked(o, a, u)
<1>1. CanLock(o, a, u) /\ store' = r.st /\ UNCHANGED <<now, connection, multiplier, registered, unbondedAt, halted>>
  BY DEF LockTokens
<1>2. LockedWell(r)
  BY <1>1, LockedOK
<1> HIDE DEF r
<1>3. \A id \in DOMAIN store'.locks \ DOMAIN store.locks : id > store.lastLockID
  BY <1>1, <1>2 DEF LockedWell
<1> QED
  BY <1>1, <1>2, <1>3, InvSame DEF LockedWell, KeepsLocks

LEMMA NoSynths ==
  ASSUME NEW st, NEW id, ~ HasAnySyntheticLockups(st, id)
  PROVE  (\A s \in st.synths : s.id # id) /\ SynthsOf(st, id) = {}
BY DEF HasAnySyntheticLockups, SynthsOf

LEMMA BeginUnlockingInv ==
  ASSUME IInv, NEW id \in DOMAIN store.locks, NEW a \in 0 .. InitialShares, BeginUnlocking(id, a)
  PROVE  IInv' /\ KeepsLocks
<1> DEFINE r == beginUnlock(store, id, a, now)
           l == store.locks[id]
<1>1. /\ CanSplit(store, id, a) /\ ~ IsUnlocking(l) /\ ~ HasAnySyntheticLockups(store, id)
      /\ store' = r.st /\ unbondedAt' = [unbondedAt EXCEPT ![r.id] = unbondedAt[id]]
      /\ UNCHANGED <<now, connection, multiplier, registered, halted>>
  BY DEF BeginUnlocking, CanBeginUnlock, CanBeginForceUnlock, Inherit
<1>2. (\A s \in store.synths : s.id # id) /\ SynthsOf(store, id) = {}
  BY <1>1, NoSynths
<1>3. CASE ~ IsPart(store, id, a)
  <2>1. /\ r.id = id /\ StoreOK(r.st, {}, now) /\ r.st.synths = store.synths /\ r.st.lastLockID = store.lastLockID
        /\ Kept(store, r.st) /\ DOMAIN r.st.locks = DOMAIN store.locks
    BY <1>1, <1>2, <1>3, InvFacts, BeginWholeOK
  <2> HIDE DEF r
  <2>2. unbondedAt' = unbondedAt
    BY <1>1, <2>1, InvFacts
  <2> QED
    BY <1>1, <2>1, <2>2, InvFacts, InvSame DEF KeepsLocks
<1>4. CASE IsPart(store, id, a)
  <2> DEFINE n == r.id
             m == WithEnd(WithAmount(l, a), now + l.duration)
  <2>1. /\ n = store.lastLockID + 1 /\ n \in Ids /\ n \notin DOMAIN store.locks
        /\ StoreOK(r.st, {}, now) /\ r.st.synths = store.synths /\ r.st.lastLockID = n
        /\ Kept(store, r.st) /\ DOMAIN r.st.locks = DOMAIN store.locks \cup {n}
    BY <1>1, <1>2, <1>4, InvFacts, BeginPartOK
  <2> HIDE DEF r
  <2>2. /\ \A i \in Ids \ {n} : unbondedAt'[i] = unbondedAt[i]
        /\ unbondedAt'[n] = unbondedAt[id] /\ unbondedAt' \in [Ids -> Nat] /\ unbondedAt[id] \in 0 .. now
    BY <1>1, <2>1, InvFacts DEF UnbondingOK
  <2>3. unbondedAt[id] = 0 \/ now >= unbondedAt[id] + UnbondingTime
    <3>1. Served(l, {}, unbondedAt[id], now)
      BY <1>2, InvFacts DEF UnbondingOK
    <3> QED
      BY <1>1, <3>1 DEF Served
  <2>4. ASSUME NEW i \in DOMAIN store'.locks PROVE ServedOn(store, store', unbondedAt, unbondedAt', now, i)
    <3>1. CASE i = n
      BY <2>2, <2>3, <3>1 DEF ServedOn, Served
    <3>2. CASE i # n
      BY <1>1, <2>1, <2>2, <3>2, InvFacts DEF ServedOn, Kept, SynthsOf
    <3> QED
      BY <3>1, <3>2
  <2>5. \A i \in Ids : unbondedAt'[i] \in 0 .. now /\ (i > store'.lastLockID => unbondedAt'[i] = 0)
    BY <1>1, <2>1, <2>2, InvFacts DEF UnbondingOK, Ids
  <2>6. UnbondingOK(store', unbondedAt', now)
    BY <2>4, <2>5, InvFacts, UnbondingKept
  <2>7. ConnectionsOK(store', connection)
    BY <1>1, <2>1, InvFacts, SameConnections
  <2> QED
    BY <1>1, <2>1, <2>2, <2>6, <2>7, InvFacts, InvIntro DEF KeepsLocks
<1> QED
  BY <1>3, <1>4

\* The locks BeginUnlockingAll finds
LEMMA OwnedLocks ==
  ASSUME IInv, NEW o
  PROVE  OwnedBy(store, o, UNION {LocksByDuration(store, FALSE, d, 0 .. MaxDuration) : d \in Denoms})
           \in SUBSET DOMAIN store.locks
<1>1. ASSUME NEW d \in Denoms
      PROVE  LocksByDuration(store, FALSE, d, 0 .. MaxDuration) = ByDuration(store, FALSE, d, 0 .. MaxDuration)
  <2>1. FALSE \in BOOLEAN /\ StoreOK(store, {}, now)
    BY InvFacts
  <2> QED
    BY <2>1, ByDurationAre, Zenon
<1>2. \A d \in Denoms : LocksByDuration(store, FALSE, d, 0 .. MaxDuration) \subseteq DOMAIN store.locks
  BY <1>1 DEF ByDuration
<1> QED
  BY <1>2 DEF OwnedBy

LEMMA BeginUnlockingAllInv ==
  ASSUME IInv, NEW o \in Owners, BeginUnlockingAll(o)
  PROVE  IInv' /\ KeepsLocks
<1> DEFINE S == OwnedBy(store, o, UNION {LocksByDuration(store, FALSE, d, 0 .. MaxDuration) : d \in Denoms})
           r == BeginAll(S, store, now)
<1>1. /\ \A id \in S : CanBeginUnlock(store, id, 0)
      /\ store' = r /\ UNCHANGED <<now, connection, multiplier, registered, unbondedAt, halted>>
  BY DEF BeginUnlockingAll, BeginAll
<1>2. S \in SUBSET DOMAIN store.locks
  BY OwnedLocks
<1>3. \A id \in S : ~ IsUnlocking(store.locks[id]) /\ \A s \in store.synths : s.id # id
  BY <1>1, NoSynths DEF CanBeginUnlock, CanBeginForceUnlock
<1> HIDE DEF S
<1>4. /\ StoreOK(r, {}, now) /\ Kept(store, r) /\ DOMAIN r.locks = DOMAIN store.locks
      /\ r.lastLockID = store.lastLockID /\ r.synths = store.synths
  BY <1>2, <1>3, InvFacts, BeginAllOK
<1> HIDE DEF r
<1> QED
  BY <1>1, <1>4, InvFacts, InvSame DEF KeepsLocks

LEMMA ExtendInv ==
  ASSUME IInv, NEW id \in DOMAIN store.locks, NEW u \in Durations, MsgExtendLockup(id, u)
  PROVE  IInv' /\ KeepsLocks
<1> DEFINE r == ExtendLockup(store, id, u)
           l == store.locks[id]
           m == WithDuration(l, u)
<1>1. /\ ~ IsUnlocking(l) /\ ~ HasAnySyntheticLockups(store, id) /\ store' = r
      /\ UNCHANGED <<now, connection, multiplier, registered, unbondedAt, halted>>
  BY DEF MsgExtendLockup
<1>2. u \in 0 .. MaxDuration /\ l \in Lock /\ id \in Ids
  BY InvFacts, StoreLock, UnbondingTimeFacts DEF Durations
<1>3. \A s \in store.synths : s.id # id
  BY <1>1, NoSynths
<1>4. /\ StoreOK(r, {}, now) /\ r.locks = Put(store.locks, id, m)
      /\ r.synths = store.synths /\ r.lastLockID = store.lastLockID
  BY <1>1, <1>2, <1>3, InvFacts, ExtendLockupOK
<1> HIDE DEF r, l
<1>5. m \in Lock /\ LockKept(l, m)
  BY <1>2 DEF LockKept, WithDuration, Lock
<1> HIDE DEF m
<1>6. store \in Stores /\ (id \in DOMAIN store.locks => LockKept(store.locks[id], m))
  BY <1>5, InvFacts DEF l
<1>7. Kept(store, r) /\ DOMAIN r.locks = DOMAIN store.locks \cup {id}
  BY <1>2, <1>4, <1>5, <1>6, PutKept
<1> QED
  BY <1>1, <1>4, <1>7, InvFacts, InvSame DEF KeepsLocks

LEMMA ForceUnlockInv ==
  ASSUME IInv, NEW id \in DOMAIN store.locks, NEW a \in 0 .. InitialShares, MsgForceUnlock(id, a)
  PROVE  IInv'
<1> DEFINE r == PartialForceUnlock(store, id, a, now)
<1>1. /\ CanSplit(store, id, a) /\ ~ HasAnySyntheticLockups(store, id) /\ store' = r
      /\ UNCHANGED <<now, connection, multiplier, registered, unbondedAt, halted>>
  BY DEF MsgForceUnlock
<1>2. \A s \in store.synths : s.id # id
  BY <1>1, NoSynths
<1>3. /\ StoreOK(r, {}, now) /\ r.synths = store.synths /\ Kept(store, r) /\ DOMAIN r.locks \subseteq DOMAIN store.locks
      /\ r.lastLockID \in {store.lastLockID, store.lastLockID + 1}
  BY <1>1, <1>2, InvFacts, PartialForceUnlockOK
<1> HIDE DEF r
<1>4. store.lastLockID <= r.lastLockID
  BY <1>3, InvFacts
<1> QED
  BY <1>1, <1>3, <1>4, InvSame

BondSynth(id, v) ==
  [id |-> id, denom |-> stakingSyntheticDenom(v), duration |-> UnbondingTime, endTime |-> NoTime]

UnbondSynth(id, v, t) ==
  [id |-> id, denom |-> unstakingSyntheticDenom(v), duration |-> UnbondingTime, endTime |-> t + UnbondingTime]

LEMMA SynthFields ==
  ASSUME NEW id, NEW v, NEW t \in Nat
  PROVE  /\ BondSynth(id, v).id = id /\ BondSynth(id, v).denom = stakingSyntheticDenom(v)
         /\ ~ IsUnlocking(BondSynth(id, v))
         /\ UnbondSynth(id, v, t).id = id /\ UnbondSynth(id, v, t).denom = unstakingSyntheticDenom(v)
         /\ UnbondSynth(id, v, t).endTime = t + UnbondingTime /\ IsUnlocking(UnbondSynth(id, v, t))
BY UnbondingTimeFacts DEF BondSynth, UnbondSynth, IsUnlocking, NoTime

\* A lock without a synthetic lock gets one.
LEMMA DelegatedOK ==
  ASSUME IInv, NEW st, StoreOK(st, {}, now), NEW id \in DOMAIN st.locks, NEW v \in Vals,
         st.locks[id].denom = Share, UnbondingTime <= st.locks[id].duration, ~ IsUnlocking(st.locks[id]),
         \A s \in st.synths : s.id # id
  PROVE  LET r == Delegated(st, id, v)
         IN  /\ StoreOK(r, {}, now) /\ r.locks = st.locks /\ r.lastLockID = st.lastLockID
             /\ r.synths = st.synths \cup {BondSynth(id, v)}
<1> DEFINE z == stakingSyntheticDenom(v)
           r == CreateSyntheticLockup(st, id, z, UnbondingTime, FALSE, now)
<1>1. Delegated(st, id, v) = r
  BY DEF Delegated, createSyntheticLockup
<1>2. ASSUME NEW u \in BOOLEAN, u = FALSE
      PROVE  LET q == CreateSyntheticLockup(st, id, z, UnbondingTime, u, now)
             IN  /\ StoreOK(q, {}, now) /\ q.locks = st.locks /\ q.lastLockID = st.lastLockID
                 /\ q.synths = st.synths \cup {BondSynth(id, v)}
  <2>1. z = (IF u THEN unstakingSyntheticDenom(v) ELSE stakingSyntheticDenom(v))
    BY <1>2
  <2>0. NewSynth(id, z, u, now) = BondSynth(id, v)
    BY <1>2 DEF NewSynth, BondSynth
  <2> HIDE DEF z
  <2> QED
    BY <1>2, <2>0, <2>1, InvFacts, CreateSynthOK
<1> HIDE DEF z
<1>3. /\ StoreOK(r, {}, now) /\ r.locks = st.locks /\ r.lastLockID = st.lastLockID
      /\ r.synths = st.synths \cup {BondSynth(id, v)}
  BY <1>2
<1> QED
  BY <1>1, <1>3 DEF z

LEMMA UndelegatedOK ==
  ASSUME IInv, NEW st, NEW D, StoreOK(st, D, now), NEW id \in DOMAIN st.locks, NEW v \in Vals,
         st.locks[id].denom = Share, UnbondingTime <= st.locks[id].duration, \A s \in st.synths : s.id # id,
         IsUnlocking(st.locks[id]) => now + UnbondingTime <= st.locks[id].endTime
  PROVE  LET r == createSyntheticLockup(st, id, v, "unlocking")
         IN  /\ StoreOK(r, D, now) /\ r.locks = st.locks /\ r.lastLockID = st.lastLockID
             /\ r.synths = st.synths \cup {UnbondSynth(id, v, now)}
<1> DEFINE z == unstakingSyntheticDenom(v)
           r == CreateSyntheticLockup(st, id, z, UnbondingTime, TRUE, now)
<1>1. createSyntheticLockup(st, id, v, "unlocking") = r
  BY DEF createSyntheticLockup
<1>2. ASSUME NEW u \in BOOLEAN, u = TRUE
      PROVE  LET q == CreateSyntheticLockup(st, id, z, UnbondingTime, u, now)
             IN  /\ StoreOK(q, D, now) /\ q.locks = st.locks /\ q.lastLockID = st.lastLockID
                 /\ q.synths = st.synths \cup {UnbondSynth(id, v, now)}
  <2>1. z = (IF u THEN unstakingSyntheticDenom(v) ELSE stakingSyntheticDenom(v))
    BY <1>2
  <2>2. /\ now \in Nat \ {0} /\ StoreOK(st, D, now) /\ id \in DOMAIN st.locks /\ v \in Vals /\ u \in BOOLEAN
        /\ z = (IF u THEN unstakingSyntheticDenom(v) ELSE stakingSyntheticDenom(v))
        /\ st.locks[id].denom = Share /\ UnbondingTime <= st.locks[id].duration
        /\ ~ u => ~ IsUnlocking(st.locks[id])
        /\ IsUnlocking(st.locks[id]) => now + UnbondingTime <= st.locks[id].endTime
        /\ \A s \in st.synths : s.id # id
    BY <1>2, <2>1, InvFacts
  <2>0. NewSynth(id, z, u, now) = UnbondSynth(id, v, now)
    BY <1>2 DEF NewSynth, UnbondSynth
  <2> HIDE DEF z
  <2> QED
    BY ONLY <2>0, <2>2, CreateSynthOK
<1> HIDE DEF z
<1>3. /\ StoreOK(r, D, now) /\ r.locks = st.locks /\ r.lastLockID = st.lastLockID
      /\ r.synths = st.synths \cup {UnbondSynth(id, v, now)}
  BY <1>2
<1> QED
  BY <1>1, <1>3 DEF z

\* The connection and the synthetic locks of one lock change.
LEMMA ConnectionsChange ==
  ASSUME NEW st, NEW r, NEW conn \in [Ids -> Vals \cup {None}], ConnectionsOK(st, conn), NEW id \in Ids, NEW c,
         \A s : s.id # id => (s \in st.synths <=> s \in r.synths),
         \A v \in Vals : (c = v) <=> \E s \in r.synths : s.id = id /\ s.denom = stakingSyntheticDenom(v)
  PROVE  ConnectionsOK(r, [conn EXCEPT ![id] = c])
<1> SUFFICES ASSUME NEW i \in Ids, NEW v \in Vals
             PROVE  ([conn EXCEPT ![id] = c][i] = v) <=>
                      \E s \in r.synths : s.id = i /\ s.denom = stakingSyntheticDenom(v)
  BY DEF ConnectionsOK
<1>1. CASE i = id
  BY <1>1
<1>2. CASE i # id
  <2>1. conn[i] = v <=> \E s \in st.synths : s.id = i /\ s.denom = stakingSyntheticDenom(v)
    BY DEF ConnectionsOK
  <2>2. (\E s \in st.synths : s.id = i /\ s.denom = stakingSyntheticDenom(v))
        <=> (\E s \in r.synths : s.id = i /\ s.denom = stakingSyntheticDenom(v))
    BY <1>2
  <2> QED
    BY <1>2, <2>1, <2>2
<1> QED
  BY <1>1, <1>2

LEMMA SuperfluidDelegateInv ==
  ASSUME IInv, NEW id \in DOMAIN store.locks, NEW v \in Vals, SuperfluidDelegate(id, v)
  PROVE  IInv' /\ KeepsLocks
<1> DEFINE r == Delegated(store, id, v)
           l == store.locks[id]
           s == BondSynth(id, v)
<1>1. /\ l.denom = Share /\ ~ IsUnlocking(l) /\ l.duration >= UnbondingTime /\ ~ HasAnySyntheticLockups(store, id)
      /\ store' = r /\ connection' = [connection EXCEPT ![id] = v]
      /\ UNCHANGED <<now, multiplier, registered, unbondedAt, halted>>
  BY DEF SuperfluidDelegate, CanDelegate, alreadySuperfluidStaking
<1>2. (\A x \in store.synths : x.id # id) /\ SynthsOf(store, id) = {}
  BY <1>1, NoSynths
<1>3. UnbondingTime <= l.duration
  BY <1>1, InvFacts, StoreLock, UnbondingTimeFacts
<1>4. /\ StoreOK(r, {}, now) /\ r.locks = store.locks /\ r.lastLockID = store.lastLockID
      /\ r.synths = store.synths \cup {s}
  BY <1>1, <1>2, <1>3, InvFacts, DelegatedOK
<1>5. s.id = id /\ s.denom = stakingSyntheticDenom(v)
  BY InvFacts, SynthFields
<1> HIDE DEF r, l, s
<1>6. ConnectionsOK(store', connection')
  <2>1. \A x : x.id # id => (x \in store.synths <=> x \in r.synths)
    BY <1>4, <1>5
  <2>2. \A w \in Vals : (v = w) <=> \E x \in r.synths : x.id = id /\ x.denom = stakingSyntheticDenom(w)
    BY <1>2, <1>4, <1>5, DenomFacts
  <2> QED
    BY <1>1, <2>1, <2>2, InvFacts, ConnectionsChange
<1>7. UnbondingOK(store', unbondedAt, now)
  <2>1. Kept(store, r) /\ Numbered(r) /\ r \in Stores
    BY <1>4 DEF Kept, LockKept, StoreOK
  <2> QED
    BY <1>1, <1>4, <2>1, InvFacts, UnbondingSame
<1>8. connection' \in [Ids -> Vals \cup {None}]
  BY <1>1, InvFacts
<1> QED
  BY <1>1, <1>4, <1>6, <1>7, <1>8, InvFacts, InvIntro DEF KeepsLocks

LEMMA LockAndDelegateInv ==
  ASSUME IInv, NEW o \in Owners, NEW a \in 1 .. InitialShares, NEW v \in Vals, LockAndSuperfluidDelegate(o, a, v)
  PROVE  IInv' /\ KeepsLocks
<1> DEFINE k == Locked(o, a, UnbondingTime)
           id == k.id
           st == k.st
           r == Delegated(st, id, v)
           l == st.locks[id]
           s == BondSynth(id, v)
<1>1. /\ CanLock(o, a, UnbondingTime) /\ CanDelegate(st, connection, id)
      /\ store' = r /\ connection' = [connection EXCEPT ![id] = v]
      /\ UNCHANGED <<now, multiplier, registered, unbondedAt, halted>>
  BY DEF LockAndSuperfluidDelegate
<1>2. LockedWell(k)
  BY <1>1, SuperfluidAssumption, LockedOK
<1> HIDE DEF k
<1>3. /\ StoreOK(st, {}, now) /\ Kept(store, st) /\ st.synths = store.synths /\ store.lastLockID <= st.lastLockID
      /\ DOMAIN st.locks = DOMAIN store.locks \cup {id} /\ id \in Ids
      /\ id \in DOMAIN store.locks \/ id > store.lastLockID
  BY <1>2 DEF LockedWell
<1> HIDE DEF st, id
<1>4. l.denom = Share /\ ~ IsUnlocking(l) /\ l.duration >= UnbondingTime /\ ~ HasAnySyntheticLockups(st, id)
  BY <1>1 DEF CanDelegate, alreadySuperfluidStaking
<1>5. (\A x \in st.synths : x.id # id) /\ st \in Stores /\ id \in DOMAIN st.locks
  BY <1>3, <1>4, NoSynths DEF StoreOK
<1>6. UnbondingTime <= l.duration
  BY <1>4, <1>5, StoreLock, UnbondingTimeFacts
<1>7. /\ StoreOK(r, {}, now) /\ r.locks = st.locks /\ r.lastLockID = st.lastLockID
      /\ r.synths = st.synths \cup {s}
  BY <1>3, <1>4, <1>5, <1>6, InvFacts, DelegatedOK
<1>8. s.id = id /\ s.denom = stakingSyntheticDenom(v)
  BY InvFacts, SynthFields
<1> HIDE DEF r, l, s
<1>9. ConnectionsOK(store', connection')
  <2>1. \A x : x.id # id => (x \in store.synths <=> x \in r.synths)
    BY <1>3, <1>7, <1>8
  <2>2. \A w \in Vals : (v = w) <=> \E x \in r.synths : x.id = id /\ x.denom = stakingSyntheticDenom(w)
    BY <1>5, <1>7, <1>8, DenomFacts
  <2> QED
    BY <1>1, <1>3, <2>1, <2>2, InvFacts, ConnectionsChange
<1>10. UnbondingOK(store', unbondedAt, now)
  <2>1. Kept(store, r) /\ Numbered(r) /\ r \in Stores
    BY <1>3, <1>7 DEF Kept, StoreOK
  <2>2. \A i \in DOMAIN r.locks \ DOMAIN store.locks : i > store.lastLockID
    BY <1>3, <1>7
  <2> QED
    BY <1>1, <1>3, <1>7, <2>1, <2>2, InvFacts, UnbondingSame
<1>11. connection' \in [Ids -> Vals \cup {None}]
  BY <1>1, InvFacts
<1> QED
  BY <1>1, <1>3, <1>7, <1>9, <1>10, <1>11, InvFacts, InvIntro DEF KeepsLocks

\* The synthetic lock of a lock that is connected
LEMMA BondIs ==
  ASSUME NEW t, NEW st, StoreOK(st, {}, t), NEW id \in DOMAIN st.locks, NEW v \in Vals, BondOf(st, id, v) # {}
  PROVE  LET s == GetSyntheticLockup(st, id, stakingSyntheticDenom(v))
             l == st.locks[id]
         IN  /\ s \in st.synths /\ s.id = id /\ s.denom = stakingSyntheticDenom(v)
             /\ ~ IsUnlocking(s) /\ ~ IsUnlocking(l) /\ l.denom = Share /\ UnbondingTime <= l.duration
             /\ \A x \in st.synths : x.id = id => x = s
<1> DEFINE s == GetSyntheticLockup(st, id, stakingSyntheticDenom(v))
<1>1. s \in st.synths /\ s.id = id /\ s.denom = stakingSyntheticDenom(v)
  BY DEF BondOf, SynthsOf, GetSyntheticLockup
<1> HIDE DEF s
<1>2. SynthOK(s, st.locks[id]) /\ \A x \in st.synths : x.id = id => x = s
  BY <1>1 DEF StoreOK, SynthsOK
<1> QED
  BY <1>1, <1>2, DenomFacts DEF SynthOK, s

LEMMA ConnectionIs ==
  ASSUME IInv, NEW id \in DOMAIN store.locks, connection[id] # None
  PROVE  connection[id] \in Vals /\ BondOf(store, id, connection[id]) # {}
<1>1. connection[id] \in Vals /\ id \in Ids
  BY InvFacts
<1>2. \E s \in store.synths : s.id = id /\ s.denom = stakingSyntheticDenom(connection[id])
  BY <1>1, InvFacts DEF ConnectionsOK
<1> QED
  BY <1>1, <1>2 DEF BondOf, SynthsOf

\* undelegateCommon, and the synthetic lock of the stake that unbonds
ReplacesBond(st, r, id, v, t) ==
  /\ StoreOK(r, {}, t) /\ r.locks = st.locks /\ r.lastLockID = st.lastLockID
  /\ r.synths = {x \in st.synths : x.id # id} \cup {UnbondSynth(id, v, t)}

LEMMA UndelegateOK ==
  ASSUME IInv, NEW st, StoreOK(st, {}, now), NEW id \in DOMAIN st.locks, NEW v \in Vals, BondOf(st, id, v) # {}
  PROVE  /\ ReplacesBond(st, createSyntheticLockup(undelegateCommon(st, id, v), id, v, "unlocking"), id, v, now)
         /\ ~ IsUnlocking(st.locks[id]) /\ st.locks[id].denom = Share /\ UnbondingTime <= st.locks[id].duration
<1> DEFINE s == GetSyntheticLockup(st, id, stakingSyntheticDenom(v))
           l == st.locks[id]
           free == undelegateCommon(st, id, v)
           r == createSyntheticLockup(free, id, v, "unlocking")
<1>1. /\ s \in st.synths /\ s.id = id
      /\ ~ IsUnlocking(l) /\ l.denom = Share /\ UnbondingTime <= l.duration
      /\ \A x \in st.synths : x.id = id => x = s
  BY BondIs
<1>2. free = DeleteSyntheticLockup(st, s)
  BY DEF undelegateCommon
<1> HIDE DEF s, free
<1>3. StoreOK(free, {}, now) /\ free.locks = st.locks /\ free.lastLockID = st.lastLockID /\ free.synths = st.synths \ {s}
  BY <1>1, <1>2, InvFacts, DeleteSynthOK
<1>4. \A x \in free.synths : x.id # id
  BY <1>1, <1>3
<1>5. /\ id \in DOMAIN free.locks /\ free.locks[id].denom = Share /\ UnbondingTime <= free.locks[id].duration
      /\ ~ IsUnlocking(free.locks[id])
  BY <1>1, <1>3
<1>6. /\ StoreOK(r, {}, now) /\ r.locks = free.locks /\ r.lastLockID = free.lastLockID
      /\ r.synths = free.synths \cup {UnbondSynth(id, v, now)}
  BY <1>3, <1>4, <1>5, UndelegatedOK
<1>7. free.synths = {x \in st.synths : x.id # id}
  BY <1>1, <1>3
<1> HIDE DEF r
<1>8. ReplacesBond(st, r, id, v, now)
  BY <1>3, <1>6, <1>7 DEF ReplacesBond
<1> QED
  BY <1>1, <1>8 DEF r, free

\* The connection of the lock goes with its bond.
LEMMA Disconnected ==
  ASSUME IInv, NEW r, NEW id \in Ids, NEW v \in Vals,
         r.synths = {x \in store.synths : x.id # id} \cup {UnbondSynth(id, v, now)}
  PROVE  ConnectionsOK(r, [connection EXCEPT ![id] = None])
<1> DEFINE s == UnbondSynth(id, v, now)
<1>1. s.id = id /\ s.denom = unstakingSyntheticDenom(v)
  BY InvFacts, SynthFields
<1> HIDE DEF s
<1>2. \A x : x.id # id => (x \in store.synths <=> x \in r.synths)
  BY <1>1 DEF s
<1>3. \A w \in Vals : (None = w) <=> \E x \in r.synths : x.id = id /\ x.denom = stakingSyntheticDenom(w)
  BY <1>1, DenomFacts, SuperfluidAssumption DEF s
<1> QED
  BY <1>2, <1>3, InvFacts, ConnectionsChange

LEMMA SuperfluidUndelegateInv ==
  ASSUME IInv, NEW id \in DOMAIN store.locks, SuperfluidUndelegate(id)
  PROVE  IInv' /\ KeepsLocks
<1> DEFINE v == connection[id]
           r == createSyntheticLockup(undelegateCommon(store, id, v), id, v, "unlocking")
           s == UnbondSynth(id, v, now)
<1>1. /\ v # None /\ BondOf(store, id, v) # {}
      /\ store' = r /\ connection' = [connection EXCEPT ![id] = None]
      /\ unbondedAt' = [unbondedAt EXCEPT ![id] = now]
      /\ UNCHANGED <<now, multiplier, registered, halted>>
  BY DEF SuperfluidUndelegate, CanUndelegate
<1>2. v \in Vals /\ id \in Ids
  BY <1>1, InvFacts, ConnectionIs
<1> HIDE DEF v
<1>3. ReplacesBond(store, r, id, v, now)
  BY <1>1, <1>2, InvFacts, UndelegateOK
<1> HIDE DEF r
<1>4. /\ StoreOK(r, {}, now) /\ r.locks = store.locks /\ r.lastLockID = store.lastLockID
      /\ r.synths = {x \in store.synths : x.id # id} \cup {s}
  BY <1>3 DEF ReplacesBond
<1>5. s.id = id /\ IsUnlocking(s) /\ s.endTime = now + UnbondingTime
  BY InvFacts, SynthFields
<1>6. ConnectionsOK(store', connection')
  BY <1>1, <1>2, <1>4, Disconnected
<1> HIDE DEF s
<1>7. /\ unbondedAt' \in [Ids -> Nat] /\ unbondedAt'[id] = now
      /\ \A i \in Ids \ {id} : unbondedAt'[i] = unbondedAt[i]
  BY <1>1, <1>2, InvFacts
<1>8. ASSUME NEW i \in DOMAIN store'.locks PROVE ServedOn(store, store', unbondedAt, unbondedAt', now, i)
  <2>0. now + UnbondingTime >= now + UnbondingTime /\ i \in Ids
    BY <1>1, <1>4, InvFacts, UnbondingTimeFacts
  <2>1. CASE i = id
    <3>1. s \in SynthsOf(store', i)
      BY <1>1, <1>4, <1>5, <2>1 DEF SynthsOf
    <3> QED
      BY <1>5, <1>7, <2>0, <2>1, <3>1 DEF ServedOn, Served
  <2>2. CASE i # id
    BY <1>1, <1>4, <1>7, <2>0, <2>2 DEF ServedOn, LockKept, SynthsOf
  <2> QED
    BY <2>1, <2>2
<1>9. \A i \in Ids : unbondedAt'[i] \in 0 .. now /\ (i > store'.lastLockID => unbondedAt'[i] = 0)
  BY <1>1, <1>2, <1>4, <1>7, InvFacts DEF UnbondingOK, Ids
<1>10. UnbondingOK(store', unbondedAt', now)
  BY <1>8, <1>9, InvFacts, UnbondingKept
<1>11. connection' \in [Ids -> Vals \cup {None}]
  BY <1>1, InvFacts
<1> QED
  BY <1>1, <1>4, <1>6, <1>7, <1>10, <1>11, InvIntro DEF KeepsLocks

LEMMA SuperfluidUnbondInv ==
  ASSUME IInv, NEW id \in DOMAIN store.locks, SuperfluidUnbondLock(id)
  PROVE  IInv' /\ KeepsLocks
<1> DEFINE r == beginUnlock(store, id, 0, now)
<1>1. /\ \E s \in SynthsOf(store, id) : IsUnlocking(s)
      /\ ~ IsUnlocking(store.locks[id]) /\ store' = r.st
      /\ UNCHANGED <<now, connection, multiplier, registered, unbondedAt, halted>>
  BY DEF SuperfluidUnbondLock, CanBeginForceUnlock
<1>2. \A s \in store.synths : s.id = id => IsUnlocking(s)
  BY <1>1, InvFacts DEF StoreOK, SynthsOK, SynthsOf
<1>3. ~ IsPart(store, id, 0)
  BY DEF IsPart
<1>4. /\ StoreOK(r.st, {}, now) /\ r.st.synths = store.synths /\ r.st.lastLockID = store.lastLockID
      /\ Kept(store, r.st) /\ DOMAIN r.st.locks = DOMAIN store.locks
  BY <1>1, <1>2, <1>3, InvFacts, BeginWholeOK
<1> HIDE DEF r
<1> QED
  BY <1>1, <1>4, InvFacts, InvSame DEF KeepsLocks

LEMMA WholeUnbondInv ==
  ASSUME IInv, NEW id \in DOMAIN store.locks, NEW v \in Vals, NEW a, BondOf(store, id, v) # {},
         NEW u, ReplacesBond(store, u, id, v, now), a = store.locks[id].amount, ~ IsUnlocking(store.locks[id]),
         store' = beginUnlock(u, id, a, now).st, connection' = [connection EXCEPT ![id] = None],
         unbondedAt' = [unbondedAt EXCEPT ![id] = now], UNCHANGED <<now, multiplier, registered, halted>>
  PROVE  IInv' /\ KeepsLocks
<1> DEFINE r == beginUnlock(u, id, a, now)
           s == UnbondSynth(id, v, now)
<1>1. /\ StoreOK(u, {}, now) /\ u.locks = store.locks /\ u.lastLockID = store.lastLockID
      /\ u.synths = {x \in store.synths : x.id # id} \cup {s}
  BY DEF ReplacesBond
<1>2. s.id = id /\ IsUnlocking(s) /\ s.endTime = now + UnbondingTime
  BY InvFacts, SynthFields
<1>3. ConnectionsOK(u, connection') /\ id \in Ids
  BY <1>1, InvFacts, Disconnected
<1> HIDE DEF s
<1>4. (\A x \in u.synths : x.id = id => IsUnlocking(x)) /\ ~ IsPart(u, id, a) /\ id \in DOMAIN u.locks
      /\ ~ IsUnlocking(u.locks[id])
  BY <1>1, <1>2 DEF IsPart
<1>5. /\ StoreOK(r.st, {}, now) /\ r.st.synths = u.synths /\ r.st.lastLockID = u.lastLockID
      /\ Kept(u, r.st) /\ DOMAIN r.st.locks = DOMAIN u.locks
  BY <1>1, <1>4, InvFacts, BeginWholeOK
<1> HIDE DEF r
<1>0. store' = r.st
  BY DEF r
<1>6. ConnectionsOK(store', connection')
  BY <1>0, <1>3, <1>5, SameConnections
<1>7. /\ unbondedAt' \in [Ids -> Nat] /\ unbondedAt'[id] = now
      /\ \A i \in Ids \ {id} : unbondedAt'[i] = unbondedAt[i]
  BY <1>3, InvFacts
<1>8. ASSUME NEW i \in DOMAIN store'.locks PROVE ServedOn(store, store', unbondedAt, unbondedAt', now, i)
  <2>0. now + UnbondingTime >= now + UnbondingTime /\ i \in Ids
    BY <1>0, <1>1, <1>5, InvFacts, UnbondingTimeFacts
  <2>1. CASE i = id
    <3>1. s \in SynthsOf(store', i)
      BY <1>0, <1>1, <1>2, <1>5, <2>1 DEF SynthsOf
    <3> QED
      BY <1>2, <1>7, <2>0, <2>1, <3>1 DEF ServedOn, Served
  <2>2. CASE i # id
    <3>1. i \in DOMAIN store.locks /\ LockKept(store.locks[i], store'.locks[i])
      BY <1>0, <1>1, <1>5 DEF Kept
    <3>2. SynthsOf(store, i) \subseteq SynthsOf(store', i)
      BY <1>0, <1>1, <1>5, <2>2 DEF SynthsOf
    <3> QED
      BY <1>7, <2>0, <2>2, <3>1, <3>2 DEF ServedOn
  <2> QED
    BY <2>1, <2>2
<1>9. \A i \in Ids : unbondedAt'[i] \in 0 .. now /\ (i > store'.lastLockID => unbondedAt'[i] = 0)
  BY <1>0, <1>1, <1>3, <1>5, <1>7, InvFacts DEF UnbondingOK, Ids
<1>10. UnbondingOK(store', unbondedAt', now)
  BY <1>8, <1>9, InvFacts, UnbondingKept
<1>11. connection' \in [Ids -> Vals \cup {None}]
  BY InvFacts
<1> QED
  BY <1>0, <1>1, <1>5, <1>6, <1>7, <1>10, <1>11, InvIntro DEF KeepsLocks

\* What is left stays delegated, and the part that unbonds is held and slashable.
UnbondsPart(r, id, n, v) ==
  /\ StoreOK(r, {}, now) /\ Kept(store, r) /\ DOMAIN r.locks = DOMAIN store.locks \cup {n}
  /\ r.lastLockID = n /\ n = store.lastLockID + 1 /\ n \in Ids /\ n \notin DOMAIN store.locks
  /\ r.synths = {x \in store.synths : x.id # id} \cup {BondSynth(id, v), UnbondSynth(n, v, now)}

PartLeft(f, id, a) ==
  /\ f[id].amount = store.locks[id].amount - a
  /\ \A y \in DOMAIN store.locks : y # id => f[y] = store.locks[y]

LEMMA UnbondPartOK ==
  ASSUME IInv, NEW id \in DOMAIN store.locks, NEW v \in Vals, NEW a \in Nat, BondOf(store, id, v) # {},
         NEW u, ReplacesBond(store, u, id, v, now), a \notin {0, store.locks[id].amount},
         ~ IsUnlocking(store.locks[id]), store.locks[id].denom = Share, UnbondingTime <= store.locks[id].duration,
         CanSplit(u, id, a)
  PROVE  LET new == beginUnlock(u, id, a, now)
             r == UndelegateAndUnbondPart(new.st, new.id, id, v)
         IN  UnbondsPart(r, id, new.id, v) /\ r.locks = new.st.locks /\ PartLeft(r.locks, id, a)
<1> DEFINE k == beginUnlock(u, id, a, now)
           q == k.st
           n == k.id
           l == store.locks[id]
           s == UnbondSynth(id, v, now)
           w == UnbondSynth(n, v, now)
           b == BondSynth(id, v)
           x1 == DeleteSyntheticLockup(q, s)
           x2 == Delegated(x1, id, v)
           x3 == createSyntheticLockup(x2, n, v, "unlocking")
<1>0. l \in Lock /\ l.amount \in Nat \ {0} /\ l.duration \in Nat /\ id \in Ids
  BY InvFacts, StoreLock
<1>1. /\ StoreOK(u, {}, now) /\ u.locks = store.locks /\ u.lastLockID = store.lastLockID
      /\ u.synths = {x \in store.synths : x.id # id} \cup {s}
  BY DEF ReplacesBond
<1>2. /\ s.id = id /\ IsUnlocking(s) /\ s.denom = unstakingSyntheticDenom(v) /\ b.id = id /\ ~ IsUnlocking(b)
      /\ w.id = n
  BY InvFacts, SynthFields
<1>3. /\ IsPart(u, id, a) /\ ~ IsUnlocking(u.locks[id]) /\ id \in DOMAIN u.locks
      /\ \A x \in u.synths : x.id = id => IsUnlocking(x)
  BY <1>1, <1>2 DEF IsPart
<1>4. /\ n = store.lastLockID + 1 /\ n \in Ids /\ n \notin DOMAIN store.locks
      /\ StoreOK(q, {}, now) /\ q.synths = u.synths /\ q.lastLockID = n
      /\ Kept(store, q) /\ DOMAIN q.locks = DOMAIN store.locks \cup {n}
      /\ q.locks[id] = WithAmount(l, l.amount - a)
      /\ q.locks[n] = WithEnd(WithAmount(l, a), now + l.duration)
      /\ \A y \in DOMAIN store.locks : y # id => q.locks[y] = store.locks[y]
  <2>1. /\ n = u.lastLockID + 1 /\ n \in Ids /\ n \notin DOMAIN u.locks
        /\ StoreOK(q, {}, now) /\ q.synths = u.synths /\ q.lastLockID = n
        /\ Kept(u, q) /\ DOMAIN q.locks = DOMAIN u.locks \cup {n}
        /\ q.locks[id] = WithAmount(u.locks[id], u.locks[id].amount - a)
        /\ q.locks[n] = WithEnd(WithAmount(u.locks[id], a), now + u.locks[id].duration)
        /\ \A y \in DOMAIN u.locks : y # id => q.locks[y] = u.locks[y]
    BY <1>1, <1>3, InvFacts, BeginPartOK, SMTT(30)
  <2> QED
    BY <1>1, <2>1 DEF Kept
<1>5. /\ a \in Nat \ {0} /\ l.amount - a \in Nat \ {0}
  <2>1. u \in Stores
    BY <1>1 DEF StoreOK
  <2> QED
    BY <1>1, <1>3, <2>1, PartAmount
<1> HIDE DEF q, n, s, w, b, x1, x2, x3
<1>6. /\ q.locks[id].denom = Share /\ UnbondingTime <= q.locks[id].duration /\ ~ IsUnlocking(q.locks[id])
  <2> DEFINE c == l.amount - a
  <2>1. q.locks[id] = WithAmount(l, c) /\ c \in Nat \ {0}
    BY <1>4, <1>5
  <2> HIDE DEF c, l
  <2>2. l.denom = Share /\ UnbondingTime <= l.duration /\ ~ IsUnlocking(l)
    BY DEF l
  <2> QED
    BY <1>0, <2>1, <2>2, WithAmountFacts
<1>7. /\ q.locks[n].denom = Share /\ UnbondingTime <= q.locks[n].duration
      /\ now + UnbondingTime <= q.locks[n].endTime
  <2> DEFINE m == WithAmount(l, a)
             e == now + l.duration
  <2>4. e \in Nat \ {0} /\ now + UnbondingTime <= e
    BY <1>0, InvFacts, UnbondingTimeFacts
  <2>1. m \in Lock /\ m.denom = Share /\ m.duration = l.duration
    <3>1. l.denom = Share
      OBVIOUS
    <3> HIDE DEF l
    <3> QED
      BY <1>0, <1>5, <3>1, WithAmountFacts
  <2>2. q.locks[n] = WithEnd(m, e)
    BY <1>4
  <2> HIDE DEF m, e, l
  <2>3. UnbondingTime <= l.duration
    BY DEF l
  <2> QED
    BY <2>1, <2>2, <2>3, <2>4, WithEndFacts
<1>8. /\ s \in q.synths /\ \A x \in q.synths : x.id = id => x = s
  BY <1>1, <1>2, <1>4
<1>9. /\ StoreOK(x1, {}, now) /\ x1.locks = q.locks /\ x1.lastLockID = q.lastLockID
      /\ x1.synths = q.synths \ {s}
  BY <1>4, <1>8, InvFacts, DeleteSynthOK DEF x1
<1>10. x1.synths = {x \in store.synths : x.id # id}
  BY <1>1, <1>2, <1>4, <1>9
<1>11. /\ StoreOK(x2, {}, now) /\ x2.locks = x1.locks /\ x2.lastLockID = x1.lastLockID
       /\ x2.synths = x1.synths \cup {b}
  <2>1. /\ id \in DOMAIN x1.locks /\ x1.locks[id].denom = Share /\ UnbondingTime <= x1.locks[id].duration
        /\ ~ IsUnlocking(x1.locks[id]) /\ \A x \in x1.synths : x.id # id
    BY <1>4, <1>6, <1>9, <1>10
  <2> QED
    BY <1>9, <2>1, DelegatedOK DEF x2, b
<1>12. \A x \in x2.synths : x.id # n
  <2>1. \A x \in store.synths : x.id \in DOMAIN store.locks
    BY InvFacts DEF StoreOK, SynthsOK
  <2> QED
    BY <1>2, <1>4, <1>10, <1>11, <2>1
<1>13. /\ StoreOK(x3, {}, now) /\ x3.locks = x2.locks /\ x3.lastLockID = x2.lastLockID
       /\ x3.synths = x2.synths \cup {w}
  <2>1. /\ n \in DOMAIN x2.locks /\ x2.locks[n].denom = Share /\ UnbondingTime <= x2.locks[n].duration
        /\ now + UnbondingTime <= x2.locks[n].endTime
    BY <1>4, <1>7, <1>9, <1>11
  <2> QED
    BY <1>11, <1>12, <2>1, UndelegatedOK DEF x3, w
<1>14. x3 = UndelegateAndUnbondPart(q, n, id, v)
  <2>1. GetSyntheticLockup(q, id, unstakingSyntheticDenom(v)) = s
    <3> DEFINE g == GetSyntheticLockup(q, id, unstakingSyntheticDenom(v))
    <3>1. g \in q.synths /\ g.id = id
      BY <1>2, <1>8 DEF GetSyntheticLockup
    <3> QED
      BY <1>8, <3>1
  <2> QED
    BY <2>1 DEF UndelegateAndUnbondPart, x1, x2, x3
<1>15. x3.synths = {x \in store.synths : x.id # id} \cup {b, w}
  BY <1>10, <1>11, <1>13
<1>16. x3.locks = q.locks /\ x3.lastLockID = n
  BY <1>4, <1>9, <1>11, <1>13
<1>17. UnbondsPart(x3, id, n, v)
  BY <1>4, <1>13, <1>15, <1>16 DEF UnbondsPart, Kept, b, w
<1>18. PartLeft(q.locks, id, a)
  <2> DEFINE c == l.amount - a
  <2>1. q.locks[id] = WithAmount(l, c) /\ c \in Nat \ {0} /\ c = store.locks[id].amount - a
    BY <1>4, <1>5
  <2> HIDE DEF c, l
  <2>2. q.locks[id].amount = c
    BY <1>0, <2>1, WithAmountFacts
  <2> QED
    BY <1>4, <2>1, <2>2 DEF PartLeft
<1> QED
  BY <1>14, <1>16, <1>17, <1>18 DEF q, n

LEMMA PartUnbondInv ==
  ASSUME IInv, NEW id \in DOMAIN store.locks, NEW v \in Vals, NEW n, BondOf(store, id, v) # {}, connection[id] = v,
         UnbondsPart(store', id, n, v), connection' = connection,
         unbondedAt' = [unbondedAt EXCEPT ![id] = now, ![n] = now], UNCHANGED <<now, multiplier, registered, halted>>
  PROVE  IInv' /\ KeepsLocks
<1> DEFINE b == BondSynth(id, v)
           w == UnbondSynth(n, v, now)
<1>1. /\ StoreOK(store', {}, now) /\ Kept(store, store') /\ DOMAIN store'.locks = DOMAIN store.locks \cup {n}
      /\ store'.lastLockID = n /\ n = store.lastLockID + 1 /\ n \in Ids /\ n \notin DOMAIN store.locks
      /\ store'.synths = {x \in store.synths : x.id # id} \cup {b, w}
  BY DEF UnbondsPart
<1>2. /\ b.id = id /\ ~ IsUnlocking(b) /\ b.denom = stakingSyntheticDenom(v)
      /\ w.id = n /\ IsUnlocking(w) /\ w.endTime = now + UnbondingTime /\ w.denom = unstakingSyntheticDenom(v)
  BY InvFacts, SynthFields
<1> HIDE DEF b, w
<1>3. ConnectionsOK(store', connection)
  <2> SUFFICES ASSUME NEW i \in Ids, NEW x \in Vals
               PROVE  (connection[i] = x) <=>
                        \E s \in store'.synths : s.id = i /\ s.denom = stakingSyntheticDenom(x)
    BY DEF ConnectionsOK
  <2>1. (connection[i] = x) <=> \E s \in store.synths : s.id = i /\ s.denom = stakingSyntheticDenom(x)
    BY InvFacts DEF ConnectionsOK
  <2>2. \A s \in store.synths : s.id \in DOMAIN store.locks
    BY InvFacts DEF StoreOK, SynthsOK
  <2>3. CASE i = id
    BY <1>1, <1>2, <2>3, DenomFacts
  <2>4. CASE i # id
    BY <1>1, <1>2, <2>1, <2>2, <2>4, DenomFacts
  <2> QED
    BY <2>3, <2>4
<1>4. /\ unbondedAt' \in [Ids -> Nat] /\ unbondedAt'[id] = now /\ unbondedAt'[n] = now
      /\ \A i \in Ids \ {id, n} : unbondedAt'[i] = unbondedAt[i]
  BY <1>1, InvFacts
<1>5. ASSUME NEW i \in DOMAIN store'.locks PROVE ServedOn(store, store', unbondedAt, unbondedAt', now, i)
  <2>0. now + UnbondingTime >= now + UnbondingTime /\ i \in Ids
    BY <1>1, InvFacts, UnbondingTimeFacts
  <2>1. CASE i = id
    <3>1. b \in SynthsOf(store', i)
      BY <1>1, <1>2, <2>1 DEF SynthsOf
    <3> QED
      BY <1>2, <3>1 DEF ServedOn, Served
  <2>2. CASE i = n
    <3>1. w \in SynthsOf(store', i)
      BY <1>1, <1>2, <2>2 DEF SynthsOf
    <3> QED
      BY <1>2, <1>4, <2>0, <2>2, <3>1 DEF ServedOn, Served
  <2>3. CASE i # id /\ i # n
    <3>1. i \in DOMAIN store.locks /\ LockKept(store.locks[i], store'.locks[i])
      BY <1>1, <2>3 DEF Kept
    <3>2. SynthsOf(store, i) \subseteq SynthsOf(store', i)
      BY <1>1, <2>3 DEF SynthsOf
    <3> QED
      BY <1>4, <2>0, <2>3, <3>1, <3>2 DEF ServedOn
  <2> QED
    BY <2>1, <2>2, <2>3
<1>6. \A i \in Ids : unbondedAt'[i] \in 0 .. now /\ (i > store'.lastLockID => unbondedAt'[i] = 0)
  BY <1>1, <1>4, InvFacts DEF UnbondingOK, Ids
<1>7. UnbondingOK(store', unbondedAt', now)
  <2>1. /\ UnbondingOK(store, unbondedAt, now)
        /\ \A i \in Ids : unbondedAt'[i] \in 0 .. now
        /\ \A i \in Ids : i > store'.lastLockID => unbondedAt'[i] = 0
        /\ \A i \in DOMAIN store'.locks : ServedOn(store, store', unbondedAt, unbondedAt', now, i)
    BY <1>5, <1>6, InvFacts
  <2> QED
    BY ONLY <2>1, UnbondingKept
<1> QED
  BY <1>1, <1>3, <1>4, <1>7, InvFacts, InvIntro DEF KeepsLocks

LEMMA UndelegateAndUnbondInv ==
  ASSUME IInv, NEW id \in DOMAIN store.locks, NEW a \in 0 .. InitialShares, SuperfluidUndelegateAndUnbondLock(id, a)
  PROVE  IInv' /\ KeepsLocks
<1> DEFINE v == connection[id]
           u == createSyntheticLockup(undelegateCommon(store, id, v), id, v, "unlocking")
           new == beginUnlock(u, id, a, now)
           l == store.locks[id]
<1>1. /\ a > 0 /\ v # None /\ BondOf(store, id, v) # {} /\ CanSplit(u, id, a)
      /\ unbondedAt' = [unbondedAt EXCEPT ![id] = now, ![new.id] = now]
      /\ UNCHANGED <<now, multiplier, registered, halted>>
  BY DEF SuperfluidUndelegateAndUnbondLock, CanUndelegate, CanBeginForceUnlock
<1>2. \/ a = l.amount /\ store' = new.st /\ connection' = [connection EXCEPT ![id] = None]
      \/ a # l.amount /\ store' = UndelegateAndUnbondPart(new.st, new.id, id, v) /\ connection' = connection
  BY DEF SuperfluidUndelegateAndUnbondLock
<1>3. v \in Vals /\ id \in Ids
  BY <1>1, InvFacts, ConnectionIs
<1>4. ReplacesBond(store, u, id, v, now) /\ ~ IsUnlocking(l) /\ l.denom = Share /\ UnbondingTime <= l.duration
  BY <1>1, <1>3, InvFacts, UndelegateOK
<1>5. v = connection[id]
  OBVIOUS
<1> HIDE DEF v, u
<1>6. CASE a = l.amount /\ store' = new.st /\ connection' = [connection EXCEPT ![id] = None]
  <2>1. ~ IsPart(u, id, a)
    BY <1>4, <1>6 DEF IsPart, ReplacesBond
  <2>2. new.id = id
    BY <2>1, BeginUnlockWhole
  <2>3. unbondedAt' = [unbondedAt EXCEPT ![id] = now]
    BY <1>1, <2>2, InvFacts
  <2> QED
    BY <1>1, <1>3, <1>4, <1>6, <2>3, WholeUnbondInv
<1>7. CASE a # l.amount /\ store' = UndelegateAndUnbondPart(new.st, new.id, id, v) /\ connection' = connection
  <2>1. a \notin {0, l.amount} /\ a \in Nat
    BY <1>1, <1>7
  <2>2. UnbondsPart(store', id, new.id, v)
    BY <1>1, <1>3, <1>4, <1>7, <2>1, UnbondPartOK
  <2> HIDE DEF new
  <2> QED
    BY <1>1, <1>3, <1>5, <1>7, <2>2, PartUnbondInv
<1> QED
  BY <1>2, <1>6, <1>7

----------------------------------------------------------------------------
(* The slash and the end of a block                                        *)

LEMMA SlashedAre ==
  ASSUME NEW t, NEW st, StoreOK(st, {}, t), NEW v
  PROVE  SlashedLocks(st, v) \subseteq DOMAIN st.locks
<1>1. Share \in Denoms /\ 1 \in 0 .. MaxDuration
  BY LockupAssumption DEF Denoms
<1>2. GetLocksLongerThanDurationDenom(st, Share, 1) \subseteq DOMAIN st.locks
  BY <1>1, LongerThanIs
<1> QED
  BY <1>2 DEF SlashedLocks

LEMMA SlashInv ==
  ASSUME IInv, NEW v \in Vals, SlashValidator(v)
  PROVE  IInv' /\ KeepsLocks
<1> DEFINE r == SlashLockupsForValidatorSlash(store, v)
<1>1. store' = r /\ UNCHANGED <<now, connection, multiplier, registered, unbondedAt, halted>>
  BY DEF SlashValidator
<1>2. /\ StoreOK(r, {}, now) /\ Kept(store, r) /\ DOMAIN r.locks = DOMAIN store.locks
      /\ r.lastLockID = store.lastLockID /\ r.synths = store.synths
  BY InvFacts, SlashedAre, SlashAllOK
<1> HIDE DEF r
<1> QED
  BY <1>1, <1>2, InvFacts, InvSame DEF KeepsLocks

\* A synthetic lock matures before its lock does.
LEMMA SynthsMatureFirst ==
  ASSUME NEW t \in Nat \ {0}, NEW st, StoreOK(st, {}, t), NEW s \in st.synths, IsUnlocking(st.locks[s.id]),
         st.locks[s.id].endTime <= t
  PROVE  s \in MaturedSynths(st, t)
<1>1. SynthOK(s, st.locks[s.id]) /\ s.id \in DOMAIN st.locks
  BY DEF StoreOK, SynthsOK
<1>2. s.endTime \in Nat /\ st.locks[s.id].endTime \in Nat
  BY <1>1, StoreFields, StoreLock DEF StoreOK, Synth
<1>3. IsUnlocking(s) /\ s.endTime <= st.locks[s.id].endTime
  BY <1>1 DEF SynthOK
<1> QED
  BY <1>2, <1>3 DEF MaturedSynths

Matured(st, t) == {id \in DOMAIN st.locks : IsUnlocking(st.locks[id]) /\ st.locks[id].endTime <= t}

EndsWell(st, r, t) ==
  /\ StoreOK(r, {}, t + 1) /\ LocksBut(st, r, Matured(st, t)) /\ r.lastLockID = st.lastLockID
  /\ r.synths = st.synths \ MaturedSynths(st, t)

LEMMA EndBlockerOK ==
  ASSUME NEW t \in Nat \ {0}, NEW st, StoreOK(st, {}, t)
  PROVE  EndBlocker(st, t).panics = FALSE /\ EndsWell(st, EndBlocker(st, t).st, t)
<1> DEFINE free == DeleteAllMaturedSyntheticLocks(st, t)
           r == WithdrawAllMaturedLocks(free, t)
           panics == \/ \E s \in MaturedSynths(st, t) : ~ Exists(st, s.id)
                     \/ \E id \in LockIteratorBeforeTime(free, t) : ~ CanUnlockMatured(free, id, t)
<1>1. \A s \in MaturedSynths(st, t) : Exists(st, s.id)
  BY DEF MaturedSynths, StoreOK, SynthsOK, Exists
<1>2. /\ StoreOK(free, {}, t) /\ free.locks = st.locks /\ free.lastLockID = st.lastLockID
      /\ free.synths = st.synths \ MaturedSynths(st, t)
  BY DeleteAllOK
<1>3. EndBlocker(st, t) = [panics |-> panics, st |-> IF panics THEN st ELSE r]
  BY DEF EndBlocker
<1> HIDE DEF free
<1>4. LockIteratorBeforeTime(free, t) = Matured(st, t)
  BY <1>2, MaturedLocksAre DEF Matured
<1>5. \A id \in Matured(st, t) : CanUnlockMatured(free, id, t)
  BY <1>2 DEF Matured, CanUnlockMatured, Exists
<1>6. ~ panics
  BY <1>1, <1>4, <1>5
<1>7. \A id \in LockIteratorBeforeTime(free, t) :
        id \in DOMAIN free.locks /\ IsUnlocking(free.locks[id]) /\ \A s \in free.synths : s.id # id
  <2> SUFFICES ASSUME NEW id \in Matured(st, t)
               PROVE  id \in DOMAIN free.locks /\ IsUnlocking(free.locks[id]) /\ \A s \in free.synths : s.id # id
    BY <1>4
  <2>1. id \in DOMAIN st.locks /\ IsUnlocking(st.locks[id]) /\ st.locks[id].endTime <= t
    BY DEF Matured
  <2>2. \A s \in st.synths : s.id = id => s \in MaturedSynths(st, t)
    BY <2>1, SynthsMatureFirst
  <2> QED
    BY <1>2, <2>1, <2>2
<1>8. /\ StoreOK(r, {}, t) /\ LocksBut(free, r, Matured(st, t))
      /\ r.lastLockID = free.lastLockID /\ r.synths = free.synths
  BY <1>2, <1>4, <1>7, WithdrawAllOK
<1> HIDE DEF r
<1>9. LocksBut(st, r, Matured(st, t))
  BY <1>2, <1>8 DEF LocksBut
<1>10. TimesOK(r, t + 1)
  <2>1. ASSUME NEW id \in DOMAIN r.locks, IsUnlocking(r.locks[id])
        PROVE  r.locks[id].endTime \in (t + 1) .. (t + 1 + MaxDuration)
    <3>1. id \in DOMAIN st.locks \ Matured(st, t) /\ r.locks[id] = st.locks[id]
      BY <1>9 DEF LocksBut
    <3>2. r.locks[id].endTime \in t .. (t + MaxDuration)
      BY <1>8, <2>1 DEF StoreOK, TimesOK
    <3>3. ~ (r.locks[id].endTime <= t)
      BY <2>1, <3>1 DEF Matured
    <3> QED
      BY <3>2, <3>3, UnbondingTimeFacts
  <2>2. ASSUME NEW s \in r.synths
        PROVE  s.endTime <= t + 1 + UnbondingTime
    <3>1. s.endTime <= t + UnbondingTime /\ s.endTime \in Nat
      BY <1>8, StoreFields DEF StoreOK, TimesOK, Synth
    <3> QED
      BY <3>1, UnbondingTimeFacts
  <2> QED
    BY <2>1, <2>2 DEF TimesOK
<1>11. StoreOK(r, {}, t + 1)
  BY <1>8, <1>10 DEF StoreOK
<1>12. EndsWell(st, r, t)
  BY <1>2, <1>8, <1>9, <1>11 DEF EndsWell
<1>13. panics = FALSE
  BY <1>6
<1> HIDE DEF panics
<1>14. EndBlocker(st, t) = [panics |-> FALSE, st |-> r]
  BY <1>3, <1>13
<1> QED
  BY <1>12, <1>14

\* What a lock that stays has served, it has served a block later.
LEMMA ServedNext ==
  ASSUME NEW t \in Nat \ {0}, NEW st, StoreOK(st, {}, t), NEW id \in DOMAIN st.locks, NEW r,
         EndsWell(st, r, t), NEW a \in Nat, Served(st.locks[id], SynthsOf(st, id), a, t), id \in DOMAIN r.locks
  PROVE  Served(r.locks[id], SynthsOf(r, id), a, t + 1)
<1>1. r.locks[id] = st.locks[id] /\ r.synths = st.synths \ MaturedSynths(st, t)
  BY DEF EndsWell, LocksBut
<1>2. CASE t >= a + UnbondingTime
  BY <1>2, UnbondingTimeFacts DEF Served
<1>3. ASSUME NEW x \in SynthsOf(st, id), ~ IsUnlocking(x) \/ x.endTime >= a + UnbondingTime
      PROVE  Served(r.locks[id], SynthsOf(r, id), a, t + 1)
  <2>1. x.endTime \in Nat
    BY StoreFields DEF StoreOK, Synth, SynthsOf
  <2>2. CASE x \in MaturedSynths(st, t)
    <3>1. IsUnlocking(x) /\ x.endTime <= t
      BY <2>2 DEF MaturedSynths
    <3>2. t >= a + UnbondingTime
      BY <1>3, <2>1, <3>1, UnbondingTimeFacts
    <3> QED
      BY <1>2, <3>2
  <2>3. CASE x \notin MaturedSynths(st, t)
    <3>1. x \in SynthsOf(r, id)
      BY <1>1, <2>3 DEF SynthsOf
    <3> QED
      BY <1>3, <3>1 DEF Served
  <2> QED
    BY <2>2, <2>3
<1>4. CASE a = 0 \/ (st.locks[id].denom = Asset /\ IsUnlocking(st.locks[id]) /\ st.locks[id].endTime >= a + UnbondingTime)
  BY <1>1, <1>4 DEF Served
<1> QED
  BY <1>2, <1>3, <1>4 DEF Served

LEMMA EndBlockInv ==
  ASSUME IInv, EndBlock
  PROVE  IInv'
<1> DEFINE e == EndBlocker(store, now)
           r == e.st
<1>1. /\ store' = r /\ halted' = e.panics /\ now' = now + 1
      /\ UNCHANGED <<connection, multiplier, registered, unbondedAt>>
  BY DEF EndBlock
<1>2. e.panics = FALSE /\ EndsWell(store, r, now)
  BY InvFacts, EndBlockerOK
<1> HIDE DEF e, r
<1>3. /\ StoreOK(r, {}, now + 1) /\ LocksBut(store, r, Matured(store, now)) /\ r.lastLockID = store.lastLockID
      /\ r.synths = store.synths \ MaturedSynths(store, now)
  BY <1>2 DEF EndsWell
<1>4. ConnectionsOK(r, connection)
  <2> SUFFICES ASSUME NEW i \in Ids, NEW x \in Vals
               PROVE  (connection[i] = x) <=>
                        \E s \in r.synths : s.id = i /\ s.denom = stakingSyntheticDenom(x)
    BY DEF ConnectionsOK
  <2>1. (connection[i] = x) <=> \E s \in store.synths : s.id = i /\ s.denom = stakingSyntheticDenom(x)
    BY InvFacts DEF ConnectionsOK
  <2>2. ASSUME NEW s \in store.synths, s.denom = stakingSyntheticDenom(x)
        PROVE  s \notin MaturedSynths(store, now)
    <3>1. SynthOK(s, store.locks[s.id])
      BY InvFacts DEF StoreOK, SynthsOK
    <3> QED
      BY <2>2, <3>1, DenomFacts DEF SynthOK, MaturedSynths
  <2> QED
    BY <1>3, <2>1, <2>2
<1>5. UnbondingOK(r, unbondedAt, now + 1)
  <2>1. \A i \in Ids : unbondedAt[i] \in 0 .. (now + 1)
    BY InvFacts DEF UnbondingOK
  <2>2. \A i \in Ids : i > r.lastLockID => unbondedAt[i] = 0
    BY <1>3, InvFacts DEF UnbondingOK
  <2>3. ASSUME NEW i \in DOMAIN r.locks
        PROVE  Served(r.locks[i], SynthsOf(r, i), unbondedAt[i], now + 1)
    <3>1. i \in DOMAIN store.locks /\ i \in Ids
      BY <1>3, InvFacts DEF LocksBut
    <3>2. Served(store.locks[i], SynthsOf(store, i), unbondedAt[i], now) /\ unbondedAt[i] \in Nat
      BY <3>1, InvFacts DEF UnbondingOK
    <3> QED
      BY <1>2, <3>1, <3>2, InvFacts, ServedNext
  <2> QED
    BY <2>1, <2>2, <2>3 DEF UnbondingOK
<1>6. halted' = FALSE /\ now' \in Nat \ {0}
  BY <1>1, <1>2, InvFacts
<1> QED
  BY <1>1, <1>3, <1>4, <1>5, <1>6 DEF IInv

----------------------------------------------------------------------------
(* What locks are worth, and what is delegated for them                    *)

LEMMA RoundIntInt ==
  ASSUME NEW x, x[1] \in Nat, x[2] \in Nat \ {0}, NEW a \in Int
  PROVE  RoundInt(x, a) \in Int
<1> DEFINE n == x[1] * a
           q == n \div x[2]
<1>1. n \in Int
  OBVIOUS
<1> HIDE DEF n
<1>2. q \in Int
  BY <1>1
<1> HIDE DEF q
<1> QED
  BY <1>2 DEF RoundInt, n, q

Typed(del, m) == del \in [Vals -> Int] /\ m \in Multipliers \cup {ZeroDec}

LEMMA OSMOInt ==
  ASSUME NEW m \in Multipliers \cup {ZeroDec}, NEW a \in Int
  PROVE  OSMOTokens(m, a) \in Int
<1>1. m[1] \in Nat /\ m[2] \in Nat \ {0} /\ RiskFactor[1] \in Nat /\ RiskFactor[2] \in Nat \ {0}
  BY SuperfluidAssumption DEF ZeroDec
<1>2. RoundInt(m, a) \in Int
  BY <1>1, RoundIntInt
<1>3. RoundInt(RiskFactor, RoundInt(m, a)) \in Int
  BY <1>1, <1>2, RoundIntInt
<1> QED
  BY <1>2, <1>3 DEF OSMOTokens, GetRiskAdjustedOsmoValue

LEMMA BurnedTyped ==
  ASSUME NEW del, Typed(del, multiplier), NEW st \in Stores, NEW id \in DOMAIN st.locks, NEW v \in Vals
  PROVE  Burned(st, del, id, v) \in [Vals -> Int]
<1> DEFINE n == GetSuperfluidOSMOTokens(st.locks[id].amount)
<1>1. n \in Int
  BY StoreLock, OSMOInt DEF Typed, GetSuperfluidOSMOTokens
<1>2. Burned(st, del, id, v) = IF del[v] = 0 THEN del ELSE [del EXCEPT ![v] = del[v] - n]
  BY DEF Burned, forceUndelegateAndBurnOsmoTokens
<1> HIDE DEF n
<1> QED
  BY <1>1, <1>2 DEF Typed

LEMMA DivExact ==
  ASSUME NEW x \in Int, NEW d \in Nat \ {0}
  PROVE  (x * d) \div d = x /\ (x * d) % d = 0
<1> DEFINE n == x * d
           q == n \div d
<1>1. n \in Int /\ q \in Int
  OBVIOUS
<1>2. n % d \in 0 .. (d - 1) /\ n = d * q + (n % d)
  OBVIOUS
<1>3. d * (x - q) = n % d /\ x - q \in Int
  BY <1>1, <1>2
<1>4. x - q = 0
  <2> DEFINE e == x - q
             r == n % d
  <2>1. d * e = r /\ e \in Int /\ r \in Int /\ 0 <= r /\ r < d
    BY <1>2, <1>3
  <2> HIDE DEF e, r
  <2>2. ~ (e >= 1)
    <3> SUFFICES ASSUME e >= 1 PROVE FALSE
      OBVIOUS
    <3>1. d * e >= d
      BY <2>1
    <3> QED
      BY <2>1, <3>1
  <2>3. ~ (e <= -1)
    <3> SUFFICES ASSUME e <= -1 PROVE FALSE
      OBVIOUS
    <3>1. d * e <= -d
      BY <2>1
    <3> QED
      BY <2>1, <3>1
  <2>4. e = 0
    BY <2>1, <2>2, <2>3
  <2> QED
    BY <2>4 DEF e
<1>5. q = x
  BY <1>1, <1>4
<1>6. n % d = 0
  BY <1>3, <1>4
<1> QED
  BY <1>5, <1>6

\* What divides evenly is not rounded.
LEMMA RoundExact ==
  ASSUME NEW r, NEW x \in Int, NEW a \in Int, r[2] \in Nat \ {0}, r[1] * a = x * r[2]
  PROVE  RoundInt(r, a) = x
<1> DEFINE n == r[1] * a
           d == r[2]
<1>1. n \div d = x /\ n % d = 0 /\ d \in Nat \ {0}
  BY DivExact
<1>2. RoundInt(r, a) = IF 2 * (n % d) > d \/ (2 * (n % d) = d /\ (n \div d) % 2 = 1) THEN n \div d + 1 ELSE n \div d
  BY DEF RoundInt
<1> HIDE DEF n, d
<1> QED
  BY <1>1, <1>2

\* With a whole multiplier the worth of a sum is the sum of the worths.
LEMMA WholeWorths ==
  ASSUME NEW m \in Multipliers \cup {ZeroDec}, IsWhole(m)
  PROVE  \A a, b \in Nat :
           OSMOTokens(m, a) \in Nat /\ OSMOTokens(m, a + b) = OSMOTokens(m, a) + OSMOTokens(m, b)
<1> DEFINE p == RiskFactor[1]
           q == RiskFactor[2]
<1>1. p \in Nat /\ q \in Nat \ {0} /\ p <= q
  BY SuperfluidAssumption DEF IsWhole
<1>2. m[2] = 1 /\ \E k \in Nat : m[1] = k * q
  <2> DEFINE n == m[1]
             k == n \div q
  <2>1. n \in Nat
    BY SuperfluidAssumption DEF ZeroDec
  <2>2. n % q = 0 /\ m[2] = 1
    BY DEF IsWhole
  <2> HIDE DEF n, q
  <2>3. k \in Nat /\ n = k * q
    BY <1>1, <2>1, <2>2
  <2> QED
    BY <2>2, <2>3 DEF n
<1>3. ASSUME NEW k \in Nat, m[1] = k * q, NEW a \in Nat
      PROVE  OSMOTokens(m, a) = (k * (q - p)) * a
  <2> DEFINE y == (k * q) * a
             x == (p * k) * a
  <2>1. m[2] = 1 /\ m[1] * a = y * 1 /\ y \in Nat /\ x \in Nat
    BY <1>1, <1>2, <1>3
  <2>3. p * y = x * q
    BY <1>1
  <2>4. y - x = (k * (q - p)) * a
    BY <1>1
  <2> HIDE DEF x, y
  <2>2. RoundInt(m, a) = y
    <3>1. 1 \in Nat \ {0} /\ y \in Int /\ a \in Int
      BY <2>1
    <3> QED
      BY <2>1, <3>1, RoundExact
  <2>5. RoundInt(RiskFactor, y) = x
    BY <1>1, <2>1, <2>3, RoundExact
  <2> QED
    BY <2>2, <2>4, <2>5 DEF OSMOTokens, GetRiskAdjustedOsmoValue
<1> HIDE DEF p, q
<1> SUFFICES ASSUME NEW a \in Nat, NEW b \in Nat
             PROVE  OSMOTokens(m, a) \in Nat /\ OSMOTokens(m, a + b) = OSMOTokens(m, a) + OSMOTokens(m, b)
  OBVIOUS
<1>4. PICK k \in Nat : m[1] = k * q
  BY <1>2
<1> DEFINE c == k * (q - p)
<1>5. c \in Nat
  <2>1. q - p \in Nat
    BY <1>1
  <2> QED
    BY <2>1
<1>6. OSMOTokens(m, a) = c * a /\ OSMOTokens(m, b) = c * b /\ OSMOTokens(m, a + b) = c * (a + b)
  BY <1>3, <1>4
<1> HIDE DEF c
<1> QED
  BY <1>5, <1>6

\* What the locks f have delegated to v if conn are their connections
Stake(f, conn, id, v) == IF conn[id] = v THEN f[id].amount ELSE 0
Stakes(f, conn, v) == [id \in Ids |-> Stake(f, conn, id, v)]
Staked(f, conn, v) == SumFunctionOnSet(Stakes(f, conn, v), Ids)

StakesOK(f, conn) == \A id \in Ids, v \in Vals : Stake(f, conn, id, v) \in Nat

DelegationOK(f, conn, del, m) == \A v \in Vals : del[v] = OSMOTokens(m, Staked(f, conn, v))

LEMMA StakedNat ==
  ASSUME NEW f, NEW conn, StakesOK(f, conn), NEW v \in Vals
  PROVE  Staked(f, conn, v) \in Nat
<1> DEFINE F == Stakes(f, conn, v)
<1>1. \A x \in Ids : F[x] \in Nat
  BY DEF StakesOK, Stakes
<1> HIDE DEF F
<1> QED
  BY <1>1, IdsFinite, SumNat DEF Staked, F

\* Another lock or another connection at one place
LEMMA StakedChange ==
  ASSUME NEW f, NEW c, NEW g, NEW d, StakesOK(f, c), StakesOK(g, d), NEW id \in Ids,
         \A y \in Ids \ {id} : d[y] = c[y] /\ (c[y] # None => g[y].amount = f[y].amount), NEW v \in Vals
  PROVE  Staked(g, d, v) = Staked(f, c, v) + Stake(g, d, id, v) - Stake(f, c, id, v)
<1> DEFINE F == Stakes(f, c, v)
           G == Stakes(g, d, v)
<1>1. \A x \in Ids : F[x] = Stake(f, c, x, v) /\ G[x] = Stake(g, d, x, v)
  BY DEF Stakes
<1>2. \A x \in Ids : F[x] \in Int /\ G[x] \in Int
  BY <1>1 DEF StakesOK
<1>3. v # None
  BY SuperfluidAssumption
<1>4. \A x \in Ids \ {id} : G[x] = F[x]
  BY <1>1, <1>3 DEF Stake
<1> HIDE DEF F, G
<1>5. SumFunctionOnSet(G, Ids) = SumFunctionOnSet(F, Ids) + G[id] - F[id]
  BY <1>2, <1>4, IdsFinite, SumUpdate
<1> QED
  BY <1>1, <1>5 DEF Staked, F, G

LEMMA StakedSame ==
  ASSUME NEW f, NEW c, NEW g, \A y \in Ids : c[y] # None => g[y].amount = f[y].amount, NEW v \in Vals
  PROVE  Staked(g, c, v) = Staked(f, c, v)
<1>1. v # None
  BY SuperfluidAssumption
<1>2. \A y \in Ids : Stake(g, c, y, v) = Stake(f, c, y, v)
  BY <1>1 DEF Stake
<1>3. Stakes(g, c, v) = Stakes(f, c, v)
  BY <1>2 DEF Stakes
<1> QED
  BY <1>3 DEF Staked

LEMMA MintMatches ==
  ASSUME IsWhole(multiplier), NEW del, Typed(del, multiplier), NEW f, NEW c, NEW g, NEW d, StakesOK(f, c),
         DelegationOK(f, c, del, multiplier), NEW v \in Vals, NEW a \in Nat,
         \A w \in Vals : Staked(g, d, w) = Staked(f, c, w) + (IF w = v THEN a ELSE 0)
  PROVE  DelegationOK(g, d, mintOsmoTokensAndDelegate(del, v, GetSuperfluidOSMOTokens(a)), multiplier)
<1> DEFINE n == OSMOTokens(multiplier, a)
           r == [del EXCEPT ![v] = del[v] + n]
<1>1. mintOsmoTokensAndDelegate(del, v, GetSuperfluidOSMOTokens(a)) = r
  BY DEF mintOsmoTokensAndDelegate, GetSuperfluidOSMOTokens
<1> SUFFICES ASSUME NEW w \in Vals PROVE r[w] = OSMOTokens(multiplier, Staked(g, d, w))
  BY <1>1 DEF DelegationOK
<1> DEFINE t == Staked(f, c, w)
<1>2. t \in Nat /\ del[w] = OSMOTokens(multiplier, t) /\ Staked(g, d, w) = t + (IF w = v THEN a ELSE 0)
  BY StakedNat DEF DelegationOK
<1>3. del \in [Vals -> Int] /\ multiplier \in Multipliers \cup {ZeroDec}
  BY DEF Typed
<1> HIDE DEF t
<1>4. OSMOTokens(multiplier, t + a) = OSMOTokens(multiplier, t) + n
  BY <1>2, <1>3, WholeWorths
<1>5. CASE w = v
  <2>1. r[w] = del[w] + n
    BY <1>3, <1>5
  <2> QED
    BY <1>2, <1>4, <1>5, <2>1
<1>6. CASE w # v
  <2>1. r[w] = del[w] /\ t + 0 = t
    BY <1>2, <1>3, <1>6
  <2> QED
    BY <1>2, <1>6, <2>1
<1> QED
  BY <1>5, <1>6

LEMMA BurnMatches ==
  ASSUME IsWhole(multiplier), NEW del, Typed(del, multiplier), NEW f, NEW c, NEW g, NEW d, StakesOK(g, d),
         DelegationOK(f, c, del, multiplier), NEW v \in Vals, NEW a \in Nat,
         \A w \in Vals : Staked(f, c, w) = Staked(g, d, w) + (IF w = v THEN a ELSE 0)
  PROVE  DelegationOK(g, d, forceUndelegateAndBurnOsmoTokens(del, v, GetSuperfluidOSMOTokens(a)), multiplier)
<1> DEFINE n == OSMOTokens(multiplier, a)
           r == IF del[v] = 0 THEN del ELSE [del EXCEPT ![v] = del[v] - n]
<1>1. forceUndelegateAndBurnOsmoTokens(del, v, GetSuperfluidOSMOTokens(a)) = r
  BY DEF forceUndelegateAndBurnOsmoTokens, GetSuperfluidOSMOTokens
<1> SUFFICES ASSUME NEW w \in Vals PROVE r[w] = OSMOTokens(multiplier, Staked(g, d, w))
  BY <1>1 DEF DelegationOK
<1> DEFINE t == Staked(g, d, w)
           k == OSMOTokens(multiplier, t)
<1>2. t \in Nat /\ del[w] = OSMOTokens(multiplier, t + (IF w = v THEN a ELSE 0))
  BY StakedNat DEF DelegationOK
<1>3. del \in [Vals -> Int] /\ multiplier \in Multipliers \cup {ZeroDec}
  BY DEF Typed
<1>4. OSMOTokens(multiplier, t + a) = k + n /\ n \in Nat /\ k \in Nat
  BY <1>2, <1>3, WholeWorths
<1> HIDE DEF t, n, k
<1>5. CASE w = v
  <2>1. del[w] = k + n
    BY <1>2, <1>4, <1>5
  <2>2. r[w] = IF del[w] = 0 THEN 0 ELSE del[w] - n
    BY <1>3, <1>5
  <2> QED
    BY <1>4, <2>1, <2>2 DEF k, t
<1>6. CASE w # v
  <2>1. r[w] = del[w] /\ t + 0 = t
    BY <1>2, <1>3, <1>6
  <2> QED
    BY <1>2, <1>6, <2>1 DEF t
<1> QED
  BY <1>5, <1>6

\* A connected lock exists, is delegated and does not unlock.
LEMMA ConnectedLock ==
  ASSUME IInv, NEW id \in Ids, connection[id] # None
  PROVE  /\ id \in DOMAIN store.locks /\ store.locks[id].amount \in Nat \ {0} /\ ~ IsUnlocking(store.locks[id])
         /\ connection[id] \in Vals /\ BondOf(store, id, connection[id]) # {}
         /\ \E s \in store.synths : s.id = id
         /\ \A s \in store.synths : s.id = id => ~ IsUnlocking(s)
<1>1. connection[id] \in Vals
  BY InvFacts
<1>2. PICK s \in store.synths : s.id = id /\ s.denom = stakingSyntheticDenom(connection[id])
  BY <1>1, InvFacts DEF ConnectionsOK
<1>3. id \in DOMAIN store.locks /\ BondOf(store, id, connection[id]) # {}
  BY <1>2, InvFacts DEF StoreOK, SynthsOK, BondOf, SynthsOf
<1>4. /\ ~ IsUnlocking(store.locks[id]) /\ \E x \in store.synths : x.id = id
      /\ \A x \in store.synths : x.id = id => ~ IsUnlocking(x)
  <2> DEFINE g == GetSyntheticLockup(store, id, stakingSyntheticDenom(connection[id]))
  <2>1. ~ IsUnlocking(g) /\ ~ IsUnlocking(store.locks[id]) /\ \A x \in store.synths : x.id = id => x = g
    BY <1>1, <1>3, InvFacts, BondIs
  <2> HIDE DEF g
  <2> QED
    BY <1>2, <2>1
<1> QED
  BY <1>1, <1>3, <1>4, InvFacts, StoreLock

LEMMA StoreStakes ==
  ASSUME NEW t, NEW st, StoreOK(st, {}, t), NEW conn \in [Ids -> Vals \cup {None}], ConnectionsOK(st, conn)
  PROVE  StakesOK(st.locks, conn)
<1>1. ASSUME NEW id \in Ids, NEW v \in Vals, conn[id] = v PROVE st.locks[id].amount \in Nat
  <2>1. PICK s \in st.synths : s.id = id
    BY <1>1 DEF ConnectionsOK
  <2>2. id \in DOMAIN st.locks /\ st \in Stores
    BY <2>1 DEF StoreOK, SynthsOK
  <2> QED
    BY <2>2, StoreLock
<1> QED
  BY <1>1 DEF StakesOK, Stake

\* The accumulation store counts what is delegated.
LEMMA StakedIsBonded ==
  ASSUME NEW t, NEW st, StoreOK(st, {}, t), NEW conn \in [Ids -> Vals \cup {None}], ConnectionsOK(st, conn), NEW v \in Vals
  PROVE  Staked(st.locks, conn, v) = GetTotalSyntheticAssetsLocked(st, stakingSyntheticDenom(v))
<1>1. ASSUME NEW id \in Ids PROVE Stake(st.locks, conn, id, v) = BondWeight(st, id, v)
  <2>1. (conn[id] = v) <=> Bonded(st, id, v)
    BY DEF ConnectionsOK, Bonded
  <2>2. Bonded(st, id, v) => id \in DOMAIN st.locks
    BY DEF StoreOK, SynthsOK, Bonded
  <2> QED
    BY <2>1, <2>2 DEF Stake, BondWeight
<1>2. Stakes(st.locks, conn, v) = BondWeights(st, v)
  BY <1>1 DEF Stakes, BondWeights
<1> QED
  BY <1>2 DEF Staked, BondTotal, StoreOK, BondCounted

\* A refresh delegates what the locks are worth.
LEMMA RefreshMatches ==
  ASSUME NEW t, NEW st, StoreOK(st, {}, t), NEW conn \in [Ids -> Vals \cup {None}], ConnectionsOK(st, conn), NEW m
  PROVE  DelegationOK(st.locks, conn, [v \in Vals |-> GetExpectedDelegationAmount(st, v, m)], m)
BY StakedIsBonded DEF DelegationOK, GetExpectedDelegationAmount

\* The connections when the locks s have left
Freed(s) == [i \in Ids |-> IF i \in s THEN None ELSE connection[i]]

Undelegates(s, del) ==
  IsWhole(multiplier) /\ DelegationOK(store.locks, connection, delegation, multiplier)
  => DelegationOK(store.locks, Freed(s), del, multiplier)

LEMMA FreedStakes ==
  ASSUME IInv, NEW s
  PROVE  StakesOK(store.locks, Freed(s))
<1>1. StakesOK(store.locks, connection)
  BY InvFacts, StoreStakes
<1> QED
  BY <1>1, SuperfluidAssumption DEF StakesOK, Stake, Freed

LEMMA UnpoolUndelegates ==
  ASSUME IInv, NEW s, NEW id \in s, id \in DOMAIN store.locks, NEW del, Typed(del, multiplier),
         Undelegates(s \ {id}, del)
  PROVE  Undelegates(s, IF connection[id] # None THEN Burned(store, del, id, connection[id]) ELSE del)
<1> DEFINE v == connection[id]
           c == Freed(s \ {id})
           d == Freed(s)
           f == store.locks
           a == store.locks[id].amount
<1>1. /\ id \in Ids /\ a \in Nat /\ d[id] = None /\ c[id] = v
      /\ \A y \in Ids \ {id} : c[y] = d[y]
  BY InvFacts, StoreLock DEF Freed
<1>2. StakesOK(f, c) /\ StakesOK(f, d)
  BY FreedStakes
<1>3. CASE v = None
  <2>1. Freed(s) = Freed(s \ {id})
    BY <1>3 DEF Freed
  <2> QED
    BY <1>3, <2>1 DEF Undelegates
<1>4. CASE v # None
  <2>1. v \in Vals
    BY <1>4, ConnectionIs
  <2>2. Burned(store, del, id, v) = forceUndelegateAndBurnOsmoTokens(del, v, GetSuperfluidOSMOTokens(a))
    BY DEF Burned
  <2>3. \A w \in Vals : Stake(f, d, id, w) = 0 /\ Stake(f, c, id, w) = (IF w = v THEN a ELSE 0)
    BY <1>1, <2>1, SuperfluidAssumption DEF Stake
  <2> HIDE DEF v, c, d, f, a
  <2>4. ASSUME NEW w \in Vals PROVE Staked(f, c, w) = Staked(f, d, w) + (IF w = v THEN a ELSE 0)
    <3> DEFINE x == Staked(f, c, w)
               y == Staked(f, d, w)
               k == IF w = v THEN a ELSE 0
    <3>1. x = y + Stake(f, c, id, w) - Stake(f, d, id, w)
      BY <1>1, <1>2, StakedChange
    <3>2. y \in Nat /\ k \in Nat /\ Stake(f, c, id, w) = k /\ Stake(f, d, id, w) = 0
      BY <1>1, <1>2, <2>3, StakedNat
    <3> HIDE DEF x, y, k
    <3>3. x = y + k
      BY <3>1, <3>2
    <3> QED
      BY <3>3 DEF x, y, k
  <2>5. IsWhole(multiplier) /\ DelegationOK(f, c, del, multiplier)
        => DelegationOK(f, d, forceUndelegateAndBurnOsmoTokens(del, v, GetSuperfluidOSMOTokens(a)), multiplier)
    BY <1>1, <1>2, <2>1, <2>4, BurnMatches
  <2> QED
    BY <1>4, <2>2, <2>5 DEF Undelegates, v, c, d, f
<1> QED
  BY <1>3, <1>4

----------------------------------------------------------------------------
(* The exit from the pool                                                  *)

LEMMA ExitPoolOK ==
  ASSUME NEW t, NEW st, StoreOK(st, {}, t), NEW o \in Owners, NEW a \in Nat
  PROVE  LET r == ExitPool(st, o, a)
         IN  StoreOK(r, {}, t) /\ r.locks = st.locks /\ r.synths = st.synths /\ r.lastLockID = st.lastLockID
<1> DEFINE r == ExitPool(st, o, a)
           f == st.bank[o]
           g == [f EXCEPT ![Share] = f[Share] - a]
           h == [g EXCEPT ![Asset] = g[Asset] + a]
<1>0. st \in Stores
  BY DEF StoreOK
<1>1. st.bank \in [Accounts -> [Denoms -> Int]] /\ o \in Accounts /\ o # Module /\ Share \in Denoms /\ Asset \in Denoms
  BY <1>0, StoreFields, AccountFacts DEF Balances, Denoms
<1>2. r = [st EXCEPT !.bank = [st.bank EXCEPT ![o] = h]]
  <2>1. r = [st EXCEPT !.bank = r.bank]
    BY <1>0 DEF ExitPool, Stores
  <2>2. r.bank = [[st.bank EXCEPT ![o] = g] EXCEPT ![o] = h]
    BY <1>0, <1>1 DEF ExitPool, Stores
  <2>3. [[st.bank EXCEPT ![o] = g] EXCEPT ![o] = h] = [st.bank EXCEPT ![o] = h]
    <3> HIDE DEF g, h
    <3> QED
      BY <1>1
  <2> HIDE DEF r, h, g
  <2> QED
    BY <2>1, <2>2, <2>3
<1>3. f \in [Denoms -> Int]
  BY <1>1
<1> HIDE DEF f
<1>4. g \in [Denoms -> Int]
  BY <1>1, <1>3
<1> HIDE DEF g
<1>5. h \in [Denoms -> Int]
  BY <1>1, <1>4
<1> HIDE DEF h, r
<1>6. [st.bank EXCEPT ![o] = h] \in Balances /\ [st.bank EXCEPT ![o] = h][Module] = st.bank[Module]
  BY <1>1, <1>5, AccountFacts DEF Balances
<1>7. /\ r \in Stores /\ r.locks = st.locks /\ r.synths = st.synths /\ r.lastLockID = st.lastLockID
      /\ r.refs = st.refs /\ r.accumulation = st.accumulation /\ r.bank[Module] = st.bank[Module]
  BY <1>0, <1>2, <1>6 DEF Stores
<1>8. Backed(r) /\ Counted(r) /\ BondCounted(r) /\ Indexed(r, {}) /\ SynthsIndexed(r)
  <2>1. Backed(r)
    BY <1>7 DEF StoreOK, Backed
  <2>2. Counted(r)
    BY <1>7 DEF StoreOK, Counted, GetPeriodLocksAccumulation
  <2>3. BondCounted(r)
    <3>1. \A v : BondTotal(r, v) = BondTotal(st, v)
      BY <1>7 DEF BondTotal, BondWeights, BondWeight, Bonded
    <3> QED
      BY <1>7, <3>1 DEF StoreOK, BondCounted, GetTotalSyntheticAssetsLocked, GetPeriodLocksAccumulation
  <2>4. Indexed(r, {}) /\ SynthsIndexed(r)
    BY <1>7 DEF StoreOK, Indexed, SynthsIndexed
  <2> QED
    BY <2>1, <2>2, <2>3, <2>4
<1>9. Numbered(r) /\ SynthsOK(r) /\ TimesOK(r, t)
  BY <1>7 DEF StoreOK, Numbered, SynthsOK, TimesOK
<1> QED
  BY <1>7, <1>8, <1>9 DEF StoreOK, r

\* UnpoolOrder is a strict total order, so a loop over the locks has a last one.
LEMMA UnpoolOrderTotal ==
  ASSUME IInv
  PROVE  /\ \A x, y \in DOMAIN store.locks : x = y \/ UnpoolOrder(x, y) \/ UnpoolOrder(y, x)
         /\ \A x, y, z \in DOMAIN store.locks : UnpoolOrder(x, y) /\ UnpoolOrder(y, z) => UnpoolOrder(x, z)
<1>1. \A x \in DOMAIN store.locks : x \in Int /\ store.locks[x].duration \in Int
  BY InvFacts, StoreLock DEF Ids
<1> QED
  BY <1>1 DEF UnpoolOrder

Last(x, s) == x \in s /\ \A y \in s \ {x} : UnpoolOrder(y, x)

LEMMA UnpoolLastIn ==
  ASSUME IInv, NEW S \in SUBSET DOMAIN store.locks
  PROVE  \A s \in SUBSET S : s # {} => UnpoolLast(s) \in s
<1> DEFINE Bad == {s \in SUBSET S : s # {} /\ ~ \E x : Last(x, s)}
<1>0. IsFiniteSet(S)
  BY InvFacts, IdsFinite, FS_Subset
<1>1. Bad = {}
  <2> SUFFICES ASSUME Bad # {} PROVE FALSE
    OBVIOUS
  <2>1. PICK s \in Bad : \A t \in SUBSET s : t # s => t \notin Bad
    <3>1. Bad \subseteq SUBSET S
      OBVIOUS
    <3> HIDE DEF Bad
    <3> QED
      BY <1>0, <3>1, MinimalSet
  <2>2. PICK x \in s : TRUE
    BY <2>1
  <2>3. CASE s = {x}
    BY <2>1, <2>3 DEF Last
  <2>4. CASE s # {x}
    <3>1. s \ {x} # {} /\ s \ {x} \in SUBSET s /\ s \ {x} # s /\ s \ {x} \in SUBSET S
      BY <2>1, <2>2, <2>4
    <3>2. PICK y : Last(y, s \ {x})
      BY <2>1, <3>1
    <3>3. y \in s /\ y # x /\ x \in DOMAIN store.locks /\ y \in DOMAIN store.locks
          /\ \A z \in s : z \in DOMAIN store.locks
      BY <2>1, <2>2, <3>2 DEF Last
    <3>4. CASE UnpoolOrder(x, y)
      <4>1. Last(y, s)
        BY <3>2, <3>3, <3>4 DEF Last
      <4> QED
        BY <2>1, <4>1
    <3>5. CASE UnpoolOrder(y, x)
      <4>1. ASSUME NEW z \in s \ {x} PROVE UnpoolOrder(z, x)
        <5>1. z = y \/ UnpoolOrder(z, y)
          BY <3>2 DEF Last
        <5> QED
          BY <3>3, <3>5, <5>1, UnpoolOrderTotal
      <4>2. Last(x, s)
        BY <2>2, <4>1 DEF Last
      <4> QED
        BY <2>1, <4>2
    <3> QED
      BY <3>3, <3>4, <3>5, UnpoolOrderTotal
  <2> QED
    BY <2>3, <2>4
<1>2. ASSUME NEW s \in SUBSET S, s # {}
      PROVE  UnpoolLast(s) \in s
  <2>1. \E x \in s : \A y \in s \ {x} : UnpoolOrder(y, x)
    BY <1>1, <1>2 DEF Last
  <2> QED
    BY <2>1 DEF UnpoolLast
<1> QED
  BY <1>2

\* The locks that the owner exits with
Unpooled(o) == OwnedBy(store, o, GetLocksLongerThanDurationDenom(store, Share, 1))

LEMMA UnpooledAre ==
  ASSUME IInv, NEW o
  PROVE  \A id \in Unpooled(o) : id \in DOMAIN store.locks /\ store.locks[id].denom = Share
<1>1. Share \in Denoms /\ 1 \in 0 .. MaxDuration
  BY LockupAssumption DEF Denoms
<1>2. GetLocksLongerThanDurationDenom(store, Share, 1) =
        {id \in DOMAIN store.locks : store.locks[id].denom = Share /\ store.locks[id].duration >= 1}
  BY <1>1, InvFacts, LongerThanIs
<1> QED
  BY <1>2 DEF Unpooled, OwnedBy

UnpoolStates == [st : Stores, del : [Vals -> Int], ok : BOOLEAN, at : [Ids -> Nat]]

\* The state of the loop when the locks s have been unpooled
NewLocksServe(st, at) ==
  \A i \in DOMAIN st.locks : i > store.lastLockID => Served(st.locks[i], {}, at[i], now)

Unpools(s, st, at) ==
  /\ StoreOK(st, {}, now) /\ at \in [Ids -> Nat]
  /\ st.lastLockID = store.lastLockID + Cardinality(s)
  /\ \A i \in Ids : at[i] \in 0 .. now
  /\ \A i \in Ids : i > st.lastLockID => at[i] = 0
  /\ \A i \in Ids : i <= store.lastLockID => at[i] = unbondedAt[i]
  /\ \A i \in DOMAIN st.locks : i <= store.lastLockID => i \in DOMAIN store.locks \ s
  /\ \A i \in DOMAIN store.locks \ s : i \in DOMAIN st.locks /\ st.locks[i] = store.locks[i]
  /\ st.synths = {z \in store.synths : z.id \notin s}
  /\ NewLocksServe(st, at)

\* The new lock is held for as long as the old one would have been.
LEMMA RemainingServes ==
  ASSUME IInv, NEW id \in DOMAIN store.locks, store.locks[id].denom = Share
  PROVE  LET l == store.locks[id]
             d == getExistingLockRemainingDuration(l)
             a == IF connection[id] # None THEN now ELSE unbondedAt[id]
         IN  /\ d \in 0 .. MaxDuration /\ a \in 0 .. now
             /\ a = 0 \/ now >= a + UnbondingTime \/ now + d >= a + UnbondingTime
<1> DEFINE l == store.locks[id]
           d == getExistingLockRemainingDuration(l)
           a == IF connection[id] # None THEN now ELSE unbondedAt[id]
<1>0. l.duration \in 0 .. MaxDuration /\ l.endTime \in Nat /\ now \in Nat /\ id \in Ids /\ store \in Stores
  BY InvFacts, StoreLock
<1>1. IsUnlocking(l) => l.endTime \in now .. (now + MaxDuration)
  BY InvFacts DEF StoreOK, TimesOK
<1>2. d \in 0 .. MaxDuration /\ now + d = IF IsUnlocking(l) THEN l.endTime ELSE now + l.duration
  BY <1>0, <1>1, UnbondingTimeFacts DEF getExistingLockRemainingDuration
<1>3. unbondedAt[id] \in 0 .. now
  BY <1>0, InvFacts DEF UnbondingOK
<1>4. CASE connection[id] # None
  <2>1. ~ IsUnlocking(l) /\ UnbondingTime <= l.duration
    BY <1>4, InvFacts, ConnectionIs, BondIs
  <2> HIDE DEF d, l
  <2>2. now + d >= now + UnbondingTime
    BY <1>0, <1>2, <2>1, UnbondingTimeFacts
  <2> QED
    BY <1>0, <1>2, <1>4, <2>2 DEF d, l
<1>5. CASE connection[id] = None
  <2>1. Served(l, SynthsOf(store, id), unbondedAt[id], now)
    BY InvFacts DEF UnbondingOK
  <2>2. ASSUME NEW x \in SynthsOf(store, id), ~ IsUnlocking(x) \/ x.endTime >= unbondedAt[id] + UnbondingTime
        PROVE  now + d >= unbondedAt[id] + UnbondingTime
    <3>1. x \in store.synths /\ x.id = id /\ x \in Synth
      BY <1>0, StoreFields DEF SynthsOf
    <3>2. SynthOK(x, l) /\ x.endTime <= now + UnbondingTime /\ x.endTime \in Nat
      BY <3>1, InvFacts DEF StoreOK, SynthsOK, TimesOK, Synth
    <3>3. IsUnlocking(x)
      <4> SUFFICES ASSUME ~ IsUnlocking(x) PROVE FALSE
        OBVIOUS
      <4>1. PICK v \in Vals : x.denom = stakingSyntheticDenom(v)
        BY <3>2 DEF SynthOK
      <4>2. connection[id] = v
        BY <1>0, <3>1, <4>1, InvFacts DEF ConnectionsOK
      <4> QED
        BY <1>5, <4>2, SuperfluidAssumption
    <3>4. UnbondingTime <= l.duration /\ (IsUnlocking(l) => x.endTime <= l.endTime)
      BY <3>2 DEF SynthOK
    <3>5. x.endTime >= unbondedAt[id] + UnbondingTime
      BY <2>2, <3>3
    <3> HIDE DEF d, l
    <3> QED
      BY <1>0, <1>2, <1>3, <3>2, <3>4, <3>5, UnbondingTimeFacts
  <2>3. ~ (l.denom = Asset)
    BY DenomFacts
  <2>4. unbondedAt[id] = 0 \/ now >= unbondedAt[id] + UnbondingTime \/ now + d >= unbondedAt[id] + UnbondingTime
    BY <2>1, <2>2, <2>3 DEF Served
  <2> QED
    BY <1>2, <1>3, <1>5, <2>4
<1> QED
  BY <1>4, <1>5

\* What UnpoolLock does to the lockup store, before it locks again
LEMMA UnpoolFreesOK ==
  ASSUME IInv, NEW st, StoreOK(st, {}, now), NEW id \in DOMAIN st.locks, NEW v,
         v # None => v \in Vals /\ BondOf(st, id, v) # {}
  PROVE  LET u == IF v # None THEN createSyntheticLockup(undelegateCommon(st, id, v), id, v, "unlocking") ELSE st
             r == ForceUnlock(u, id, now)
         IN  /\ StoreOK(r, {}, now) /\ r.locks = Without(st.locks, id) /\ r.lastLockID = st.lastLockID
             /\ r.synths = {s \in st.synths : s.id # id}
<1> DEFINE u == IF v # None THEN createSyntheticLockup(undelegateCommon(st, id, v), id, v, "unlocking") ELSE st
           r == ForceUnlock(u, id, now)
<1>1. /\ StoreOK(u, {}, now) /\ u.locks = st.locks /\ u.lastLockID = st.lastLockID
      /\ \A s : s.id # id => (s \in u.synths <=> s \in st.synths)
  <2>1. CASE v # None
    <3> DEFINE w == createSyntheticLockup(undelegateCommon(st, id, v), id, v, "unlocking")
    <3>1. ReplacesBond(st, w, id, v, now) /\ u = w
      BY <2>1, UndelegateOK
    <3>2. UnbondSynth(id, v, now).id = id
      BY InvFacts, SynthFields
    <3> HIDE DEF u, w
    <3> QED
      BY <3>1, <3>2 DEF ReplacesBond
  <2>2. CASE v = None
    BY <2>2
  <2> QED
    BY <2>1, <2>2
<1> HIDE DEF u
<1>2. /\ StoreOK(r, {}, now) /\ r.locks = Without(u.locks, id) /\ r.lastLockID = u.lastLockID
      /\ r.synths = {s \in u.synths : s.id # id}
  BY <1>1, InvFacts, ForceUnlockOK
<1>3. {s \in u.synths : s.id # id} = {s \in st.synths : s.id # id}
  BY <1>1, SMTT(30)
<1> QED
  BY <1>1, <1>2, <1>3 DEF u

LEMMA UnpoolLocksOK ==
  ASSUME IInv, NEW o \in Owners, NEW s, IsFiniteSet(s), NEW id \in s, id \in DOMAIN store.locks,
         store.locks[id].denom = Share, NEW st, NEW at, Unpools(s \ {id}, st, at), st.lastLockID < MaxLocks
  PROVE  LET l == store.locks[id]
             v == connection[id]
             u == IF v # None THEN createSyntheticLockup(undelegateCommon(st, id, v), id, v, "unlocking") ELSE st
             new == CreateLock(ExitPool(ForceUnlock(u, id, now), o, l.amount), o, Asset, l.amount,
                               getExistingLockRemainingDuration(l))
             n == new.lastLockID
             a == IF v # None THEN now ELSE unbondedAt[id]
         IN  Unpools(s, beginUnlock(new, n, 0, now).st, [at EXCEPT ![n] = a])
<1> DEFINE l == store.locks[id]
           v == connection[id]
           u == IF v # None THEN createSyntheticLockup(undelegateCommon(st, id, v), id, v, "unlocking") ELSE st
           f == ForceUnlock(u, id, now)
           x == ExitPool(f, o, l.amount)
           d == getExistingLockRemainingDuration(l)
           new == CreateLock(x, o, Asset, l.amount, d)
           n == new.lastLockID
           a == IF v # None THEN now ELSE unbondedAt[id]
           k == NewLock(o, Asset, l.amount, d)
           b == beginUnlock(new, n, 0, now)
           r == b.st
           bt == [at EXCEPT ![n] = a]
           m == WithEnd(k, now + d)
<1>0. /\ StoreOK(st, {}, now) /\ at \in [Ids -> Nat]
      /\ st.lastLockID = store.lastLockID + Cardinality(s \ {id})
      /\ \A i \in Ids : at[i] \in 0 .. now
      /\ \A i \in Ids : i > st.lastLockID => at[i] = 0
      /\ \A i \in Ids : i <= store.lastLockID => at[i] = unbondedAt[i]
      /\ \A i \in DOMAIN st.locks : i <= store.lastLockID => i \in DOMAIN store.locks \ (s \ {id})
      /\ \A i \in DOMAIN store.locks \ (s \ {id}) : i \in DOMAIN st.locks /\ st.locks[i] = store.locks[i]
      /\ st.synths = {z \in store.synths : z.id \notin s \ {id}}
      /\ NewLocksServe(st, at)
  BY DEF Unpools
<1>1. id \in DOMAIN st.locks /\ st.locks[id] = l /\ st \in Stores /\ l.amount \in Nat \ {0}
  BY <1>0, InvFacts, StoreLock DEF StoreOK
<1>2. v # None => v \in Vals /\ BondOf(st, id, v) # {}
  BY <1>0, ConnectionIs DEF BondOf, SynthsOf
<1>3. /\ StoreOK(f, {}, now) /\ f.locks = Without(st.locks, id) /\ f.lastLockID = st.lastLockID
      /\ f.synths = {z \in st.synths : z.id # id}
  BY <1>0, <1>1, <1>2, UnpoolFreesOK
<1>4. /\ d \in 0 .. MaxDuration /\ a \in 0 .. now
      /\ a = 0 \/ now >= a + UnbondingTime \/ now + d >= a + UnbondingTime
  BY RemainingServes
<1> HIDE DEF v, u, f, d, a
<1>5. StoreOK(x, {}, now) /\ x.locks = f.locks /\ x.synths = f.synths /\ x.lastLockID = f.lastLockID
  BY <1>1, <1>3, ExitPoolOK
<1> HIDE DEF x
<1>6. /\ StoreOK(new, {}, now) /\ new.locks = Put(x.locks, x.lastLockID + 1, k)
      /\ new.synths = x.synths /\ n = x.lastLockID + 1 /\ n \notin DOMAIN x.locks
  <2>1. Asset \in Denoms /\ x.lastLockID < MaxLocks
    BY <1>3, <1>5 DEF Denoms
  <2> QED
    BY <1>1, <1>4, <1>5, <2>1, InvFacts, CreateLockOK
<1> HIDE DEF new
<1>7. /\ n = st.lastLockID + 1 /\ n \in Ids /\ n > store.lastLockID /\ st.lastLockID \in Nat
      /\ n = store.lastLockID + Cardinality(s)
  <2>1. Cardinality(s \ {id}) = Cardinality(s) - 1 /\ Cardinality(s) \in Nat
    BY FS_CardinalityType, FS_RemoveElement
  <2>2. st.lastLockID \in Nat /\ store.lastLockID \in Nat /\ Cardinality(s \ {id}) \in Nat
    BY <1>1, InvFacts, StoreFields, FS_RemoveElement, FS_CardinalityType, UnbondingTimeFacts, SMTT(30)
  <2> QED
    BY <1>0, <1>3, <1>5, <1>6, <2>1, <2>2, UnbondingTimeFacts DEF Ids
<1>8. k \in Lock /\ k.denom = Asset /\ k.duration = d /\ ~ IsUnlocking(k)
  BY <1>1, <1>4 DEF k, NewLock, Lock, IsUnlocking, NoTime, Denoms
<1>9. now + d \in Nat \ {0}
  BY <1>4, InvFacts
<1>10. m \in Lock /\ m.denom = Asset /\ m.endTime = now + d /\ IsUnlocking(m)
  <2> DEFINE e == now + d
  <2> HIDE DEF e, k
  <2>1. e \in Nat \ {0}
    BY <1>9 DEF e
  <2> QED
    BY <1>8, <2>1, WithEndFacts DEF e
<1> HIDE DEF k, n
<1>11. /\ new.locks = Put(x.locks, n, k) /\ n \in DOMAIN new.locks /\ new.locks[n] = k
       /\ DOMAIN new.locks = DOMAIN x.locks \cup {n}
       /\ \A y \in DOMAIN x.locks : y # n => new.locks[y] = x.locks[y]
  <2> DEFINE g == x.locks
  <2>1. g \in PartialLocks
    BY <1>5, StoreFields DEF StoreOK
  <2>2. new.locks = Put(g, n, k)
    BY <1>6
  <2> HIDE DEF g
  <2>3. /\ DOMAIN Put(g, n, k) = DOMAIN g \cup {n} /\ Put(g, n, k)[n] = k
        /\ \A y \in DOMAIN g : y # n => Put(g, n, k)[y] = g[y]
    BY <1>7, <1>8, <2>1, PutFacts, ZenonT(60)
  <2> QED
    BY <2>2, <2>3 DEF g
<1>12. \A z \in new.synths : z.id # n
  BY <1>5, <1>6 DEF StoreOK, SynthsOK
<1>13. /\ StoreOK(r, {}, now) /\ r.synths = new.synths /\ r.lastLockID = new.lastLockID
       /\ r.locks = Put(new.locks, n, WithEnd(new.locks[n], now + new.locks[n].duration))
       /\ DOMAIN r.locks = DOMAIN new.locks
       /\ \A y \in DOMAIN new.locks : y # n => r.locks[y] = new.locks[y]
  <2>1. ~ IsPart(new, n, 0)
    BY DEF IsPart
  <2> QED
    BY <1>6, <1>8, <1>11, <1>12, <2>1, InvFacts, BeginWholeOK
<1>14. r.locks[n] = m
  <2>1. WithEnd(new.locks[n], now + new.locks[n].duration) = m
    BY <1>8, <1>11
  <2> HIDE DEF m
  <2> QED
    BY <1>13, <2>1, PutAt
<1> HIDE DEF r, m
<1>15. /\ DOMAIN x.locks = DOMAIN st.locks \ {id}
       /\ \A y \in DOMAIN st.locks \ {id} : x.locks[y] = st.locks[y]
  <2> DEFINE g == st.locks
  <2>1. g \in PartialLocks /\ x.locks = Without(g, id)
    BY <1>1, <1>3, <1>5, StoreFields
  <2> HIDE DEF g
  <2>2. DOMAIN Without(g, id) = DOMAIN g \ {id} /\ \A y \in DOMAIN g \ {id} : Without(g, id)[y] = g[y]
    BY <2>1, WithoutFacts
  <2> QED
    BY <2>1, <2>2 DEF g
<1>16. /\ DOMAIN r.locks = (DOMAIN st.locks \ {id}) \cup {n}
       /\ \A y \in DOMAIN st.locks \ {id} : y # n => r.locks[y] = st.locks[y]
  BY <1>11, <1>13, <1>15
<1>17. r.synths = {z \in store.synths : z.id \notin s} /\ r.lastLockID = store.lastLockID + Cardinality(s)
       /\ r.lastLockID = n
  <2>1. r.synths = {z \in st.synths : z.id # id}
    BY <1>3, <1>5, <1>6, <1>13
  <2>2. {z \in st.synths : z.id # id} = {z \in store.synths : z.id \notin s}
    BY <1>0
  <2> QED
    BY <1>7, <1>13, <2>1, <2>2 DEF n
<1>18. /\ bt \in [Ids -> Nat] /\ bt[n] = a /\ \A i \in Ids \ {n} : bt[i] = at[i]
  BY <1>0, <1>4, <1>7
<1> HIDE DEF bt
<1>19. /\ \A i \in Ids : bt[i] \in 0 .. now
       /\ \A i \in Ids : i > r.lastLockID => bt[i] = 0
       /\ \A i \in Ids : i <= store.lastLockID => bt[i] = unbondedAt[i]
  <2>1. \A i \in Ids : i \in Nat
    BY DEF Ids
  <2>2. store.lastLockID \in Nat
    BY InvFacts
  <2>3. ASSUME NEW i \in Ids
        PROVE  /\ bt[i] \in 0 .. now /\ (i > r.lastLockID => bt[i] = 0)
               /\ i <= store.lastLockID => bt[i] = unbondedAt[i]
    <3>1. CASE i = n
      BY <1>4, <1>7, <1>17, <1>18, <2>1, <2>2, <3>1
    <3>2. CASE i # n
      <4>1. bt[i] = at[i]
        BY <1>18, <3>2
      <4>2. at[i] \in 0 .. now /\ (i > st.lastLockID => at[i] = 0) /\ (i <= store.lastLockID => at[i] = unbondedAt[i])
        BY <1>0
      <4>3. i > r.lastLockID => i > st.lastLockID
        BY <1>7, <1>17, <2>1
      <4> QED
        BY <4>1, <4>2, <4>3
    <3> QED
      BY <3>1, <3>2
  <2> QED
    BY <2>3
<1>20. /\ \A i \in DOMAIN r.locks : i <= store.lastLockID => i \in DOMAIN store.locks \ s
       /\ \A i \in DOMAIN store.locks \ s : i \in DOMAIN r.locks /\ r.locks[i] = store.locks[i]
  <2>1. \A i \in DOMAIN store.locks : i # n
    BY <1>7, InvFacts
  <2>2. ~ (n <= store.lastLockID)
    BY <1>7, InvFacts
  <2> QED
    BY <1>0, <1>16, <2>1, <2>2
<1>21. NewLocksServe(r, bt)
  <2> SUFFICES ASSUME NEW i \in DOMAIN r.locks, i > store.lastLockID
               PROVE  Served(r.locks[i], {}, bt[i], now)
    BY DEF NewLocksServe
  <2>1. CASE i = n
    BY <1>4, <1>10, <1>14, <1>18, <2>1 DEF Served
  <2>2. CASE i # n
    <3>1. i \in DOMAIN st.locks /\ r.locks[i] = st.locks[i] /\ i \in Ids
      BY <1>1, <1>16, <2>2, StoreFields, LocksAre
    <3>2. Served(st.locks[i], {}, at[i], now)
      BY <1>0, <3>1 DEF NewLocksServe
    <3> QED
      BY <1>18, <2>2, <3>1, <3>2
  <2> QED
    BY <2>1, <2>2
<1>22. Unpools(s, r, bt)
  BY <1>13, <1>17, <1>18, <1>19, <1>20, <1>21 DEF Unpools
<1> QED
  BY <1>22 DEF r, bt, n, new, x, f, u, v, d, a

LEMMA UnpoolLockOK ==
  ASSUME IInv, Typed(delegation, multiplier), NEW o \in Owners, NEW s, IsFiniteSet(s), NEW id \in s,
         id \in DOMAIN store.locks, store.locks[id].denom = Share,
         NEW x \in UnpoolStates, Unpools(s \ {id}, x.st, x.at), Undelegates(s \ {id}, x.del),
         x.st.lastLockID < MaxLocks
  PROVE  /\ UnpoolLock(x, id, o) \in UnpoolStates
         /\ Unpools(s, UnpoolLock(x, id, o).st, UnpoolLock(x, id, o).at) /\ Undelegates(s, UnpoolLock(x, id, o).del)
<1> DEFINE l == store.locks[id]
           v == connection[id]
           u == IF v # None THEN createSyntheticLockup(undelegateCommon(x.st, id, v), id, v, "unlocking") ELSE x.st
           new == CreateLock(ExitPool(ForceUnlock(u, id, now), o, l.amount), o, Asset, l.amount,
                             getExistingLockRemainingDuration(l))
           n == new.lastLockID
           a == IF v # None THEN now ELSE unbondedAt[id]
           st == beginUnlock(new, n, 0, now).st
           at == [x.at EXCEPT ![n] = a]
           del == IF v # None THEN Burned(store, x.del, id, v) ELSE x.del
           ok == x.ok /\ (v # None => CanUndelegate(store, connection, x.del, id))
<1>1. UnpoolLock(x, id, o) = [st |-> st, del |-> del, ok |-> ok, at |-> at]
  BY DEF UnpoolLock
<1>2. Unpools(s, st, at)
  BY UnpoolLocksOK
<1>3. del \in [Vals -> Int]
  <2>1. Typed(x.del, multiplier) /\ x.del \in [Vals -> Int] /\ store \in Stores
    BY InvFacts DEF Typed, UnpoolStates
  <2>2. v # None => v \in Vals
    BY ConnectionIs
  <2>3. v \in Vals => Burned(store, x.del, id, v) \in [Vals -> Int]
    BY <2>1, BurnedTyped
  <2> QED
    BY <2>1, <2>2, <2>3
<1>4. ok \in BOOLEAN
  OBVIOUS
<1>6. Undelegates(s, del)
  <2>1. Typed(x.del, multiplier)
    BY DEF Typed, UnpoolStates
  <2> QED
    BY <2>1, UnpoolUndelegates
<1> HIDE DEF st, del, ok, at
<1>5. st \in Stores /\ at \in [Ids -> Nat]
  BY <1>2 DEF Unpools, StoreOK
<1> QED
  BY <1>1, <1>2, <1>3, <1>4, <1>5, <1>6 DEF UnpoolStates

UnpoolStart == [st |-> store, del |-> delegation, ok |-> TRUE, at |-> unbondedAt]

UnpoolAll(o, S) ==
  MapThenFoldSet(LAMBDA id, x : UnpoolLock(x, id, o), UnpoolStart, LAMBDA id : id, UnpoolLast, S)

UnpoolsAll(o, S, run) ==
  run = [s \in SUBSET S |-> IF s = {} THEN UnpoolStart
                            ELSE UnpoolLock(run[s \ {UnpoolLast(s)}], UnpoolLast(s), o)]

LEMMA UnpoolsAllDef ==
  ASSUME NEW o, NEW S
  PROVE  UnpoolAll(o, S) = (CHOOSE run : UnpoolsAll(o, S, run))[S]
BY DEF UnpoolAll, MapThenFoldSet, UnpoolsAll

LEMMA UnpoolStartOK ==
  ASSUME IInv, Typed(delegation, multiplier)
  PROVE  UnpoolStart \in UnpoolStates /\ Unpools({}, store, unbondedAt) /\ Undelegates({}, delegation)
<1>1. UnpoolStart \in UnpoolStates
  BY InvFacts DEF UnpoolStart, UnpoolStates, Typed
<1>2. NewLocksServe(store, unbondedAt)
  BY InvFacts DEF NewLocksServe
<1>3. store.lastLockID = store.lastLockID + Cardinality({})
  BY FS_EmptySet, InvFacts
<1>4. store.synths = {z \in store.synths : z.id \notin {}}
  OBVIOUS
<1>5. /\ \A i \in DOMAIN store.locks : i <= store.lastLockID => i \in DOMAIN store.locks \ {}
      /\ \A i \in DOMAIN store.locks \ {} : i \in DOMAIN store.locks
  OBVIOUS
<1>6. Undelegates({}, delegation)
  <2>1. Freed({}) = connection
    BY InvFacts DEF Freed
  <2> QED
    BY <2>1 DEF Undelegates
<1> QED
  BY <1>1, <1>2, <1>3, <1>4, <1>5, <1>6, InvFacts DEF Unpools, UnbondingOK

LEMMA UnpoolAllOK ==
  ASSUME IInv, Typed(delegation, multiplier), NEW o \in Owners, NEW S, S = Unpooled(o),
         store.lastLockID + Cardinality(S) <= MaxLocks
  PROVE  LET x == UnpoolAll(o, S) IN x \in UnpoolStates /\ Unpools(S, x.st, x.at) /\ Undelegates(S, x.del)
<1> DEFINE Q == {q \in (SUBSET S) \X UnpoolStates : Unpools(q[1], q[2].st, q[2].at) /\ Undelegates(q[1], q[2].del)}
           F == [p \in S \X UnpoolStates |-> UnpoolLock(p[2], p[1], o)]
           pick == [s \in SUBSET S |-> UnpoolLast(s)]
           base == UnpoolStart
<1>1. /\ S \subseteq DOMAIN store.locks /\ IsFiniteSet(S)
      /\ \A id \in S : id \in DOMAIN store.locks /\ store.locks[id].denom = Share
  BY UnpooledAre, InvFacts, IdsFinite, FS_Subset
<1>2. /\ \A s \in SUBSET S : pick[s] = UnpoolLast(s)
      /\ \A s \in SUBSET S : s # {} => pick[s] \in s
  BY <1>1, UnpoolLastIn
<1> HIDE DEF pick
<1>3. \A s \in SUBSET S, x \in UnpoolStates : <<s, x>> \in Q <=> Unpools(s, x.st, x.at) /\ Undelegates(s, x.del)
  OBVIOUS
<1>4. <<{}, base>> \in Q
  <2>1. base \in UnpoolStates /\ Unpools({}, base.st, base.at) /\ Undelegates({}, base.del)
    BY UnpoolStartOK DEF UnpoolStart
  <2> HIDE DEF Q, base
  <2> QED
    BY <1>3, <2>1
<1>5. ASSUME NEW s \in SUBSET S, NEW x, s # {}, <<s \ {pick[s]}, x>> \in Q
      PROVE  <<s, F[<<pick[s], x>>]>> \in Q /\ F[<<pick[s], x>>] = UnpoolLock(x, pick[s], o)
  <2> DEFINE e == pick[s]
             r == UnpoolLock(x, e, o)
  <2>1. e \in s /\ e \in S
    BY <1>2, <1>5
  <2>2. x \in UnpoolStates /\ Unpools(s \ {e}, x.st, x.at) /\ Undelegates(s \ {e}, x.del)
    BY <1>5
  <2>3. F[<<e, x>>] = r
    BY <2>1, <2>2
  <2> HIDE DEF e, r, F, Q
  <2>4. x.st.lastLockID < MaxLocks
    <3>1. IsFiniteSet(s) /\ Cardinality(s) <= Cardinality(S) /\ Cardinality(s) \in Nat /\ Cardinality(S) \in Nat
      BY <1>1, FS_Subset, FS_CardinalityType
    <3>2. Cardinality(s \ {e}) = Cardinality(s) - 1
      BY <2>1, <3>1, FS_RemoveElement
    <3>3. x.st.lastLockID = store.lastLockID + Cardinality(s \ {e})
      BY <2>2 DEF Unpools
    <3> QED
      BY <3>1, <3>2, <3>3, InvFacts, UnbondingTimeFacts
  <2>5. IsFiniteSet(s)
    BY <1>1, FS_Subset
  <2>6. r \in UnpoolStates /\ Unpools(s, r.st, r.at) /\ Undelegates(s, r.del)
    BY <1>1, <2>1, <2>2, <2>4, <2>5, UnpoolLockOK DEF r
  <2> QED
    BY <1>3, <2>3, <2>6 DEF e, r
<1> HIDE DEF Q, F, base
<1>0. Picks(pick, S) /\ Preserves(F, base, pick, S, Q)
  BY <1>2, <1>4, <1>5 DEF Picks, Preserves
<1>6. \A run : UnpoolsAll(o, S, run) => \A s \in SUBSET S : <<s, run[s]>> \in Q
  <2> SUFFICES ASSUME NEW run, UnpoolsAll(o, S, run) PROVE \A s \in SUBSET S : <<s, run[s]>> \in Q
    OBVIOUS
  <2>1. run[{}] = base
    BY DEF UnpoolsAll, base
  <2>2. ASSUME NEW s \in SUBSET S, s # {}, <<s \ {pick[s]}, run[s \ {pick[s]}]>> \in Q
        PROVE  run[s] = F[<<pick[s], run[s \ {pick[s]}]>>]
    <3>1. run[s] = UnpoolLock(run[s \ {pick[s]}], pick[s], o)
      BY <1>2, <2>2 DEF UnpoolsAll
    <3> QED
      BY <1>5, <2>2, <3>1
  <2>3. Follows(F, base, pick, S, Q, run)
    BY <2>1, <2>2 DEF Follows
  <2> QED
    BY <1>0, <1>1, <2>3, FoldInvariant
<1>7. \E run : UnpoolsAll(o, S, run)
  <2>1. PICK run : IsFold(F, base, pick, S, run)
    BY <1>1, <1>2, FoldExists
  <2>2. run[{}] = base /\ \A s \in SUBSET S : s # {} => run[s] = F[<<pick[s], run[s \ {pick[s]}]>>]
    BY <2>1 DEF IsFold
  <2>3. \A s \in SUBSET S : <<s, run[s]>> \in Q
    <3>1. Follows(F, base, pick, S, Q, run)
      BY <2>2 DEF Follows
    <3> QED
      BY <1>0, <1>1, <3>1, FoldInvariant
  <2>4. ASSUME NEW s \in SUBSET S, s # {}
        PROVE  run[s] = UnpoolLock(run[s \ {pick[s]}], pick[s], o)
    BY <1>5, <2>2, <2>3, <2>4
  <2>5. run = [s \in SUBSET S |-> run[s]]
    BY <2>1 DEF IsFold
  <2>6. \A s \in SUBSET S :
          run[s] = IF s = {} THEN base ELSE UnpoolLock(run[s \ {UnpoolLast(s)}], UnpoolLast(s), o)
    BY <1>2, <2>2, <2>4
  <2>7. UnpoolsAll(o, S, run)
    BY <2>5, <2>6 DEF UnpoolsAll, base
  <2> QED
    BY <2>7
<1>8. <<S, UnpoolAll(o, S)>> \in Q
  <2>1. UnpoolsAll(o, S, CHOOSE run : UnpoolsAll(o, S, run))
    BY <1>7
  <2>2. UnpoolAll(o, S) = (CHOOSE run : UnpoolsAll(o, S, run))[S]
    BY UnpoolsAllDef
  <2> QED
    BY <1>6, <2>1, <2>2
<1> QED
  BY <1>8 DEF Q

LEMMA UnpoolInv ==
  ASSUME IInv, Typed(delegation, multiplier), NEW o \in Owners, UnPoolWhitelistedPool(o)
  PROVE  IInv' /\ Typed(delegation', multiplier) /\ store'.lastLockID # store.lastLockID
<1> DEFINE S == Unpooled(o)
           x == UnpoolAll(o, S)
<1>1. /\ S # {} /\ store.lastLockID + Cardinality(S) <= MaxLocks
      /\ store' = x.st /\ delegation' = x.del /\ unbondedAt' = x.at
      /\ connection' = [id \in Ids |-> IF id \in S THEN None ELSE connection[id]]
      /\ UNCHANGED <<now, multiplier, registered, halted>>
  BY DEF UnPoolWhitelistedPool, Unpooled, UnpoolAll, UnpoolStart
<1>2. x \in UnpoolStates /\ Unpools(S, x.st, x.at)
  BY <1>1, UnpoolAllOK
<1>3. \A id \in S : id \in DOMAIN store.locks
  BY UnpooledAre
<1> HIDE DEF S, x
<1>4. /\ StoreOK(store', {}, now) /\ unbondedAt' \in [Ids -> Nat]
      /\ store'.lastLockID = store.lastLockID + Cardinality(S)
      /\ \A i \in Ids : unbondedAt'[i] \in 0 .. now
      /\ \A i \in Ids : i > store'.lastLockID => unbondedAt'[i] = 0
      /\ \A i \in Ids : i <= store.lastLockID => unbondedAt'[i] = unbondedAt[i]
      /\ \A i \in DOMAIN store'.locks : i <= store.lastLockID => i \in DOMAIN store.locks \ S
      /\ \A i \in DOMAIN store.locks \ S : i \in DOMAIN store'.locks /\ store'.locks[i] = store.locks[i]
      /\ store'.synths = {z \in store.synths : z.id \notin S}
      /\ NewLocksServe(store', unbondedAt')
  BY <1>1, <1>2 DEF Unpools
<1>5. ConnectionsOK(store', connection')
  <2> SUFFICES ASSUME NEW i \in Ids, NEW v \in Vals
               PROVE  (connection'[i] = v) <=>
                        \E s \in store'.synths : s.id = i /\ s.denom = stakingSyntheticDenom(v)
    BY DEF ConnectionsOK
  <2>1. (connection[i] = v) <=> \E s \in store.synths : s.id = i /\ s.denom = stakingSyntheticDenom(v)
    BY InvFacts DEF ConnectionsOK
  <2>2. CASE i \in S
    BY <1>1, <1>4, <2>2, SuperfluidAssumption
  <2>3. CASE i \notin S
    BY <1>1, <1>4, <2>1, <2>3
  <2> QED
    BY <2>2, <2>3
<1>6. UnbondingOK(store', unbondedAt', now)
  <2>1. ASSUME NEW i \in DOMAIN store'.locks PROVE ServedOn(store, store', unbondedAt, unbondedAt', now, i)
    <3>0. i \in Ids /\ i \in Nat /\ store.lastLockID \in Nat
      BY <1>4, InvFacts, StoreFields, LocksAre DEF StoreOK, Ids
    <3>1. CASE i <= store.lastLockID
      <4>1. i \in DOMAIN store.locks \ S /\ store'.locks[i] = store.locks[i] /\ unbondedAt'[i] = unbondedAt[i]
        BY <1>4, <3>0, <3>1
      <4>2. SynthsOf(store, i) \subseteq SynthsOf(store', i)
        BY <1>4, <4>1 DEF SynthsOf
      <4> QED
        BY <4>1, <4>2 DEF ServedOn, LockKept
    <3>2. CASE i > store.lastLockID
      <4>1. Served(store'.locks[i], {}, unbondedAt'[i], now)
        BY <1>4, <3>2 DEF NewLocksServe
      <4>2. Served(store'.locks[i], SynthsOf(store', i), unbondedAt'[i], now)
        BY <4>1 DEF Served
      <4> QED
        BY <4>2 DEF ServedOn
    <3> QED
      BY <3>0, <3>1, <3>2
  <2>2. /\ UnbondingOK(store, unbondedAt, now)
        /\ \A i \in Ids : unbondedAt'[i] \in 0 .. now
        /\ \A i \in Ids : i > store'.lastLockID => unbondedAt'[i] = 0
        /\ \A i \in DOMAIN store'.locks : ServedOn(store, store', unbondedAt, unbondedAt', now, i)
    BY <1>4, <2>1, InvFacts
  <2> QED
    BY ONLY <2>2, UnbondingKept
<1>7. connection' \in [Ids -> Vals \cup {None}]
  BY <1>1, InvFacts
<1>8. IInv'
  BY <1>1, <1>4, <1>5, <1>6, <1>7, InvIntro
<1>9. store'.lastLockID # store.lastLockID
  <2>1. IsFiniteSet(S)
    BY <1>3, InvFacts, IdsFinite, FS_Subset
  <2>2. Cardinality(S) \in Nat /\ Cardinality(S) # 0
    BY <1>1, <2>1, FS_CardinalityType, FS_EmptySet
  <2> QED
    BY <1>4, <2>2, InvFacts
<1>10. Typed(delegation', multiplier)
  BY <1>1, <1>2 DEF Typed, UnpoolStates
<1> QED
  BY <1>8, <1>9, <1>10

----------------------------------------------------------------------------
(* What is delegated is a number                                           *)

LEMMA MintTyped ==
  ASSUME NEW del, Typed(del, multiplier), NEW v \in Vals, NEW a \in Int
  PROVE  mintOsmoTokensAndDelegate(del, v, GetSuperfluidOSMOTokens(a)) \in [Vals -> Int]
<1> DEFINE n == GetSuperfluidOSMOTokens(a)
<1>1. n \in Int
  BY OSMOInt DEF Typed, GetSuperfluidOSMOTokens
<1>2. mintOsmoTokensAndDelegate(del, v, n) = [del EXCEPT ![v] = del[v] + n]
  BY DEF mintOsmoTokensAndDelegate
<1>3. del \in [Vals -> Int] /\ del[v] \in Int
  BY DEF Typed
<1> HIDE DEF n
<1>4. del[v] + n \in Int
  BY <1>1, <1>3
<1>5. [del EXCEPT ![v] = del[v] + n] \in [Vals -> Int]
  BY <1>3, <1>4
<1> QED
  BY <1>2, <1>5 DEF n

LEMMA HookTyped ==
  ASSUME IInv, Typed(delegation, multiplier), NEW id \in Ids, NEW a \in Int
  PROVE  AfterAddTokensToLock(id, a) \in [Vals -> Int]
<1>1. connection[id] = None \/ connection[id] \in Vals
  BY InvFacts
<1> QED
  BY <1>1, MintTyped DEF AfterAddTokensToLock, Typed

LEMMA RefreshTyped ==
  ASSUME NEW st \in Stores, NEW m \in Multipliers \cup {ZeroDec}
  PROVE  [v \in Vals |-> GetExpectedDelegationAmount(st, v, m)] \in [Vals -> Int]
<1> SUFFICES ASSUME NEW v \in Vals PROVE GetExpectedDelegationAmount(st, v, m) \in Int
  OBVIOUS
<1>1. GetTotalSyntheticAssetsLocked(st, stakingSyntheticDenom(v)) \in Int
  BY CountInt, DenomFacts, UnbondingTimeFacts DEF GetTotalSyntheticAssetsLocked
<1> QED
  BY <1>1, OSMOInt DEF GetExpectedDelegationAmount

LEMMA NextTyped ==
  ASSUME IInv, Typed(delegation, multiplier), IInv', Next
  PROVE  Typed(delegation', multiplier')
<1>0. delegation \in [Vals -> Int] /\ multiplier \in Multipliers \cup {ZeroDec} /\ store \in Stores /\ store' \in Stores
  BY InvFacts DEF Typed, IInv, StoreOK
<1>1. ASSUME NEW o \in Owners, NEW a \in 1 .. InitialShares, NEW u \in Durations, LockTokens(o, a, u)
      PROVE  Typed(delegation', multiplier')
  <2>1. LockedWell(Locked(o, a, u))
    BY <1>1, LockedOK DEF LockTokens
  <2>2. Locked(o, a, u).id \in Ids
    BY <2>1 DEF LockedWell
  <2>3. AfterAddTokensToLock(Locked(o, a, u).id, a) \in [Vals -> Int]
    BY <2>2, HookTyped
  <2> QED
    BY <1>0, <1>1, <2>3 DEF LockTokens, Typed
<1>2. ASSUME NEW o \in Owners, UnPoolWhitelistedPool(o)
      PROVE  Typed(delegation', multiplier')
  <2>1. Typed(delegation', multiplier)
    BY <1>2, UnpoolInv
  <2> QED
    BY <1>2, <2>1 DEF UnPoolWhitelistedPool
<1>3. ASSUME NEW o \in Owners, NEW a \in 1 .. InitialShares, NEW v \in Vals, LockAndSuperfluidDelegate(o, a, v)
      PROVE  Typed(delegation', multiplier')
  <2> DEFINE k == Locked(o, a, UnbondingTime)
             b == AfterAddTokensToLock(k.id, a)
  <2>1. LockedWell(k)
    BY <1>3, SuperfluidAssumption, LockedOK DEF LockAndSuperfluidDelegate
  <2>2. /\ multiplier' = multiplier
        /\ delegation' = mintOsmoTokensAndDelegate(b, v, GetSuperfluidOSMOTokens(k.st.locks[k.id].amount))
    BY <1>3 DEF LockAndSuperfluidDelegate
  <2> HIDE DEF k
  <2>3. k.id \in Ids /\ k.st \in Stores /\ k.id \in DOMAIN k.st.locks
    BY <2>1 DEF LockedWell, StoreOK
  <2>4. b \in [Vals -> Int]
    BY <2>3, HookTyped
  <2>5. k.st.locks[k.id].amount \in Int
    BY <2>3, StoreLock
  <2> HIDE DEF b
  <2>6. Typed(b, multiplier)
    BY <1>0, <2>4 DEF Typed
  <2>7. delegation' \in [Vals -> Int]
    BY <2>2, <2>5, <2>6, MintTyped
  <2> QED
    BY <1>0, <2>2, <2>7 DEF Typed
<1>4. ASSUME NEW id \in DOMAIN store.locks, NEW v \in Vals, SuperfluidDelegate(id, v)
      PROVE  Typed(delegation', multiplier')
  <2>1. /\ multiplier' = multiplier
        /\ delegation' = mintOsmoTokensAndDelegate(delegation, v, GetSuperfluidOSMOTokens(store.locks[id].amount))
    BY <1>4 DEF SuperfluidDelegate
  <2>2. store.locks[id].amount \in Int
    BY <1>0, StoreLock
  <2>3. delegation' \in [Vals -> Int]
    BY <2>1, <2>2, MintTyped
  <2> QED
    BY <1>0, <2>1, <2>3 DEF Typed
<1>5. ASSUME NEW id \in DOMAIN store.locks, SuperfluidUndelegate(id)
      PROVE  Typed(delegation', multiplier')
  <2>1. multiplier' = multiplier /\ delegation' = Burned(store, delegation, id, connection[id]) /\ connection[id] # None
    BY <1>5 DEF SuperfluidUndelegate, CanUndelegate
  <2>2. delegation' \in [Vals -> Int]
    BY <1>0, <2>1, ConnectionIs, BurnedTyped
  <2> QED
    BY <1>0, <2>1, <2>2 DEF Typed
<1>6. ASSUME NEW id \in DOMAIN store.locks, NEW a \in 0 .. InitialShares, SuperfluidUndelegateAndUnbondLock(id, a)
      PROVE  Typed(delegation', multiplier')
  <2> DEFINE v == connection[id]
             b == Burned(store, delegation, id, v)
             n == store'.locks[id].amount
             u == createSyntheticLockup(undelegateCommon(store, id, v), id, v, "unlocking")
             k == beginUnlock(u, id, a, now)
  <2>1. v # None /\ multiplier' = multiplier /\ BondOf(store, id, v) # {} /\ CanSplit(u, id, a) /\ a > 0
    BY <1>6 DEF SuperfluidUndelegateAndUnbondLock, CanUndelegate, CanBeginForceUnlock
  <2>2. v \in Vals
    BY <2>1, ConnectionIs
  <2>3. b \in [Vals -> Int] /\ Typed(b, multiplier)
    BY <1>0, <2>2, BurnedTyped DEF Typed
  <2>4. \/ delegation' = b
        \/ /\ a # store.locks[id].amount
           /\ delegation' = mintOsmoTokensAndDelegate(b, v, GetSuperfluidOSMOTokens(k.st.locks[id].amount))
    BY <1>6 DEF SuperfluidUndelegateAndUnbondLock
  <2> HIDE DEF b
  <2>5. CASE delegation' = b
    BY <1>0, <2>1, <2>3, <2>5 DEF Typed
  <2>6. CASE /\ a # store.locks[id].amount
             /\ delegation' = mintOsmoTokensAndDelegate(b, v, GetSuperfluidOSMOTokens(k.st.locks[id].amount))
    <3>1. ReplacesBond(store, u, id, v, now) /\ ~ IsUnlocking(store.locks[id])
      BY <2>1, <2>2, InvFacts, UndelegateOK
    <3> HIDE DEF u, v
    <3>2. StoreOK(u, {}, now) /\ u.locks = store.locks /\ \A x \in u.synths : x.id = id => IsUnlocking(x)
      <4>1. IsUnlocking(UnbondSynth(id, v, now))
        BY InvFacts, SynthFields
      <4> QED
        BY <3>1, <4>1 DEF ReplacesBond
    <3>3. IsPart(u, id, a) /\ id \in DOMAIN u.locks /\ ~ IsUnlocking(u.locks[id])
      BY <2>1, <2>6, <3>1, <3>2 DEF IsPart
    <3>4. StoreOK(k.st, {}, now) /\ DOMAIN k.st.locks = DOMAIN u.locks \cup {k.id}
      BY <2>1, <3>2, <3>3, InvFacts, BeginPartOK
    <3> HIDE DEF k
    <3>5. k.st.locks[id].amount \in Int
      BY <3>3, <3>4, StoreLock DEF StoreOK
    <3>6. delegation' \in [Vals -> Int]
      BY <2>2, <2>3, <2>6, <3>5, MintTyped DEF v
    <3> QED
      BY <1>0, <2>1, <3>6 DEF Typed
  <2> QED
    BY <2>4, <2>5, <2>6
<1>7. ASSUME NEW m \in Multipliers, EpochStart(m)
      PROVE  Typed(delegation', multiplier')
  <2>1. CASE RefreshPanics
    BY <1>0, <1>7, <2>1 DEF EpochStart, Typed
  <2>2. CASE ~ RefreshPanics
    <3>1. multiplier' \in Multipliers \cup {ZeroDec}
      BY <1>0, <1>7, <2>2 DEF EpochStart
    <3>2. delegation' = [v \in Vals |-> GetExpectedDelegationAmount(store, v, multiplier')]
      BY <1>7, <2>2 DEF EpochStart, RefreshIntermediaryDelegationAmounts
    <3> QED
      BY <1>0, <3>1, <3>2, RefreshTyped DEF Typed
  <2> QED
    BY <2>1, <2>2
<1>8. ASSUME NEW v \in Vals, SlashValidator(v)
      PROVE  Typed(delegation', multiplier')
  <2>1. multiplier' = multiplier /\ delegation' = [x \in Vals |-> GetExpectedDelegationAmount(store', x, multiplier)]
    BY <1>8 DEF SlashValidator, RefreshIntermediaryDelegationAmounts
  <2> QED
    BY <1>0, <2>1, RefreshTyped DEF Typed
<1>10. ASSUME NEW o \in Owners, BeginUnlockingAll(o)
       PROVE  Typed(delegation', multiplier')
  BY <1>0, <1>10 DEF BeginUnlockingAll, Typed
<1>11. ASSUME NEW id \in DOMAIN store.locks, NEW a \in 0 .. InitialShares, BeginUnlocking(id, a) \/ MsgForceUnlock(id, a)
       PROVE  Typed(delegation', multiplier')
  BY <1>0, <1>11 DEF BeginUnlocking, MsgForceUnlock, Typed
<1>12. ASSUME NEW id \in DOMAIN store.locks, NEW u \in Durations, MsgExtendLockup(id, u)
       PROVE  Typed(delegation', multiplier')
  BY <1>0, <1>12 DEF MsgExtendLockup, Typed
<1>13. ASSUME NEW id \in DOMAIN store.locks, SuperfluidUnbondLock(id)
       PROVE  Typed(delegation', multiplier')
  BY <1>0, <1>13 DEF SuperfluidUnbondLock, Typed
<1>14. ASSUME NEW m \in Multipliers, HandleSetSuperfluidAssetsProposal(m)
       PROVE  Typed(delegation', multiplier')
  BY <1>0, <1>14 DEF HandleSetSuperfluidAssetsProposal, Typed
<1>15. CASE EpochStartPoolFails \/ HandleRemoveSuperfluidAssetsProposal
  BY <1>0, <1>15 DEF EpochStartPoolFails, HandleRemoveSuperfluidAssetsProposal, BeginUnwindSuperfluidAsset, Typed
<1>16. CASE EndBlock
  BY <1>0, <1>16 DEF EndBlock, Typed
<1> QED
  BY <1>1, <1>2, <1>3, <1>4, <1>5, <1>6, <1>7, <1>8, <1>10, <1>11, <1>12, <1>13, <1>14, <1>15, <1>16 DEF Next

----------------------------------------------------------------------------
(* The invariant is inductive                                              *)

LEMMA EmptyStoreOK ==
  ASSUME NEW b \in Balances, \A d \in Denoms : b[Module][d] = 0, NEW t
  PROVE  StoreOK(EmptyStore(b), {}, t)
<1> DEFINE r == EmptyStore(b)
           zeros == [d \in Denoms \cup SynthDenoms |-> [e \in 0 .. MaxDuration |-> 0]]
<1>1. /\ r.locks = <<>> /\ r.lastLockID = 0 /\ r.refs = {} /\ r.synths = {} /\ r.bank = b
      /\ r.accumulation = zeros
  BY DEF EmptyStore
<1>2. DOMAIN r.locks = {} /\ r.locks \in PartialLocks
  <2>1. r.locks = [x \in {} |-> 0]
    BY <1>1
  <2>2. [x \in {} |-> 0] \in [{} -> Lock] /\ {} \in SUBSET Ids
    OBVIOUS
  <2> HIDE DEF r
  <2> QED
    BY <2>1, <2>2 DEF PartialLocks
<1>3. zeros \in Accumulations
  BY DEF Accumulations
<1>4. r \in Stores
  <2>1. r = [locks |-> r.locks, lastLockID |-> 0, refs |-> {}, synths |-> {}, accumulation |-> zeros, bank |-> b]
    BY DEF EmptyStore
  <2>2. 0 \in 0 .. MaxLocks
    BY UnbondingTimeFacts
  <2> HIDE DEF r, zeros
  <2> QED
    BY <1>2, <1>3, <2>1, <2>2 DEF Stores
<1> HIDE DEF r
<1>5. \A d \in Denoms \cup SynthDenoms, e \in 0 .. MaxDuration : GetPeriodLocksAccumulation(r, d, e) = 0
  <2> SUFFICES ASSUME NEW d \in Denoms \cup SynthDenoms, NEW e \in 0 .. MaxDuration
               PROVE  GetPeriodLocksAccumulation(r, d, e) = 0
    OBVIOUS
  <2> DEFINE f == r.accumulation[d]
             T == e .. MaxDuration
  <2>1. IsFiniteSet(T)
    BY FS_Interval, UnbondingTimeFacts
  <2>2. \A x \in T : f[x] = 0
    BY <1>1, UnbondingTimeFacts
  <2> HIDE DEF f, T
  <2>3. SumFunctionOnSet(f, T) = 0
    BY <2>1, <2>2, SumZero
  <2> QED
    BY <2>3 DEF GetPeriodLocksAccumulation, f, T
<1>6. \A d, e : Total(r.locks, d, e) = 0
  <2> SUFFICES ASSUME NEW d, NEW e PROVE Total(r.locks, d, e) = 0
    OBVIOUS
  <2>1. \A x \in Ids : Weights(r.locks, d, e)[x] = 0
    BY <1>2 DEF Weights, WeightOf
  <2> QED
    BY <2>1, IdsFinite, SumZero DEF Total
<1>7. \A v : BondTotal(r, v) = 0
  <2> SUFFICES ASSUME NEW v PROVE BondTotal(r, v) = 0
    OBVIOUS
  <2>1. \A x \in Ids : BondWeights(r, v)[x] = 0
    BY <1>2 DEF BondWeights, BondWeight
  <2> QED
    BY <2>1, IdsFinite, SumZero DEF BondTotal
<1>8. Numbered(r) /\ Backed(r) /\ Counted(r) /\ BondCounted(r)
  <2>1. UnbondingTime \in 0 .. MaxDuration /\ \A v \in Vals : stakingSyntheticDenom(v) \in Denoms \cup SynthDenoms
    BY UnbondingTimeFacts, DenomFacts
  <2> QED
    BY <1>1, <1>2, <1>5, <1>6, <1>7, <2>1 DEF Numbered, Backed, Counted, BondCounted, GetTotalSyntheticAssetsLocked
<1>9. Indexed(r, {}) /\ SynthsIndexed(r) /\ SynthsOK(r) /\ TimesOK(r, t)
  BY <1>1, <1>2 DEF Indexed, SynthsIndexed, SynthsOK, TimesOK
<1> QED
  BY <1>4, <1>8, <1>9 DEF StoreOK, r

LEMMA InitInv ==
  ASSUME Init
  PROVE  IInv /\ Typed(delegation, multiplier)
<1> DEFINE b == [a \in Accounts |-> [d \in Denoms |-> IF a \in Owners /\ d = Share THEN InitialShares ELSE 0]]
<1>1. b \in Balances /\ \A d \in Denoms : b[Module][d] = 0
  BY AccountFacts, LockupAssumption, SuperfluidAssumption DEF Balances
<1>2. store = EmptyStore(b)
  BY DEF Init
<1> HIDE DEF b
<1>3. StoreOK(store, {}, now)
  BY <1>1, <1>2, EmptyStoreOK
<1>4. store.synths = {} /\ store.lastLockID = 0 /\ DOMAIN store.locks = {}
  BY <1>2 DEF EmptyStore
<1>5. /\ now = 1 /\ connection = [id \in Ids |-> None] /\ delegation = [v \in Vals |-> 0] /\ multiplier \in Multipliers
      /\ registered = TRUE /\ unbondedAt = [id \in Ids |-> 0] /\ halted = FALSE
  BY DEF Init
<1>6. ConnectionsOK(store, connection)
  BY <1>4, <1>5, SuperfluidAssumption DEF ConnectionsOK
<1>7. UnbondingOK(store, unbondedAt, now)
  BY <1>4, <1>5 DEF UnbondingOK
<1> QED
  BY <1>3, <1>5, <1>6, <1>7 DEF IInv, Typed

LEMMA AssetInv ==
  ASSUME IInv, \/ \E m \in Multipliers : EpochStart(m) \/ HandleSetSuperfluidAssetsProposal(m)
               \/ EpochStartPoolFails
               \/ HandleRemoveSuperfluidAssetsProposal
  PROVE  IInv' /\ KeepsLocks
<1>1. ~ RefreshPanics
  BY DEF IInv, RefreshPanics
<1>2. UNCHANGED <<store, now, connection, unbondedAt, halted>> /\ (multiplier' # ZeroDec => registered')
      /\ registered' \in BOOLEAN
  BY <1>1 DEF IInv, EpochStart, HandleSetSuperfluidAssetsProposal, EpochStartPoolFails,
        HandleRemoveSuperfluidAssetsProposal, BeginUnwindSuperfluidAsset, RefreshPanics
<1> QED
  BY <1>2 DEF IInv, KeepsLocks

LEMMA NextInv ==
  ASSUME IInv, Typed(delegation, multiplier), Next
  PROVE  IInv'
<1>1. ASSUME NEW o \in Owners, UnPoolWhitelistedPool(o)
      PROVE  IInv'
  BY <1>1, UnpoolInv
<1> QED
  BY <1>1, LockTokensInv, BeginUnlockingAllInv, LockAndDelegateInv, BeginUnlockingInv, ForceUnlockInv,
     UndelegateAndUnbondInv, ExtendInv, SuperfluidDelegateInv, SuperfluidUndelegateInv, SuperfluidUnbondInv,
     AssetInv, SlashInv, EndBlockInv DEF Next

LEMMA StutterInv ==
  ASSUME IInv, Typed(delegation, multiplier), UNCHANGED vars
  PROVE  IInv' /\ Typed(delegation, multiplier)'
BY DEF IInv, vars, Typed

LEMMA Invariance == Spec => [](IInv /\ Typed(delegation, multiplier))
<1>1. Init => IInv /\ Typed(delegation, multiplier)
  BY InitInv
<1>2. IInv /\ Typed(delegation, multiplier) /\ [Next]_vars => (IInv /\ Typed(delegation, multiplier))'
  <2>1. ASSUME IInv, Typed(delegation, multiplier), Next
        PROVE  (IInv /\ Typed(delegation, multiplier))'
    <3>1. IInv'
      BY <2>1, NextInv
    <3>2. Typed(delegation', multiplier')
      BY <2>1, <3>1, NextTyped
    <3> QED
      BY <3>1, <3>2
  <2> QED
    BY <2>1, StutterInv
<1> QED
  BY <1>1, <1>2, PTL DEF Spec

----------------------------------------------------------------------------
(* What the invariant says                                                 *)

\* A sum over a set that is zero outside a part of it is the sum over the part.
LEMMA SumOfPart ==
  ASSUME NEW f, NEW T, IsFiniteSet(T), \A x \in T : f[x] \in Int, NEW S \in SUBSET T, NEW g,
         \A x \in S : g[x] = f[x], \A x \in T \ S : f[x] = 0
  PROVE  SumFunctionOnSet(g, S) = SumFunctionOnSet(f, T)
<1>1. SumFunctionOnSet(f, T) = SumFunctionOnSet(f, S)
  BY SumSubset
<1>2. SumFunctionOnSet(g, S) = SumFunctionOnSet(f, S)
  BY FS_Subset, SumEqual
<1> QED
  BY <1>1, <1>2

LEMMA AmountIsTotal ==
  ASSUME IInv, NEW d \in Denoms, NEW e \in 0 .. MaxDuration
  PROVE  AmountOf({id \in DOMAIN store.locks : store.locks[id].denom = d /\ store.locks[id].duration >= e})
           = Total(store.locks, d, e)
<1> DEFINE S == {id \in DOMAIN store.locks : store.locks[id].denom = d /\ store.locks[id].duration >= e}
           f == Weights(store.locks, d, e)
           g == [id \in S |-> store.locks[id].amount]
<1>1. S \in SUBSET Ids
  BY InvFacts
<1>2. \A x \in Ids : f[x] = WeightOf(store.locks, x, d, e) /\ f[x] \in Int
  BY InvFacts, StoreFields, WeightOfInt
<1>3. \A x \in S : g[x] = f[x]
  BY <1>1, <1>2 DEF WeightOf, Weight
<1>4. \A x \in Ids \ S : f[x] = 0
  BY <1>2 DEF WeightOf, Weight
<1> HIDE DEF S, f, g
<1>5. SumFunctionOnSet(g, S) = SumFunctionOnSet(f, Ids)
  BY <1>1, <1>2, <1>3, <1>4, IdsFinite, SumOfPart
<1> QED
  BY <1>5 DEF AmountOf, Total, S, f, g

LEMMA BackedAndCounted ==
  ASSUME IInv
  PROVE  LockedIsBackedAndCounted
<1> SUFFICES ASSUME NEW d \in Denoms
             PROVE  /\ store.bank[Module][d] = AmountOf({id \in DOMAIN store.locks : store.locks[id].denom = d})
                    /\ \A e \in 0 .. MaxDuration :
                         GetPeriodLocksAccumulation(store, d, e) = AmountOf(GetLocksLongerThanDurationDenom(store, d, e))
  BY DEF LockedIsBackedAndCounted
<1>1. store.bank[Module][d] = AmountOf({id \in DOMAIN store.locks : store.locks[id].denom = d})
  <2>1. 0 \in 0 .. MaxDuration
    BY UnbondingTimeFacts
  <2>2. \A id \in DOMAIN store.locks : store.locks[id].duration >= 0
    BY InvFacts, StoreLock
  <2>3. {id \in DOMAIN store.locks : store.locks[id].denom = d} =
        {id \in DOMAIN store.locks : store.locks[id].denom = d /\ store.locks[id].duration >= 0}
    BY <2>2
  <2>4. AmountOf({id \in DOMAIN store.locks : store.locks[id].denom = d}) = Total(store.locks, d, 0)
    BY <2>1, <2>3, AmountIsTotal
  <2> QED
    BY <2>4, InvFacts DEF StoreOK, Backed
<1>2. ASSUME NEW e \in 0 .. MaxDuration
      PROVE  GetPeriodLocksAccumulation(store, d, e) = AmountOf(GetLocksLongerThanDurationDenom(store, d, e))
  <2>1. GetLocksLongerThanDurationDenom(store, d, e) =
          {id \in DOMAIN store.locks : store.locks[id].denom = d /\ store.locks[id].duration >= e}
    BY InvFacts, LongerThanIs
  <2>2. AmountOf(GetLocksLongerThanDurationDenom(store, d, e)) = Total(store.locks, d, e)
    BY <2>1, AmountIsTotal
  <2> QED
    BY <2>2, InvFacts DEF StoreOK, Counted
<1> QED
  BY <1>1, <1>2

LEMMA Exact ==
  ASSUME IInv
  PROVE  IndexIsExact
<1> DEFINE A == UNION {RefsOf(id, store.locks[id]) : id \in DOMAIN store.locks}
           B == UNION {syntheticLockRefKeys(s) : s \in store.synths}
<1> SUFFICES store.refs = A \cup B
  BY Zenon DEF IndexIsExact
<1>0. store.refs \subseteq RefType /\ store.synths \subseteq Synth
  BY InvFacts, StoreFields
<1>1. ASSUME NEW r \in store.refs PROVE r \in A \cup B
  <2>1. r \in RefType
    BY <1>0
  <2>2. CASE r.denom \in Denoms
    <3>1. r.id \in DOMAIN store.locks /\ r \in RefsOf(r.id, store.locks[r.id])
      BY <2>1, <2>2, InvFacts DEF StoreOK, Indexed
    <3> QED
      BY <3>1
  <2>3. CASE r.denom \in SynthDenoms
    <3>1. \E s \in store.synths : r \in syntheticLockRefKeys(s)
      BY <2>1, <2>3, InvFacts DEF StoreOK, SynthsIndexed
    <3> QED
      BY <3>1
  <2> QED
    BY <2>1, <2>2, <2>3, DenomsSplit
<1>2. ASSUME NEW r \in A PROVE r \in store.refs
  <2>1. PICK id \in DOMAIN store.locks : r \in RefsOf(id, store.locks[id])
    OBVIOUS
  <2>2. store.locks[id] \in Lock /\ id \in Ids
    BY InvFacts, StoreLock
  <2>3. r \in RefType /\ r.id = id /\ r.denom \in Denoms
    BY <2>1, <2>2, LockRefKeys
  <2> QED
    BY <2>1, <2>3, InvFacts DEF StoreOK, Indexed
<1>3. ASSUME NEW r \in B PROVE r \in store.refs
  <2>1. PICK s \in store.synths : r \in syntheticLockRefKeys(s)
    OBVIOUS
  <2>2. r \in RefType /\ r.denom \in SynthDenoms
    BY <1>0, <2>1, SynthRefKeys
  <2> QED
    BY <2>1, <2>2, InvFacts DEF StoreOK, SynthsIndexed
<1> HIDE DEF A, B
<1> QED
  BY <1>1, <1>2, <1>3

LEMMA Connected ==
  ASSUME IInv
  PROVE  ConnectedIffBonded
<1> SUFFICES ASSUME NEW id \in Ids, NEW v \in Vals
             PROVE  (connection[id] = v) <=> (Exists(store, id) /\ BondOf(store, id, v) # {}
                                              /\ ~ IsUnlocking(store.locks[id]))
  BY DEF ConnectedIffBonded
<1>1. (connection[id] = v) <=> \E s \in store.synths : s.id = id /\ s.denom = stakingSyntheticDenom(v)
  BY InvFacts DEF ConnectionsOK
<1>2. (connection[id] = v) <=> BondOf(store, id, v) # {}
  BY <1>1 DEF BondOf, SynthsOf
<1>3. BondOf(store, id, v) # {} => id \in DOMAIN store.locks
  BY InvFacts DEF BondOf, SynthsOf, StoreOK, SynthsOK
<1>4. id \in DOMAIN store.locks /\ BondOf(store, id, v) # {} => ~ IsUnlocking(store.locks[id])
  BY InvFacts, BondIs
<1> QED
  BY <1>2, <1>3, <1>4 DEF Exists

LEMMA Slashable ==
  ASSUME IInv
  PROVE  UnbondingIsSlashable
<1> SUFFICES ASSUME NEW id \in DOMAIN store.locks, store.locks[id].denom = Share, unbondedAt[id] > 0,
                    now < unbondedAt[id] + UnbondingTime
             PROVE  HasAnySyntheticLockups(store, id)
  BY DEF UnbondingIsSlashable
<1>1. Served(store.locks[id], SynthsOf(store, id), unbondedAt[id], now)
  BY InvFacts DEF UnbondingOK
<1>2. unbondedAt[id] \in Nat /\ now \in Nat
  BY InvFacts
<1> QED
  BY <1>1, <1>2, DenomFacts, UnbondingTimeFacts DEF Served, HasAnySyntheticLockups

\* Stake is paid out when it has served its time.
PaidInTime(id) ==
  /\ Exists(store, id) /\ ~ Exists(store, id)'
  /\ store'.lastLockID = store.lastLockID
  /\ now' # now \/ store.locks[id].denom = Share
  => unbondedAt[id] = 0 \/ now >= unbondedAt[id] + UnbondingTime

LEMMA ForceUnlockPays ==
  ASSUME IInv, NEW y \in DOMAIN store.locks, NEW a \in 0 .. InitialShares, MsgForceUnlock(y, a), NEW id \in Ids
  PROVE  PaidInTime(id)
<1> SUFFICES ASSUME id \in DOMAIN store.locks, id \notin DOMAIN store'.locks,
                    now' # now \/ store.locks[id].denom = Share
             PROVE  unbondedAt[id] = 0 \/ now >= unbondedAt[id] + UnbondingTime
  BY DEF PaidInTime, Exists
<1> DEFINE r == PartialForceUnlock(store, y, a, now)
<1>1. CanSplit(store, y, a) /\ ~ HasAnySyntheticLockups(store, y) /\ store' = r /\ now' = now
  BY DEF MsgForceUnlock
<1>2. (\A s \in store.synths : s.id # y) /\ SynthsOf(store, y) = {}
  BY <1>1, NoSynths
<1>3. DOMAIN store.locks \ {y} \subseteq DOMAIN r.locks
  BY <1>1, <1>2, InvFacts, PartialForceUnlockOK
<1> HIDE DEF r
<1>4. id = y
  BY <1>1, <1>3
<1>5. Served(store.locks[id], {}, unbondedAt[id], now)
  BY <1>2, <1>4, InvFacts DEF UnbondingOK
<1> QED
  BY <1>1, <1>5, DenomFacts DEF Served

LEMMA EndBlockPays ==
  ASSUME IInv, EndBlock, NEW id \in Ids
  PROVE  PaidInTime(id)
<1> SUFFICES ASSUME id \in DOMAIN store.locks, id \notin DOMAIN store'.locks
             PROVE  unbondedAt[id] = 0 \/ now >= unbondedAt[id] + UnbondingTime
  BY DEF PaidInTime, Exists
<1> DEFINE e == EndBlocker(store, now)
           r == e.st
           l == store.locks[id]
<1>1. store' = r
  BY DEF EndBlock
<1>2. EndsWell(store, r, now)
  BY InvFacts, EndBlockerOK
<1> HIDE DEF e, r
<1>3. IsUnlocking(l) /\ l.endTime <= now
  BY <1>1, <1>2 DEF EndsWell, LocksBut, Matured
<1>4. Served(l, SynthsOf(store, id), unbondedAt[id], now)
  BY InvFacts DEF UnbondingOK
<1>5. l.endTime \in Nat /\ now \in Nat /\ unbondedAt[id] \in Nat
  BY InvFacts, StoreLock
<1>6. ASSUME NEW x \in SynthsOf(store, id), ~ IsUnlocking(x) \/ x.endTime >= unbondedAt[id] + UnbondingTime
      PROVE  now >= unbondedAt[id] + UnbondingTime
  <2>1. x \in store.synths /\ x.id = id /\ x.endTime \in Nat
    BY InvFacts, StoreFields DEF SynthsOf, Synth
  <2>2. SynthOK(x, l)
    BY <2>1, InvFacts DEF StoreOK, SynthsOK
  <2>3. IsUnlocking(x) /\ x.endTime <= l.endTime
    BY <1>3, <2>2 DEF SynthOK
  <2> HIDE DEF l
  <2> QED
    BY <1>3, <1>5, <1>6, <2>1, <2>3, UnbondingTimeFacts
<1> HIDE DEF l
<1> QED
  BY <1>3, <1>4, <1>5, <1>6, UnbondingTimeFacts DEF Served

LEMMA NextPays ==
  ASSUME IInv, Typed(delegation, multiplier), Next, NEW id \in Ids
  PROVE  PaidInTime(id)
<1>1. CASE KeepsLocks
  BY <1>1 DEF KeepsLocks, PaidInTime, Exists
<1>2. ASSUME NEW o \in Owners, UnPoolWhitelistedPool(o)
      PROVE  PaidInTime(id)
  BY <1>2, UnpoolInv DEF PaidInTime
<1> QED
  BY <1>1, <1>2, LockTokensInv, BeginUnlockingAllInv, LockAndDelegateInv, BeginUnlockingInv, ForceUnlockPays,
     UndelegateAndUnbondInv, ExtendInv, SuperfluidDelegateInv, SuperfluidUndelegateInv, SuperfluidUnbondInv,
     AssetInv, SlashInv, EndBlockPays DEF Next

----------------------------------------------------------------------------
(* With a whole multiplier, what is delegated is what the connected locks  *)
(* are worth                                                               *)

DelInv == settled /\ IsWhole(multiplier) => DelegationOK(store.locks, connection, delegation, multiplier)

\* A step that does not touch the locks that are delegated
LEMMA DelegationKept ==
  ASSUME DelInv, UNCHANGED <<connection, delegation, multiplier, settled>>,
         \A y \in Ids : connection[y] # None => store'.locks[y].amount = store.locks[y].amount
  PROVE  DelInv'
<1>1. \A v \in Vals : Staked(store'.locks, connection, v) = Staked(store.locks, connection, v)
  BY StakedSame
<1> QED
  BY <1>1 DEF DelInv, DelegationOK, IsWhole

LEMMA BeginUnlockingDel ==
  ASSUME IInv, DelInv, NEW id \in DOMAIN store.locks, NEW a \in 0 .. InitialShares, BeginUnlocking(id, a)
  PROVE  DelInv'
<1> DEFINE r == beginUnlock(store, id, a, now)
<1>1. /\ CanSplit(store, id, a) /\ ~ IsUnlocking(store.locks[id]) /\ ~ HasAnySyntheticLockups(store, id)
      /\ store' = r.st /\ UNCHANGED <<connection, delegation, multiplier, settled>>
  BY DEF BeginUnlocking, CanBeginUnlock, CanBeginForceUnlock
<1>2. \A s \in store.synths : s.id # id
  BY <1>1, NoSynths
<1>3. \A y \in DOMAIN store.locks : y # id => r.st.locks[y] = store.locks[y]
  <2>1. CASE IsPart(store, id, a)
    BY <1>1, <1>2, <2>1, InvFacts, BeginPartOK
  <2>2. CASE ~ IsPart(store, id, a)
    BY <1>1, <1>2, <2>2, InvFacts, BeginWholeOK
  <2> QED
    BY <2>1, <2>2
<1> HIDE DEF r
<1>4. \A y \in Ids : connection[y] # None => store'.locks[y].amount = store.locks[y].amount
  BY <1>1, <1>2, <1>3, ConnectedLock
<1> QED
  BY <1>1, <1>4, DelegationKept

LEMMA BeginUnlockingAllDel ==
  ASSUME IInv, DelInv, NEW o \in Owners, BeginUnlockingAll(o)
  PROVE  DelInv'
<1> DEFINE S == OwnedBy(store, o, UNION {LocksByDuration(store, FALSE, d, 0 .. MaxDuration) : d \in Denoms})
           r == BeginAll(S, store, now)
<1>1. /\ \A id \in S : CanBeginUnlock(store, id, 0)
      /\ store' = r /\ UNCHANGED <<connection, delegation, multiplier, settled>>
  BY DEF BeginUnlockingAll, BeginAll
<1>2. S \in SUBSET DOMAIN store.locks
  BY OwnedLocks
<1>3. \A id \in S : ~ IsUnlocking(store.locks[id]) /\ \A s \in store.synths : s.id # id
  BY <1>1, NoSynths DEF CanBeginUnlock, CanBeginForceUnlock
<1> HIDE DEF S
<1>4. \A y \in DOMAIN store.locks \ S : r.locks[y] = store.locks[y]
  BY <1>2, <1>3, InvFacts, BeginAllOK
<1> HIDE DEF r
<1>5. \A y \in Ids : connection[y] # None => store'.locks[y].amount = store.locks[y].amount
  BY <1>1, <1>3, <1>4, ConnectedLock
<1> QED
  BY <1>1, <1>5, DelegationKept

LEMMA ExtendDel ==
  ASSUME IInv, DelInv, NEW id \in DOMAIN store.locks, NEW u \in Durations, MsgExtendLockup(id, u)
  PROVE  DelInv'
<1> DEFINE r == ExtendLockup(store, id, u)
           m == WithDuration(store.locks[id], u)
<1>1. /\ ~ IsUnlocking(store.locks[id]) /\ ~ HasAnySyntheticLockups(store, id) /\ store' = r
      /\ UNCHANGED <<connection, delegation, multiplier, settled>>
  BY DEF MsgExtendLockup
<1>2. u \in 0 .. MaxDuration /\ \A s \in store.synths : s.id # id
  BY <1>1, NoSynths, UnbondingTimeFacts DEF Durations
<1>3. r.locks = Put(store.locks, id, m)
  BY <1>1, <1>2, InvFacts, ExtendLockupOK
<1> HIDE DEF r, m
<1>4. \A y \in DOMAIN store.locks : y # id => r.locks[y] = store.locks[y]
  BY <1>3 DEF Put
<1>5. \A y \in Ids : connection[y] # None => store'.locks[y].amount = store.locks[y].amount
  BY <1>1, <1>2, <1>4, ConnectedLock
<1> QED
  BY <1>1, <1>5, DelegationKept

LEMMA ForceUnlockDel ==
  ASSUME IInv, DelInv, NEW id \in DOMAIN store.locks, NEW a \in 0 .. InitialShares, MsgForceUnlock(id, a)
  PROVE  DelInv'
<1> DEFINE r == PartialForceUnlock(store, id, a, now)
<1>1. /\ CanSplit(store, id, a) /\ ~ HasAnySyntheticLockups(store, id) /\ store' = r
      /\ UNCHANGED <<connection, delegation, multiplier, settled>>
  BY DEF MsgForceUnlock
<1>2. \A s \in store.synths : s.id # id
  BY <1>1, NoSynths
<1>3. \A y \in DOMAIN store.locks \ {id} : r.locks[y] = store.locks[y]
  BY <1>1, <1>2, InvFacts, PartialForceUnlockOK
<1> HIDE DEF r
<1>4. \A y \in Ids : connection[y] # None => store'.locks[y].amount = store.locks[y].amount
  BY <1>1, <1>2, <1>3, ConnectedLock
<1> QED
  BY <1>1, <1>4, DelegationKept

LEMMA UnbondDel ==
  ASSUME IInv, DelInv, NEW id \in DOMAIN store.locks, SuperfluidUnbondLock(id)
  PROVE  DelInv'
<1> DEFINE r == beginUnlock(store, id, 0, now)
<1>1. /\ \E s \in SynthsOf(store, id) : IsUnlocking(s)
      /\ ~ IsUnlocking(store.locks[id]) /\ store' = r.st /\ UNCHANGED <<connection, delegation, multiplier, settled>>
  BY DEF SuperfluidUnbondLock, CanBeginForceUnlock
<1>2. connection[id] = None /\ ~ IsPart(store, id, 0)
  BY <1>1, InvFacts, ConnectedLock DEF SynthsOf, IsPart
<1>3. \A s \in store.synths : s.id = id => IsUnlocking(s)
  BY <1>1, InvFacts DEF SynthsOf, StoreOK, SynthsOK
<1>4. \A y \in DOMAIN store.locks : y # id => r.st.locks[y] = store.locks[y]
  BY <1>1, <1>2, <1>3, InvFacts, BeginWholeOK
<1> HIDE DEF r
<1>5. \A y \in Ids : connection[y] # None => store'.locks[y].amount = store.locks[y].amount
  BY <1>1, <1>2, <1>4, ConnectedLock
<1> QED
  BY <1>1, <1>5, DelegationKept

LEMMA EndBlockDel ==
  ASSUME IInv, DelInv, EndBlock
  PROVE  DelInv'
<1> DEFINE r == EndBlocker(store, now).st
<1>1. store' = r /\ UNCHANGED <<connection, delegation, multiplier, settled>>
  BY DEF EndBlock
<1>2. LocksBut(store, r, Matured(store, now))
  BY InvFacts, EndBlockerOK DEF EndsWell
<1> HIDE DEF r
<1>3. \A y \in Ids : connection[y] # None => store'.locks[y].amount = store.locks[y].amount
  BY <1>1, <1>2, ConnectedLock DEF LocksBut, Matured
<1> QED
  BY <1>1, <1>3, DelegationKept

\* The history of the connections decides what is staked, one lock at a time.
LEMMA StakeMoves ==
  ASSUME IInv, IInv', NEW id \in Ids,
         \A y \in Ids \ {id} : connection'[y] = connection[y]
                               /\ (connection[y] # None => store'.locks[y].amount = store.locks[y].amount)
  PROVE  /\ StakesOK(store.locks, connection) /\ StakesOK(store'.locks, connection')
         /\ \A v \in Vals : /\ Staked(store'.locks, connection', v) \in Nat
                            /\ Staked(store.locks, connection, v) \in Nat
                            /\ Staked(store'.locks, connection', v)
                                 = Staked(store.locks, connection, v) + Stake(store'.locks, connection', id, v)
                                   - Stake(store.locks, connection, id, v)
<1>1. StakesOK(store.locks, connection)
  BY InvFacts, StoreStakes
<1>2. StakesOK(store'.locks, connection')
  <2>1. StoreOK(store', {}, now') /\ connection' \in [Ids -> Vals \cup {None}] /\ ConnectionsOK(store', connection')
    BY DEF IInv
  <2> QED
    BY <2>1, StoreStakes
<1> QED
  BY <1>1, <1>2, StakedNat, StakedChange

\* What is staked with v grows by a at the place id.
LEMMA MintDel ==
  ASSUME IsWhole(multiplier), IInv, Typed(delegation, multiplier), DelInv, IInv', NEW id \in Ids, NEW v \in Vals, NEW a \in Nat,
         UNCHANGED <<multiplier, settled>>,
         \A y \in Ids \ {id} : connection'[y] = connection[y]
                               /\ (connection[y] # None => store'.locks[y].amount = store.locks[y].amount),
         \A w \in Vals : Stake(store'.locks, connection', id, w)
                           = Stake(store.locks, connection, id, w) + (IF w = v THEN a ELSE 0),
         delegation' = mintOsmoTokensAndDelegate(delegation, v, GetSuperfluidOSMOTokens(a))
  PROVE  DelInv'
<1>1. /\ StakesOK(store.locks, connection)
      /\ \A w \in Vals : /\ Staked(store.locks, connection, w) \in Nat
                         /\ Staked(store'.locks, connection', w)
                              = Staked(store.locks, connection, w) + Stake(store'.locks, connection', id, w)
                                - Stake(store.locks, connection, id, w)
  BY StakeMoves
<1>2. ASSUME NEW w \in Vals
      PROVE  Staked(store'.locks, connection', w) = Staked(store.locks, connection, w) + (IF w = v THEN a ELSE 0)
  <2> DEFINE x == Staked(store.locks, connection, w)
             y == Staked(store'.locks, connection', w)
             p == Stake(store.locks, connection, id, w)
             q == Stake(store'.locks, connection', id, w)
             k == IF w = v THEN a ELSE 0
  <2>1. x \in Nat /\ p \in Nat /\ k \in Nat /\ y = x + q - p /\ q = p + k
    BY <1>1 DEF StakesOK
  <2> HIDE DEF x, y, p, q, k
  <2>2. y = x + k
    BY <2>1
  <2> QED
    BY <2>2 DEF x, y, k
<1>3. settled => DelegationOK(store'.locks, connection', delegation', multiplier)
  BY <1>1, <1>2, MintMatches DEF DelInv
<1> QED
  BY <1>3 DEF DelInv, DelegationOK

\* What is staked with v shrinks by a at the place id.
LEMMA BurnDel ==
  ASSUME IsWhole(multiplier), IInv, Typed(delegation, multiplier), DelInv, IInv', NEW id \in Ids, NEW v \in Vals, NEW a \in Nat,
         UNCHANGED <<multiplier, settled>>,
         \A y \in Ids \ {id} : connection'[y] = connection[y]
                               /\ (connection[y] # None => store'.locks[y].amount = store.locks[y].amount),
         \A w \in Vals : Stake(store.locks, connection, id, w)
                           = Stake(store'.locks, connection', id, w) + (IF w = v THEN a ELSE 0),
         delegation' = forceUndelegateAndBurnOsmoTokens(delegation, v, GetSuperfluidOSMOTokens(a))
  PROVE  DelInv'
<1>1. /\ StakesOK(store'.locks, connection')
      /\ \A w \in Vals : /\ Staked(store.locks, connection, w) \in Nat
                         /\ Staked(store'.locks, connection', w)
                              = Staked(store.locks, connection, w) + Stake(store'.locks, connection', id, w)
                                - Stake(store.locks, connection, id, w)
  BY StakeMoves
<1>2. ASSUME NEW w \in Vals
      PROVE  Staked(store.locks, connection, w) = Staked(store'.locks, connection', w) + (IF w = v THEN a ELSE 0)
  <2> DEFINE x == Staked(store.locks, connection, w)
             y == Staked(store'.locks, connection', w)
             p == Stake(store.locks, connection, id, w)
             q == Stake(store'.locks, connection', id, w)
             k == IF w = v THEN a ELSE 0
  <2>1. x \in Nat /\ q \in Nat /\ k \in Nat /\ y = x + q - p /\ p = q + k
    BY <1>1 DEF StakesOK
  <2> HIDE DEF x, y, p, q, k
  <2>2. x = y + k
    BY <2>1
  <2> QED
    BY <2>2 DEF x, y, k
<1>3. settled => DelegationOK(store'.locks, connection', delegation', multiplier)
  BY <1>1, <1>2, BurnMatches DEF DelInv
<1> QED
  BY <1>3 DEF DelInv, DelegationOK

LEMMA LockTokensDel ==
  ASSUME IsWhole(multiplier), IInv, Typed(delegation, multiplier), DelInv, IInv',
         NEW o \in Owners, NEW a \in 1 .. InitialShares, NEW u \in Durations, LockTokens(o, a, u)
  PROVE  DelInv'
<1> DEFINE r == Locked(o, a, u)
           id == r.id
           v == connection[id]
<1>1. /\ CanLock(o, a, u) /\ store' = r.st /\ UNCHANGED <<connection, multiplier, settled>>
      /\ delegation' = AfterAddTokensToLock(id, a)
  BY DEF LockTokens
<1>2. LockedWell(r) /\ LockedAmounts(r, a) /\ a \in Nat
  BY <1>1, SuperfluidAssumption, LockedOK
<1> HIDE DEF r
<1>3. /\ id \in Ids /\ \A y \in DOMAIN store.locks \ {id} : store'.locks[y] = store.locks[y]
      /\ id \in DOMAIN store.locks => store'.locks[id].amount = a + store.locks[id].amount
  BY <1>1, <1>2 DEF LockedWell, LockedAmounts
<1> HIDE DEF id
<1>4. \A y \in Ids \ {id} : connection'[y] = connection[y]
                            /\ (connection[y] # None => store'.locks[y].amount = store.locks[y].amount)
  BY <1>1, <1>3, ConnectedLock
<1>5. CASE v = None
  <2>1. delegation' = delegation
    BY <1>1, <1>5 DEF AfterAddTokensToLock
  <2> QED
    BY <1>1, <1>4, <1>5, <2>1, DelegationKept
<1>6. CASE v # None
  <2>1. /\ v \in Vals /\ store.locks[id].amount \in Nat
        /\ store'.locks[id].amount = a + store.locks[id].amount
        /\ delegation' = mintOsmoTokensAndDelegate(delegation, v, GetSuperfluidOSMOTokens(a))
    BY <1>1, <1>3, <1>6, ConnectedLock DEF AfterAddTokensToLock
  <2>2. \A w \in Vals : Stake(store'.locks, connection', id, w)
                          = Stake(store.locks, connection, id, w) + (IF w = v THEN a ELSE 0)
    BY <1>1, <1>2, <2>1 DEF Stake
  <2> HIDE DEF v
  <2> QED
    BY <1>1, <1>2, <1>3, <1>4, <2>1, <2>2, MintDel
<1> QED
  BY <1>5, <1>6

\* A lock that was free is delegated.
LEMMA ConnectDel ==
  ASSUME IsWhole(multiplier), IInv, Typed(delegation, multiplier), DelInv, IInv', NEW id \in Ids, NEW v \in Vals,
         connection[id] = None, connection' = [connection EXCEPT ![id] = v], UNCHANGED <<multiplier, settled>>,
         \A y \in DOMAIN store.locks \ {id} : store'.locks[y] = store.locks[y], store'.locks[id].amount \in Nat,
         delegation' = mintOsmoTokensAndDelegate(delegation, v, GetSuperfluidOSMOTokens(store'.locks[id].amount))
  PROVE  DelInv'
<1> DEFINE a == store'.locks[id].amount
<1>1. \A y \in Ids \ {id} : connection'[y] = connection[y]
                            /\ (connection[y] # None => store'.locks[y].amount = store.locks[y].amount)
  BY ConnectedLock, InvFacts
<1>2. \A w \in Vals : Stake(store'.locks, connection', id, w)
                        = Stake(store.locks, connection, id, w) + (IF w = v THEN a ELSE 0)
  BY InvFacts, SuperfluidAssumption DEF Stake
<1>3. a \in Nat /\ delegation' = mintOsmoTokensAndDelegate(delegation, v, GetSuperfluidOSMOTokens(a))
  OBVIOUS
<1> HIDE DEF a
<1> QED
  BY <1>1, <1>2, <1>3, MintDel

LEMMA DelegateDel ==
  ASSUME IsWhole(multiplier), IInv, Typed(delegation, multiplier), DelInv, IInv',
         NEW id \in DOMAIN store.locks, NEW v \in Vals, SuperfluidDelegate(id, v)
  PROVE  DelInv'
<1>1. /\ store.locks[id].denom = Share /\ ~ IsUnlocking(store.locks[id]) /\ store.locks[id].duration >= UnbondingTime
      /\ ~ HasAnySyntheticLockups(store, id) /\ connection[id] = None
      /\ store' = Delegated(store, id, v) /\ connection' = [connection EXCEPT ![id] = v]
      /\ delegation' = mintOsmoTokensAndDelegate(delegation, v, GetSuperfluidOSMOTokens(store.locks[id].amount))
      /\ UNCHANGED <<multiplier, settled>>
  BY DEF SuperfluidDelegate, CanDelegate, alreadySuperfluidStaking
<1>2. UnbondingTime <= store.locks[id].duration /\ id \in Ids /\ store.locks[id].amount \in Nat
  BY <1>1, InvFacts, StoreLock, UnbondingTimeFacts
<1>3. \A s \in store.synths : s.id # id
  BY <1>1, NoSynths
<1>4. store'.locks = store.locks
  BY <1>1, <1>2, <1>3, InvFacts, DelegatedOK
<1> QED
  BY <1>1, <1>2, <1>4, ConnectDel

LEMMA LockAndDelegateDel ==
  ASSUME IsWhole(multiplier), IInv, Typed(delegation, multiplier), DelInv, IInv',
         NEW o \in Owners, NEW a \in 1 .. InitialShares, NEW v \in Vals, LockAndSuperfluidDelegate(o, a, v)
  PROVE  DelInv'
<1> DEFINE k == Locked(o, a, UnbondingTime)
           id == k.id
           st == k.st
           l == st.locks[id]
<1>1. /\ CanLock(o, a, UnbondingTime) /\ CanDelegate(st, connection, id)
      /\ store' = Delegated(st, id, v) /\ connection' = [connection EXCEPT ![id] = v]
      /\ delegation' = mintOsmoTokensAndDelegate(AfterAddTokensToLock(id, a), v, GetSuperfluidOSMOTokens(l.amount))
      /\ UNCHANGED <<multiplier, settled>>
  BY DEF LockAndSuperfluidDelegate
<1>2. LockedWell(k) /\ LockedAmounts(k, a)
  BY <1>1, SuperfluidAssumption, LockedOK
<1> HIDE DEF k
<1>3. /\ StoreOK(st, {}, now) /\ st \in Stores /\ id \in DOMAIN st.locks /\ id \in Ids
      /\ \A y \in DOMAIN store.locks \ {id} : st.locks[y] = store.locks[y]
  BY <1>2 DEF LockedWell, LockedAmounts, StoreOK
<1> HIDE DEF st, id
<1>4. /\ l.denom = Share /\ ~ IsUnlocking(l) /\ l.duration >= UnbondingTime /\ ~ HasAnySyntheticLockups(st, id)
      /\ connection[id] = None
  BY <1>1 DEF CanDelegate, alreadySuperfluidStaking
<1>5. UnbondingTime <= l.duration /\ l.amount \in Nat
  BY <1>3, <1>4, StoreLock, UnbondingTimeFacts
<1>6. \A s \in st.synths : s.id # id
  BY <1>4, NoSynths
<1>7. store'.locks = st.locks
  BY <1>1, <1>3, <1>4, <1>5, <1>6, DelegatedOK
<1>8. AfterAddTokensToLock(id, a) = delegation
  BY <1>4 DEF AfterAddTokensToLock
<1> QED
  BY <1>1, <1>3, <1>4, <1>5, <1>7, <1>8, ConnectDel

\* A lock whose stake is undelegated, and whatever else happens to it
LEMMA DisconnectDel ==
  ASSUME IsWhole(multiplier), IInv, Typed(delegation, multiplier), DelInv, IInv',
         NEW id \in DOMAIN store.locks, NEW v \in Vals, connection[id] = v,
         connection' = [connection EXCEPT ![id] = None], UNCHANGED <<multiplier, settled>>,
         \A y \in DOMAIN store.locks \ {id} : store'.locks[y] = store.locks[y],
         delegation' = Burned(store, delegation, id, v)
  PROVE  DelInv'
<1> DEFINE a == store.locks[id].amount
<1>1. \A y \in Ids \ {id} : connection'[y] = connection[y]
                            /\ (connection[y] # None => store'.locks[y].amount = store.locks[y].amount)
  BY ConnectedLock, InvFacts
<1>2. a \in Nat /\ id \in Ids
  BY InvFacts, StoreLock
<1>3. \A w \in Vals : Stake(store.locks, connection, id, w)
                        = Stake(store'.locks, connection', id, w) + (IF w = v THEN a ELSE 0)
  BY <1>2, InvFacts, SuperfluidAssumption DEF Stake
<1>4. delegation' = forceUndelegateAndBurnOsmoTokens(delegation, v, GetSuperfluidOSMOTokens(a))
  BY DEF Burned
<1> HIDE DEF a
<1> QED
  BY <1>1, <1>2, <1>3, <1>4, BurnDel

LEMMA UndelegateDel ==
  ASSUME IsWhole(multiplier), IInv, Typed(delegation, multiplier), DelInv, IInv',
         NEW id \in DOMAIN store.locks, SuperfluidUndelegate(id)
  PROVE  DelInv'
<1> DEFINE v == connection[id]
           r == createSyntheticLockup(undelegateCommon(store, id, v), id, v, "unlocking")
<1>1. /\ v # None /\ BondOf(store, id, v) # {} /\ connection[id] = v
      /\ store' = r /\ connection' = [connection EXCEPT ![id] = None]
      /\ delegation' = Burned(store, delegation, id, v)
      /\ UNCHANGED <<multiplier, settled>>
  BY DEF SuperfluidUndelegate, CanUndelegate
<1>2. v \in Vals
  BY <1>1, ConnectionIs
<1> HIDE DEF v
<1>3. ReplacesBond(store, r, id, v, now)
  BY <1>1, <1>2, InvFacts, UndelegateOK
<1> HIDE DEF r
<1>4. \A y \in DOMAIN store.locks \ {id} : store'.locks[y] = store.locks[y]
  BY <1>1, <1>3 DEF ReplacesBond
<1> QED
  BY <1>1, <1>2, <1>4, DisconnectDel

\* The whole stake is undelegated, and what is left of the lock is delegated again.
LEMMA PartUnbondDel ==
  ASSUME IsWhole(multiplier), IInv, Typed(delegation, multiplier), DelInv, IInv',
         NEW id \in DOMAIN store.locks, NEW v \in Vals, connection[id] = v,
         UNCHANGED <<connection, multiplier, settled>>,
         \A y \in DOMAIN store.locks \ {id} : store'.locks[y] = store.locks[y], store'.locks[id].amount \in Nat,
         delegation' = mintOsmoTokensAndDelegate(Burned(store, delegation, id, v), v,
                                                 GetSuperfluidOSMOTokens(store'.locks[id].amount))
  PROVE  DelInv'
<1> DEFINE a == store.locks[id].amount
           b == store'.locks[id].amount
           c == [connection EXCEPT ![id] = None]
           del == Burned(store, delegation, id, v)
           f == store.locks
           g == store'.locks
<1>1. id \in Ids /\ a \in Nat /\ b \in Nat /\ v # None /\ connection \in [Ids -> Vals \cup {None}]
  BY InvFacts, StoreLock, SuperfluidAssumption
<1>2. StakesOK(f, connection) /\ StakesOK(g, connection')
  BY StakeMoves, <1>1, ConnectedLock
<1>3. /\ \A y \in Ids \ {id} : c[y] = connection[y] /\ (connection[y] # None => g[y].amount = f[y].amount)
      /\ c[id] = None
  BY <1>1, ConnectedLock
<1>4. /\ del = forceUndelegateAndBurnOsmoTokens(delegation, v, GetSuperfluidOSMOTokens(a))
      /\ delegation' = mintOsmoTokensAndDelegate(del, v, GetSuperfluidOSMOTokens(b))
      /\ Typed(del, multiplier)
  BY InvFacts, BurnedTyped DEF Burned, Typed
<1>5. \A w \in Vals : /\ Stake(f, c, id, w) = 0
                      /\ Stake(f, connection, id, w) = (IF w = v THEN a ELSE 0)
                      /\ Stake(g, connection, id, w) = (IF w = v THEN b ELSE 0)
  BY <1>1, <1>3, SuperfluidAssumption DEF Stake
<1>6. StakesOK(f, c)
  BY <1>2, <1>3, <1>5, SuperfluidAssumption DEF StakesOK, Stake
<1>7. DelInv => (settled => DelegationOK(f, connection, delegation, multiplier))
  BY DEF DelInv
<1>8. connection' = connection
  OBVIOUS
<1> HIDE DEF a, b, c, del, f, g
<1>9. ASSUME NEW w \in Vals
      PROVE  /\ Staked(f, connection, w) = Staked(f, c, w) + (IF w = v THEN a ELSE 0)
             /\ Staked(g, connection, w) = Staked(f, c, w) + (IF w = v THEN b ELSE 0)
  <2> DEFINE x == Staked(f, connection, w)
             y == Staked(f, c, w)
             z == Staked(g, connection, w)
             p == IF w = v THEN a ELSE 0
             q == IF w = v THEN b ELSE 0
  <2>1. x \in Nat /\ y \in Nat /\ z \in Nat /\ p \in Nat /\ q \in Nat
    BY <1>1, <1>2, <1>6, <1>8, StakedNat
  <2>2. x = y + Stake(f, connection, id, w) - Stake(f, c, id, w)
    <3>1. \A i \in Ids \ {id} : connection[i] = c[i] /\ (c[i] # None => f[i].amount = f[i].amount)
      BY <1>3
    <3> QED
      BY <1>1, <1>2, <1>6, <3>1, StakedChange
  <2>3. z = y + Stake(g, connection, id, w) - Stake(f, c, id, w)
    <3>1. \A i \in Ids \ {id} : connection[i] = c[i] /\ (c[i] # None => g[i].amount = f[i].amount)
      BY <1>3
    <3> QED
      BY <1>1, <1>2, <1>6, <1>8, <3>1, StakedChange
  <2>4. Stake(f, connection, id, w) = p /\ Stake(g, connection, id, w) = q /\ Stake(f, c, id, w) = 0
    BY <1>5
  <2> HIDE DEF x, y, z, p, q
  <2>5. x = y + p /\ z = y + q
    BY <2>1, <2>2, <2>3, <2>4
  <2> QED
    BY <2>5 DEF x, y, z, p, q
<1>10. settled => DelegationOK(f, c, del, multiplier)
  BY <1>1, <1>4, <1>6, <1>7, <1>9, BurnMatches
<1>11. settled => DelegationOK(g, connection, delegation', multiplier)
  BY <1>1, <1>4, <1>6, <1>9, <1>10, MintMatches
<1> QED
  BY <1>11 DEF DelInv, DelegationOK, g

LEMMA UndelegateAndUnbondDel ==
  ASSUME IsWhole(multiplier), IInv, Typed(delegation, multiplier), DelInv, IInv',
         NEW id \in DOMAIN store.locks, NEW a \in 0 .. InitialShares, SuperfluidUndelegateAndUnbondLock(id, a)
  PROVE  DelInv'
<1> DEFINE v == connection[id]
           u == createSyntheticLockup(undelegateCommon(store, id, v), id, v, "unlocking")
           new == beginUnlock(u, id, a, now)
           r == UndelegateAndUnbondPart(new.st, new.id, id, v)
           l == store.locks[id]
<1>1. /\ a > 0 /\ v # None /\ BondOf(store, id, v) # {} /\ CanSplit(u, id, a) /\ connection[id] = v
      /\ UNCHANGED <<multiplier, settled>>
  BY DEF SuperfluidUndelegateAndUnbondLock, CanUndelegate, CanBeginForceUnlock
<1>2. \/ /\ a = l.amount /\ store' = new.st /\ connection' = [connection EXCEPT ![id] = None]
         /\ delegation' = Burned(store, delegation, id, v)
      \/ /\ a # l.amount /\ store' = r /\ connection' = connection
         /\ delegation' = mintOsmoTokensAndDelegate(Burned(store, delegation, id, v), v,
                                                    GetSuperfluidOSMOTokens(new.st.locks[id].amount))
  BY DEF SuperfluidUndelegateAndUnbondLock
<1>3. v \in Vals /\ id \in Ids
  BY <1>1, InvFacts, ConnectionIs
<1>4. ReplacesBond(store, u, id, v, now) /\ ~ IsUnlocking(l) /\ l.denom = Share /\ UnbondingTime <= l.duration
  BY <1>1, <1>3, InvFacts, UndelegateOK
<1> HIDE DEF v, u
<1>5. /\ StoreOK(u, {}, now) /\ u.locks = store.locks /\ \A x \in u.synths : x.id = id => IsUnlocking(x)
  <2>1. IsUnlocking(UnbondSynth(id, v, now))
    BY InvFacts, SynthFields
  <2> QED
    BY <1>4, <2>1 DEF ReplacesBond
<1>6. CASE a = l.amount
  <2>1. ~ IsPart(u, id, a) /\ id \in DOMAIN u.locks /\ ~ IsUnlocking(u.locks[id])
    BY <1>4, <1>5, <1>6 DEF IsPart
  <2>2. \A y \in DOMAIN u.locks : y # id => new.st.locks[y] = u.locks[y]
    BY <1>5, <2>1, InvFacts, BeginWholeOK
  <2> HIDE DEF new
  <2>3. \A y \in DOMAIN store.locks \ {id} : store'.locks[y] = store.locks[y]
    BY <1>2, <1>5, <1>6, <2>2
  <2> QED
    BY <1>1, <1>2, <1>3, <1>6, <2>3, DisconnectDel
<1>7. CASE a # l.amount
  <2>1. a \notin {0, l.amount} /\ a \in Nat
    BY <1>1, <1>7
  <2>2. r.locks = new.st.locks /\ PartLeft(r.locks, id, a) /\ UnbondsPart(r, id, new.id, v)
    BY <1>1, <1>3, <1>4, <2>1, UnbondPartOK
  <2> HIDE DEF new, r
  <2>3. /\ \A y \in DOMAIN store.locks \ {id} : store'.locks[y] = store.locks[y]
        /\ delegation' = mintOsmoTokensAndDelegate(Burned(store, delegation, id, v), v,
                                                   GetSuperfluidOSMOTokens(store'.locks[id].amount))
        /\ connection' = connection
    BY <1>2, <1>7, <2>2 DEF PartLeft
  <2>4. store'.locks[id].amount \in Nat
    <3>1. StoreOK(store', {}, now) /\ id \in DOMAIN store'.locks
      BY <1>2, <1>7, <2>2 DEF UnbondsPart
    <3> QED
      BY <3>1, StoreLock DEF StoreOK
  <2> QED
    BY <1>1, <1>3, <2>3, <2>4, PartUnbondDel
<1> QED
  BY <1>6, <1>7

\* The delegations are the worth of the locks.
WorthDelegated == DelegationOK(store.locks, connection, delegation, multiplier)

LEMMA RefreshDel ==
  ASSUME IInv', delegation' = [v \in Vals |-> GetExpectedDelegationAmount(store', v, multiplier')]
  PROVE  WorthDelegated' /\ DelInv'
<1>1. StoreOK(store', {}, now') /\ connection' \in [Ids -> Vals \cup {None}] /\ ConnectionsOK(store', connection')
  BY DEF IInv
<1>2. DelegationOK(store'.locks, connection', [v \in Vals |-> GetExpectedDelegationAmount(store', v, multiplier')],
                   multiplier')
  BY <1>1, RefreshMatches
<1>3. DelegationOK(store'.locks, connection', delegation', multiplier')
  BY <1>2
<1> QED
  BY <1>3 DEF WorthDelegated, DelInv, DelegationOK

\* The start of an epoch and a slash refresh the delegations.
LEMMA EpochStartDel ==
  ASSUME IInv, IInv', NEW m \in Multipliers, EpochStart(m)
  PROVE  WorthDelegated' /\ DelInv'
<1>1. ~ RefreshPanics
  BY DEF IInv, RefreshPanics
<1>2. delegation' = [v \in Vals |-> GetExpectedDelegationAmount(store', v, multiplier')]
  BY <1>1 DEF EpochStart, RefreshIntermediaryDelegationAmounts
<1> QED
  BY <1>2, RefreshDel

LEMMA SlashDel ==
  ASSUME IInv', NEW v \in Vals, SlashValidator(v)
  PROVE  WorthDelegated' /\ DelInv'
<1>1. delegation' = [x \in Vals |-> GetExpectedDelegationAmount(store', x, multiplier')]
  BY DEF SlashValidator, RefreshIntermediaryDelegationAmounts
<1> QED
  BY <1>1, RefreshDel

LEMMA AssetDel ==
  ASSUME IInv, IInv', \/ \E m \in Multipliers : EpochStart(m) \/ HandleSetSuperfluidAssetsProposal(m)
                      \/ EpochStartPoolFails
                      \/ HandleRemoveSuperfluidAssetsProposal
  PROVE  DelInv'
<1>1. ASSUME settled' = FALSE PROVE DelInv'
  BY <1>1 DEF DelInv
<1> QED
  BY <1>1, EpochStartDel DEF HandleSetSuperfluidAssetsProposal, EpochStartPoolFails, HandleRemoveSuperfluidAssetsProposal

LEMMA InitDel ==
  ASSUME Init
  PROVE  DelInv
<1> SUFFICES ASSUME IsWhole(multiplier) PROVE DelInv
  BY DEF DelInv
<1>1. ASSUME NEW v \in Vals PROVE delegation[v] = OSMOTokens(multiplier, Staked(store.locks, connection, v))
  <2> DEFINE F == Stakes(store.locks, connection, v)
  <2>1. \A x \in Ids : F[x] = 0
    BY SuperfluidAssumption DEF Init, Stakes, Stake
  <2> HIDE DEF F
  <2>2. SumFunctionOnSet(F, Ids) = 0
    BY <2>1, IdsFinite, SumZero
  <2>3. OSMOTokens(multiplier, 0) = 0
    <3>1. multiplier \in Multipliers \cup {ZeroDec}
      BY DEF Init
    <3> DEFINE k == OSMOTokens(multiplier, 0)
    <3>2. 0 + 0 = 0
      OBVIOUS
    <3>3. k \in Nat /\ OSMOTokens(multiplier, 0 + 0) = k + k
      BY <3>1, WholeWorths
    <3>4. k \in Nat /\ k = k + k
      BY <3>2, <3>3
    <3> HIDE DEF k
    <3>5. k = 0
      BY <3>4
    <3> QED
      BY <3>5 DEF k
  <2>4. delegation[v] = 0
    BY DEF Init
  <2> QED
    BY <2>2, <2>3, <2>4 DEF F, Staked
<1> QED
  BY <1>1 DEF DelInv, DelegationOK

LEMMA StutterDel ==
  ASSUME DelInv, UNCHANGED vars
  PROVE  DelInv'
BY DEF DelInv, DelegationOK, IsWhole, vars

\* What the invariant says of the locks that are delegated to a validator
LEMMA DelegationIs ==
  ASSUME IInv, WorthDelegated
  PROVE  DelegatesWorth
<1> SUFFICES ASSUME NEW v \in Vals
             PROVE  /\ delegation[v] = GetExpectedDelegationAmount(store, v, multiplier)
                    /\ delegation[v] = GetSuperfluidOSMOTokens(AmountOf({id \in Ids : connection[id] = v}))
  BY DEF DelegatesWorth
<1> DEFINE S == {id \in Ids : connection[id] = v}
           f == Stakes(store.locks, connection, v)
           g == [id \in S |-> store.locks[id].amount]
<1>1. delegation[v] = OSMOTokens(multiplier, Staked(store.locks, connection, v))
  BY DEF WorthDelegated, DelegationOK
<1>2. Staked(store.locks, connection, v) = GetTotalSyntheticAssetsLocked(store, stakingSyntheticDenom(v))
  BY InvFacts, StakedIsBonded
<1>3. StakesOK(store.locks, connection)
  BY InvFacts, StoreStakes
<1>4. /\ \A x \in Ids : f[x] \in Int
      /\ \A x \in S : g[x] = f[x]
      /\ \A x \in Ids \ S : f[x] = 0
      /\ S \in SUBSET Ids
  BY <1>3 DEF StakesOK, Stakes, Stake
<1> HIDE DEF S, f, g
<1>5. SumFunctionOnSet(g, S) = SumFunctionOnSet(f, Ids)
  BY <1>4, IdsFinite, SumOfPart
<1>6. AmountOf(S) = Staked(store.locks, connection, v)
  BY <1>5 DEF AmountOf, Staked, f, g
<1> QED
  BY <1>1, <1>2, <1>6 DEF GetExpectedDelegationAmount, GetSuperfluidOSMOTokens, S

LEMMA UnpoolDel ==
  ASSUME IsWhole(multiplier), IInv, Typed(delegation, multiplier), DelInv, IInv', NEW o \in Owners, UnPoolWhitelistedPool(o)
  PROVE  DelInv'
<1> DEFINE S == Unpooled(o)
           x == UnpoolAll(o, S)
           f == store.locks
           g == store'.locks
           c == Freed(S)
<1>1. /\ store.lastLockID + Cardinality(S) <= MaxLocks /\ store' = x.st /\ delegation' = x.del
      /\ connection' = c /\ UNCHANGED <<multiplier, settled>>
  BY DEF UnPoolWhitelistedPool, Unpooled, UnpoolAll, UnpoolStart, Freed
<1>2. Unpools(S, x.st, x.at) /\ Undelegates(S, x.del)
  BY <1>1, UnpoolAllOK
<1> HIDE DEF S, x
<1>3. settled => DelegationOK(f, c, delegation', multiplier)
  BY <1>1, <1>2 DEF Undelegates, DelInv
<1>4. \A i \in DOMAIN store.locks \ S : g[i] = f[i]
  BY <1>1, <1>2 DEF Unpools
<1>5. \A y \in Ids : c[y] # None => g[y].amount = f[y].amount
  BY <1>4, ConnectedLock DEF Freed
<1> HIDE DEF f, g, c
<1>6. \A v \in Vals : Staked(g, c, v) = Staked(f, c, v)
  BY <1>5, StakedSame
<1>7. settled => DelegationOK(g, c, delegation', multiplier)
  BY <1>3, <1>6 DEF DelegationOK
<1> QED
  BY <1>1, <1>7 DEF DelInv, DelegationOK, g

\* Only governance, the epoch and a slash touch the multiplier or what is settled.
LEMMA NextDel ==
  ASSUME IInv, Typed(delegation, multiplier), DelInv, IInv', Next
  PROVE  DelInv'
<1>1. CASE IsWhole(multiplier)
  BY <1>1, LockTokensDel, BeginUnlockingAllDel, UnpoolDel, LockAndDelegateDel, BeginUnlockingDel, ForceUnlockDel,
     UndelegateAndUnbondDel, ExtendDel, DelegateDel, UndelegateDel, UnbondDel, AssetDel, SlashDel, EndBlockDel DEF Next
<1>2. CASE ~ IsWhole(multiplier)
  <2>1. CASE multiplier' = multiplier /\ settled' = settled
    BY <1>2, <2>1 DEF DelInv, IsWhole
  <2>2. CASE \/ \E m \in Multipliers : EpochStart(m) \/ HandleSetSuperfluidAssetsProposal(m)
             \/ EpochStartPoolFails
             \/ HandleRemoveSuperfluidAssetsProposal
    BY <2>2, AssetDel
  <2>3. CASE \E v \in Vals : SlashValidator(v)
    BY <2>3, SlashDel
  <2> QED
    BY <2>1, <2>2, <2>3 DEF Next, LockTokens, BeginUnlockingAll, UnPoolWhitelistedPool, LockAndSuperfluidDelegate,
       BeginUnlocking, MsgForceUnlock, SuperfluidUndelegateAndUnbondLock, MsgExtendLockup, SuperfluidDelegate,
       SuperfluidUndelegate, SuperfluidUnbondLock, EndBlock
<1> QED
  BY <1>1, <1>2

----------------------------------------------------------------------------
(* The theorems                                                            *)

\* The module account holds exactly what is locked, the accumulation store and the
\* reference index describe exactly the locks, a lock is connected exactly while it
\* is bonded, undelegated stake can be slashed while it unbonds, and neither the refresh
\* nor EndBlock panics: for any owners, validators, durations and amounts.
THEOREM SuperfluidSafety ==
  Spec => [](LockedIsBackedAndCounted /\ IndexIsExact /\ ConnectedIffBonded /\ UnbondingIsSlashable /\ NeverHalts)
<1>1. IInv => LockedIsBackedAndCounted /\ IndexIsExact /\ ConnectedIffBonded /\ UnbondingIsSlashable /\ NeverHalts
  BY BackedAndCounted, Exact, Connected, Slashable DEF NeverHalts, IInv
<1> QED
  BY <1>1, Invariance, PTL

\* No step pays out a lock before its stake has been undelegated for the unbonding
\* time, whatever was split, slashed, force unlocked or exited from the pool before.
THEOREM UnbondingServed == Spec => UnbondingIsServed
<1>1. IInv /\ Typed(delegation, multiplier) /\ [Next]_vars =>
        [\A id \in Ids :
           /\ Exists(store, id) /\ ~Exists(store, id)'
           /\ store'.lastLockID = store.lastLockID
           /\ now' # now \/ store.locks[id].denom = Share
           => unbondedAt[id] = 0 \/ now >= unbondedAt[id] + UnbondingTime]_vars
  BY NextPays DEF PaidInTime
<1> QED
  BY <1>1, Invariance, PTL DEF Spec, UnbondingIsServed

\* With any multiplier and any risk factor, every start of an epoch and every slash leaves
\* an intermediary account with what the accumulation store expects of it and what the
\* locks connected to its validator are worth together, whatever was rounded before.
THEOREM RefreshSafety == Spec => RefreshSettles
<1>1. IInv /\ WorthDelegated => DelegatesWorth
  BY DelegationIs
<1>2. IInv /\ IInv' /\ [Next]_vars =>
        [(\E m \in Multipliers : EpochStart(m)) \/ (\E v \in Vals : SlashValidator(v)) => WorthDelegated']_vars
  BY EpochStartDel, SlashDel
<1>3. IInv' /\ WorthDelegated' => DelegatesWorth'
  BY <1>1, PTL
<1>4. IInv /\ IInv' /\ [Next]_vars =>
        [(\E m \in Multipliers : EpochStart(m)) \/ (\E v \in Vals : SlashValidator(v)) => DelegatesWorth']_vars
  BY <1>2, <1>3
<1> QED
  BY <1>4, Invariance, PTL DEF Spec, RefreshSettles

\* With a multiplier that needs no rounding an intermediary account has delegated exactly
\* the worth of the locks after every message too.
THEOREM WholeDelegationSafety == Spec => []DelegationMatchesLocks
<1>1. Init => DelInv
  BY InitDel
<1>2. IInv /\ Typed(delegation, multiplier) /\ DelInv /\ IInv' /\ [Next]_vars => DelInv'
  BY NextDel, StutterDel
<1>3. IInv /\ DelInv => DelegationMatchesLocks
  BY DelegationIs DEF DelInv, WorthDelegated, DelegationMatchesLocks
<1> QED
  BY <1>1, <1>2, <1>3, Invariance, PTL DEF Spec

=============================================================================
