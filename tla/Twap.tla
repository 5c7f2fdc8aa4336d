-------------------------------- MODULE Twap --------------------------------
(***************************************************************************)
(* x/twap: for every pair of assets of a pool, records of accumulated      *)
(* prices, from which the average price over any interval that is kept can *)
(* be computed.  Pools report in a block that they changed; at its end the *)
(* changed ones get a record with the price in effect from then on.  At    *)
(* the end of some epoch old records are pruned.                           *)
(*                                                                         *)
(* Queries are operators; the properties ask them at every moment for      *)
(* every interval.  A record is written to the index by time and to the    *)
(* index by pool together, and deleted from both together: one is kept.    *)
(* Block times increase strictly, so heights are left out.                 *)
(***************************************************************************)
EXTENDS Integers, FiniteSetsExt, Functions

CONSTANTS
  Pairs,         \* pairs of assets, each of one pool
  PoolOf,        \* the pool of each pair
  Quotes,        \* <<p0, p1>>: what a pool may answer for a pair, each may be NoPrice
  NoPrice,       \* RouteCalculateSpotPrice fails
  MaxSpotPrice,
  Log,           \* logarithm of every price but zero (osmomath)
  KeepPeriod,    \* RecordHistoryKeepPeriod
  MaxTime        \* bound on block time

ASSUME PoolAssumption == PoolOf \in [Pairs -> {PoolOf[p] : p \in Pairs}]

\* A price of zero is an error of the pools that report to this module (x/gamm
\* pool_service.go:51, x/concentrated-liquidity pool.go:165).
ASSUME QuotesAssumption ==
  Quotes \subseteq ((Nat \ {0}) \cup {NoPrice}) \X ((Nat \ {0}) \cup {NoPrice})

ASSUME PriceAssumption ==
  /\ MaxSpotPrice \in Nat \ {0}
  /\ \A x \in 1 .. MaxSpotPrice : Log[x] \in Int

ASSUME TimeAssumption == KeepPeriod \in Int /\ MaxTime \in Int

VARIABLES
  now,      \* block time
  inBlock,  \* between the beginning and the end of a block
  quote,    \* what the pool of each pair in existence answers now
  recent,   \* most recent record of each pair in existence
  records,  \* historical records of each pair in existence, by time
  changed,  \* transient store: pools that changed in this block
  past      \* history: what the pool answered at the end of the block in effect at each time

vars == <<now, inBlock, quote, recent, records, changed, past>>

NoTime == 0     \* time.Time{}; block times are positive

Pools == {PoolOf[p] : p \in Pairs}
PairsOf(pool) == {p \in Pairs : PoolOf[p] = pool}

NoEntries == [x \in {} |-> x]

Constantly(S, x) == [t \in S |-> x]

\* The entries of g are written over those of f.
Write(f, g) == [x \in DOMAIN f \cup DOMAIN g |-> IF x \in DOMAIN g THEN g[x] ELSE f[x]]

Init ==
  /\ now = 1
  /\ inBlock = TRUE
  /\ quote = NoEntries /\ recent = NoEntries /\ records = NoEntries /\ past = NoEntries
  /\ changed = {}

----------------------------------------------------------------------------
(* logic.go                                                                *)

SpotPrice(x) == IF x = NoPrice THEN 0 ELSE Min({x, MaxSpotPrice})
IsError(q) == \E i \in {1, 2} : q[i] = NoPrice \/ q[i] > MaxSpotPrice

getSpotPrices(q, previousErrorTime) ==
  [sp0 |-> SpotPrice(q[1]), sp1 |-> SpotPrice(q[2]),
   err |-> IF IsError(q) THEN now ELSE previousErrorTime]

newTwapRecord(q) ==
  LET sp == getSpotPrices(q, NoTime)
  IN [time |-> now, sp0 |-> sp.sp0, sp1 |-> sp.sp1, err |-> sp.err,
      acc0 |-> 0, acc1 |-> 0, geo |-> 0]

\* The prices of a record are set.
WithSpotPrices(r, sp) == [r EXCEPT !.sp0 = sp.sp0, !.sp1 = sp.sp1, !.err = sp.err]

\* The price of a record holds until newTime; there is no logarithm of zero.
recordWithUpdatedAccumulators(r, newTime) ==
  LET delta == newTime - r.time
      moved == [r EXCEPT !.time = newTime, !.acc0 = @ + r.sp0 * delta, !.acc1 = @ + r.sp1 * delta]
  IN IF delta = 0 THEN r
     ELSE IF r.sp0 = 0 THEN [moved EXCEPT !.err = newTime]
     ELSE [moved EXCEPT !.geo = @ + Log[r.sp0] * delta]

\* A record of this very block is one that the pool's creation has left.
CanUpdate(r) == r.time < now \/ (r.time = now /\ (r.acc0 = 0 \/ r.acc1 = 0))

\* Mutant: the price at the end of the block is taken for the time before it
updateRecordNewPrice(r, q) ==
  recordWithUpdatedAccumulators(WithSpotPrices(r, getSpotPrices(q, r.err)), now)

updateRecord(r, q) ==
  WithSpotPrices(recordWithUpdatedAccumulators(r, now), getSpotPrices(q, r.err))

----------------------------------------------------------------------------
(* store.go                                                                *)

\* StoreNewRecord for all pairs of new: both stores
StoreNewRecords(new) ==
  /\ recent' = Write(recent, new)
  /\ records' = Write(records, [p \in DOMAIN new |->
                   Write(IF p \in DOMAIN records THEN records[p] ELSE NoEntries,
                         Constantly({now}, new[p]))])

\* Mutant: nothing older than the threshold is kept
pruneRecordsBeforeTimeButNewestAll(rs, lastKeptTime) ==
  [t \in {u \in DOMAIN rs : u >= lastKeptTime} |-> rs[t]]

\* All records before the threshold go but the newest of them.
pruneRecordsBeforeTimeButNewest(rs, lastKeptTime) ==
  LET old == {t \in DOMAIN rs : t < lastKeptTime}
  IN [t \in {u \in DOMAIN rs : u \in old => u = Max(old)} |-> rs[t]]

----------------------------------------------------------------------------
(* Pools, through their hooks, and blocks                                  *)

\* A pool is created; its records exist before anything else happens to it.
afterCreatePool(pool, q) ==
  /\ inBlock
  /\ PairsOf(pool) \cap DOMAIN quote = {}
  /\ quote' = Write(quote, q)
  /\ StoreNewRecords([p \in PairsOf(pool) |-> newTwapRecord(q[p])])
  /\ changed' = changed \cup {pool}
  /\ past' = Write(past, [p \in PairsOf(pool) |-> Constantly({now}, q[p])])
  /\ UNCHANGED <<now, inBlock>>

\* A swap, a join or an exit; for a concentrated pool a swap, its first position
\* or the end of its last
trackChangedPool(pool, q) ==
  /\ inBlock
  /\ PairsOf(pool) \subseteq DOMAIN quote
  /\ quote' = Write(quote, q)
  /\ changed' = changed \cup {pool}
  /\ UNCHANGED <<now, inBlock, recent, records, past>>

updateRecords(pairs) ==
  StoreNewRecords([p \in pairs |-> updateRecord(recent[p], quote[p])])

\* An error skips the pool; its pairs have records of the same times, so that all
\* fail or none.  The transient store is empty after the commit.
EndBlock ==
  LET updated == {pool \in changed : \A p \in PairsOf(pool) : CanUpdate(recent[p])}
  IN /\ inBlock
     /\ updateRecords({p \in Pairs : PoolOf[p] \in updated})
     /\ changed' = {}
     /\ inBlock' = FALSE
     /\ past' = [p \in DOMAIN past |-> Write(past[p], Constantly({now}, quote[p]))]
     /\ UNCHANGED <<now, quote>>

\* The hook of x/epochs prunes in the begin blocker, when the prune epoch ends.
BeginBlock(t, pruneEpochEnds) ==
  /\ ~inBlock
  /\ now' = t
  /\ inBlock' = TRUE
  /\ records' = IF pruneEpochEnds
                THEN [p \in DOMAIN records |-> pruneRecordsBeforeTimeButNewest(records[p], t - KeepPeriod)]
                ELSE records
  /\ past' = [p \in DOMAIN past |-> Write(past[p], Constantly(now + 1 .. t, past[p][now]))]
  /\ UNCHANGED <<quote, recent, changed>>

\* types/genesis.go
validate(r) ==
  IF r.err = r.time THEN r.sp0 = 0 \/ r.sp1 = 0 ELSE r.sp0 > 0 /\ r.sp1 > 0

\* The chain is exported between blocks and started again: InitGenesis panics over
\* an invalid record, and the last record that it stores is the most recent one.
Restart ==
  /\ ~inBlock
  /\ \A p \in DOMAIN records : \A t \in DOMAIN records[p] : validate(records[p][t])
  /\ recent' = [p \in DOMAIN records |-> records[p][Max(DOMAIN records[p])]]
  /\ changed' = {}
  /\ UNCHANGED <<now, inBlock, quote, records, past>>

Next ==
  \/ \E pool \in Pools : \E q \in [PairsOf(pool) -> Quotes] :
       afterCreatePool(pool, q) \/ trackChangedPool(pool, q)
  \/ EndBlock
  \/ \E t \in now + 1 .. MaxTime, b \in BOOLEAN : BeginBlock(t, b)
  \/ Restart

Spec == Init /\ [][Next]_vars

----------------------------------------------------------------------------
(* api.go: queries                                                         *)

\* getRecordAtOrBeforeTime finds a record; otherwise the time is too old.
HasRecordAtOrBefore(p, t) == \E u \in DOMAIN records[p] : u <= t

\* Mutant: the error of a record ends with it
getInterpolatedRecordForgets(p, t) ==
  recordWithUpdatedAccumulators(records[p][Max({u \in DOMAIN records[p] : u <= t})], t)

\* An error holds as long as the price of its record.
getInterpolatedRecord(p, t) ==
  LET r == records[p][Max({u \in DOMAIN records[p] : u <= t})]
  IN recordWithUpdatedAccumulators([r EXCEPT !.err = IF @ = r.time THEN t ELSE @], t)

getMostRecentRecord(p) == recordWithUpdatedAccumulators(recent[p], now)

EndRecord(p, t) == IF t = now THEN getMostRecentRecord(p) ELSE getInterpolatedRecord(p, t)

CanGetTwap(p, start, end) ==
  start <= end /\ end <= now /\ HasRecordAtOrBefore(p, start)

\* The geometric strategy: <<x>> is the power of two whose exponent is x divided by the
\* duration, but a difference of zero is answered with the number zero, <<>>.
geometricComputeTwap(s, e) ==
  LET accumDiff == e.geo - s.geo IN IF accumDiff = 0 THEN <<>> ELSE <<accumDiff>>

\* The last price over an empty interval, otherwise what the strategies compute: for
\* the arithmetic ones the sums of prices, whose division by the duration is left out.
computeTwap(s, e) ==
  [last |-> IF s.time = e.time THEN <<e.sp0, e.sp1>> ELSE <<>>,
   sum0 |-> e.acc0 - s.acc0, sum1 |-> e.acc1 - s.acc1, geometric |-> geometricComputeTwap(s, e),
   err |-> e.err >= s.time \/ s.err = s.time]

getTwap(p, start, end) == computeTwap(getInterpolatedRecord(p, start), EndRecord(p, end))

----------------------------------------------------------------------------
(* Properties                                                              *)

\* The duration times the logarithm of the geometric mean over an interval
LogSum(p, start, end) ==
  SumFunction([t \in start .. (end - 1) |-> Log[SpotPrice(past[p][t][1])]])

\* twap is the average over the interval, and for an empty one the price then. The
\* geometric answer is the geometric mean, unless that mean is one: then it is zero.
IsAverage(twap, p, start, end) ==
  LET spot0 == [t \in start .. end |-> SpotPrice(past[p][t][1])]
      spot1 == [t \in start .. end |-> SpotPrice(past[p][t][2])]
      interval == start .. (end - 1)
  IN /\ start = end => twap.last = <<spot0[end], spot1[end]>>
     /\ twap.sum0 = SumFunctionOnSet(spot0, interval)
     /\ twap.sum1 = SumFunctionOnSet(spot1, interval)
     /\ start < end /\ ~twap.err =>
          IF LogSum(p, start, end) = 0 THEN twap.geometric = <<>>
          ELSE twap.geometric = <<LogSum(p, start, end)>>

\* A query over any interval, at any moment of a block, gives the arithmetic average
\* of the prices in effect at the ends of blocks (getTwap), for an empty interval the
\* price then, and where no error is reported the geometric average, but zero for one
\* (strategy.go:46): whatever was pruned, interpolated, or exported and imported.
TwapIsAverage ==
  \A p \in DOMAIN quote : \A start, end \in 1 .. now :
    CanGetTwap(p, start, end) => IsAverage(getTwap(p, start, end), p, start, end)

\* A query reports an error if the price failed or was capped at any time of its
\* interval, even where the error began before it and no record falls into it.
ErrorIsReported ==
  \A p \in DOMAIN quote : \A start, end \in 1 .. now :
    CanGetTwap(p, start, end) /\ (\E t \in start .. end : IsError(past[p][t]))
      => getTwap(p, start, end).err

\* Every time of the keep period since the pool's creation can be asked for, however
\* rarely the pool changes and whenever the records are pruned.
KeptIsQueryable ==
  \A p \in DOMAIN quote : \A start \in 1 .. now :
    start \in DOMAIN past[p] /\ start >= now - KeepPeriod => CanGetTwap(p, start, now)

=============================================================================
