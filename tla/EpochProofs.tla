---------------------------- MODULE EpochProofs ----------------------------
(***************************************************************************)
(* Two modules that live by the block and the epoch.                       *)
(*                                                                         *)
(* x/twap answers every query with the average, reports every error and    *)
(* keeps what it must, for any prices, pools and times.  The invariant is  *)
(* about one pair at a time: its records and the history of its price      *)
(* (HistoryOK).  Between two records the accumulators grow by the sum of   *)
(* the history between them, and the price of a record holds until the     *)
(* next one.  Both survive the deletion of the oldest records.             *)
(*                                                                         *)
(* The hooks of x/epochs keep the coins of x/incentives and of x/mint      *)
(* backed and accounted, for any gauges, locks, weights and epochs.  The   *)
(* invariant (StoreOK) holds between any two hooks of a block; inside a    *)
(* hook, a loop over gauges, locks, payments or records keeps a relation   *)
(* between the store it began with and the store so far (DistOK, Added,    *)
(* Paid, Allocated), which FoldInvariant carries to its end.               *)
(***************************************************************************)
EXTENDS Twap, EpochHooks, Sums

----------------------------------------------------------------------------
(* x/twap                                                                  *)

Record == [time : Int, sp0 : 0 .. MaxSpotPrice, sp1 : 0 .. MaxSpotPrice, err : Int,
           acc0 : Int, acc1 : Int, geo : Int]

\* The accumulators of a record, what they grow by while the record is the last, and
\* what they have to grow by while a pool answers q
Acc(r, k) == IF k = 1 THEN r.acc0 ELSE IF k = 2 THEN r.acc1 ELSE r.geo
RateOf(r, k) ==
  IF k = 1 THEN r.sp0 ELSE IF k = 2 THEN r.sp1 ELSE IF r.sp0 = 0 THEN 0 ELSE Log[r.sp0]
Rate(q, k) ==
  IF k = 1 THEN SpotPrice(q[1]) ELSE IF k = 2 THEN SpotPrice(q[2])
  ELSE IF SpotPrice(q[1]) = 0 THEN 0 ELSE Log[SpotPrice(q[1])]

Rates(h, k) == [u \in DOMAIN h |-> Rate(h[u], k)]
Total(h, k, a, b) == SumFunctionOnSet(Rates(h, k), a .. (b - 1))

\* The prices of r are those of q, and an error of q is one of r.
InEffect(r, q) ==
  /\ r.sp0 = SpotPrice(q[1]) /\ r.sp1 = SpotPrice(q[2])
  /\ IsError(q) => r.err = r.time

\* t is the time of the record that a query for u finds.
IsLatest(recs, t, u) ==
  t \in DOMAIN recs /\ t <= u /\ \A v \in DOMAIN recs : v <= u => v <= t

IsHistory(n, h) == \E c \in 1 .. n : h \in [c .. n -> Quotes]

RecordsOK(recs, h) ==
  /\ DOMAIN recs \subseteq DOMAIN h
  /\ \A t \in DOMAIN recs : recs[t] \in Record /\ recs[t].time = t /\ recs[t].err <= t

LastOK(last, recs) ==
  last.time \in DOMAIN recs /\ last = recs[last.time] /\ \A t \in DOMAIN recs : t <= last.time

Covers(recs, h) ==
  \A u \in DOMAIN h : \A t \in DOMAIN recs : IsLatest(recs, t, u) => InEffect(recs[t], h[u])

ErrorsGrow(recs) == \A t, u \in DOMAIN recs : t <= u => recs[t].err <= recs[u].err

Accumulates(recs, h) ==
  \A k \in 1 .. 3 : \A t, u \in DOMAIN recs :
    t <= u => Acc(recs[u], k) = Acc(recs[t], k) + Total(h, k, t, u)

\* A record of this block is one of a pool created in it.
NewIsZero(n, open, recs) == open /\ n \in DOMAIN recs => recs[n].acc0 = 0

KeepsPeriod(n, recs, h) ==
  \A s \in DOMAIN h : s >= n - KeepPeriod => \E m \in DOMAIN recs : m <= s

HistoryOK(n, open, last, recs, h) ==
  /\ n \in Int
  /\ IsHistory(n, h)
  /\ RecordsOK(recs, h)
  /\ LastOK(last, recs)
  /\ Covers(recs, h)
  /\ ErrorsGrow(recs)
  /\ Accumulates(recs, h)
  /\ NewIsZero(n, open, recs)
  /\ KeepsPeriod(n, recs, h)

----------------------------------------------------------------------------
(* Prices and records                                                      *)

\* The largest of integers with an upper bound
LEMMA MaxOfBounded ==
  ASSUME NEW S, S \subseteq Int, S # {}, NEW b \in Int, \A x \in S : x <= b
  PROVE  Max(S) \in S /\ \A x \in S : x <= Max(S)
<1> DEFINE T == {b - x : x \in S}
<1>1. PICK m \in T : \A k \in T : m <= k
  <2>0. \A x \in S : x \in Int /\ x <= b /\ b - x \in Nat
    OBVIOUS
  <2>1. T \subseteq Nat /\ T # {}
    BY <2>0
  <2> HIDE DEF T
  <2> QED
    BY <2>1, LeastNatural
<1>2. PICK x \in S : m = b - x
  BY <1>1
<1>3. \A y \in S : b - y \in T
  OBVIOUS
<1>4. \A y \in S : x >= y
  <2> SUFFICES ASSUME NEW y \in S PROVE x >= y
    OBVIOUS
  <2>1. b - x <= b - y
    BY <1>1, <1>2, <1>3
  <2>2. x \in Int /\ y \in Int
    OBVIOUS
  <2> QED
    BY <2>1, <2>2
<1>5. \E z \in S : \A y \in S : z >= y
  BY <1>4
<1>6. Max(S) \in S /\ \A y \in S : Max(S) >= y
  BY <1>5 DEF Max
<1>7. \A y \in S : y \in Int
  OBVIOUS
<1> QED
  BY <1>6, <1>7

\* A price is within its bounds, and zero only in an error.
LEMMA SpotPriceOK ==
  ASSUME NEW q \in Quotes
  PROVE  /\ SpotPrice(q[1]) \in 0 .. MaxSpotPrice /\ SpotPrice(q[2]) \in 0 .. MaxSpotPrice
         /\ SpotPrice(q[1]) = 0 => IsError(q)
         /\ \A k \in 1 .. 3 : Rate(q, k) \in Int
<1>1. ASSUME NEW x \in Nat \ {0}
      PROVE  Min({x, MaxSpotPrice}) \in 1 .. MaxSpotPrice
  <2>1. \E y \in {x, MaxSpotPrice} : \A z \in {x, MaxSpotPrice} : y =< z
    BY PriceAssumption
  <2>2. Min({x, MaxSpotPrice}) \in {x, MaxSpotPrice} /\ Min({x, MaxSpotPrice}) =< MaxSpotPrice
    BY <2>1 DEF Min
  <2> QED
    BY <2>2, PriceAssumption
<1>2. /\ q[1] \in (Nat \ {0}) \cup {NoPrice} /\ q[2] \in (Nat \ {0}) \cup {NoPrice}
  BY QuotesAssumption
<1>3. /\ SpotPrice(q[1]) \in 0 .. MaxSpotPrice /\ SpotPrice(q[2]) \in 0 .. MaxSpotPrice
      /\ SpotPrice(q[1]) = 0 => q[1] = NoPrice
  BY <1>1, <1>2, PriceAssumption DEF SpotPrice
<1>4. SpotPrice(q[1]) = 0 => IsError(q)
  BY <1>3 DEF IsError
<1>5. \A k \in 1 .. 3 : Rate(q, k) \in Int
  BY <1>3, PriceAssumption DEF Rate
<1> QED
  BY <1>3, <1>4, <1>5

\* A record goes on as its prices say; an error time can only become the new time.
GoesOn(u, r, t) ==
  /\ u \in Record /\ u.time = t /\ u.sp0 = r.sp0 /\ u.sp1 = r.sp1
  /\ u.err = r.err \/ u.err = t
  /\ \A k \in 1 .. 3 : Acc(u, k) = Acc(r, k) + RateOf(r, k) * (t - r.time)

\* recordWithUpdatedAccumulators moves a record on.
LEMMA UpdatedAccumulators ==
  ASSUME NEW r \in Record, NEW t \in Int, r.time <= t
  PROVE  GoesOn(recordWithUpdatedAccumulators(r, t), r, t)
<1> DEFINE delta == t - r.time
           moved == [r EXCEPT !.time = t, !.acc0 = @ + r.sp0 * delta, !.acc1 = @ + r.sp1 * delta]
           u == recordWithUpdatedAccumulators(r, t)
<1>0. /\ r.time \in Int /\ r.err \in Int /\ r.acc0 \in Int /\ r.acc1 \in Int /\ r.geo \in Int
      /\ r.sp0 \in 0 .. MaxSpotPrice /\ r.sp1 \in 0 .. MaxSpotPrice /\ delta \in Int
      /\ r.sp0 \in Int /\ r.sp1 \in Int
  BY PriceAssumption DEF Record
<1>1. CASE delta = 0
  <2>1. u = r /\ r.time = t
    BY <1>0, <1>1 DEF recordWithUpdatedAccumulators
  <2>2. \A k \in 1 .. 3 : RateOf(r, k) \in Int /\ Acc(r, k) \in Int
    BY <1>0, PriceAssumption DEF RateOf, Acc
  <2>3. \A k \in 1 .. 3 : Acc(r, k) = Acc(r, k) + RateOf(r, k) * (t - r.time)
    BY <1>1, <2>2
  <2> QED
    BY <2>1, <2>3 DEF GoesOn
<1>2. r.sp0 * delta \in Int /\ r.sp1 * delta \in Int
  BY <1>0
<1> DEFINE p0 == r.sp0 * delta
           p1 == r.sp1 * delta
<1>3. /\ moved \in Record /\ moved.time = t /\ moved.sp0 = r.sp0 /\ moved.sp1 = r.sp1
      /\ moved.err = r.err /\ moved.geo = r.geo
      /\ moved.acc0 = r.acc0 + p0 /\ moved.acc1 = r.acc1 + p1
  <2>1. moved = [r EXCEPT !.time = t, !.acc0 = @ + p0, !.acc1 = @ + p1] /\ p0 \in Int /\ p1 \in Int
    BY <1>2
  <2> HIDE DEF p0, p1, moved
  <2>2. /\ moved.time = t /\ moved.sp0 = r.sp0 /\ moved.sp1 = r.sp1
        /\ moved.err = r.err /\ moved.geo = r.geo
        /\ moved.acc0 = r.acc0 + p0 /\ moved.acc1 = r.acc1 + p1
    BY <2>1 DEF Record
  <2>3. r.acc0 + p0 \in Int /\ r.acc1 + p1 \in Int
    BY <1>0, <2>1
  <2>4. moved \in Record
    BY <1>0, <2>1, <2>3 DEF Record
  <2> QED
    BY <2>2, <2>4
<1> HIDE DEF moved
<1>4. CASE delta # 0 /\ r.sp0 = 0
  <2>1. u = [moved EXCEPT !.err = t]
    BY <1>4 DEF recordWithUpdatedAccumulators, moved
  <2>2. /\ u \in Record /\ u.time = t /\ u.sp0 = r.sp0 /\ u.sp1 = r.sp1 /\ u.err = t
        /\ u.acc0 = r.acc0 + p0 /\ u.acc1 = r.acc1 + p1 /\ u.geo = r.geo
    <3> HIDE DEF u
    <3> QED
      BY <1>3, <2>1 DEF Record
  <2> HIDE DEF u
  <2>3. Acc(u, 3) = Acc(r, 3) + RateOf(r, 3) * (t - r.time)
    BY <1>0, <1>4, <2>2 DEF Acc, RateOf
  <2>4. Acc(u, 1) = Acc(r, 1) + RateOf(r, 1) * (t - r.time) /\ Acc(u, 2) = Acc(r, 2) + RateOf(r, 2) * (t - r.time)
    BY <2>2 DEF Acc, RateOf
  <2> QED
    BY <2>2, <2>3, <2>4 DEF GoesOn, u
<1>5. CASE delta # 0 /\ r.sp0 # 0
  <2> DEFINE g == Log[r.sp0] * delta
  <2>0. g \in Int
    BY <1>0, <1>5, PriceAssumption
  <2>1. u = [moved EXCEPT !.geo = @ + g]
    BY <1>5 DEF recordWithUpdatedAccumulators, moved
  <2>2. /\ u \in Record /\ u.time = t /\ u.sp0 = r.sp0 /\ u.sp1 = r.sp1 /\ u.err = r.err
        /\ u.acc0 = r.acc0 + p0 /\ u.acc1 = r.acc1 + p1 /\ u.geo = r.geo + g
    <3> HIDE DEF u, g
    <3> QED
      BY <1>0, <1>3, <2>0, <2>1 DEF Record
  <2> HIDE DEF u
  <2>3. Acc(u, 3) = Acc(r, 3) + RateOf(r, 3) * (t - r.time)
    BY <1>5, <2>2 DEF Acc, RateOf
  <2>4. Acc(u, 1) = Acc(r, 1) + RateOf(r, 1) * (t - r.time) /\ Acc(u, 2) = Acc(r, 2) + RateOf(r, 2) * (t - r.time)
    BY <2>2 DEF Acc, RateOf
  <2> QED
    BY <2>2, <2>3, <2>4 DEF GoesOn, u
<1> QED
  BY <1>1, <1>4, <1>5

\* r is what StoreNewRecord gets for a new pool, or for a changed one whose last
\* record is old.
IsNew(r, q, n) ==
  /\ r \in Record /\ r.time = n /\ r.err <= n /\ InEffect(r, q)
  /\ \A k \in 1 .. 3 : Acc(r, k) = 0
IsUpdate(r, old, q, n) ==
  /\ r \in Record /\ r.time = n /\ r.err <= n /\ InEffect(r, q)
  /\ old.err <= r.err
  /\ \A k \in 1 .. 3 : Acc(r, k) = Acc(old, k) + RateOf(old, k) * (n - old.time)

\* newTwapRecord
LEMMA NewRecord ==
  ASSUME NEW q \in Quotes, now \in Nat
  PROVE  IsNew(newTwapRecord(q), q, now)
<1> DEFINE r == newTwapRecord(q)
<1>1. /\ SpotPrice(q[1]) \in 0 .. MaxSpotPrice /\ SpotPrice(q[2]) \in 0 .. MaxSpotPrice
  BY SpotPriceOK
<1>2. /\ r.time = now /\ r.sp0 = SpotPrice(q[1]) /\ r.sp1 = SpotPrice(q[2])
      /\ r.err = (IF IsError(q) THEN now ELSE 0)
      /\ r.acc0 = 0 /\ r.acc1 = 0 /\ r.geo = 0
  BY DEF newTwapRecord, getSpotPrices, NoTime
<1>3. r = [time |-> r.time, sp0 |-> r.sp0, sp1 |-> r.sp1, err |-> r.err,
           acc0 |-> r.acc0, acc1 |-> r.acc1, geo |-> r.geo]
  BY DEF newTwapRecord
<1> HIDE DEF r
<1>4. r.err \in Int /\ r.err <= now /\ InEffect(r, q)
  BY <1>2 DEF InEffect
<1>5. r \in Record
  BY <1>1, <1>2, <1>3, <1>4 DEF Record
<1>6. \A k \in 1 .. 3 : Acc(r, k) = 0
  BY <1>2 DEF Acc
<1> QED
  BY <1>2, <1>4, <1>5, <1>6 DEF IsNew, r

\* updateRecord
LEMMA UpdatedRecord ==
  ASSUME NEW q \in Quotes, NEW old \in Record, now \in Int, old.time <= now, old.err <= old.time
  PROVE  IsUpdate(updateRecord(old, q), old, q, now)
<1> DEFINE u == recordWithUpdatedAccumulators(old, now)
           sp == getSpotPrices(q, old.err)
           r == updateRecord(old, q)
<1>1. /\ SpotPrice(q[1]) \in 0 .. MaxSpotPrice /\ SpotPrice(q[2]) \in 0 .. MaxSpotPrice
  BY SpotPriceOK
<1>2. GoesOn(u, old, now)
  BY UpdatedAccumulators
<1>3. /\ sp.sp0 = SpotPrice(q[1]) /\ sp.sp1 = SpotPrice(q[2])
      /\ sp.err = (IF IsError(q) THEN now ELSE old.err)
  BY DEF getSpotPrices
<1>4. r = [u EXCEPT !.sp0 = sp.sp0, !.sp1 = sp.sp1, !.err = sp.err]
  BY DEF updateRecord, WithSpotPrices
<1>5. u \in Record /\ u.time = now
  BY <1>2 DEF GoesOn
<1> HIDE DEF u, sp, r
<1>6. /\ old.err \in Int /\ old.time \in Int
  BY DEF Record
<1>7. sp.err \in Int /\ sp.err <= now /\ old.err <= sp.err
  BY <1>3, <1>6
<1>8. /\ r.time = now /\ r.sp0 = sp.sp0 /\ r.sp1 = sp.sp1 /\ r.err = sp.err
      /\ r.acc0 = u.acc0 /\ r.acc1 = u.acc1 /\ r.geo = u.geo
  BY <1>4, <1>5 DEF Record
<1>9. r \in Record
  BY <1>1, <1>3, <1>4, <1>5, <1>7 DEF Record
<1>10. InEffect(r, q)
  BY <1>3, <1>8 DEF InEffect
<1>11. \A k \in 1 .. 3 : Acc(r, k) = Acc(u, k)
  BY <1>8 DEF Acc
<1>12. \A k \in 1 .. 3 : Acc(u, k) = Acc(old, k) + RateOf(old, k) * (now - old.time)
  BY <1>2 DEF GoesOn
<1> QED
  BY <1>7, <1>8, <1>9, <1>10, <1>11, <1>12 DEF IsUpdate, r

----------------------------------------------------------------------------
(* Sums over the history                                                   *)

\* The sum is an integer and can be split.
LEMMA TotalSplit ==
  ASSUME NEW h, NEW c \in Int, NEW n \in Int, h \in [c .. n -> Quotes], NEW k \in 1 .. 3,
         NEW a \in Int, NEW b \in Int, NEW d \in Int, c <= a, a <= b, b <= d, d <= n + 1
  PROVE  /\ Total(h, k, a, d) = Total(h, k, a, b) + Total(h, k, b, d)
         /\ Total(h, k, a, b) \in Int /\ Total(h, k, b, d) \in Int
<1> DEFINE f == Rates(h, k)
<1>1. \A x \in c .. n : f[x] \in Int
  <2> SUFFICES ASSUME NEW x \in c .. n PROVE f[x] \in Int
    OBVIOUS
  <2>1. f[x] = Rate(h[x], k) /\ h[x] \in Quotes
    BY DEF Rates
  <2> QED
    BY <2>1, SpotPriceOK
<1> HIDE DEF f
<1>2. /\ \A x \in a .. (d - 1) : f[x] \in Int
      /\ \A x \in a .. (b - 1) : f[x] \in Int
      /\ \A x \in b .. (d - 1) : f[x] \in Int
  BY <1>1
<1>3. IsFiniteSet(a .. (b - 1)) /\ IsFiniteSet(b .. (d - 1))
  BY FS_Interval
<1>4. SumFunctionOnSet(f, a .. (b - 1)) \in Int /\ SumFunctionOnSet(f, b .. (d - 1)) \in Int
  BY <1>2, <1>3, SumInt
<1>5. d - 1 \in Int /\ b <= (d - 1) + 1
  OBVIOUS
<1>6. SumFunctionOnSet(f, a .. (d - 1))
        = SumFunctionOnSet(f, a .. (b - 1)) + SumFunctionOnSet(f, b .. (d - 1))
  BY <1>2, <1>5, SumSplit
<1> QED
  BY <1>4, <1>6 DEF Total, f

\* The sum of a price that holds
LEMMA TotalConstant ==
  ASSUME NEW h, NEW k \in 1 .. 3, NEW a \in Int, NEW b \in Int, a <= b, NEW v \in Int,
         \A x \in a .. (b - 1) : x \in DOMAIN h /\ Rate(h[x], k) = v
  PROVE  Total(h, k, a, b) = v * (b - a)
<1> DEFINE f == Rates(h, k)
<1>1. \A x \in a .. (b - 1) : f[x] = v
  BY DEF Rates
<1> HIDE DEF f
<1>2. b - 1 \in Int /\ a <= (b - 1) + 1 /\ (b - 1) + 1 - a = b - a
  OBVIOUS
<1>3. SumFunctionOnSet(f, a .. (b - 1)) = v * ((b - 1) + 1 - a)
  BY <1>1, <1>2, SumConstant
<1> QED
  BY <1>2, <1>3 DEF Total, f

\* Only the times summed over count.
LEMMA TotalEqual ==
  ASSUME NEW h, NEW g, NEW k \in 1 .. 3, NEW a \in Int, NEW b \in Int,
         \A x \in a .. (b - 1) : x \in DOMAIN h /\ x \in DOMAIN g /\ h[x] = g[x]
  PROVE  Total(h, k, a, b) = Total(g, k, a, b)
<1> DEFINE f == Rates(h, k)
           e == Rates(g, k)
           S == a .. (b - 1)
<1>1. \A x \in S : f[x] = e[x]
  BY DEF Rates
<1>2. IsFiniteSet(S)
  BY FS_Interval
<1> HIDE DEF f, e, S
<1>3. SumFunctionOnSet(f, S) = SumFunctionOnSet(e, S)
  BY <1>1, <1>2, SumEqual
<1> QED
  BY <1>3 DEF Total, f, e, S

\* What a query finds for time x, moved on to x: the accumulators have grown since any
\* earlier record by the sum in between.
LEMMA Interpolation ==
  ASSUME NEW n \in Int, NEW h, IsHistory(n, h), NEW recs, RecordsOK(recs, h), Covers(recs, h),
         Accumulates(recs, h), NEW k \in 1 .. 3, NEW x \in Int, x <= n,
         NEW t, IsLatest(recs, t, x), NEW b \in DOMAIN recs, b <= t
  PROVE  /\ Acc(recs[t], k) + RateOf(recs[t], k) * (x - t) = Acc(recs[b], k) + Total(h, k, b, x)
         /\ Total(h, k, b, x) \in Int
<1>1. PICK c \in 1 .. n : h \in [c .. n -> Quotes]
  BY DEF IsHistory
<1>2. /\ t \in DOMAIN recs /\ DOMAIN recs \subseteq c .. n /\ t \in Int /\ b \in Int /\ c \in Int
      /\ c <= b /\ t <= x
  BY <1>1 DEF RecordsOK, IsLatest
<1>3. RateOf(recs[t], k) \in Int /\ Acc(recs[t], k) \in Int /\ Acc(recs[b], k) \in Int
  BY <1>2, PriceAssumption DEF RecordsOK, Record, RateOf, Acc
<1>4. \A y \in t .. (x - 1) : y \in DOMAIN h /\ Rate(h[y], k) = RateOf(recs[t], k)
  <2> SUFFICES ASSUME NEW y \in t .. (x - 1)
               PROVE  y \in DOMAIN h /\ Rate(h[y], k) = RateOf(recs[t], k)
    OBVIOUS
  <2>1. y \in DOMAIN h
    BY <1>1, <1>2
  <2>2. IsLatest(recs, t, y)
    BY <1>2 DEF IsLatest
  <2>3. InEffect(recs[t], h[y])
    BY <1>2, <2>1, <2>2 DEF Covers
  <2> QED
    BY <2>1, <2>3 DEF InEffect, Rate, RateOf
<1>5. Total(h, k, t, x) = RateOf(recs[t], k) * (x - t)
  BY <1>2, <1>3, <1>4, TotalConstant
<1>6. Acc(recs[t], k) = Acc(recs[b], k) + Total(h, k, b, t)
  BY <1>2 DEF Accumulates
<1>7. /\ Total(h, k, b, x) = Total(h, k, b, t) + Total(h, k, t, x)
      /\ Total(h, k, b, t) \in Int /\ Total(h, k, t, x) \in Int
  <2>1. x <= n + 1
    OBVIOUS
  <2> QED
    BY <1>1, <1>2, <2>1, TotalSplit
<1> HIDE DEF Total
<1> QED
  BY <1>3, <1>5, <1>6, <1>7

----------------------------------------------------------------------------
(* What happens to the records of a pair                                   *)

\* The times of a history are positive integers.
LEMMA HistoryTimes ==
  ASSUME NEW n \in Int, NEW h, IsHistory(n, h)
  PROVE  /\ n \in DOMAIN h /\ n \in Nat /\ DOMAIN h \subseteq Int
         /\ \A u \in DOMAIN h : u <= n /\ u \in Int /\ h[u] \in Quotes
         /\ \A u, v \in DOMAIN h : \A x \in u .. v : x \in DOMAIN h
BY DEF IsHistory

\* A pool is created.
LEMMA CreateOK ==
  ASSUME NEW n \in Nat \ {0}, NEW q \in Quotes, NEW r, IsNew(r, q, n)
  PROVE  HistoryOK(n, TRUE, r, Write(NoEntries, Constantly({n}, r)), Constantly({n}, q))
<1> DEFINE recs == Write(NoEntries, Constantly({n}, r))
           h == Constantly({n}, q)
<1>1. DOMAIN recs = {n} /\ recs[n] = r /\ DOMAIN h = {n} /\ h[n] = q
  BY DEF Write, NoEntries, Constantly
<1>2. IsHistory(n, h)
  <2>1. n .. n = {n} /\ n \in 1 .. n
    OBVIOUS
  <2> QED
    BY <2>1 DEF IsHistory, Constantly
<1> HIDE DEF recs, h
<1>3. /\ r \in Record /\ r.time = n /\ r.err <= n /\ InEffect(r, q) /\ r.acc0 = 0 /\ r.err \in Int
      /\ \A k \in 1 .. 3 : Acc(r, k) = 0
  BY DEF IsNew, Record, Acc
<1>4. RecordsOK(recs, h) /\ LastOK(r, recs) /\ Covers(recs, h) /\ ErrorsGrow(recs)
  BY <1>1, <1>3 DEF RecordsOK, LastOK, Covers, ErrorsGrow
<1>5. Accumulates(recs, h)
  <2> SUFFICES ASSUME NEW k \in 1 .. 3
               PROVE  Acc(r, k) = Acc(r, k) + Total(h, k, n, n)
    BY <1>1 DEF Accumulates
  <2>1. n .. (n - 1) = {}
    OBVIOUS
  <2>2. Total(h, k, n, n) = 0
    BY <2>1, SumEmpty DEF Total
  <2> QED
    BY <1>3, <2>2
<1>6. NewIsZero(n, TRUE, recs) /\ KeepsPeriod(n, recs, h)
  BY <1>1, <1>3 DEF NewIsZero, KeepsPeriod
<1>7. n \in Int
  OBVIOUS
<1>8. HistoryOK(n, TRUE, r, recs, h)
  BY <1>2, <1>4, <1>5, <1>6, <1>7 DEF HistoryOK
<1> QED
  BY <1>8 DEF recs, h

\* The end of a block in which the pool changed: a record with its price q
LEMMA UpdateOK ==
  ASSUME NEW n, NEW open, NEW last, NEW recs, NEW h, HistoryOK(n, open, last, recs, h),
         NEW q \in Quotes, NEW r, IsUpdate(r, last, q, n)
  PROVE  HistoryOK(n, FALSE, r, Write(recs, Constantly({n}, r)), Write(h, Constantly({n}, q)))
<1> DEFINE recs2 == Write(recs, Constantly({n}, r))
           h2 == Write(h, Constantly({n}, q))
           D == DOMAIN recs
<1>0. /\ n \in Int /\ IsHistory(n, h) /\ RecordsOK(recs, h) /\ LastOK(last, recs)
      /\ Covers(recs, h) /\ ErrorsGrow(recs) /\ Accumulates(recs, h) /\ KeepsPeriod(n, recs, h)
  BY DEF HistoryOK
<1>1. PICK c \in 1 .. n : h \in [c .. n -> Quotes]
  BY <1>0 DEF IsHistory
<1>2. /\ DOMAIN recs2 = D \cup {n} /\ recs2[n] = r
      /\ \A t \in D : t # n => recs2[t] = recs[t]
  BY DEF Write, Constantly
<1>3. /\ DOMAIN h2 = c .. n /\ h2[n] = q /\ h2 \in [c .. n -> Quotes]
      /\ \A u \in c .. n : u # n => h2[u] = h[u]
  <2>1. c .. n \cup {n} = c .. n
    BY <1>0, <1>1
  <2> QED
    BY <1>1, <2>1 DEF Write, Constantly
<1> HIDE DEF recs2, h2
<1>4. /\ r \in Record /\ r.time = n /\ r.err <= n /\ InEffect(r, q) /\ last.err <= r.err
      /\ \A k \in 1 .. 3 : Acc(r, k) = Acc(last, k) + RateOf(last, k) * (n - last.time)
  BY DEF IsUpdate
<1>5. /\ D \subseteq c .. n /\ D \subseteq Int /\ n \in c .. n /\ c \in Int
      /\ \A t \in D : t \in Int /\ t <= n /\ c <= t
  BY <1>0, <1>1 DEF RecordsOK
<1>6. /\ last.time \in D /\ last = recs[last.time] /\ \A t \in D : t <= last.time
  BY <1>0 DEF LastOK
<1>7. IsHistory(n, h2)
  BY <1>1, <1>3 DEF IsHistory
<1>8. RecordsOK(recs2, h2)
  BY <1>0, <1>2, <1>3, <1>4, <1>5 DEF RecordsOK
<1>9. LastOK(r, recs2)
  BY <1>0, <1>2, <1>4, <1>5 DEF LastOK
<1>10. Covers(recs2, h2)
  <2> SUFFICES ASSUME NEW u \in DOMAIN h2, NEW t \in DOMAIN recs2, IsLatest(recs2, t, u)
               PROVE  InEffect(recs2[t], h2[u])
    BY DEF Covers
  <2>1. CASE u = n
    <3>1. t = n
      BY <1>0, <1>2, <1>5, <2>1 DEF IsLatest
    <3> QED
      BY <1>2, <1>3, <1>4, <2>1, <3>1
  <2>2. CASE u # n
    <3>1. u \in DOMAIN h /\ u < n /\ h2[u] = h[u]
      BY <1>0, <1>1, <1>3, <2>2
    <3>0. t <= u /\ u \in Int
      BY <1>3, <1>5 DEF IsLatest
    <3>2. t \in D /\ t # n /\ recs2[t] = recs[t]
      BY <1>0, <1>2, <1>5, <3>0, <3>1
    <3>3. IsLatest(recs, t, u)
      BY <1>2, <3>2 DEF IsLatest
    <3> QED
      BY <1>0, <3>1, <3>2, <3>3 DEF Covers
  <2> QED
    BY <2>1, <2>2
<1>11. ErrorsGrow(recs2)
  <2> SUFFICES ASSUME NEW t \in DOMAIN recs2, NEW u \in DOMAIN recs2, t <= u
               PROVE  recs2[t].err <= recs2[u].err
    BY DEF ErrorsGrow
  <2>1. \A v \in D : recs[v].err \in Int /\ recs[v].err <= last.err
    BY <1>0, <1>6 DEF ErrorsGrow, RecordsOK, Record
  <2>2. r.err \in Int /\ last.err \in Int
    BY <1>4, <1>6, <2>1 DEF Record
  <2>3. CASE u = n
    BY <1>2, <1>4, <2>1, <2>2, <2>3
  <2>4. CASE u # n
    <3>1. u \in D /\ t \in D /\ t # n
      BY <1>0, <1>2, <1>5, <2>4
    <3> QED
      BY <1>0, <1>2, <2>4, <3>1 DEF ErrorsGrow
  <2> QED
    BY <2>3, <2>4
<1>12. Accumulates(recs2, h2)
  <2> SUFFICES ASSUME NEW k \in 1 .. 3, NEW t \in DOMAIN recs2, NEW u \in DOMAIN recs2, t <= u
               PROVE  Acc(recs2[u], k) = Acc(recs2[t], k) + Total(h2, k, t, u)
    BY DEF Accumulates
  <2>1. t \in Int /\ u \in Int /\ c <= t /\ u <= n
    BY <1>0, <1>2, <1>5
  <2>2. Total(h2, k, t, u) = Total(h, k, t, u)
    <3>1. \A x \in t .. (u - 1) : x \in DOMAIN h2 /\ x \in DOMAIN h /\ h2[x] = h[x]
      BY <1>0, <1>1, <1>3, <1>5, <2>1
    <3> QED
      BY <2>1, <3>1, TotalEqual
  <2>3. CASE t = n
    <3>1. u = n
      BY <1>0, <2>1, <2>3
    <3>2. n .. (n - 1) = {}
      BY <1>0
    <3>3. Total(h2, k, t, u) = 0
      BY <2>3, <3>1, <3>2, SumEmpty DEF Total
    <3>4. Acc(r, k) \in Int
      BY <1>4 DEF Acc, Record
    <3> QED
      BY <1>2, <2>3, <3>1, <3>3, <3>4
  <2>4. CASE t # n /\ u # n
    BY <1>0, <1>2, <2>2, <2>4 DEF Accumulates
  <2>5. CASE t # n /\ u = n
    <3>1. t \in D /\ recs2[t] = recs[t] /\ recs2[u] = r
      BY <1>2, <2>5
    <3>2. IsLatest(recs, last.time, n) /\ t <= last.time
      BY <1>5, <1>6, <3>1 DEF IsLatest
    <3>3. Acc(last, k) + RateOf(last, k) * (n - last.time) = Acc(recs[t], k) + Total(h, k, t, n)
      BY <1>0, <1>6, <3>1, <3>2, Interpolation
    <3> QED
      BY <1>4, <2>2, <2>5, <3>1, <3>3
  <2> QED
    BY <2>3, <2>4, <2>5
<1>13. NewIsZero(n, FALSE, recs2)
  BY DEF NewIsZero
<1>14. KeepsPeriod(n, recs2, h2)
  BY <1>0, <1>1, <1>2, <1>3 DEF KeepsPeriod
<1> QED
  BY <1>0, <1>7, <1>8, <1>9, <1>10, <1>11, <1>12, <1>13, <1>14 DEF HistoryOK, recs2, h2

\* The end of a block in which the pool did not change
LEMMA SameOK ==
  ASSUME NEW n, NEW open, NEW last, NEW recs, NEW h, HistoryOK(n, open, last, recs, h)
  PROVE  HistoryOK(n, FALSE, last, recs, Write(h, Constantly({n}, h[n])))
<1>1. n \in DOMAIN h /\ h = [u \in DOMAIN h |-> h[u]]
  BY DEF HistoryOK, IsHistory
<1>2. Write(h, Constantly({n}, h[n])) = h
  BY <1>1 DEF Write, Constantly
<1>3. NewIsZero(n, FALSE, recs)
  BY DEF NewIsZero
<1> QED
  BY <1>2, <1>3 DEF HistoryOK

\* A block begins at a later time t.
LEMMA BeginOK ==
  ASSUME NEW n, NEW open, NEW last, NEW recs, NEW h, HistoryOK(n, open, last, recs, h),
         NEW t \in Int, t > n
  PROVE  HistoryOK(t, TRUE, last, recs, Write(h, Constantly(n + 1 .. t, h[n])))
<1> DEFINE h2 == Write(h, Constantly(n + 1 .. t, h[n]))
           D == DOMAIN recs
<1>0. /\ n \in Int /\ IsHistory(n, h) /\ RecordsOK(recs, h) /\ LastOK(last, recs)
      /\ Covers(recs, h) /\ ErrorsGrow(recs) /\ Accumulates(recs, h) /\ KeepsPeriod(n, recs, h)
  BY DEF HistoryOK
<1>1. PICK c \in 1 .. n : h \in [c .. n -> Quotes]
  BY <1>0 DEF IsHistory
<1>2. /\ DOMAIN h2 = c .. t /\ h2 \in [c .. t -> Quotes]
      /\ \A u \in c .. n : h2[u] = h[u]
      /\ \A u \in n + 1 .. t : h2[u] = h[n]
  <2>1. /\ (c .. n) \cup (n + 1 .. t) = c .. t
        /\ n \in c .. n /\ \A u \in c .. n : u \notin n + 1 .. t
    BY <1>0, <1>1
  <2>2. h2 = [u \in c .. t |-> IF u \in n + 1 .. t THEN h[n] ELSE h[u]]
    BY <1>1, <2>1 DEF Write, Constantly
  <2>3. h[n] \in Quotes /\ \A u \in c .. t : u \notin n + 1 .. t => u \in c .. n
    BY <1>1, <2>1
  <2> HIDE DEF h2
  <2> QED
    BY <1>1, <2>1, <2>2, <2>3
<1> HIDE DEF h2
<1>3. /\ D \subseteq c .. n /\ D \subseteq DOMAIN h2
      /\ \A v \in D : v \in Int /\ v <= n /\ c <= v
  BY <1>0, <1>1, <1>2 DEF RecordsOK
<1>4. c \in 1 .. t
  BY <1>0, <1>1
<1>5. IsHistory(t, h2)
  BY <1>2, <1>4 DEF IsHistory
<1>6. RecordsOK(recs, h2)
  BY <1>0, <1>3 DEF RecordsOK
<1>7. Covers(recs, h2)
  <2> SUFFICES ASSUME NEW u \in DOMAIN h2, NEW v \in D, IsLatest(recs, v, u)
               PROVE  InEffect(recs[v], h2[u])
    BY DEF Covers
  <2>1. CASE u <= n
    <3>1. u \in DOMAIN h /\ h2[u] = h[u]
      BY <1>0, <1>1, <1>2, <2>1
    <3> QED
      BY <1>0, <3>1 DEF Covers
  <2>2. CASE ~ (u <= n)
    <3>1. h2[u] = h[n] /\ n \in DOMAIN h
      BY <1>0, <1>1, <1>2, <2>2
    <3>2. \A w \in D : w <= u
      BY <1>0, <1>2, <1>3, <2>2
    <3>3. IsLatest(recs, v, n)
      BY <1>3, <3>2 DEF IsLatest
    <3> QED
      BY <1>0, <3>1, <3>3 DEF Covers
  <2> QED
    BY <2>1, <2>2
<1>8. Accumulates(recs, h2)
  <2> SUFFICES ASSUME NEW k \in 1 .. 3, NEW v \in D, NEW u \in D, v <= u
               PROVE  Acc(recs[u], k) = Acc(recs[v], k) + Total(h2, k, v, u)
    BY DEF Accumulates
  <2>1. \A x \in v .. (u - 1) : x \in DOMAIN h2 /\ x \in DOMAIN h /\ h2[x] = h[x]
    BY <1>0, <1>1, <1>2, <1>3
  <2>2. Total(h2, k, v, u) = Total(h, k, v, u)
    BY <1>3, <2>1, TotalEqual
  <2> QED
    BY <1>0, <2>2 DEF Accumulates
<1>9. NewIsZero(t, TRUE, recs)
  BY <1>0, <1>3 DEF NewIsZero
<1>10. KeepsPeriod(t, recs, h2)
  <2> SUFFICES ASSUME NEW s \in DOMAIN h2, s >= t - KeepPeriod
               PROVE  \E m \in D : m <= s
    BY DEF KeepsPeriod
  <2>1. s \in Int
    BY <1>1, <1>2
  <2>2. CASE s <= n
    <3>1. s \in DOMAIN h /\ s >= n - KeepPeriod
      BY <1>0, <1>1, <1>2, <2>1, <2>2, TimeAssumption
    <3> QED
      BY <1>0, <3>1 DEF KeepsPeriod
  <2>3. CASE ~ (s <= n)
    <3>1. last.time \in D
      BY <1>0 DEF LastOK
    <3>2. last.time <= s
      BY <1>0, <1>3, <2>1, <2>3, <3>1
    <3> QED
      BY <3>1, <3>2
  <2> QED
    BY <2>2, <2>3
<1>11. HistoryOK(t, TRUE, last, recs, h2)
  BY <1>0, <1>5, <1>6, <1>7, <1>8, <1>9, <1>10 DEF HistoryOK
<1> QED
  BY <1>11 DEF h2

\* The most recent record is the one with the largest time, which InitGenesis stores last.
LEMMA LastIsMax ==
  ASSUME NEW n \in Int, NEW h, IsHistory(n, h), NEW recs, RecordsOK(recs, h),
         NEW last, LastOK(last, recs)
  PROVE  Max(DOMAIN recs) = last.time
<1> DEFINE D == DOMAIN recs
<1>1. D \subseteq Int /\ last.time \in D /\ \A x \in D : x <= last.time
  BY HistoryTimes DEF RecordsOK, LastOK
<1>2. Max(D) \in D /\ \A x \in D : x <= Max(D)
  BY <1>1, MaxOfBounded
<1>3. Max(D) <= last.time /\ last.time <= Max(D) /\ Max(D) \in Int /\ last.time \in Int
  BY <1>1, <1>2
<1> QED
  BY <1>3

\* Old records are deleted, but the newest of them.
LEMMA PruneOK ==
  ASSUME NEW n, NEW open, NEW last, NEW recs, NEW h, HistoryOK(n, open, last, recs, h),
         NEW cut \in Int, cut <= n - KeepPeriod
  PROVE  HistoryOK(n, open, last, pruneRecordsBeforeTimeButNewest(recs, cut), h)
<1> DEFINE recs2 == pruneRecordsBeforeTimeButNewest(recs, cut)
           D == DOMAIN recs
           E == DOMAIN recs2
           old == {t \in D : t < cut}
<1>0. /\ n \in Int /\ IsHistory(n, h) /\ RecordsOK(recs, h) /\ LastOK(last, recs)
      /\ Covers(recs, h) /\ ErrorsGrow(recs) /\ Accumulates(recs, h) /\ KeepsPeriod(n, recs, h)
      /\ NewIsZero(n, open, recs)
  BY DEF HistoryOK
<1>1. D \subseteq Int
  BY <1>0, HistoryTimes DEF RecordsOK
<1>2. E = {u \in D : u \in old => u = Max(old)} /\ \A t \in E : recs2[t] = recs[t]
  BY DEF pruneRecordsBeforeTimeButNewest
<1>3. old # {} => Max(old) \in old /\ \A t \in old : t <= Max(old)
  <2>1. old \subseteq Int /\ \A t \in old : t <= cut
    BY <1>1
  <2> HIDE DEF old
  <2> QED
    BY <2>1, MaxOfBounded
<1> HIDE DEF recs2
<1>4. E \subseteq D /\ \A t \in E : \A v \in D : t <= v => v \in E
  <2>1. E \subseteq D
    BY <1>2
  <2>2. ASSUME NEW t \in E, NEW v \in D, t <= v
        PROVE  v \in E
    <3>1. t \in D /\ t \in Int /\ v \in Int
      BY <1>1, <2>1
    <3>2. CASE v \notin old
      BY <1>2, <3>2
    <3>3. CASE v \in old
      <4>1. t \in old
        BY <2>2, <3>1, <3>3
      <4>2. t = Max(old) /\ v <= Max(old)
        BY <1>2, <1>3, <3>3, <4>1
      <4>3. v = t
        BY <2>2, <3>1, <4>2
      <4> QED
        BY <4>3
    <3> QED
      BY <3>2, <3>3
  <2> QED
    BY <2>1, <2>2
<1>5. \A m \in D : m \notin E => \E e \in E : e < cut
  BY <1>2, <1>3
<1>6. last.time \in E
  <2>1. last.time \in D /\ \A t \in D : t <= last.time
    BY <1>0 DEF LastOK
  <2>2. \E e \in E : TRUE
    BY <1>5, <2>1
  <2> QED
    BY <1>4, <2>1, <2>2
<1>7. RecordsOK(recs2, h)
  BY <1>0, <1>2, <1>4 DEF RecordsOK
<1>8. LastOK(last, recs2)
  BY <1>0, <1>2, <1>4, <1>6 DEF LastOK
<1>9. ErrorsGrow(recs2) /\ Accumulates(recs2, h)
  BY <1>0, <1>2, <1>4 DEF ErrorsGrow, Accumulates
<1>10. NewIsZero(n, open, recs2)
  BY <1>0, <1>2, <1>4 DEF NewIsZero
<1>11. Covers(recs2, h)
  <2> SUFFICES ASSUME NEW u \in DOMAIN h, NEW t \in E, IsLatest(recs2, t, u)
               PROVE  InEffect(recs2[t], h[u])
    BY DEF Covers
  <2>1. t \in D /\ t \in Int /\ t <= u
    BY <1>1, <1>4 DEF IsLatest
  <2>2. ASSUME NEW v \in D, v <= u
        PROVE  v <= t
    <3>1. CASE t <= v
      BY <1>4, <2>2, <3>1 DEF IsLatest
    <3>2. CASE ~ (t <= v)
      BY <1>1, <2>1, <3>2
    <3> QED
      BY <3>1, <3>2
  <2>3. IsLatest(recs, t, u)
    BY <2>1, <2>2 DEF IsLatest
  <2> QED
    BY <1>0, <1>2, <2>1, <2>3 DEF Covers
<1>12. KeepsPeriod(n, recs2, h)
  <2> SUFFICES ASSUME NEW s \in DOMAIN h, s >= n - KeepPeriod
               PROVE  \E m \in E : m <= s
    BY DEF KeepsPeriod
  <2>1. PICK m \in D : m <= s
    BY <1>0 DEF KeepsPeriod
  <2>2. CASE m \in E
    BY <2>1, <2>2
  <2>3. CASE m \notin E
    <3>1. PICK e \in E : e < cut
      BY <1>5, <2>3
    <3>2. e \in Int /\ s \in Int
      BY <1>0, <1>1, <1>4, HistoryTimes
    <3>3. e <= s
      BY <1>0, <3>1, <3>2, TimeAssumption
    <3> QED
      BY <3>3
  <2> QED
    BY <2>2, <2>3
<1> QED
  BY <1>0, <1>7, <1>8, <1>9, <1>10, <1>11, <1>12 DEF HistoryOK, recs2

----------------------------------------------------------------------------
(* Queries                                                                 *)

\* getRecordAtOrBeforeTime finds the latest record.
LEMMA LatestExists ==
  ASSUME NEW n \in Int, NEW h, IsHistory(n, h), NEW recs, RecordsOK(recs, h), NEW x \in Int,
         \E u \in DOMAIN recs : u <= x
  PROVE  IsLatest(recs, Max({u \in DOMAIN recs : u <= x}), x)
<1> DEFINE S == {u \in DOMAIN recs : u <= x}
<1>1. S \subseteq Int /\ S # {} /\ \A u \in S : u <= x
  BY HistoryTimes DEF RecordsOK
<1>2. Max(S) \in S /\ \A u \in S : u <= Max(S)
  <2> HIDE DEF S
  <2> QED
    BY <1>1, MaxOfBounded
<1> QED
  BY <1>2 DEF IsLatest

\* i is the record r, interpolated for time x.
Found(i, r, x) ==
  /\ i \in Record /\ i.time = x /\ i.sp0 = r.sp0 /\ i.sp1 = r.sp1
  /\ r.err <= i.err
  /\ \A k \in 1 .. 3 : Acc(i, k) = Acc(r, k) + RateOf(r, k) * (x - r.time)

PairOK(p) == HistoryOK(now, inBlock, recent[p], records[p], past[p])

\* getInterpolatedRecord
LEMMA InterpolatedRecord ==
  ASSUME NEW p, PairOK(p), NEW x \in Int, \E u \in DOMAIN records[p] : u <= x
  PROVE  \E t \in DOMAIN records[p] :
            /\ IsLatest(records[p], t, x)
            /\ Found(getInterpolatedRecord(p, x), records[p][t], x)
            /\ records[p][t].err = t => getInterpolatedRecord(p, x).err = x
<1> DEFINE recs == records[p]
           t == Max({u \in DOMAIN recs : u <= x})
           r == recs[t]
           r2 == [r EXCEPT !.err = IF @ = r.time THEN x ELSE @]
           i == getInterpolatedRecord(p, x)
<1>1. now \in Int /\ IsHistory(now, past[p]) /\ RecordsOK(recs, past[p])
  BY DEF PairOK, HistoryOK
<1>2. IsLatest(recs, t, x)
  BY <1>1, LatestExists
<1>3. i = recordWithUpdatedAccumulators(r2, x)
  BY DEF getInterpolatedRecord
<1> HIDE DEF i, t
<1>4. t \in DOMAIN recs /\ t <= x /\ t \in Int /\ r \in Record /\ r.time = t /\ r.err <= t
      /\ r.err \in Int
  BY <1>1, <1>2, HistoryTimes DEF IsLatest, RecordsOK, Record
<1>5. /\ r2 \in Record /\ r2.time = t /\ r2.sp0 = r.sp0 /\ r2.sp1 = r.sp1
      /\ r2.acc0 = r.acc0 /\ r2.acc1 = r.acc1 /\ r2.geo = r.geo
      /\ r2.err = (IF r.err = t THEN x ELSE r.err)
  <2> DEFINE e == IF r.err = t THEN x ELSE r.err
  <2>1. r2 = [r EXCEPT !.err = e] /\ e \in Int
    BY <1>4
  <2> HIDE DEF r2, e, r
  <2>2. r2.err = e
    BY <1>4, <2>1 DEF Record
  <2>3. /\ r2 \in Record /\ r2.time = t /\ r2.sp0 = r.sp0 /\ r2.sp1 = r.sp1
        /\ r2.acc0 = r.acc0 /\ r2.acc1 = r.acc1 /\ r2.geo = r.geo
    BY <1>4, <2>1 DEF Record
  <2> QED
    BY <2>2, <2>3 DEF e
<1> HIDE DEF r2, r
<1>6. GoesOn(i, r2, x)
  BY <1>3, <1>4, <1>5, UpdatedAccumulators
<1>7. \A k \in 1 .. 3 : Acc(r2, k) = Acc(r, k) /\ RateOf(r2, k) = RateOf(r, k)
  BY <1>5 DEF Acc, RateOf
<1>8. i.err = r2.err \/ i.err = x
  BY <1>6 DEF GoesOn
<1>9. r.err <= i.err /\ (r.err = t => i.err = x)
  BY <1>4, <1>5, <1>8
<1>10. Found(i, r, x)
  BY <1>4, <1>5, <1>6, <1>7, <1>9 DEF Found, GoesOn
<1> QED
  BY <1>2, <1>4, <1>9, <1>10 DEF i, r

\* The record at the end of an interval, from the store of most recent ones if it is now
LEMMA EndOfInterval ==
  ASSUME NEW p, PairOK(p), NEW x \in Int, x <= now, \E u \in DOMAIN records[p] : u <= x
  PROVE  \E t \in DOMAIN records[p] :
            IsLatest(records[p], t, x) /\ Found(EndRecord(p, x), records[p][t], x)
<1>1. CASE x # now
  BY <1>1, InterpolatedRecord DEF EndRecord
<1>2. CASE x = now
  <2> DEFINE last == recent[p]
             i == getMostRecentRecord(p)
  <2>1. /\ now \in Int /\ IsHistory(now, past[p]) /\ RecordsOK(records[p], past[p])
        /\ LastOK(last, records[p])
    BY DEF PairOK, HistoryOK
  <2>2. /\ last.time \in DOMAIN records[p] /\ last = records[p][last.time]
        /\ last \in Record /\ last.time <= now /\ last.err <= last.time
        /\ last.time \in Int /\ last.err \in Int
    BY <2>1, HistoryTimes DEF LastOK, RecordsOK, Record
  <2>3. IsLatest(records[p], last.time, x)
    BY <1>2, <2>1, <2>2 DEF LastOK, IsLatest
  <2>4. i = recordWithUpdatedAccumulators(last, x) /\ EndRecord(p, x) = i
    BY <1>2 DEF getMostRecentRecord, EndRecord
  <2> HIDE DEF last, i
  <2>5. GoesOn(i, last, x)
    BY <1>2, <2>2, <2>4, UpdatedAccumulators
  <2>6. last.err <= i.err
    BY <1>2, <2>1, <2>2, <2>5 DEF GoesOn
  <2>7. Found(i, last, x)
    BY <2>5, <2>6 DEF Found, GoesOn
  <2> QED
    BY <2>2, <2>3, <2>4, <2>7
<1> QED
  BY <1>1, <1>2

\* What the records at the ends of an interval tell about the history in between
LEMMA Interval ==
  ASSUME NEW p, PairOK(p), NEW start \in Int, NEW end \in Int, CanGetTwap(p, start, end)
  PROVE  LET s == getInterpolatedRecord(p, start)
             e == EndRecord(p, end)
         IN /\ \A u \in start .. end : u \in DOMAIN past[p]
            /\ s.time = start /\ e.time = end /\ e \in Record
            /\ e.sp0 = SpotPrice(past[p][end][1]) /\ e.sp1 = SpotPrice(past[p][end][2])
            /\ \A k \in 1 .. 3 : Acc(e, k) - Acc(s, k) = Total(past[p], k, start, end)
            /\ \A u \in start .. end : IsError(past[p][u]) => start <= e.err \/ s.err = start
<1> DEFINE s == getInterpolatedRecord(p, start)
           e == EndRecord(p, end)
           recs == records[p]
           h == past[p]
<1>1. /\ now \in Int /\ IsHistory(now, h) /\ RecordsOK(recs, h) /\ Covers(recs, h)
      /\ ErrorsGrow(recs) /\ Accumulates(recs, h)
  BY DEF PairOK, HistoryOK
<1>2. /\ start <= end /\ end <= now /\ start <= now
      /\ (\E u \in DOMAIN recs : u <= start) /\ (\E u \in DOMAIN recs : u <= end)
  <2>1. start <= end /\ end <= now /\ \E u \in DOMAIN recs : u <= start
    BY DEF CanGetTwap, HasRecordAtOrBefore
  <2>2. DOMAIN recs \subseteq Int
    BY <1>1, HistoryTimes DEF RecordsOK
  <2> QED
    BY <1>1, <2>1, <2>2
<1>3. PICK t1 \in DOMAIN recs : /\ IsLatest(recs, t1, start) /\ Found(s, recs[t1], start)
                                /\ recs[t1].err = t1 => s.err = start
  BY <1>2, InterpolatedRecord
<1>4. PICK t2 \in DOMAIN recs : IsLatest(recs, t2, end) /\ Found(e, recs[t2], end)
  BY <1>2, EndOfInterval
<1> HIDE DEF s, e
<1>5. PICK c \in 1 .. now : h \in [c .. now -> Quotes]
  BY <1>1 DEF IsHistory
<1>6. /\ \A t \in DOMAIN recs : t \in Int /\ c <= t /\ recs[t] \in Record /\ recs[t].time = t
      /\ \A t \in DOMAIN recs : recs[t].err \in Int
      /\ c \in Int /\ t1 <= start /\ t2 <= end
  <2>1. DOMAIN recs \subseteq c .. now /\ \A t \in DOMAIN recs : recs[t] \in Record /\ recs[t].time = t
    BY <1>1, <1>5 DEF RecordsOK
  <2>2. \A t \in DOMAIN recs : recs[t].err \in Int
    BY <2>1 DEF Record
  <2>3. t1 <= start /\ t2 <= end
    BY <1>3, <1>4 DEF IsLatest
  <2>4. \A t \in DOMAIN recs : t \in Int /\ c <= t
    BY <1>1, <1>5, <2>1
  <2> QED
    BY <1>5, <2>1, <2>2, <2>3, <2>4
<1>7. t1 <= t2
  BY <1>2, <1>4, <1>6 DEF IsLatest
<1>8. \A u \in start .. end : u \in DOMAIN h
  <2>1. c <= start /\ c \in Int
    BY <1>6
  <2> QED
    BY <1>1, <1>2, <1>5, <2>1
<1>9. s.time = start /\ e.time = end /\ e \in Record /\ s \in Record
  BY <1>3, <1>4 DEF Found
<1>10. e.sp0 = SpotPrice(h[end][1]) /\ e.sp1 = SpotPrice(h[end][2])
  <2>1. end \in DOMAIN h
    BY <1>2, <1>8
  <2>2. InEffect(recs[t2], h[end])
    BY <1>1, <1>4, <2>1 DEF Covers
  <2> QED
    BY <1>4, <2>2 DEF Found, InEffect
<1>11. ASSUME NEW k \in 1 .. 3
       PROVE  Acc(e, k) - Acc(s, k) = Total(h, k, start, end)
  <2>1. /\ Acc(recs[t1], k) + RateOf(recs[t1], k) * (start - t1)
             = Acc(recs[t1], k) + Total(h, k, t1, start)
        /\ Total(h, k, t1, start) \in Int
    BY <1>1, <1>2, <1>3, <1>6, Interpolation
  <2>2. /\ Acc(recs[t2], k) + RateOf(recs[t2], k) * (end - t2)
             = Acc(recs[t1], k) + Total(h, k, t1, end)
    BY <1>1, <1>2, <1>4, <1>7, Interpolation
  <2>3. Acc(s, k) = Acc(recs[t1], k) + Total(h, k, t1, start)
    BY <1>3, <1>6, <2>1 DEF Found
  <2>4. Acc(e, k) = Acc(recs[t1], k) + Total(h, k, t1, end)
    BY <1>4, <1>6, <2>2 DEF Found
  <2>5. /\ Total(h, k, t1, end) = Total(h, k, t1, start) + Total(h, k, start, end)
        /\ Total(h, k, start, end) \in Int
    <3>1. /\ c \in Int /\ now \in Int /\ t1 \in Int /\ c <= t1 /\ t1 <= start /\ start <= end
          /\ end <= now + 1 /\ h \in [c .. now -> Quotes]
      BY <1>1, <1>2, <1>5, <1>6
    <3> HIDE DEF h
    <3> QED
      BY <3>1, TotalSplit
  <2>6. Acc(recs[t1], k) \in Int
    BY <1>6 DEF Acc, Record
  <2> HIDE DEF h
  <2> QED
    BY <2>1, <2>3, <2>4, <2>5, <2>6
<1>12. ASSUME NEW u \in start .. end, IsError(h[u])
       PROVE  start <= e.err \/ s.err = start
  <2> DEFINE t == Max({v \in DOMAIN recs : v <= u})
  <2>1. u \in Int /\ t1 <= u
    BY <1>6
  <2>2. IsLatest(recs, t, u)
    BY <1>1, <2>1, LatestExists
  <2> HIDE DEF t
  <2>3. t \in DOMAIN recs /\ t <= u /\ t \in Int
    BY <1>6, <2>2 DEF IsLatest
  <2>4. recs[t].err = t
    BY <1>1, <1>6, <1>8, <1>12, <2>2, <2>3 DEF Covers, InEffect
  <2>5. CASE t <= start
    <3>1. t <= t1 /\ t1 <= t
      BY <1>3, <2>1, <2>2, <2>3, <2>5 DEF IsLatest
    <3>2. t = t1
      BY <1>6, <2>3, <3>1
    <3> QED
      BY <1>3, <2>4, <3>2
  <2>6. CASE ~ (t <= start)
    <3>1. t <= t2
      BY <1>4, <2>3 DEF IsLatest
    <3>2. t <= recs[t2].err
      BY <1>1, <2>3, <2>4, <3>1 DEF ErrorsGrow
    <3>3. recs[t2].err <= e.err /\ e.err \in Int
      BY <1>4, <1>9 DEF Found, Record
    <3>4. recs[t2].err \in Int
      BY <1>6
    <3> QED
      BY <2>3, <2>6, <3>2, <3>3, <3>4
  <2> QED
    BY <2>5, <2>6
<1> QED
  BY <1>8, <1>9, <1>10, <1>11, <1>12 DEF s, e

----------------------------------------------------------------------------
(* The invariant                                                           *)

\* A pool that changed in this block is to get new records; all others are as recorded.
ChangesOK ==
  /\ \A pool \in changed : PairsOf(pool) \subseteq DOMAIN quote
  /\ ~inBlock => changed = {}
  /\ \A p \in DOMAIN quote : PoolOf[p] \notin changed => quote[p] = past[p][now]

StoresOK ==
  /\ now \in Nat \ {0}
  /\ inBlock \in BOOLEAN
  /\ DOMAIN quote \subseteq Pairs
  /\ DOMAIN recent = DOMAIN quote /\ DOMAIN records = DOMAIN quote /\ DOMAIN past = DOMAIN quote
  /\ \A p \in DOMAIN quote : quote[p] \in Quotes

PairsOK == \A p \in DOMAIN quote : PairOK(p)

Inv == StoresOK /\ ChangesOK /\ PairsOK

\* Nothing exists at first.
LEMMA InitOK == Init => Inv
<1> SUFFICES ASSUME Init PROVE Inv
  OBVIOUS
<1>1. DOMAIN NoEntries = {}
  BY DEF NoEntries
<1> QED
  BY <1>1 DEF Init, Inv, StoresOK, ChangesOK, PairsOK

\* afterCreatePool
LEMMA CreatePoolOK ==
  ASSUME Inv, NEW pool \in Pools, NEW q \in [PairsOf(pool) -> Quotes], afterCreatePool(pool, q)
  PROVE  Inv'
<1> DEFINE P == PairsOf(pool)
           new == [p \in P |-> newTwapRecord(q[p])]
           first == [p \in P |-> Constantly({now}, q[p])]
           stored == [p \in P |-> Write(IF p \in DOMAIN records THEN records[p] ELSE NoEntries,
                                        Constantly({now}, new[p]))]
<1>0. StoresOK /\ ChangesOK /\ PairsOK
  BY DEF Inv
<1>1. /\ inBlock /\ P \cap DOMAIN quote = {} /\ now' = now /\ inBlock' = inBlock
      /\ changed' = changed \cup {pool}
      /\ quote' = Write(quote, q) /\ past' = Write(past, first)
      /\ recent' = Write(recent, new)
  BY DEF afterCreatePool, StoreNewRecords
<1>2. records' = Write(records, stored)
  <2>1. DOMAIN new = P
    OBVIOUS
  <2>2. records' = Write(records, [p \in DOMAIN new |->
                     Write(IF p \in DOMAIN records THEN records[p] ELSE NoEntries,
                           Constantly({now}, new[p]))])
    BY DEF afterCreatePool, StoreNewRecords
  <2> HIDE DEF new
  <2> QED
    BY <2>1, <2>2
<1>3. DOMAIN q = P /\ DOMAIN new = P /\ DOMAIN first = P /\ DOMAIN stored = P /\ P \subseteq Pairs
  BY DEF PairsOf
<1>4. ASSUME NEW p \in P
      PROVE  /\ quote'[p] = q[p] /\ past'[p] = Constantly({now}, q[p])
             /\ recent'[p] = newTwapRecord(q[p])
             /\ records'[p] = Write(NoEntries, Constantly({now}, newTwapRecord(q[p])))
  <2>1. quote'[p] = q[p] /\ past'[p] = first[p] /\ recent'[p] = new[p] /\ records'[p] = stored[p]
    <3> HIDE DEF new, first, stored, P
    <3> QED
      BY <1>1, <1>2, <1>3 DEF Write, Constantly
  <2>2. p \notin DOMAIN records
    BY <1>0, <1>1 DEF StoresOK
  <2> QED
    BY <2>1, <2>2
<1>5. ASSUME NEW p \in DOMAIN quote
      PROVE  /\ quote'[p] = quote[p] /\ past'[p] = past[p]
             /\ recent'[p] = recent[p] /\ records'[p] = records[p]
  <2>1. /\ p \notin P /\ p \in DOMAIN recent /\ p \in DOMAIN records /\ p \in DOMAIN past
    BY <1>0, <1>1 DEF StoresOK
  <2> HIDE DEF new, first, stored, P
  <2> QED
    BY <1>1, <1>2, <1>3, <2>1 DEF Write, Constantly
<1>6. /\ DOMAIN quote' = DOMAIN quote \cup P /\ DOMAIN past' = DOMAIN quote \cup P
      /\ DOMAIN recent' = DOMAIN quote \cup P /\ DOMAIN records' = DOMAIN quote \cup P
  <2> HIDE DEF new, first, stored, P
  <2> QED
    BY <1>0, <1>1, <1>2, <1>3 DEF StoresOK, Write, Constantly
<1>7. StoresOK'
  <2> HIDE DEF P
  <2>1. \A p \in P : q[p] \in Quotes
    BY DEF P
  <2> QED
    BY <1>0, <1>1, <1>3, <1>4, <1>5, <1>6, <2>1 DEF StoresOK
<1>8. ChangesOK'
  <2>1. \A p \in P : PoolOf[p] \in changed'
    BY <1>1 DEF PairsOf
  <2>2. \A pl \in changed' : PairsOf(pl) \subseteq DOMAIN quote'
    BY <1>0, <1>1, <1>6 DEF ChangesOK
  <2>3. \A p \in DOMAIN quote' : PoolOf[p] \notin changed' => quote'[p] = past'[p][now']
    <3> SUFFICES ASSUME NEW p \in DOMAIN quote', PoolOf[p] \notin changed'
                 PROVE  quote'[p] = past'[p][now']
      OBVIOUS
    <3>1. p \in DOMAIN quote /\ PoolOf[p] \notin changed
      BY <1>1, <1>6, <2>1
    <3> QED
      BY <1>0, <1>1, <1>5, <3>1 DEF ChangesOK
  <2> QED
    BY <1>1, <2>2, <2>3 DEF ChangesOK
<1>9. PairsOK'
  <2> SUFFICES ASSUME NEW p \in DOMAIN quote'
               PROVE  HistoryOK(now, inBlock, recent'[p], records'[p], past'[p])
    BY <1>1 DEF PairsOK, PairOK
  <2>1. CASE p \in DOMAIN quote
    BY <1>0, <1>5, <2>1 DEF PairsOK, PairOK
  <2>2. CASE p \in P
    <3>1. q[p] \in Quotes /\ now \in Nat /\ now \in Nat \ {0}
      BY <1>0, <2>2 DEF StoresOK
    <3>2. IsNew(newTwapRecord(q[p]), q[p], now)
      BY <3>1, NewRecord
    <3>3. HistoryOK(now, TRUE, newTwapRecord(q[p]),
                    Write(NoEntries, Constantly({now}, newTwapRecord(q[p]))), Constantly({now}, q[p]))
      BY <3>1, <3>2, CreateOK
    <3>4. inBlock = TRUE
      BY <1>0, <1>1 DEF StoresOK
    <3> QED
      BY <1>4, <2>2, <3>3, <3>4
  <2> QED
    BY <1>6, <2>1, <2>2
<1> QED
  BY <1>7, <1>8, <1>9 DEF Inv

\* trackChangedPool
LEMMA TrackOK ==
  ASSUME Inv, NEW pool \in Pools, NEW q \in [PairsOf(pool) -> Quotes], trackChangedPool(pool, q)
  PROVE  Inv'
<1>0. StoresOK /\ ChangesOK /\ PairsOK
  BY DEF Inv
<1>1. /\ inBlock /\ PairsOf(pool) \subseteq DOMAIN quote /\ now' = now /\ inBlock' = inBlock
      /\ changed' = changed \cup {pool} /\ quote' = Write(quote, q)
      /\ recent' = recent /\ records' = records /\ past' = past
  BY DEF trackChangedPool
<1>2. /\ DOMAIN quote' = DOMAIN quote
      /\ \A p \in DOMAIN quote : /\ p \in PairsOf(pool) => quote'[p] = q[p]
                                 /\ p \notin PairsOf(pool) => quote'[p] = quote[p]
  <2>1. DOMAIN q = PairsOf(pool)
    OBVIOUS
  <2> QED
    BY <1>1, <2>1 DEF Write, Constantly
<1>3. \A p \in DOMAIN quote : p \in PairsOf(pool) <=> PoolOf[p] = pool
  BY <1>0 DEF PairsOf, StoresOK
<1>4. StoresOK'
  <2>1. \A p \in DOMAIN quote' : quote'[p] \in Quotes
    BY <1>0, <1>2 DEF StoresOK
  <2> QED
    BY <1>0, <1>1, <1>2, <2>1 DEF StoresOK
<1>5. ChangesOK'
  BY <1>0, <1>1, <1>2, <1>3 DEF ChangesOK
<1>6. PairsOK'
  BY <1>0, <1>1, <1>2 DEF PairsOK, PairOK
<1> QED
  BY <1>4, <1>5, <1>6 DEF Inv

\* The last record of a pair can always be updated at the end of a block.
LEMMA NeverSkipped ==
  ASSUME NEW p, PairOK(p), inBlock
  PROVE  /\ CanUpdate(recent[p])
         /\ recent[p] \in Record /\ recent[p].time <= now /\ recent[p].err <= recent[p].time
<1>1. /\ now \in Int /\ IsHistory(now, past[p]) /\ RecordsOK(records[p], past[p])
      /\ LastOK(recent[p], records[p]) /\ NewIsZero(now, inBlock, records[p])
  BY DEF PairOK, HistoryOK
<1>2. /\ recent[p].time \in DOMAIN records[p] /\ recent[p] = records[p][recent[p].time]
      /\ recent[p] \in Record /\ recent[p].time <= now /\ recent[p].err <= recent[p].time
      /\ recent[p].time \in Int
  BY <1>1, HistoryTimes DEF LastOK, RecordsOK
<1>3. recent[p].time = now => recent[p].acc0 = 0
  BY <1>1, <1>2 DEF NewIsZero
<1> QED
  BY <1>1, <1>2, <1>3 DEF CanUpdate

\* EndBlock: every changed pool gets its records.
LEMMA EndBlockOK ==
  ASSUME Inv, EndBlock
  PROVE  Inv'
<1> DEFINE updated == {pool \in changed : \A p \in PairsOf(pool) : CanUpdate(recent[p])}
           P == {p \in Pairs : PoolOf[p] \in changed}
           new == [p \in P |-> updateRecord(recent[p], quote[p])]
           stored == [p \in P |-> Write(IF p \in DOMAIN records THEN records[p] ELSE NoEntries,
                                        Constantly({now}, new[p]))]
<1>0. StoresOK /\ ChangesOK /\ PairsOK
  BY DEF Inv
<1>1. /\ inBlock /\ now' = now /\ inBlock' = FALSE /\ changed' = {} /\ quote' = quote
      /\ past' = [p \in DOMAIN past |-> Write(past[p], Constantly({now}, quote[p]))]
      /\ updateRecords({p \in Pairs : PoolOf[p] \in updated})
  BY DEF EndBlock
<1>2. P \subseteq DOMAIN quote
  BY <1>0 DEF ChangesOK, PairsOf
<1>3. updated = changed
  <2> SUFFICES ASSUME NEW pool \in changed, NEW p \in PairsOf(pool)
               PROVE  CanUpdate(recent[p])
    OBVIOUS
  <2>1. p \in DOMAIN quote
    BY <1>0 DEF ChangesOK
  <2>2. PairOK(p)
    BY <1>0, <2>1 DEF PairsOK
  <2> QED
    BY <1>1, <2>2, NeverSkipped
<1>4. updateRecords(P)
  BY <1>1, <1>3
<1>5. recent' = Write(recent, new) /\ records' = Write(records, stored)
  <2>1. DOMAIN new = P
    OBVIOUS
  <2>2. /\ recent' = Write(recent, new)
        /\ records' = Write(records, [p \in DOMAIN new |->
                        Write(IF p \in DOMAIN records THEN records[p] ELSE NoEntries,
                              Constantly({now}, new[p]))])
    <3> HIDE DEF P
    <3> QED
      BY <1>4 DEF updateRecords, StoreNewRecords
  <2> HIDE DEF new, P
  <2> QED
    BY <2>1, <2>2
<1>6. DOMAIN new = P /\ DOMAIN stored = P
  OBVIOUS
<1>7. /\ DOMAIN past' = DOMAIN quote /\ DOMAIN recent' = DOMAIN quote /\ DOMAIN records' = DOMAIN quote
  <2> HIDE DEF new, stored, P
  <2> QED
    BY <1>0, <1>1, <1>2, <1>5, <1>6 DEF StoresOK, Write, Constantly
<1>8. \A p \in DOMAIN quote : past'[p] = Write(past[p], Constantly({now}, quote[p]))
  BY <1>0, <1>1 DEF StoresOK
<1>9. StoresOK'
  BY <1>0, <1>1, <1>7 DEF StoresOK
<1>10. ChangesOK'
  <2>1. \A p \in DOMAIN quote : past'[p][now] = quote[p]
    BY <1>8 DEF Write, Constantly
  <2> QED
    BY <1>1, <2>1 DEF ChangesOK
<1>11. PairsOK'
  <2> SUFFICES ASSUME NEW p \in DOMAIN quote
               PROVE  HistoryOK(now, FALSE, recent'[p], records'[p], past'[p])
    BY <1>1 DEF PairsOK, PairOK
  <2>1. HistoryOK(now, inBlock, recent[p], records[p], past[p]) /\ PairOK(p)
    BY <1>0 DEF PairsOK, PairOK
  <2>2. p \in Pairs /\ p \in DOMAIN recent /\ p \in DOMAIN records /\ quote[p] \in Quotes /\ now \in Int
    BY <1>0 DEF StoresOK
  <2>3. CASE p \in P
    <3> DEFINE r == updateRecord(recent[p], quote[p])
    <3>1. recent'[p] = r /\ records'[p] = Write(records[p], Constantly({now}, r))
      <4>1. recent'[p] = new[p] /\ records'[p] = stored[p]
        <5> HIDE DEF new, stored, P
        <5> QED
          BY <1>5, <1>6, <2>3 DEF Write, Constantly
      <4>2. new[p] = r
        BY <2>3
      <4>3. stored[p] = Write(records[p], Constantly({now}, new[p]))
        <5> HIDE DEF new
        <5> QED
          BY <2>2, <2>3
      <4> QED
        BY <4>1, <4>2, <4>3
    <3>2. IsUpdate(r, recent[p], quote[p], now)
      BY <1>1, <2>1, <2>2, NeverSkipped, UpdatedRecord
    <3> HIDE DEF r
    <3>3. HistoryOK(now, FALSE, r, Write(records[p], Constantly({now}, r)),
                    Write(past[p], Constantly({now}, quote[p])))
      <4>1. HistoryOK(now, inBlock, recent[p], records[p], past[p])
        BY <2>1
      <4>2. quote[p] \in Quotes
        BY <2>2
      <4> QED
        BY <3>2, <4>1, <4>2, UpdateOK
    <3> QED
      BY <1>8, <3>1, <3>3
  <2>4. CASE p \notin P
    <3>1. recent'[p] = recent[p] /\ records'[p] = records[p]
      <4> HIDE DEF new, stored, P
      <4> QED
        BY <1>5, <1>6, <2>2, <2>4 DEF Write, Constantly
    <3>2. quote[p] = past[p][now]
      BY <1>0, <2>2, <2>4 DEF ChangesOK
    <3>3. HistoryOK(now, FALSE, recent[p], records[p], Write(past[p], Constantly({now}, past[p][now])))
      BY <2>1, SameOK
    <3> QED
      BY <1>8, <3>1, <3>2, <3>3
  <2> QED
    BY <2>3, <2>4
<1> QED
  BY <1>9, <1>10, <1>11 DEF Inv

\* BeginBlock, with the pruning of the epoch's end
LEMMA BeginBlockOK ==
  ASSUME Inv, NEW t \in now + 1 .. MaxTime, NEW b \in BOOLEAN, BeginBlock(t, b)
  PROVE  Inv'
<1>0. StoresOK /\ ChangesOK /\ PairsOK
  BY DEF Inv
<1>1. /\ ~inBlock /\ now' = t /\ inBlock' = TRUE /\ quote' = quote /\ recent' = recent
      /\ changed' = changed
      /\ past' = [p \in DOMAIN past |-> Write(past[p], Constantly(now + 1 .. t, past[p][now]))]
      /\ records' = IF b THEN [p \in DOMAIN records |->
                                 pruneRecordsBeforeTimeButNewest(records[p], t - KeepPeriod)]
                    ELSE records
  BY DEF BeginBlock
<1>2. now \in Int /\ t \in Int /\ t > now /\ t \in Nat \ {0}
  <2>1. now \in Nat \ {0}
    BY <1>0 DEF StoresOK
  <2> QED
    BY <2>1, TimeAssumption
<1>3. /\ DOMAIN past' = DOMAIN quote /\ DOMAIN records' = DOMAIN quote
      /\ \A p \in DOMAIN quote :
           /\ past'[p] = Write(past[p], Constantly(now + 1 .. t, past[p][now]))
           /\ records'[p] = IF b THEN pruneRecordsBeforeTimeButNewest(records[p], t - KeepPeriod)
                            ELSE records[p]
  BY <1>0, <1>1 DEF StoresOK
<1>4. StoresOK'
  BY <1>0, <1>1, <1>2, <1>3 DEF StoresOK
<1>5. ChangesOK'
  <2>1. changed = {}
    BY <1>0, <1>1 DEF ChangesOK
  <2>2. ASSUME NEW p \in DOMAIN quote
        PROVE  quote[p] = past'[p][t]
    <3>1. quote[p] = past[p][now]
      BY <1>0, <2>1 DEF ChangesOK
    <3>2. t \in now + 1 .. t
      BY <1>2
    <3> QED
      BY <1>3, <3>1, <3>2 DEF Write, Constantly
  <2> QED
    BY <1>1, <2>1, <2>2 DEF ChangesOK
<1>6. PairsOK'
  <2> SUFFICES ASSUME NEW p \in DOMAIN quote
               PROVE  HistoryOK(t, TRUE, recent[p], records'[p], past'[p])
    BY <1>1 DEF PairsOK, PairOK
  <2>1. HistoryOK(now, inBlock, recent[p], records[p], past[p])
    BY <1>0 DEF PairsOK, PairOK
  <2>2. HistoryOK(t, TRUE, recent[p], records[p], past'[p])
    <3>1. t \in Int /\ t > now
      BY <1>2
    <3>2. HistoryOK(t, TRUE, recent[p], records[p],
                    Write(past[p], Constantly(now + 1 .. t, past[p][now])))
      BY <2>1, <3>1, BeginOK
    <3> QED
      BY <1>3, <3>2
  <2>3. t - KeepPeriod \in Int /\ t - KeepPeriod <= t - KeepPeriod
    BY <1>2, TimeAssumption
  <2>4. HistoryOK(t, TRUE, recent[p], pruneRecordsBeforeTimeButNewest(records[p], t - KeepPeriod), past'[p])
    BY <2>2, <2>3, PruneOK
  <2> QED
    BY <1>3, <2>2, <2>4
<1> QED
  BY <1>4, <1>5, <1>6 DEF Inv

\* The chain is exported and restarted.
LEMMA RestartOK ==
  ASSUME Inv, Restart
  PROVE  Inv'
<1>0. StoresOK /\ ChangesOK /\ PairsOK
  BY DEF Inv
<1>1. /\ ~inBlock /\ now' = now /\ inBlock' = inBlock /\ quote' = quote /\ records' = records
      /\ past' = past /\ changed' = {}
      /\ recent' = [p \in DOMAIN records |-> records[p][Max(DOMAIN records[p])]]
  BY DEF Restart
<1>2. ASSUME NEW p \in DOMAIN quote
      PROVE  recent'[p] = recent[p]
  <2>1. PairOK(p)
    BY <1>0 DEF PairsOK
  <2>2. /\ now \in Int /\ IsHistory(now, past[p]) /\ RecordsOK(records[p], past[p])
        /\ LastOK(recent[p], records[p])
    BY <2>1 DEF PairOK, HistoryOK
  <2>3. Max(DOMAIN records[p]) = recent[p].time
    BY <2>2, LastIsMax
  <2>4. recent'[p] = records[p][Max(DOMAIN records[p])]
    BY <1>0, <1>1 DEF StoresOK
  <2> QED
    BY <2>2, <2>3, <2>4 DEF LastOK
<1>3. StoresOK'
  BY <1>0, <1>1 DEF StoresOK
<1>4. ChangesOK'
  BY <1>0, <1>1 DEF ChangesOK
<1>5. PairsOK'
  BY <1>0, <1>1, <1>2 DEF PairsOK, PairOK
<1> QED
  BY <1>3, <1>4, <1>5 DEF Inv

\* Every step keeps the invariant.
LEMMA NextOK == Inv /\ [Next]_vars => Inv'
<1> SUFFICES ASSUME Inv, [Next]_vars PROVE Inv'
  OBVIOUS
<1>1. ASSUME NEW pool \in Pools, NEW q \in [PairsOf(pool) -> Quotes], afterCreatePool(pool, q)
      PROVE  Inv'
  BY <1>1, CreatePoolOK
<1>2. ASSUME NEW pool \in Pools, NEW q \in [PairsOf(pool) -> Quotes], trackChangedPool(pool, q)
      PROVE  Inv'
  BY <1>2, TrackOK
<1>3. CASE EndBlock
  BY <1>3, EndBlockOK
<1>4. ASSUME NEW t \in now + 1 .. MaxTime, NEW b \in BOOLEAN, BeginBlock(t, b)
      PROVE  Inv'
  BY <1>4, BeginBlockOK
<1>5. CASE Restart
  BY <1>5, RestartOK
<1>6. CASE UNCHANGED vars
  BY <1>6 DEF vars, Inv, StoresOK, ChangesOK, PairsOK, PairOK
<1> QED
  BY <1>1, <1>2, <1>3, <1>4, <1>5, <1>6 DEF Next

\* The invariant holds throughout.
THEOREM InvHolds == Spec => []Inv
BY InitOK, NextOK, PTL DEF Spec

----------------------------------------------------------------------------
(* The properties                                                          *)

\* A query whose interval is within the time that is kept is never refused: the
\* records that pruneRecords leaves reach back far enough (KeptIsQueryable).
THEOREM KeptSafety == Spec => []KeptIsQueryable
<1>1. Inv => KeptIsQueryable
  <2> SUFFICES ASSUME Inv, NEW p \in DOMAIN quote, NEW start \in 1 .. now,
                      start \in DOMAIN past[p], start >= now - KeepPeriod
               PROVE  CanGetTwap(p, start, now)
    BY DEF KeptIsQueryable
  <2>1. KeepsPeriod(now, records[p], past[p]) /\ now \in Int
    BY DEF Inv, PairsOK, PairOK, HistoryOK
  <2>2. \E m \in DOMAIN records[p] : m <= start
    BY <2>1 DEF KeepsPeriod
  <2> QED
    BY <2>1, <2>2 DEF CanGetTwap, HasRecordAtOrBefore
<1> QED
  BY <1>1, InvHolds, PTL

\* An error at any time of an interval is reported by a query over it (ErrorIsReported).
THEOREM ErrorSafety == Spec => []ErrorIsReported
<1>1. Inv => ErrorIsReported
  <2> SUFFICES ASSUME Inv, NEW p \in DOMAIN quote, NEW start \in 1 .. now, NEW end \in 1 .. now,
                      CanGetTwap(p, start, end), NEW u \in start .. end, IsError(past[p][u])
               PROVE  getTwap(p, start, end).err
    BY DEF ErrorIsReported
  <2> DEFINE s == getInterpolatedRecord(p, start)
             e == EndRecord(p, end)
  <2>1. PairOK(p) /\ start \in Int /\ end \in Int
    BY DEF Inv, PairsOK
  <2>2. s.time = start /\ (start <= e.err \/ s.err = start)
    BY <2>1, Interval
  <2>3. getTwap(p, start, end).err = (e.err >= s.time \/ s.err = s.time)
    BY DEF getTwap, computeTwap
  <2>4. e.err \in Int
    BY <2>1, Interval DEF Record
  <2> HIDE DEF s, e
  <2> QED
    BY <2>1, <2>2, <2>3, <2>4
<1> QED
  BY <1>1, InvHolds, PTL

\* A query over any interval that is kept gives the average of the prices in effect
\* at the ends of blocks, and zero for a geometric average of one (TwapIsAverage).
THEOREM AverageSafety == Spec => []TwapIsAverage
<1>1. Inv => TwapIsAverage
  <2> SUFFICES ASSUME Inv, NEW p \in DOMAIN quote, NEW start \in 1 .. now, NEW end \in 1 .. now,
                      CanGetTwap(p, start, end)
               PROVE  IsAverage(getTwap(p, start, end), p, start, end)
    BY DEF TwapIsAverage
  <2> DEFINE s == getInterpolatedRecord(p, start)
             e == EndRecord(p, end)
             h == past[p]
             twap == getTwap(p, start, end)
             S == start .. (end - 1)
             spot0 == [t \in start .. end |-> SpotPrice(h[t][1])]
             spot1 == [t \in start .. end |-> SpotPrice(h[t][2])]
             logs == [t \in S |-> Log[SpotPrice(h[t][1])]]
  <2>1. PairOK(p) /\ start \in Int /\ end \in Int
    BY DEF Inv, PairsOK
  <2>2. /\ \A u \in start .. end : u \in DOMAIN h
        /\ s.time = start /\ e.time = end /\ e \in Record
        /\ e.sp0 = SpotPrice(h[end][1]) /\ e.sp1 = SpotPrice(h[end][2])
        /\ \A k \in 1 .. 3 : Acc(e, k) - Acc(s, k) = Total(h, k, start, end)
        /\ \A u \in start .. end : IsError(h[u]) => start <= e.err \/ s.err = start
    BY <2>1, Interval
  <2>3. /\ twap.last = (IF s.time = e.time THEN <<e.sp0, e.sp1>> ELSE <<>>)
        /\ twap.sum0 = e.acc0 - s.acc0 /\ twap.sum1 = e.acc1 - s.acc1
        /\ twap.geometric = geometricComputeTwap(s, e)
        /\ twap.err = (e.err >= s.time \/ s.err = s.time)
    BY DEF getTwap, computeTwap
  <2> HIDE DEF s, e, twap
  <2>4. /\ twap.sum0 = SumFunctionOnSet(Rates(h, 1), S) /\ twap.sum1 = SumFunctionOnSet(Rates(h, 2), S)
        /\ e.geo - s.geo = SumFunctionOnSet(Rates(h, 3), S)
    <3>1. /\ e.acc0 - s.acc0 = Total(h, 1, start, end)
          /\ e.acc1 - s.acc1 = Total(h, 2, start, end)
          /\ e.geo - s.geo = Total(h, 3, start, end)
      BY <2>2 DEF Acc
    <3> QED
      BY <2>3, <3>1 DEF Total
  <2>5. IsFiniteSet(S) /\ \A t \in S : t \in start .. end
    BY <2>1, FS_Interval
  <2>6. twap.sum0 = SumFunctionOnSet(spot0, S)
    <3>1. \A t \in S : Rates(h, 1)[t] = spot0[t]
      BY <2>2, <2>5 DEF Rates, Rate
    <3> HIDE DEF spot0, S
    <3> QED
      BY <2>4, <2>5, <3>1, SumEqual
  <2>7. twap.sum1 = SumFunctionOnSet(spot1, S)
    <3>1. \A t \in S : Rates(h, 2)[t] = spot1[t]
      BY <2>2, <2>5 DEF Rates, Rate
    <3> HIDE DEF spot1, S
    <3> QED
      BY <2>4, <2>5, <3>1, SumEqual
  <2>8. ASSUME ~ twap.err
        PROVE  e.geo - s.geo = SumFunction(logs)
    <3>1. ASSUME NEW t \in S
          PROVE  SpotPrice(h[t][1]) # 0
      <4>1. t \in start .. end /\ t \in DOMAIN h
        BY <2>2, <2>5
      <4>2. e.err \in Int
        BY <2>2 DEF Record
      <4>3. ~ IsError(h[t])
        BY <2>1, <2>2, <2>3, <2>8, <4>1, <4>2
      <4>4. h[t] \in Quotes
        BY <2>1, <4>1, HistoryTimes DEF PairOK, HistoryOK
      <4> QED
        BY <4>3, <4>4, SpotPriceOK
    <3>2. \A t \in S : Rates(h, 3)[t] = logs[t]
      BY <2>2, <2>5, <3>1 DEF Rates, Rate
    <3>3. DOMAIN logs = S
      OBVIOUS
    <3> HIDE DEF logs, S
    <3>4. SumFunctionOnSet(Rates(h, 3), S) = SumFunctionOnSet(logs, S)
      BY <2>5, <3>2, SumEqual
    <3> QED
      BY <2>4, <3>3, <3>4 DEF SumFunction
  <2>9. ASSUME start = end
        PROVE  twap.last = <<spot0[end], spot1[end]>>
    <3>1. end \in start .. end
      BY <2>1, <2>9
    <3> QED
      BY <2>2, <2>3, <2>9, <3>1
  <2>10. SumFunction(logs) = LogSum(p, start, end)
    BY DEF LogSum
  <2>11. ASSUME ~ twap.err
         PROVE  IF LogSum(p, start, end) = 0 THEN twap.geometric = <<>>
                ELSE twap.geometric = <<LogSum(p, start, end)>>
    <3>1. LogSum(p, start, end) = e.geo - s.geo
      BY <2>8, <2>10, <2>11
    <3> QED
      BY <2>3, <3>1 DEF geometricComputeTwap
  <2> QED
    BY <2>6, <2>7, <2>9, <2>11 DEF IsAverage, twap
<1> QED
  BY <1>1, InvHolds, PTL

\* No changed pool is skipped at the end of its block.
AllChangedUpdated ==
  inBlock => \A pool \in changed : \A p \in PairsOf(pool) : CanUpdate(recent[p])

\* updateRecord never returns InvalidUpdateRecordError, over which EndBlock would skip the
\* pool and leave its old price in effect.
THEOREM UpdatesSucceed == Spec => []AllChangedUpdated
<1>1. Inv => AllChangedUpdated
  <2> SUFFICES ASSUME Inv, inBlock, NEW pool \in changed, NEW p \in PairsOf(pool)
               PROVE  CanUpdate(recent[p])
    BY DEF AllChangedUpdated
  <2>1. PairOK(p)
    BY DEF Inv, ChangesOK, PairsOK
  <2> QED
    BY <2>1, NeverSkipped
<1> QED
  BY <1>1, InvHolds, PTL

----------------------------------------------------------------------------
(* The ends of epochs                                                      *)

WeightRecords == UNION {[D -> Nat] : D \in SUBSET Nat}

Stores ==
  [gauges : Seq(Gauge), upcoming : SUBSET Nat, active : SUBSET Nat, finished : SUBSET Nat,
   byDenom : SUBSET Nat, provisions : Nat, lastReduction : Nat, records : WeightRecords,
   bank : [Accounts -> Int], supply : Int, offset : Int]

\* A gauge has not paid more than it has, nor more often than it may, nor before its
\* start; what is left after the last payment is dust.
Dust(g) ==
  ~g.perpetual /\ g.filled = g.numEpochs =>
    IF g.noLock THEN remainCoins(g) = 0 ELSE remainCoins(g) < Cardinality(DOMAIN Locks)
GaugeOK(g, t) ==
  /\ g.distributed <= g.coins
  /\ ~g.perpetual => g.filled <= g.numEpochs
  /\ g.filled > 0 => g.startTime <= t
  /\ Dust(g)

GaugesOK(gauges, t) == \A id \in DOMAIN gauges : GaugeOK(gauges[id], t)

\* Every gauge is in one queue.
QueuesOK(s, t) ==
  /\ DOMAIN s.gauges = s.upcoming \cup s.active \cup s.finished
  /\ s.upcoming \cap s.active = {} /\ s.upcoming \cap s.finished = {} /\ s.active \cap s.finished = {}
  /\ \A id \in s.active : s.gauges[id].startTime <= t

Remains(gauges) ==
  SumFunctionOnSet([id \in DOMAIN gauges |-> remainCoins(gauges[id])], DOMAIN gauges)

DistrRecordsOK(s) ==
  /\ IsFiniteSet(DOMAIN s.records)
  /\ \A id \in DOMAIN s.records : id # 0 => id \in DOMAIN s.gauges /\ s.gauges[id].perpetual

Accounted(s) ==
  /\ s.supply = SumFunctionOnSet(s.bank, Accounts)
  /\ s.offset = -s.bank[DeveloperVesting]
  /\ s.bank[MintModule] = 0

NonNegative(bank) == \A a \in Accounts : bank[a] >= 0

\* The inductive invariant of the stores at time t
StoreOK(s, t) ==
  /\ s \in Stores
  /\ GaugesOK(s.gauges, t)
  /\ QueuesOK(s, t)
  /\ DistrRecordsOK(s)
  /\ s.bank[Module] = Remains(s.gauges)
  /\ Accounted(s)
  /\ NonNegative(s.bank)

Destinations == {NoReceiver} \cup Owners \cup Receivers

EpochsOK ==
  /\ blockTime \in 0 .. MaxBlockTime
  /\ epochs \in [Identifiers -> EpochInfo]
  /\ locked \subseteq DOMAIN Locks
  /\ receiver \in [DOMAIN Locks -> Destinations]

HooksInv == EpochsOK /\ StoreOK(st, blockTime)

LEMMA MaxOfFinite ==
  ASSUME NEW S, IsFiniteSet(S), S \subseteq Int, S # {}
  PROVE  Max(S) \in S /\ \A x \in S : x <= Max(S)
<1> DEFINE Has(s) == \E m \in s : \A y \in s : m >= y
           Bad == {s \in SUBSET S : s # {} /\ ~ Has(s)}
<1>1. ASSUME Bad # {} PROVE FALSE
  <2>1. PICK s \in Bad : \A t \in SUBSET s : t # s => t \notin Bad
    <3>1. Bad \subseteq SUBSET S
      OBVIOUS
    <3> HIDE DEF Bad
    <3> QED
      BY <1>1, <3>1, MinimalSet
  <2>2. PICK x \in s : TRUE
    BY <2>1
  <2>3. x \in Int /\ s \in SUBSET S
    OBVIOUS
  <2>4. CASE s \ {x} = {}
    <3>1. Has(s)
      BY <2>2, <2>3, <2>4
    <3> QED
      BY <2>1, <3>1
  <2>5. CASE s \ {x} # {}
    <3>1. Has(s \ {x})
      BY <2>1, <2>2, <2>5
    <3>2. PICK m \in s \ {x} : \A y \in s \ {x} : m >= y
      BY <3>1
    <3>3. m \in Int /\ \A y \in s : y \in Int /\ (y = x \/ y \in s \ {x})
      BY <2>3
    <3>4. Has(s)
      <4>1. CASE m >= x
        BY <3>2, <3>3, <4>1
      <4>2. CASE ~ (m >= x)
        <5>1. \A y \in s : x >= y
          BY <2>3, <3>2, <3>3, <4>2
        <5> QED
          BY <2>2, <5>1
      <4> QED
        BY <4>1, <4>2
    <3> QED
      BY <2>1, <3>4
  <2> QED
    BY <2>4, <2>5
<1>2. Has(S)
  BY <1>1
<1>3. PICK m \in S : \A y \in S : m >= y
  BY <1>2
<1>4. Max(S) \in S /\ \A y \in S : Max(S) >= y
  BY <1>3 DEF Max
<1> QED
  BY <1>4

----------------------------------------------------------------------------
(* The bank                                                                *)

LEMMA FiniteImage ==
  ASSUME NEW S, IsFiniteSet(S), NEW f
  PROVE  IsFiniteSet({f[x] : x \in S})
<1> DEFINE T == {f[x] : x \in S}
           g == [x \in S |-> f[x]]
<1>1. g \in Surjection(S, T)
  BY DEF Surjection
<1> HIDE DEF g
<1> QED
  BY <1>1, FS_Surjection

LEMMA AccountsFinite == IsFiniteSet(Accounts) /\ IsFiniteSet(Owners)
<1>1. IsFiniteSet(Owners)
  <2> DEFINE f == [l \in DOMAIN Locks |-> Locks[l].owner]
             Im == {f[l] : l \in DOMAIN Locks}
  <2>1. Owners = Im
    BY DEF Owners
  <2>2. IsFiniteSet(DOMAIN Locks)
    BY LocksAssumption
  <2> HIDE DEF f
  <2> QED
    BY <2>1, <2>2, FiniteImage
<1>2. IsFiniteSet(Developers)
  <2> DEFINE f == [i \in DOMAIN DeveloperReceivers |-> DeveloperReceivers[i].address]
             All == {f[i] : i \in DOMAIN DeveloperReceivers}
  <2>0. Developers = All \ {NoReceiver}
    BY DEF Developers
  <2>1. IsFiniteSet(All)
    <3>1. IsFiniteSet(DOMAIN DeveloperReceivers)
      BY DeveloperReceiversAssumption
    <3> HIDE DEF f
    <3> QED
      BY <3>1, FiniteImage
  <2> HIDE DEF All
  <2> QED
    BY <2>0, <2>1, FS_Subset
<1>3. IsFiniteSet(Users)
  BY <1>1, <1>2, SponsorsAssumption, FS_Union DEF Users
<1>4. IsFiniteSet(ModuleAccounts)
  <2>1. IsFiniteSet({}) /\ \A S, x : IsFiniteSet(S) => IsFiniteSet(S \cup {x})
    BY FS_EmptySet, FS_AddElement
  <2>2. ModuleAccounts = {} \cup {Module} \cup {Pool} \cup {CommunityPool} \cup {MintModule}
                            \cup {FeeCollector} \cup {PoolIncentivesModule} \cup {DeveloperVesting}
    BY DEF ModuleAccounts
  <2> QED
    BY <2>1, <2>2
<1> QED
  BY <1>1, <1>3, <1>4, FS_Union DEF Accounts

\* The modules' accounts are different ones, and none is a user's.
LEMMA ModulesDiffer ==
  /\ Module # Pool /\ Module # CommunityPool /\ Module # MintModule /\ Module # FeeCollector
  /\ Module # PoolIncentivesModule /\ Module # DeveloperVesting
  /\ MintModule # FeeCollector /\ MintModule # PoolIncentivesModule /\ MintModule # CommunityPool
  /\ MintModule # DeveloperVesting /\ MintModule # Pool
  /\ PoolIncentivesModule # CommunityPool /\ PoolIncentivesModule # DeveloperVesting
  /\ PoolIncentivesModule # FeeCollector /\ PoolIncentivesModule # Pool
  /\ DeveloperVesting # CommunityPool /\ DeveloperVesting # Pool /\ DeveloperVesting # FeeCollector
BY DEF Module, Pool, CommunityPool, MintModule, FeeCollector, PoolIncentivesModule, DeveloperVesting

LEMMA ModulesAre ==
  /\ {Module, Pool, CommunityPool, MintModule, FeeCollector, PoolIncentivesModule, DeveloperVesting} \subseteq Accounts
  /\ \A u \in Users : /\ u \in Accounts /\ u # Module /\ u # Pool /\ u # CommunityPool /\ u # MintModule
                      /\ u # FeeCollector /\ u # PoolIncentivesModule /\ u # DeveloperVesting
<1>1. \A u \in Users : \A m \in ModuleAccounts : u # m
  BY AccountsAssumption
<1> QED
  BY <1>1 DEF Accounts, ModuleAccounts

Balances == [Accounts -> Int]

WithBank(s, b) == [s EXCEPT !.bank = b]

\* A transfer keeps the sum of the balances.
LEMMA MovedFacts ==
  ASSUME NEW b \in Balances, NEW from \in Accounts, NEW to \in Accounts, from # to, NEW amount \in Int
  PROVE  LET c == Moved(b, from, to, amount)
         IN  /\ c \in Balances
             /\ c[from] = b[from] - amount /\ c[to] = b[to] + amount
             /\ \A a \in Accounts : a # from /\ a # to => c[a] = b[a]
             /\ SumFunctionOnSet(c, Accounts) = SumFunctionOnSet(b, Accounts)
<1> DEFINE m == [b EXCEPT ![from] = @ - amount]
           c == [m EXCEPT ![to] = @ + amount]
<1>1. Moved(b, from, to, amount) = c
  BY DEF Moved, Balances
<1>2. /\ m \in Balances /\ m[from] = b[from] - amount /\ \A a \in Accounts \ {from} : m[a] = b[a]
  BY DEF Balances
<1>3. /\ c \in Balances /\ c[to] = m[to] + amount /\ \A a \in Accounts \ {to} : c[a] = m[a]
  BY DEF Balances
<1>4. \A f \in Balances : \A a \in Accounts : f[a] \in Int
  BY DEF Balances
<1> HIDE DEF m, c
<1>5. SumFunctionOnSet(m, Accounts) = SumFunctionOnSet(b, Accounts) + m[from] - b[from]
  BY <1>2, <1>4, AccountsFinite, SumUpdate
<1>6. SumFunctionOnSet(c, Accounts) = SumFunctionOnSet(m, Accounts) + c[to] - m[to]
  BY <1>2, <1>3, <1>4, AccountsFinite, SumUpdate
<1>7. SumFunctionOnSet(b, Accounts) \in Int
  BY <1>4, AccountsFinite, SumInt
<1>8. m[to] = b[to] /\ c[from] = m[from]
  BY <1>2, <1>3
<1>9. /\ b[from] \in Int /\ b[to] \in Int
  BY <1>4
<1>10. SumFunctionOnSet(c, Accounts) = SumFunctionOnSet(b, Accounts)
  BY <1>2, <1>3, <1>5, <1>6, <1>7, <1>8, <1>9
<1>11. \A a \in Accounts : a # from /\ a # to => c[a] = b[a]
  BY <1>2, <1>3
<1> QED
  BY <1>1, <1>2, <1>3, <1>8, <1>10, <1>11

LEMMA SendIsMoved ==
  ASSUME NEW s \in Stores, NEW from, NEW to, NEW amount
  PROVE  Send(s, from, to, amount) = WithBank(s, Moved(s.bank, from, to, amount))
BY DEF Send, WithBank

LEMMA WithBankFacts ==
  ASSUME NEW s \in Stores, NEW b \in Balances
  PROVE  /\ WithBank(s, b) \in Stores /\ WithBank(s, b).bank = b
         /\ \A c : WithBank(WithBank(s, b), c) = WithBank(s, c)
         /\ WithBank(s, s.bank) = s /\ s.bank \in Balances
         /\ WithBank(s, b).gauges = s.gauges /\ WithBank(s, b).upcoming = s.upcoming
         /\ WithBank(s, b).active = s.active /\ WithBank(s, b).finished = s.finished
         /\ WithBank(s, b).records = s.records /\ WithBank(s, b).supply = s.supply
         /\ WithBank(s, b).offset = s.offset /\ WithBank(s, b).provisions = s.provisions
         /\ WithBank(s, b).lastReduction = s.lastReduction /\ WithBank(s, b).byDenom = s.byDenom
BY DEF WithBank, Stores, Balances

LEMMA StoreBank ==
  ASSUME NEW s \in Stores
  PROVE  /\ s.bank \in Balances /\ WithBank(s, s.bank) = s
         /\ \A a \in Accounts : s.bank[a] \in Int
BY DEF WithBank, Stores, Balances

----------------------------------------------------------------------------
(* Several sends                                                           *)

PaymentsOK(from, p) ==
  /\ IsFiniteSet(DOMAIN p)
  /\ \A k \in DOMAIN p : p[k].to \in Accounts /\ p[k].to # from /\ p[k].amount \in Nat

AmountsOf(p) == [k \in DOMAIN p |-> p[k].amount]

\* r is what s becomes by the payments in K of p.
Paid(s, from, p, K, r) ==
  /\ r = WithBank(s, r.bank) /\ r.bank \in Balances
  /\ SumFunctionOnSet(r.bank, Accounts) = SumFunctionOnSet(s.bank, Accounts)
  /\ r.bank[from] = s.bank[from] - SumFunctionOnSet(AmountsOf(p), K)
  /\ \A a \in Accounts : a # from => r.bank[a] >= s.bank[a]
  /\ \A a \in Accounts : a # from /\ (\A k \in DOMAIN p : p[k].to # a) => r.bank[a] = s.bank[a]

SendStep(from, p, k, s) == Send(s, from, p[k].to, p[k].amount)

LEMMA SendStepOK ==
  ASSUME NEW s \in Stores, NEW from \in Accounts, NEW p, PaymentsOK(from, p), NEW K \in SUBSET DOMAIN p,
         NEW k \in K, NEW r \in Stores, Paid(s, from, p, K \ {k}, r)
  PROVE  SendStep(from, p, k, r) \in Stores /\ Paid(s, from, p, K, SendStep(from, p, k, r))
<1> DEFINE to == p[k].to
           amount == p[k].amount
           q == SendStep(from, p, k, r)
           b == Moved(r.bank, from, to, amount)
           f == AmountsOf(p)
<1>1. to \in Accounts /\ to # from /\ amount \in Nat /\ amount \in Int /\ f[k] = amount
  BY DEF PaymentsOK, AmountsOf
<1>2. /\ r = WithBank(s, r.bank) /\ r.bank \in Balances
      /\ SumFunctionOnSet(r.bank, Accounts) = SumFunctionOnSet(s.bank, Accounts)
      /\ r.bank[from] = s.bank[from] - SumFunctionOnSet(f, K \ {k})
      /\ \A a \in Accounts : a # from => r.bank[a] >= s.bank[a]
      /\ \A a \in Accounts : a # from /\ (\A i \in DOMAIN p : p[i].to # a) => r.bank[a] = s.bank[a]
  BY DEF Paid
<1>3. q = WithBank(r, b)
  BY SendIsMoved DEF SendStep
<1> HIDE DEF to, amount, q, f
<1>4. /\ b \in Balances /\ b[from] = r.bank[from] - amount /\ b[to] = r.bank[to] + amount
      /\ \A a \in Accounts : a # from /\ a # to => b[a] = r.bank[a]
      /\ SumFunctionOnSet(b, Accounts) = SumFunctionOnSet(r.bank, Accounts)
  BY <1>1, <1>2, MovedFacts
<1> HIDE DEF b
<1>5. q \in Stores /\ q.bank = b /\ q = WithBank(s, b)
  BY <1>2, <1>3, <1>4, WithBankFacts
<1>6. SumFunctionOnSet(f, K) = amount + SumFunctionOnSet(f, K \ {k}) /\ SumFunctionOnSet(f, K \ {k}) \in Int
  <2>1. IsFiniteSet(K) /\ IsFiniteSet(K \ {k}) /\ \A x \in K : f[x] \in Int
    BY FS_Subset DEF PaymentsOK, f, AmountsOf
  <2> QED
    BY <1>1, <2>1, SumRemove, SumInt
<1>7. /\ s.bank[from] \in Int /\ \A a \in Accounts : s.bank[a] \in Int /\ r.bank[a] \in Int
  BY <1>2, StoreBank DEF Balances
<1>8. b[from] = s.bank[from] - SumFunctionOnSet(f, K)
  BY <1>1, <1>2, <1>4, <1>6, <1>7
<1>9. \A a \in Accounts : a # from => b[a] >= s.bank[a]
  BY <1>1, <1>2, <1>4, <1>7
<1>10. \A a \in Accounts : a # from /\ (\A i \in DOMAIN p : p[i].to # a) => b[a] = s.bank[a]
  BY <1>2, <1>4 DEF to
<1> QED
  BY <1>2, <1>4, <1>5, <1>8, <1>9, <1>10 DEF Paid, q, f

SendsAll(from, p, s, run) ==
  run = [K \in SUBSET DOMAIN p |-> IF K = {} THEN s
           ELSE Send(run[K \ {CHOOSE k \in K : TRUE}], from,
                     p[CHOOSE k \in K : TRUE].to, p[CHOOSE k \in K : TRUE].amount)]

LEMMA SendAllDef ==
  ASSUME NEW s, NEW from, NEW p
  PROVE  SendAll(s, from, p) = (CHOOSE run : SendsAll(from, p, s, run))[DOMAIN p]
BY DEF SendAll, FoldSet, MapThenFoldSet, SendsAll

LEMMA SendAllOK ==
  ASSUME NEW s \in Stores, NEW from \in Accounts, NEW p, PaymentsOK(from, p)
  PROVE  SendAll(s, from, p) \in Stores /\ Paid(s, from, p, DOMAIN p, SendAll(s, from, p))
<1> DEFINE S == DOMAIN p
           Q == {q \in (SUBSET S) \X Stores : Paid(s, from, p, q[1], q[2])}
           F == [q \in S \X Stores |-> SendStep(from, p, q[1], q[2])]
           pick == [K \in SUBSET S |-> CHOOSE k \in K : TRUE]
<1>1. IsFiniteSet(S)
  BY DEF PaymentsOK
<1>2. \A K \in SUBSET S : pick[K] = (CHOOSE k \in K : TRUE) /\ (K # {} => pick[K] \in K)
  OBVIOUS
<1> HIDE DEF pick
<1>3. \A K \in SUBSET S, r \in Stores : <<K, r>> \in Q <=> Paid(s, from, p, K, r)
  OBVIOUS
<1>4. <<{}, s>> \in Q
  <2>1. \A a \in Accounts : s.bank[a] \in Int
    BY StoreBank
  <2>2. Paid(s, from, p, {}, s)
    BY <2>1, SumEmpty, StoreBank DEF Paid
  <2> HIDE DEF Q
  <2> QED
    BY <1>3, <2>2
<1>5. ASSUME NEW K \in SUBSET S, NEW r, K # {}, <<K \ {pick[K]}, r>> \in Q
      PROVE  <<K, F[<<pick[K], r>>]>> \in Q /\ F[<<pick[K], r>>] = SendStep(from, p, pick[K], r)
  <2> DEFINE k == pick[K]
  <2>1. k \in K /\ k \in S
    BY <1>2, <1>5
  <2>2. r \in Stores /\ Paid(s, from, p, K \ {k}, r)
    BY <1>5
  <2>3. F[<<k, r>>] = SendStep(from, p, k, r)
    BY <2>1, <2>2
  <2> HIDE DEF k, F, Q
  <2>4. SendStep(from, p, k, r) \in Stores /\ Paid(s, from, p, K, SendStep(from, p, k, r))
    BY <2>1, <2>2, SendStepOK
  <2> QED
    BY <1>3, <2>3, <2>4 DEF k
<1> HIDE DEF Q, F
<1>6. Picks(pick, S) /\ Preserves(F, s, pick, S, Q)
  BY <1>2, <1>4, <1>5 DEF Picks, Preserves
<1>7. ASSUME NEW run, SendsAll(from, p, s, run)
      PROVE  \A K \in SUBSET S : <<K, run[K]>> \in Q
  <2>1. Follows(F, s, pick, S, Q, run)
    <3>1. run[{}] = s /\ \A K \in SUBSET S : K # {} => run[K] = SendStep(from, p, pick[K], run[K \ {pick[K]}])
      BY <1>2, <1>7 DEF SendsAll, SendStep
    <3> QED
      BY <1>5, <3>1 DEF Follows
  <2> QED
    BY ONLY <1>1, <1>6, <2>1, FoldInvariant
<1>8. \E run : SendsAll(from, p, s, run)
  <2>1. PICK run : IsFold(F, s, pick, S, run) /\ \A K \in SUBSET S : <<K, run[K]>> \in Q
    BY ONLY <1>1, <1>6, FoldRun
  <2>2. /\ run = [K \in SUBSET S |-> run[K]] /\ run[{}] = s
        /\ \A K \in SUBSET S : K # {} => run[K] = F[<<pick[K], run[K \ {pick[K]}]>>]
    BY <2>1 DEF IsFold
  <2>3. \A K \in SUBSET S : K # {} => run[K] = SendStep(from, p, pick[K], run[K \ {pick[K]}])
    BY <1>5, <2>1, <2>2
  <2>4. \A K \in SUBSET S : run[K] = IF K = {} THEN s
           ELSE Send(run[K \ {CHOOSE k \in K : TRUE}], from,
                     p[CHOOSE k \in K : TRUE].to, p[CHOOSE k \in K : TRUE].amount)
    BY <1>2, <2>2, <2>3 DEF SendStep
  <2>5. SendsAll(from, p, s, run)
    BY <2>2, <2>4 DEF SendsAll
  <2> QED
    BY <2>5
<1>9. <<S, SendAll(s, from, p)>> \in Q
  BY <1>7, <1>8, SendAllDef
<1> QED
  BY <1>9 DEF Q

----------------------------------------------------------------------------
(* What a gauge pays at the end of an epoch                                *)

LEMMA QuotientFacts ==
  ASSUME NEW a \in Nat, NEW b \in Nat \ {0}
  PROVE  a \div b \in Nat /\ b * (a \div b) <= a /\ a < b * (a \div b) + b
OBVIOUS

LEMMA ProductCancels ==
  ASSUME NEW a \in Nat \ {0}, NEW x \in Int, NEW y \in Int
  PROVE  (a * x <= a * y => x <= y) /\ (a * x < a * y => x < y)
OBVIOUS

LEMMA ProductNat ==
  ASSUME NEW a \in Nat, NEW b \in Nat
  PROVE  /\ a * b \in Nat /\ (a # 0 /\ b # 0 => a * b # 0) /\ a * b = b * a
         /\ a # 0 => b <= a * b
OBVIOUS

LEMMA ProductAssociates ==
  ASSUME NEW a \in Int, NEW b \in Int, NEW c \in Int
  PROVE  (a * b) * c = a * (b * c)
OBVIOUS

\* What all locks get is not more than there is for the epoch, and what is left over is
\* less than one coin for each of them.
LEMMA SharesFacts ==
  ASSUME NEW f, NEW w, NEW S, IsFiniteSet(S), S # {}, NEW R \in Nat, NEW e \in Nat \ {0},
         \A x \in S : w[x] \in Nat \ {0},
         \A x \in S : f[x] = (R * w[x]) \div (SumFunctionOnSet(w, S) * e)
  PROVE  /\ \A x \in S : f[x] \in Nat
         /\ SumFunctionOnSet(f, S) \in Nat /\ SumFunctionOnSet(f, S) <= R
         /\ e = 1 => R - SumFunctionOnSet(f, S) < Cardinality(S)
<1> DEFINE A == SumFunctionOnSet(w, S)
           K == A * e
           T == SumFunctionOnSet(f, S)
           n == Cardinality(S)
<1>1. A \in Nat \ {0}
  <2>1. PICK x : x \in S
    OBVIOUS
  <2>2. A = w[x] + SumFunctionOnSet(w, S \ {x})
    BY <2>1, SumRemove
  <2>3. IsFiniteSet(S \ {x}) /\ SumFunctionOnSet(w, S \ {x}) \in Nat
    BY FS_Subset, SumNat
  <2> QED
    BY <2>1, <2>2, <2>3
<1>2. \A x \in S : f[x] = (R * w[x]) \div K
  OBVIOUS
<1> HIDE DEF A
<1>3. K \in Nat \ {0}
  BY <1>1, ProductNat
<1> HIDE DEF K
<1>4. \A x \in S : f[x] \in Nat /\ K * f[x] <= R * w[x] /\ R * w[x] < K * f[x] + K
  <2> SUFFICES ASSUME NEW x \in S PROVE f[x] \in Nat /\ K * f[x] <= R * w[x] /\ R * w[x] < K * f[x] + K
    OBVIOUS
  <2> DEFINE y == R * w[x]
  <2>1. y \in Nat /\ f[x] = y \div K
    BY <1>2, ProductNat
  <2> HIDE DEF y
  <2>2. f[x] \in Nat /\ K * f[x] <= y /\ y < K * f[x] + K
    BY <1>3, <2>1, QuotientFacts
  <2> QED
    BY <2>2 DEF y
<1>5. T \in Nat /\ n \in Nat
  BY <1>4, SumNat, FS_CardinalityType
<1>6. K * T <= R * A /\ R * A < K * T + K * n
  <2>1. /\ R \in Int /\ K \in Int /\ \A x \in S : f[x] \in Int /\ w[x] \in Int
        /\ \A x \in S : K * f[x] <= R * w[x] /\ R * w[x] < K * f[x] + K
    BY <1>3, <1>4
  <2>2. /\ K * SumFunctionOnSet(f, S) <= R * SumFunctionOnSet(w, S)
        /\ R * SumFunctionOnSet(w, S) < K * SumFunctionOnSet(f, S) + K * Cardinality(S)
    BY ONLY <2>1, SumOfQuotients, IsFiniteSet(S), S # {}
  <2> QED
    BY <2>2 DEF A
<1> HIDE DEF T, n
<1>7. K * T = A * (e * T) /\ K * n = A * (e * n) /\ R * A = A * R
  BY <1>1, <1>5, ProductAssociates, ProductNat DEF K
<1>8. e * T \in Nat /\ e * n \in Nat /\ T <= e * T
  BY <1>5, ProductNat
<1>9. e * T <= R
  BY <1>1, <1>6, <1>7, <1>8, ProductCancels
<1>10. ASSUME e = 1 PROVE R - T < n
  <2>1. A * (e * T) = A * T /\ A * (e * n) = A * n
    BY <1>5, <1>10
  <2>2. A * (T + n) = A * T + A * n
    BY <1>1, <1>5, Distributes
  <2>3. A * R < A * (T + n)
    BY <1>6, <1>7, <2>1, <2>2
  <2>4. R < T + n
    BY <1>1, <1>5, <2>3, ProductCancels
  <2> QED
    BY <1>5, <2>4
<1> QED
  BY <1>4, <1>5, <1>8, <1>9, <1>10 DEF T, n

PaidGauge(g, amount) == [g EXCEPT !.filled = @ + 1, !.distributed = @ + amount]
Regauged(gs, id, g) == [gs EXCEPT ![id] = g]
WithGauges(s, gs) == [s EXCEPT !.gauges = gs]

LEMMA WithGaugesFacts ==
  ASSUME NEW s \in Stores, NEW gs \in Seq(Gauge)
  PROVE  /\ WithGauges(s, gs) \in Stores /\ WithGauges(s, gs).gauges = gs
         /\ WithGauges(s, gs).bank = s.bank /\ WithGauges(s, gs).upcoming = s.upcoming
         /\ WithGauges(s, gs).active = s.active /\ WithGauges(s, gs).finished = s.finished
         /\ WithGauges(s, gs).records = s.records /\ WithGauges(s, gs).supply = s.supply
         /\ WithGauges(s, gs).offset = s.offset /\ WithGauges(s, gs).provisions = s.provisions
         /\ WithGauges(s, gs).lastReduction = s.lastReduction /\ WithGauges(s, gs).byDenom = s.byDenom
         /\ s.gauges \in Seq(Gauge) /\ WithGauges(s, s.gauges) = s
BY DEF WithGauges, Stores

LEMMA RegaugedFacts ==
  ASSUME NEW gs \in Seq(Gauge), NEW id \in DOMAIN gs, NEW g \in Gauge
  PROVE  /\ Regauged(gs, id, g) \in Seq(Gauge) /\ DOMAIN Regauged(gs, id, g) = DOMAIN gs
         /\ Len(Regauged(gs, id, g)) = Len(gs)
         /\ Regauged(gs, id, g)[id] = g
         /\ \A i \in DOMAIN gs : i # id => Regauged(gs, id, g)[i] = gs[i]
BY DEF Regauged

LEMMA UpdateGauge ==
  ASSUME NEW s \in Stores, NEW id \in DOMAIN s.gauges, NEW amount
  PROVE  updateGaugePostDistribute(s, id, amount) =
           WithGauges(s, Regauged(s.gauges, id, PaidGauge(s.gauges[id], amount)))
BY DEF updateGaugePostDistribute, WithGauges, Regauged, PaidGauge, Stores

\* A list of gauges, with finitely many indices
LEMMA GaugesAre ==
  ASSUME NEW gs \in Seq(Gauge)
  PROVE  /\ IsFiniteSet(DOMAIN gs) /\ DOMAIN gs = 1 .. Len(gs) /\ Len(gs) \in Nat
         /\ \A id \in DOMAIN gs : gs[id] \in Gauge /\ remainCoins(gs[id]) \in Int /\ id \in Nat
<1>1. DOMAIN gs = 1 .. Len(gs) /\ Len(gs) \in Nat
  OBVIOUS
<1>2. IsFiniteSet(DOMAIN gs)
  BY <1>1, FS_Interval
<1>3. \A id \in DOMAIN gs : gs[id] \in Gauge
  OBVIOUS
<1>4. \A g \in Gauge : remainCoins(g) \in Int
  BY DEF Gauge, remainCoins
<1> QED
  BY <1>1, <1>2, <1>3, <1>4

\* What the gauges have yet to pay when one of them changes, and when one is added
LEMMA RemainsRegauged ==
  ASSUME NEW gs \in Seq(Gauge), NEW id \in DOMAIN gs, NEW g \in Gauge
  PROVE  /\ Remains(Regauged(gs, id, g)) = Remains(gs) + remainCoins(g) - remainCoins(gs[id])
         /\ Remains(gs) \in Int
<1> DEFINE hs == Regauged(gs, id, g)
           D == DOMAIN gs
           f == [i \in D |-> remainCoins(gs[i])]
           h == [i \in D |-> remainCoins(hs[i])]
<1>1. IsFiniteSet(D) /\ \A i \in D : f[i] \in Int
  BY GaugesAre
<1>2. /\ DOMAIN hs = D /\ hs[id] = g /\ \A i \in D : i # id => hs[i] = gs[i]
  BY RegaugedFacts
<1> HIDE DEF hs
<1>3. h[id] = remainCoins(g) /\ f[id] = remainCoins(gs[id]) /\ \A i \in D \ {id} : h[i] = f[i]
  BY <1>2
<1>4. remainCoins(g) \in Int
  BY DEF Gauge, remainCoins
<1>5. Remains(hs) = SumFunctionOnSet(h, D) /\ Remains(gs) = SumFunctionOnSet(f, D)
  BY <1>2 DEF Remains
<1> HIDE DEF f, h, D
<1>6. SumFunctionOnSet(h, D) = SumFunctionOnSet(f, D) + h[id] - f[id]
  BY <1>1, <1>3, <1>4, SumUpdate DEF D
<1>7. SumFunctionOnSet(f, D) \in Int
  BY <1>1, SumInt
<1> QED
  BY <1>3, <1>5, <1>6, <1>7 DEF hs

LEMMA RemainsAppend ==
  ASSUME NEW gs \in Seq(Gauge), NEW g \in Gauge
  PROVE  Remains(Append(gs, g)) = Remains(gs) + remainCoins(g)
<1> DEFINE hs == Append(gs, g)
           n == Len(gs) + 1
           D == DOMAIN gs
           E == D \cup {n}
           f == [i \in D |-> remainCoins(gs[i])]
           h == [i \in E |-> remainCoins(hs[i])]
<1>1. IsFiniteSet(D) /\ D = 1 .. Len(gs) /\ Len(gs) \in Nat /\ \A i \in D : f[i] \in Int
  BY GaugesAre
<1>2. DOMAIN hs = E /\ hs[n] = g /\ \A i \in D : hs[i] = gs[i]
  BY <1>1
<1>3. remainCoins(g) \in Int /\ n \notin D
  BY <1>1 DEF Gauge, remainCoins
<1> HIDE DEF hs
<1>4. h[n] = remainCoins(g) /\ \A i \in D : h[i] = f[i]
  BY <1>2
<1>5. Remains(hs) = SumFunctionOnSet(h, E) /\ Remains(gs) = SumFunctionOnSet(f, D)
  BY <1>2 DEF Remains
<1> HIDE DEF f, h, D, n
<1>6. \A i \in D \cup {n} : h[i] \in Int
  BY <1>1, <1>3, <1>4
<1>7. SumFunctionOnSet(h, D \cup {n}) = SumFunctionOnSet(h, D) + h[n]
  BY <1>1, <1>3, <1>6, SumAddElement
<1>8. SumFunctionOnSet(h, D) = SumFunctionOnSet(f, D)
  BY <1>1, <1>4, SumEqual
<1> QED
  BY <1>4, <1>5, <1>7, <1>8 DEF hs

LEMMA RemainsNat ==
  ASSUME NEW gs \in Seq(Gauge), NEW t, GaugesOK(gs, t)
  PROVE  Remains(gs) \in Nat
<1> DEFINE D == DOMAIN gs
           f == [i \in D |-> remainCoins(gs[i])]
<1>1. IsFiniteSet(D)
  BY GaugesAre
<1>2. \A i \in D : f[i] \in Nat
  <2> SUFFICES ASSUME NEW i \in D PROVE remainCoins(gs[i]) \in Nat
    OBVIOUS
  <2>1. gs[i] \in Gauge /\ gs[i].distributed <= gs[i].coins
    BY GaugesAre DEF GaugesOK, GaugeOK
  <2>2. \A g \in Gauge : g.coins \in Nat /\ g.distributed \in Nat
    BY DEF Gauge
  <2>3. gs[i].coins \in Nat /\ gs[i].distributed \in Nat
    BY <2>1, <2>2
  <2> QED
    BY <2>1, <2>3 DEF remainCoins
<1> HIDE DEF f, D
<1>3. SumFunctionOnSet(f, D) \in Nat
  BY <1>1, <1>2, SumNat
<1> QED
  BY <1>3 DEF Remains, f, D

LEMMA PaidGaugeFields ==
  ASSUME NEW g \in Gauge, NEW amount \in Nat
  PROVE  LET h == PaidGauge(g, amount)
         IN  /\ h \in Gauge /\ h.perpetual = g.perpetual /\ h.noLock = g.noLock /\ h.coins = g.coins
             /\ h.startTime = g.startTime /\ h.numEpochs = g.numEpochs /\ h.duration = g.duration
             /\ h.filled = g.filled + 1 /\ h.distributed = g.distributed + amount
<1> DEFINE h == PaidGauge(g, amount)
<1>1. /\ h.perpetual = g.perpetual /\ h.noLock = g.noLock /\ h.coins = g.coins
      /\ h.startTime = g.startTime /\ h.numEpochs = g.numEpochs /\ h.duration = g.duration
  BY DEF PaidGauge, Gauge
<1>2. h.filled = g.filled + 1 /\ h.distributed = g.distributed + amount
  BY DEF PaidGauge, Gauge
<1>3. h \in Gauge
  <2>1. g.filled + 1 \in Nat /\ g.distributed + amount \in Nat
    <3>1. g.filled \in Nat /\ g.distributed \in Nat
      BY DEF Gauge
    <3> QED
      BY <3>1
  <2>2. \A x \in Nat, y \in Nat : [g EXCEPT !.filled = x, !.distributed = y] \in Gauge
    BY DEF Gauge
  <2> QED
    BY <2>1, <2>2 DEF PaidGauge
<1> QED
  BY <1>1, <1>2, <1>3

\* The gauge after a payment
LEMMA PaidGaugeOK ==
  ASSUME NEW g \in Gauge, NEW t \in Nat, GaugeOK(g, t), g.startTime <= t, remainEpochs(g) # 0,
         NEW amount \in Nat, amount <= remainCoins(g),
         remainEpochs(g) = 1 =>
           IF g.noLock THEN amount = remainCoins(g) ELSE remainCoins(g) - amount < Cardinality(DOMAIN Locks)
  PROVE  /\ PaidGauge(g, amount) \in Gauge /\ GaugeOK(PaidGauge(g, amount), t)
         /\ remainCoins(PaidGauge(g, amount)) = remainCoins(g) - amount
         /\ remainEpochs(g) \in Nat \ {0} /\ remainCoins(g) \in Nat
<1> DEFINE h == PaidGauge(g, amount)
<1>1. /\ g.perpetual \in BOOLEAN /\ g.noLock \in BOOLEAN /\ g.coins \in Nat /\ g.startTime \in Nat
      /\ g.numEpochs \in Nat \ {0} /\ g.filled \in Nat /\ g.distributed \in Nat
  BY DEF Gauge
<1>2. /\ h \in Gauge /\ h.perpetual = g.perpetual /\ h.noLock = g.noLock /\ h.coins = g.coins
      /\ h.startTime = g.startTime /\ h.numEpochs = g.numEpochs
      /\ h.filled = g.filled + 1 /\ h.distributed = g.distributed + amount
  BY PaidGaugeFields
<1>3. /\ g.distributed <= g.coins /\ (~g.perpetual => g.filled <= g.numEpochs)
  BY DEF GaugeOK
<1> HIDE DEF h
<1>4. remainCoins(h) = remainCoins(g) - amount /\ remainCoins(g) \in Nat
  BY <1>1, <1>2, <1>3 DEF remainCoins
<1>5. remainEpochs(g) \in Nat \ {0} /\ (~g.perpetual => remainEpochs(g) = g.numEpochs - g.filled)
  BY <1>1, <1>3 DEF remainEpochs
<1>6. h.distributed <= h.coins
  BY <1>1, <1>2, <1>3 DEF remainCoins
<1>7. ~h.perpetual => h.filled <= h.numEpochs
  BY <1>1, <1>2, <1>3, <1>5
<1>8. Dust(h)
  <2> SUFFICES ASSUME ~h.perpetual, h.filled = h.numEpochs
               PROVE  IF h.noLock THEN remainCoins(h) = 0 ELSE remainCoins(h) < Cardinality(DOMAIN Locks)
    BY DEF Dust
  <2>1. remainEpochs(g) = 1
    BY <1>1, <1>2, <1>5
  <2> QED
    BY <1>2, <1>4, <2>1
<1>9. GaugeOK(h, t)
  BY <1>2, <1>6, <1>7, <1>8 DEF GaugeOK
<1> QED
  BY <1>2, <1>4, <1>5, <1>9 DEF h

----------------------------------------------------------------------------
(* What a distribution owes to the owners of locks                         *)

Payees == Owners \cup Receivers
Infos == [Owners -> [to : Destinations, amount : Nat]]

InfoOK(info) == info \in Infos /\ \A o \in Owners : info[o].amount > 0 => info[o].to \in Payees

Owed(info) == SumFunctionOnSet([o \in Owners |-> info[o].amount], Owners)

LEMMA AddRewardsOK ==
  ASSUME NEW info, InfoOK(info), NEW o \in Owners, NEW r \in Payees, NEW amount \in Nat \ {0}
  PROVE  /\ InfoOK(addLockRewards(info, o, r, amount))
         /\ Owed(addLockRewards(info, o, r, amount)) = Owed(info) + amount /\ Owed(info) \in Nat
<1> DEFINE x == [to |-> IF info[o].amount = 0 THEN r ELSE info[o].to, amount |-> info[o].amount + amount]
           new == addLockRewards(info, o, r, amount)
           f == [p \in Owners |-> info[p].amount]
           g == [p \in Owners |-> new[p].amount]
<1>1. new = [info EXCEPT ![o] = x]
  BY DEF addLockRewards
<1>2. info \in Infos /\ \A p \in Owners : info[p].amount > 0 => info[p].to \in Payees
  BY DEF InfoOK
<1>3. info[o].amount \in Nat /\ info[o].to \in Destinations /\ \A p \in Owners : info[p].amount \in Nat
  BY <1>2 DEF Infos
<1>4. x.to \in Payees /\ x.amount = info[o].amount + amount /\ x.amount \in Nat
  BY <1>2, <1>3
<1>5. x \in [to : Destinations, amount : Nat]
  <2>1. x.to \in Destinations
    BY <1>4 DEF Destinations, Payees
  <2> QED
    BY <1>4, <2>1
<1> HIDE DEF x, new
<1>6. new \in Infos /\ new[o] = x /\ \A p \in Owners : p # o => new[p] = info[p]
  BY <1>1, <1>2, <1>5 DEF Infos
<1>7. InfoOK(new)
  BY <1>2, <1>4, <1>6 DEF InfoOK
<1>8. /\ \A p \in Owners : f[p] \in Int /\ f[p] \in Nat
      /\ g[o] = f[o] + amount /\ g[o] \in Int /\ f[o] \in Int /\ \A p \in Owners \ {o} : g[p] = f[p]
  BY <1>3, <1>4, <1>6
<1>9. Owed(info) = SumFunctionOnSet(f, Owners) /\ Owed(new) = SumFunctionOnSet(g, Owners)
  BY DEF Owed
<1> HIDE DEF f, g
<1>10. SumFunctionOnSet(g, Owners) = SumFunctionOnSet(f, Owners) + g[o] - f[o]
  BY <1>8, AccountsFinite, SumUpdate
<1>11. SumFunctionOnSet(f, Owners) \in Nat
  BY <1>8, AccountsFinite, SumNat
<1>12. Owed(new) = Owed(info) + amount
  BY <1>8, <1>9, <1>10, <1>11
<1> QED
  BY <1>7, <1>9, <1>11, <1>12 DEF new

AddStep(g, lk, rec, l, info) ==
  IF ShareOf(g, l, lk) = 0 THEN info
  ELSE addLockRewards(info, Locks[l].owner, RewardReceiver(l, rec), ShareOf(g, l, lk))

SharesOf(g, lk) == [l \in QualifiedLocks(g, lk) |-> ShareOf(g, l, lk)]

\* The rewards of the locks K have been added.
Added(info, g, lk, K, new) ==
  InfoOK(new) /\ Owed(new) = Owed(info) + SumFunctionOnSet(SharesOf(g, lk), K)

LEMMA OwedInt ==
  ASSUME NEW info, InfoOK(info)
  PROVE  Owed(info) \in Nat
<1> DEFINE f == [o \in Owners |-> info[o].amount]
<1>1. \A o \in Owners : f[o] \in Nat
  BY DEF InfoOK, Infos
<1> HIDE DEF f
<1>2. SumFunctionOnSet(f, Owners) \in Nat
  BY <1>1, AccountsFinite, SumNat
<1> QED
  BY <1>2 DEF Owed, f

LEMMA QualifiedAre ==
  ASSUME NEW g, NEW lk, lk \subseteq DOMAIN Locks
  PROVE  /\ QualifiedLocks(g, lk) \subseteq DOMAIN Locks /\ QualifiedLocks(g, lk) \subseteq Int
         /\ IsFiniteSet(QualifiedLocks(g, lk))
<1>1. QualifiedLocks(g, lk) \subseteq DOMAIN Locks
  BY DEF QualifiedLocks
<1> QED
  BY <1>1, LocksAssumption, FS_Subset

LEMMA AddStepOK ==
  ASSUME NEW g, NEW lk, lk \subseteq DOMAIN Locks, NEW rec \in [DOMAIN Locks -> Destinations],
         \A l \in QualifiedLocks(g, lk) : ShareOf(g, l, lk) \in Nat,
         NEW info, InfoOK(info), NEW K \in SUBSET QualifiedLocks(g, lk), NEW l \in K,
         NEW x, Added(info, g, lk, K \ {l}, x)
  PROVE  Added(info, g, lk, K, AddStep(g, lk, rec, l, x))
<1> DEFINE f == SharesOf(g, lk)
           Q == QualifiedLocks(g, lk)
<1>1. l \in DOMAIN Locks /\ IsFiniteSet(Q)
  BY QualifiedAre
<1>2. \A k \in Q : f[k] = ShareOf(g, k, lk) /\ f[k] \in Nat /\ f[k] \in Int
  BY DEF SharesOf
<1> HIDE DEF f, Q
<1>3. SumFunctionOnSet(f, K) = f[l] + SumFunctionOnSet(f, K \ {l}) /\ SumFunctionOnSet(f, K \ {l}) \in Int
  <2>1. IsFiniteSet(K) /\ IsFiniteSet(K \ {l}) /\ \A k \in K : f[k] \in Int
    BY <1>1, <1>2, FS_Subset DEF Q
  <2> QED
    BY <2>1, SumRemove, SumInt
<1>4. l \in Q /\ ShareOf(g, l, lk) = f[l] /\ f[l] \in Nat
  BY <1>2 DEF Q
<1>5. InfoOK(x) /\ Owed(x) = Owed(info) + SumFunctionOnSet(f, K \ {l})
  BY DEF Added, f
<1>6. Owed(info) \in Nat /\ Owed(x) \in Nat
  BY <1>5, OwedInt
<1>7. CASE f[l] = 0
  <2>1. AddStep(g, lk, rec, l, x) = x
    BY <1>4, <1>7 DEF AddStep
  <2>2. SumFunctionOnSet(f, K) = SumFunctionOnSet(f, K \ {l})
    BY <1>3, <1>7
  <2> QED
    BY <1>5, <2>1, <2>2 DEF Added, f
<1>8. CASE f[l] # 0
  <2> DEFINE o == Locks[l].owner
             r == RewardReceiver(l, rec)
             y == AddStep(g, lk, rec, l, x)
  <2>1. o \in Owners
    BY <1>1 DEF Owners
  <2>2. r \in Payees
    <3>1. rec[l] \in Destinations
      BY <1>1
    <3> QED
      BY <2>1, <3>1 DEF RewardReceiver, Payees, Destinations
  <2>3. y = addLockRewards(x, o, r, f[l])
    BY <1>4, <1>8 DEF AddStep
  <2> HIDE DEF o, r, y
  <2>4. InfoOK(y) /\ Owed(y) = Owed(x) + f[l]
    BY <1>4, <1>5, <1>8, <2>1, <2>2, <2>3, AddRewardsOK
  <2>5. Owed(y) = Owed(info) + SumFunctionOnSet(f, K)
    BY <1>3, <1>4, <1>5, <1>6, <2>4
  <2> QED
    BY <2>4, <2>5 DEF Added, f, y
<1> QED
  BY <1>7, <1>8

AddsAll(g, lk, rec, info, run) ==
  run = [K \in SUBSET QualifiedLocks(g, lk) |->
           IF K = {} THEN info ELSE AddStep(g, lk, rec, Max(K), run[K \ {Max(K)}])]

LEMMA AddAllDef ==
  ASSUME NEW info, NEW g, NEW lk, NEW rec
  PROVE  addAllLockRewards(info, g, lk, rec) =
           (CHOOSE run : AddsAll(g, lk, rec, info, run))[QualifiedLocks(g, lk)]
BY DEF addAllLockRewards, InOrder, MapThenFoldSet, AddsAll, AddStep

LEMMA AddAllOK ==
  ASSUME NEW g, NEW lk, lk \subseteq DOMAIN Locks, NEW rec \in [DOMAIN Locks -> Destinations],
         \A l \in QualifiedLocks(g, lk) : ShareOf(g, l, lk) \in Nat,
         NEW info, InfoOK(info)
  PROVE  Added(info, g, lk, QualifiedLocks(g, lk), addAllLockRewards(info, g, lk, rec))
<1> DEFINE S == QualifiedLocks(g, lk)
           Q == {q \in (SUBSET S) \X Infos : Added(info, g, lk, q[1], q[2])}
           F == [q \in S \X Infos |-> AddStep(g, lk, rec, q[1], q[2])]
           pick == [K \in SUBSET S |-> Max(K)]
<1>1. IsFiniteSet(S) /\ S \subseteq Int
  BY QualifiedAre
<1>0. \A x, K : Added(info, g, lk, K, x) => x \in Infos
  BY DEF Added, InfoOK
<1>2. \A K \in SUBSET S : pick[K] = Max(K) /\ (K # {} => pick[K] \in K)
  <2>1. \A K \in SUBSET S : K # {} => Max(K) \in K
    <3> HIDE DEF S
    <3> QED
      BY <1>1, FS_Subset, MaxOfFinite
  <2> QED
    BY <2>1
<1> HIDE DEF pick
<1>3. \A K \in SUBSET S, x \in Infos : <<K, x>> \in Q <=> Added(info, g, lk, K, x)
  OBVIOUS
<1>4. <<{}, info>> \in Q
  <2>1. Owed(info) \in Nat
    BY OwedInt
  <2>2. Added(info, g, lk, {}, info)
    BY <2>1, SumEmpty DEF Added
  <2> HIDE DEF Q, S
  <2> QED
    BY <1>0, <1>3, <2>2
<1>5. ASSUME NEW K \in SUBSET S, NEW x, K # {}, <<K \ {pick[K]}, x>> \in Q
      PROVE  <<K, F[<<pick[K], x>>]>> \in Q /\ F[<<pick[K], x>>] = AddStep(g, lk, rec, pick[K], x)
  <2> DEFINE l == pick[K]
  <2>1. l \in K /\ l \in S
    BY <1>2, <1>5
  <2>2. x \in Infos /\ Added(info, g, lk, K \ {l}, x)
    BY <1>5
  <2>3. F[<<l, x>>] = AddStep(g, lk, rec, l, x)
    BY <2>1, <2>2
  <2> HIDE DEF l, F, Q
  <2>4. Added(info, g, lk, K, AddStep(g, lk, rec, l, x))
    BY <2>1, <2>2, AddStepOK
  <2>5. AddStep(g, lk, rec, l, x) \in Infos
    BY <1>0, <2>4
  <2> QED
    BY <1>3, <2>3, <2>4, <2>5 DEF l
<1> HIDE DEF Q, F, S
<1>6. Picks(pick, S) /\ Preserves(F, info, pick, S, Q)
  BY <1>2, <1>4, <1>5 DEF Picks, Preserves
<1>7. ASSUME NEW run, AddsAll(g, lk, rec, info, run)
      PROVE  \A K \in SUBSET S : <<K, run[K]>> \in Q
  <2>1. Follows(F, info, pick, S, Q, run)
    <3>1. run[{}] = info /\ \A K \in SUBSET S : K # {} => run[K] = AddStep(g, lk, rec, pick[K], run[K \ {pick[K]}])
      BY <1>2, <1>7 DEF AddsAll, S
    <3> QED
      BY <1>5, <3>1 DEF Follows
  <2> QED
    BY ONLY <1>1, <1>6, <2>1, FoldInvariant
<1>8. \E run : AddsAll(g, lk, rec, info, run)
  <2>1. PICK run : IsFold(F, info, pick, S, run) /\ \A K \in SUBSET S : <<K, run[K]>> \in Q
    <3>1. IsFiniteSet(S)
      BY <1>1
    <3> QED
      BY ONLY <1>6, <3>1, FoldRun
  <2>2. /\ run = [K \in SUBSET S |-> run[K]] /\ run[{}] = info
        /\ \A K \in SUBSET S : K # {} => run[K] = F[<<pick[K], run[K \ {pick[K]}]>>]
    BY <2>1 DEF IsFold
  <2>3. \A K \in SUBSET S : K # {} => run[K] = AddStep(g, lk, rec, pick[K], run[K \ {pick[K]}])
    BY <1>5, <2>1, <2>2
  <2>4. \A K \in SUBSET S : run[K] = IF K = {} THEN info ELSE AddStep(g, lk, rec, Max(K), run[K \ {Max(K)}])
    BY <1>2, <2>2, <2>3
  <2>5. AddsAll(g, lk, rec, info, run)
    BY <2>2, <2>4 DEF AddsAll, S
  <2> QED
    BY <2>5
<1>9. <<S, addAllLockRewards(info, g, lk, rec)>> \in Q
  BY <1>7, <1>8, AddAllDef DEF S
<1> QED
  BY <1>9 DEF Q, S

----------------------------------------------------------------------------
(* The distribution to the gauges                                          *)

Dists == [st : Stores, ok : BOOLEAN, info : Infos]

\* Gauges that differ by payments only
SameButPaid(g, h) ==
  /\ h.perpetual = g.perpetual /\ h.noLock = g.noLock /\ h.duration = g.duration
  /\ h.coins = g.coins /\ h.startTime = g.startTime /\ h.numEpochs = g.numEpochs

\* The gauges K of s have had their turn; x is the store and info what is owed to owners.
DistStore(s, t, K, x, info) ==
  /\ x \in Stores /\ InfoOK(info)
  /\ x = WithGauges(WithBank(s, x.bank), x.gauges)
  /\ DOMAIN x.gauges = DOMAIN s.gauges /\ GaugesOK(x.gauges, t)
  /\ \A id \in DOMAIN s.gauges : SameButPaid(s.gauges[id], x.gauges[id])
  /\ \A id \in DOMAIN s.gauges \ K : x.gauges[id] = s.gauges[id]
  /\ SumFunctionOnSet(x.bank, Accounts) = SumFunctionOnSet(s.bank, Accounts)
  /\ x.bank[Module] = Remains(x.gauges) + Owed(info)
  /\ \A a \in Accounts : a # Module => x.bank[a] >= s.bank[a]
  /\ \A a \in Accounts : a # Module /\ a # Pool => x.bank[a] = s.bank[a]

Payable(g, lk) == g.noLock \/ QualifiedLocks(g, lk) # {}

PaysAll(s, lk, K, x) ==
  \A id \in K : x.gauges[id].filled # s.gauges[id].filled <=> Payable(s.gauges[id], lk)

DistOK(s, t, lk, K, d) ==
  d \in Dists /\ DistStore(s, t, K, d.st, d.info) /\ (d.ok => PaysAll(s, lk, K, d.st))

\* The store after a gauge was paid from the balances that became b
PaidStore(s, x, b, id, amount) ==
  WithGauges(WithBank(x, b), Regauged(x.gauges, id, PaidGauge(s.gauges[id], amount)))

\* A gauge may be paid amount: the balances become b and what is owed new.
MayPay(s, t, K, id, x, info, amount, b, new) ==
  /\ s \in Stores /\ t \in Nat /\ K \in SUBSET DOMAIN s.gauges /\ id \in K
  /\ s.gauges[id].startTime <= t /\ remainEpochs(s.gauges[id]) # 0
  /\ DistStore(s, t, K \ {id}, x, info)
  /\ amount \in Nat /\ amount <= remainCoins(s.gauges[id])
  /\ remainEpochs(s.gauges[id]) = 1 =>
       IF s.gauges[id].noLock THEN amount = remainCoins(s.gauges[id])
       ELSE remainCoins(s.gauges[id]) - amount < Cardinality(DOMAIN Locks)
  /\ b \in Balances /\ SumFunctionOnSet(b, Accounts) = SumFunctionOnSet(x.bank, Accounts)
  /\ InfoOK(new) /\ b[Module] - Owed(new) = x.bank[Module] - Owed(info) - amount
  /\ \A a \in Accounts : a # Module => b[a] >= x.bank[a]
  /\ \A a \in Accounts : a # Module /\ a # Pool => b[a] = x.bank[a]

HasPaid(s, t, K, id, x, y, new) ==
  /\ DistStore(s, t, K, y, new)
  /\ y.gauges[id].filled = s.gauges[id].filled + 1
  /\ \A i \in DOMAIN s.gauges : i # id => y.gauges[i] = x.gauges[i]

LEMMA PaidStoreOK ==
  ASSUME NEW s, NEW t, NEW K, NEW id, NEW x, NEW info, NEW amount, NEW b, NEW new,
         MayPay(s, t, K, id, x, info, amount, b, new)
  PROVE  HasPaid(s, t, K, id, x, PaidStore(s, x, b, id, amount), new)
<1>0. /\ s \in Stores /\ t \in Nat /\ K \in SUBSET DOMAIN s.gauges /\ id \in K
      /\ s.gauges[id].startTime <= t /\ remainEpochs(s.gauges[id]) # 0
      /\ DistStore(s, t, K \ {id}, x, info)
      /\ amount \in Nat /\ amount <= remainCoins(s.gauges[id])
      /\ remainEpochs(s.gauges[id]) = 1 =>
           IF s.gauges[id].noLock THEN amount = remainCoins(s.gauges[id])
           ELSE remainCoins(s.gauges[id]) - amount < Cardinality(DOMAIN Locks)
      /\ b \in Balances /\ SumFunctionOnSet(b, Accounts) = SumFunctionOnSet(x.bank, Accounts)
      /\ InfoOK(new) /\ b[Module] - Owed(new) = x.bank[Module] - Owed(info) - amount
      /\ \A a \in Accounts : a # Module => b[a] >= x.bank[a]
      /\ \A a \in Accounts : a # Module /\ a # Pool => b[a] = x.bank[a]
  BY DEF MayPay
<1> DEFINE g == s.gauges[id]
           h == PaidGauge(g, amount)
           gs == Regauged(x.gauges, id, h)
           y == PaidStore(s, x, b, id, amount)
<1>1. /\ x \in Stores /\ InfoOK(info)
      /\ x = WithGauges(WithBank(s, x.bank), x.gauges)
      /\ DOMAIN x.gauges = DOMAIN s.gauges /\ GaugesOK(x.gauges, t)
      /\ \A i \in DOMAIN s.gauges : SameButPaid(s.gauges[i], x.gauges[i])
      /\ \A i \in DOMAIN s.gauges \ (K \ {id}) : x.gauges[i] = s.gauges[i]
      /\ SumFunctionOnSet(x.bank, Accounts) = SumFunctionOnSet(s.bank, Accounts)
      /\ x.bank[Module] = Remains(x.gauges) + Owed(info)
      /\ \A a \in Accounts : a # Module => x.bank[a] >= s.bank[a]
      /\ \A a \in Accounts : a # Module /\ a # Pool => x.bank[a] = s.bank[a]
  BY <1>0 DEF DistStore
<1>2. id \in DOMAIN s.gauges /\ id \in DOMAIN x.gauges /\ x.gauges[id] = g
  BY <1>0, <1>1
<1>3. x.gauges \in Seq(Gauge) /\ s.gauges \in Seq(Gauge) /\ g \in Gauge /\ GaugeOK(g, t)
  BY <1>0, <1>1, <1>2, GaugesAre DEF Stores, GaugesOK
<1>4. h \in Gauge /\ GaugeOK(h, t) /\ remainCoins(h) = remainCoins(g) - amount /\ remainCoins(g) \in Nat
  BY <1>0, <1>3, PaidGaugeOK
<1>5. /\ h.perpetual = g.perpetual /\ h.noLock = g.noLock /\ h.coins = g.coins
      /\ h.startTime = g.startTime /\ h.numEpochs = g.numEpochs /\ h.duration = g.duration
      /\ h.filled = g.filled + 1 /\ g.filled \in Nat
  BY <1>0, <1>3, PaidGaugeFields DEF Gauge
<1> HIDE DEF g, h
<1>6. /\ gs \in Seq(Gauge) /\ DOMAIN gs = DOMAIN x.gauges /\ gs[id] = h
      /\ \A i \in DOMAIN x.gauges : i # id => gs[i] = x.gauges[i]
  <2> DEFINE xs == x.gauges
  <2>1. xs \in Seq(Gauge) /\ id \in DOMAIN xs /\ h \in Gauge /\ gs = Regauged(xs, id, h)
    BY <1>0, <1>2, <1>3, <1>4
  <2> HIDE DEF xs, gs
  <2>2. /\ gs \in Seq(Gauge) /\ DOMAIN gs = DOMAIN xs /\ gs[id] = h
        /\ \A i \in DOMAIN xs : i # id => gs[i] = xs[i]
    BY ONLY <2>1, RegaugedFacts
  <2> QED
    BY <2>2 DEF xs
<1>7. Remains(gs) = Remains(x.gauges) + remainCoins(h) - remainCoins(x.gauges[id]) /\ Remains(x.gauges) \in Int
  BY <1>0, <1>2, <1>3, <1>4, RemainsRegauged
<1> HIDE DEF gs
<1>8. /\ WithBank(x, b) \in Stores /\ WithBank(x, b).bank = b
  BY <1>0, <1>1, WithBankFacts
<1>9. y = WithGauges(WithBank(x, b), gs)
  BY DEF PaidStore, gs, h, g
<1> HIDE DEF y
<1>10. y \in Stores /\ y.gauges = gs /\ y.bank = b
  BY <1>0, <1>6, <1>8, <1>9, WithGaugesFacts
<1>11. y = WithGauges(WithBank(s, b), gs)
  <2>1. \A c, hs : WithGauges(WithBank(WithGauges(WithBank(s, x.bank), x.gauges), c), hs) = WithGauges(WithBank(s, c), hs)
    BY <1>0 DEF WithGauges, WithBank, Stores
  <2> QED
    BY <1>0, <1>1, <1>9, <2>1
<1>12. GaugesOK(gs, t)
  BY <1>0, <1>1, <1>4, <1>6 DEF GaugesOK
<1>13. \A i \in DOMAIN s.gauges : SameButPaid(s.gauges[i], gs[i])
  <2>1. SameButPaid(g, h)
    BY <1>0, <1>5 DEF SameButPaid
  <2> QED
    BY <1>0, <1>1, <1>6, <2>1 DEF g
<1>14. \A i \in DOMAIN s.gauges \ K : gs[i] = s.gauges[i]
  BY <1>0, <1>1, <1>6
<1>15. Owed(new) \in Nat /\ Owed(info) \in Nat /\ b[Module] \in Int
  BY <1>0, <1>1, OwedInt, ModulesAre DEF Balances
<1>16. b[Module] = Remains(gs) + Owed(new)
  BY <1>0, <1>1, <1>2, <1>4, <1>7, <1>15
<1>17. \A a \in Accounts : a # Module => b[a] >= s.bank[a]
  <2>1. \A a \in Accounts : b[a] \in Int /\ x.bank[a] \in Int /\ s.bank[a] \in Int
    BY <1>0, <1>1, StoreBank DEF Balances
  <2> QED
    BY <1>0, <1>1, <2>1
<1>18. \A a \in Accounts : a # Module /\ a # Pool => b[a] = s.bank[a]
  BY <1>0, <1>1
<1>19. DistStore(s, t, K, y, new)
  BY <1>0, <1>1, <1>6, <1>10, <1>11, <1>12, <1>13, <1>14, <1>16, <1>17, <1>18 DEF DistStore
<1> QED
  BY <1>1, <1>5, <1>6, <1>10, <1>19 DEF HasPaid, y, g

\* The distribution of a gauge to locks: the sum of the shares
LEMMA SharesOK ==
  ASSUME NEW g \in Gauge, g.distributed <= g.coins, NEW lk, lk \subseteq DOMAIN Locks,
         QualifiedLocks(g, lk) # {}, remainEpochs(g) \in Nat \ {0}
  PROVE  /\ \A l \in QualifiedLocks(g, lk) : ShareOf(g, l, lk) \in Nat
         /\ SumFunctionOnSet(SharesOf(g, lk), QualifiedLocks(g, lk)) \in Nat
         /\ SumFunctionOnSet(SharesOf(g, lk), QualifiedLocks(g, lk)) <= remainCoins(g)
         /\ remainEpochs(g) = 1 =>
              remainCoins(g) - SumFunctionOnSet(SharesOf(g, lk), QualifiedLocks(g, lk)) < Cardinality(DOMAIN Locks)
<1> DEFINE S == QualifiedLocks(g, lk)
           f == SharesOf(g, lk)
           w == [l \in S |-> Locks[l].amount]
           R == remainCoins(g)
           e == remainEpochs(g)
<1>1. IsFiniteSet(S) /\ S \subseteq DOMAIN Locks
  BY QualifiedAre
<1>2. R \in Nat
  BY DEF Gauge, remainCoins
<1>3. \A l \in S : w[l] \in Nat \ {0} /\ w[l] = Locks[l].amount
  BY <1>1, LocksAssumption
<1>4. SumLocks(S) = SumFunctionOnSet(w, S)
  BY DEF SumLocks
<1>5. \A l \in S : f[l] = (R * w[l]) \div (SumFunctionOnSet(w, S) * e) /\ f[l] = ShareOf(g, l, lk)
  <2>1. \A l \in S : f[l] = ShareOf(g, l, lk)
    BY DEF SharesOf
  <2>2. \A l \in S : ShareOf(g, l, lk) = (R * Locks[l].amount) \div (SumLocks(S) * e)
    BY DEF ShareOf
  <2> HIDE DEF S, f, w, R, e
  <2> QED
    BY <1>3, <1>4, <2>1, <2>2
<1>6. S # {} /\ e \in Nat \ {0}
  OBVIOUS
<1> HIDE DEF S, f, w, R, e
<1>7. /\ \A l \in S : f[l] \in Nat
      /\ SumFunctionOnSet(f, S) \in Nat /\ SumFunctionOnSet(f, S) <= R
      /\ e = 1 => R - SumFunctionOnSet(f, S) < Cardinality(S)
  <2>1. /\ \A l \in S : w[l] \in Nat \ {0}
        /\ \A l \in S : f[l] = (R * w[l]) \div (SumFunctionOnSet(w, S) * e)
    BY <1>3, <1>5
  <2> QED
    BY ONLY <1>1, <1>2, <1>6, <2>1, SharesFacts
<1>8. Cardinality(S) <= Cardinality(DOMAIN Locks) /\ Cardinality(S) \in Nat /\ Cardinality(DOMAIN Locks) \in Nat
  BY <1>1, LocksAssumption, FS_Subset, FS_CardinalityType
<1>9. e = 1 => R - SumFunctionOnSet(f, S) < Cardinality(DOMAIN Locks)
  BY <1>2, <1>7, <1>8
<1> QED
  BY <1>5, <1>7, <1>9 DEF S, f, R, e

Redist(d, x, info) == [d EXCEPT !.st = x, !.info = info]

LEMMA RedistFields ==
  ASSUME NEW d \in Dists, NEW x \in Stores, NEW info \in Infos
  PROVE  /\ Redist(d, x, info).st = x /\ Redist(d, x, info).info = info
         /\ Redist(d, x, info) \in Dists /\ d.st \in Stores /\ d.info \in Infos
<1>1. Redist(d, x, info).st = x /\ Redist(d, x, info).info = info
  BY DEF Dists, Redist
<1>2. Redist(d, x, info) \in Dists /\ d.st \in Stores /\ d.info \in Infos
  BY DEF Dists, Redist
<1> QED
  BY <1>1, <1>2

LEMMA RedistStore ==
  ASSUME NEW d \in Dists, NEW x \in Stores
  PROVE  [d EXCEPT !.st = x] = Redist(d, x, d.info)
BY DEF Dists, Redist

LEMMA DistFailed ==
  ASSUME NEW d \in Dists
  PROVE  /\ [d EXCEPT !.ok = FALSE] \in Dists /\ ~[d EXCEPT !.ok = FALSE].ok
         /\ [d EXCEPT !.ok = FALSE].st = d.st /\ [d EXCEPT !.ok = FALSE].info = d.info
<1>1. [d EXCEPT !.ok = FALSE] \in Dists /\ ~[d EXCEPT !.ok = FALSE].ok
  BY Zenon DEF Dists
<1>2. [d EXCEPT !.ok = FALSE].st = d.st /\ [d EXCEPT !.ok = FALSE].info = d.info
  BY DEF Dists
<1> QED
  BY <1>1, <1>2

\* A turn that changes nothing
LEMMA DistSkip ==
  ASSUME NEW s, NEW t, NEW K, NEW id \in K, NEW x, NEW info, DistStore(s, t, K \ {id}, x, info)
  PROVE  DistStore(s, t, K, x, info)
BY DEF DistStore

\* One gauge has its turn.
LEMMA DistStepOK ==
  ASSUME NEW s \in Stores, NEW t \in Nat, NEW lk, lk \subseteq DOMAIN Locks,
         NEW rec \in [DOMAIN Locks -> Destinations],
         NEW K \in SUBSET DOMAIN s.gauges, NEW id \in K, s.gauges[id].startTime <= t,
         NEW d, DistOK(s, t, lk, K \ {id}, d)
  PROVE  DistOK(s, t, lk, K, distributeInternal(d, id, lk, rec))
<1> DEFINE r == distributeInternal(d, id, lk, rec)
           x == d.st
           g == s.gauges[id]
           R == remainCoins(g)
           e == remainEpochs(g)
<1>1. /\ d \in Dists /\ DistStore(s, t, K \ {id}, x, d.info)
      /\ d.ok => PaysAll(s, lk, K \ {id}, x)
  BY DEF DistOK
<1>2. /\ x \in Stores /\ InfoOK(d.info) /\ DOMAIN x.gauges = DOMAIN s.gauges /\ GaugesOK(x.gauges, t)
      /\ \A i \in DOMAIN s.gauges \ (K \ {id}) : x.gauges[i] = s.gauges[i]
  BY <1>1 DEF DistStore
<1>3. id \in DOMAIN s.gauges /\ id \in DOMAIN x.gauges /\ x.gauges[id] = g
  BY <1>2
<1>4. g \in Gauge /\ GaugeOK(g, t)
  BY <1>2, <1>3, GaugesAre DEF Stores, GaugesOK
<1>5. /\ g.coins \in Nat /\ g.distributed \in Nat /\ g.filled \in Nat /\ g.numEpochs \in Nat \ {0}
      /\ g.distributed <= g.coins /\ (~g.perpetual => g.filled <= g.numEpochs)
  BY <1>4 DEF Gauge, GaugeOK
<1>6. R \in Nat /\ e \in Nat
  BY <1>5 DEF remainCoins, remainEpochs
<1>7. DistStore(s, t, K, x, d.info)
  BY <1>1, DistSkip
<1>8. [d EXCEPT !.ok = FALSE] \in Dists /\ ~[d EXCEPT !.ok = FALSE].ok
      /\ [d EXCEPT !.ok = FALSE].st = x /\ [d EXCEPT !.ok = FALSE].info = d.info
  BY <1>1, DistFailed
<1>9. CASE ~d.ok
  <2>1. r = d
    BY <1>9 DEF distributeInternal
  <2> QED
    BY <1>1, <1>7, <1>9, <2>1 DEF DistOK
<1>10. DistOK(s, t, lk, K, [d EXCEPT !.ok = FALSE])
  <2> DEFINE q == [d EXCEPT !.ok = FALSE]
  <2>1. q \in Dists /\ ~q.ok /\ q.st = x /\ q.info = d.info
    BY <1>8
  <2> HIDE DEF q
  <2>2. DistStore(s, t, K, q.st, q.info)
    BY <1>7, <2>1
  <2>3. DistOK(s, t, lk, K, q)
    BY <2>1, <2>2 DEF DistOK
  <2> QED
    BY <2>3 DEF q
<1>11. CASE d.ok /\ e = 0
  <2>1. r = [d EXCEPT !.ok = FALSE]
    BY <1>3, <1>11 DEF distributeInternal
  <2> QED
    BY <1>10, <2>1
<1>12. CASE d.ok /\ e # 0 /\ g.noLock
  <2> DEFINE amount == R \div e
  <2>1. r = distributeNoLock(d, id)
    BY <1>3, <1>12 DEF distributeInternal
  <2>2. r = IF R > 0 /\ amount = 0 THEN [d EXCEPT !.ok = FALSE] ELSE payPool(d, id, amount)
    BY <1>3, <2>1 DEF distributeNoLock
  <2>3. amount \in Nat /\ amount <= R /\ (e = 1 => amount = R)
    <3> HIDE DEF R, e
    <3>1. amount \in Nat /\ e * amount <= R /\ R < e * amount + e
      BY <1>6, <1>12, QuotientFacts
    <3> HIDE DEF amount
    <3>2. amount <= e * amount /\ e * amount \in Nat
      BY <1>6, <1>12, <3>1, ProductNat
    <3>3. e = 1 => e * amount = amount
      BY <3>1
    <3> QED
      BY <1>6, <3>1, <3>2, <3>3
  <2> HIDE DEF amount
  <2>4. CASE R > 0 /\ amount = 0
    BY <1>10, <2>2, <2>4
  <2>5. CASE ~(R > 0 /\ amount = 0)
    <3> DEFINE b == Moved(x.bank, Module, Pool, amount)
               y == PaidStore(s, x, b, id, amount)
    <3>1. r = payPool(d, id, amount)
      BY <2>2, <2>5
    <3>2. /\ b \in Balances /\ b[Module] = x.bank[Module] - amount /\ b[Pool] = x.bank[Pool] + amount
          /\ \A a \in Accounts : a # Module /\ a # Pool => b[a] = x.bank[a]
          /\ SumFunctionOnSet(b, Accounts) = SumFunctionOnSet(x.bank, Accounts)
      <4>1. x.bank \in Balances /\ Module \in Accounts /\ Pool \in Accounts /\ Module # Pool /\ amount \in Int
        BY <1>2, <2>3, StoreBank, ModulesAre, ModulesDiffer
      <4> QED
        BY ONLY <4>1, MovedFacts
    <3>3. WithBank(x, b) \in Stores /\ WithBank(x, b).gauges = x.gauges /\ Send(x, Module, Pool, amount) = WithBank(x, b)
      BY <1>2, <3>2, WithBankFacts, SendIsMoved
    <3> HIDE DEF b
    <3>4. r = [d EXCEPT !.st = y]
      <4>1. updateGaugePostDistribute(WithBank(x, b), id, amount) = y
        BY <1>3, <3>3, UpdateGauge DEF PaidStore
      <4> HIDE DEF y
      <4> QED
        BY <3>1, <3>3, <4>1 DEF payPool
    <3>5. \A a \in Accounts : a # Module => b[a] >= x.bank[a]
      <4>1. \A a \in Accounts : x.bank[a] \in Int
        BY <1>2, StoreBank
      <4> QED
        BY <2>3, <3>2, <4>1
    <3>6. b[Module] - Owed(d.info) = x.bank[Module] - Owed(d.info) - amount
      <4>1. x.bank[Module] \in Int /\ Owed(d.info) \in Nat
        BY <1>2, StoreBank, ModulesAre, OwedInt
      <4> QED
        BY <2>3, <3>2, <4>1
    <3> HIDE DEF y
    <3>7. /\ DistStore(s, t, K, y, d.info) /\ y.gauges[id].filled = g.filled + 1
          /\ \A i \in DOMAIN s.gauges : i # id => y.gauges[i] = x.gauges[i]
      <4> DEFINE info == d.info
      <4>1. /\ s.gauges[id].startTime <= t /\ remainEpochs(s.gauges[id]) # 0 /\ DistStore(s, t, K \ {id}, x, info)
            /\ amount \in Nat /\ amount <= remainCoins(s.gauges[id])
            /\ remainEpochs(s.gauges[id]) = 1 =>
                 IF s.gauges[id].noLock THEN amount = remainCoins(s.gauges[id])
                 ELSE remainCoins(s.gauges[id]) - amount < Cardinality(DOMAIN Locks)
            /\ b \in Balances /\ SumFunctionOnSet(b, Accounts) = SumFunctionOnSet(x.bank, Accounts)
            /\ InfoOK(info) /\ b[Module] - Owed(info) = x.bank[Module] - Owed(info) - amount
            /\ \A a \in Accounts : a # Module => b[a] >= x.bank[a]
            /\ \A a \in Accounts : a # Module /\ a # Pool => b[a] = x.bank[a]
        BY <1>1, <1>2, <1>12, <2>3, <3>2, <3>5, <3>6
      <4>2. s \in Stores /\ t \in Nat /\ K \in SUBSET DOMAIN s.gauges /\ id \in K
        OBVIOUS
      <4>3. y = PaidStore(s, x, b, id, amount)
        BY DEF y
      <4> HIDE DEF info, x, g, R, e
      <4>4. MayPay(s, t, K, id, x, info, amount, b, info)
        BY <4>1, <4>2 DEF MayPay
      <4>5. HasPaid(s, t, K, id, x, y, info)
        BY <4>3, <4>4, PaidStoreOK
      <4> QED
        BY <4>5 DEF info, g, HasPaid
    <3>8. y \in Stores /\ d.info \in Infos
      BY <1>2, <3>7 DEF DistStore, InfoOK
    <3>9. r \in Dists /\ r.st = y /\ r.info = d.info
      <4> HIDE DEF r
      <4> QED
        BY <1>1, <3>4, <3>8, RedistFields, RedistStore
    <3>10. PaysAll(s, lk, K, y)
      <4>1. PaysAll(s, lk, K \ {id}, x)
        BY <1>1, <1>12
      <4>2. y.gauges[id].filled # g.filled /\ Payable(g, lk)
        BY <1>5, <1>12, <3>7 DEF Payable
      <4> QED
        BY <3>7, <4>1, <4>2 DEF PaysAll
    <3> HIDE DEF r
    <3>11. DistOK(s, t, lk, K, r)
      BY <3>7, <3>9, <3>10 DEF DistOK
    <3> QED
      BY <3>11 DEF r
  <2> QED
    BY <2>4, <2>5
<1>13. CASE d.ok /\ e # 0 /\ ~g.noLock
  <2> DEFINE S == QualifiedLocks(g, lk)
             total == SumFunctionOnSet(SharesOf(g, lk), S)
             new == addAllLockRewards(d.info, g, lk, rec)
             y == PaidStore(s, x, x.bank, id, total)
  <2>1. r = distributeToLocks(d, id, lk, rec)
    BY <1>3, <1>13 DEF distributeInternal
  <2>2. r = IF S = {} THEN d ELSE [d EXCEPT !.st = updateGaugePostDistribute(@, id, total), !.info = addAllLockRewards(@, g, lk, rec)]
    BY <1>3, <2>1 DEF distributeToLocks, SharesOf
  <2>3. CASE S = {}
    <3>1. r = d
      BY <2>2, <2>3
    <3>2. PaysAll(s, lk, K, x)
      <4>1. PaysAll(s, lk, K \ {id}, x)
        BY <1>1, <1>13
      <4>2. x.gauges[id].filled = g.filled /\ ~Payable(g, lk)
        BY <1>3, <1>13, <2>3 DEF Payable
      <4> QED
        BY <4>1, <4>2 DEF PaysAll
    <3> QED
      BY <1>1, <1>7, <3>1, <3>2 DEF DistOK
  <2>4. CASE S # {}
    <3>1. /\ \A l \in S : ShareOf(g, l, lk) \in Nat
          /\ total \in Nat /\ total <= R /\ (e = 1 => R - total < Cardinality(DOMAIN Locks))
      BY <1>4, <1>5, <1>6, <1>13, <2>4, SharesOK
    <3>2. InfoOK(new) /\ Owed(new) = Owed(d.info) + total
      BY <1>2, <3>1, AddAllOK DEF Added
    <3>3. r = Redist(d, y, new)
      <4>1. updateGaugePostDistribute(x, id, total) = y
        BY <1>2, <1>3, UpdateGauge, WithBankFacts, StoreBank DEF PaidStore
      <4> HIDE DEF y, new, S, total
      <4> QED
        BY <2>2, <2>4, <4>1 DEF new, Redist
    <3>4. x.bank \in Balances /\ \A a \in Accounts : x.bank[a] \in Int
      BY <1>2, StoreBank
    <3> HIDE DEF new, total, S
    <3>5. x.bank[Module] - Owed(new) = x.bank[Module] - Owed(d.info) - total
      <4>1. x.bank[Module] \in Int /\ Owed(d.info) \in Nat
        BY <1>2, StoreBank, ModulesAre, OwedInt
      <4> QED
        BY <3>1, <3>2, <4>1
    <3>6. \A a \in Accounts : a # Module => x.bank[a] >= x.bank[a]
      BY <3>4
    <3> HIDE DEF y
    <3>7. /\ DistStore(s, t, K, y, new) /\ y.gauges[id].filled = g.filled + 1
          /\ \A i \in DOMAIN s.gauges : i # id => y.gauges[i] = x.gauges[i]
      <4> DEFINE info == d.info
      <4>1. /\ s.gauges[id].startTime <= t /\ remainEpochs(s.gauges[id]) # 0 /\ DistStore(s, t, K \ {id}, x, info)
            /\ total \in Nat /\ total <= remainCoins(s.gauges[id])
            /\ remainEpochs(s.gauges[id]) = 1 =>
                 IF s.gauges[id].noLock THEN total = remainCoins(s.gauges[id])
                 ELSE remainCoins(s.gauges[id]) - total < Cardinality(DOMAIN Locks)
            /\ x.bank \in Balances /\ SumFunctionOnSet(x.bank, Accounts) = SumFunctionOnSet(x.bank, Accounts)
            /\ InfoOK(new) /\ x.bank[Module] - Owed(new) = x.bank[Module] - Owed(info) - total
            /\ \A a \in Accounts : a # Module => x.bank[a] >= x.bank[a]
            /\ \A a \in Accounts : a # Module /\ a # Pool => x.bank[a] = x.bank[a]
        BY <1>1, <1>2, <1>13, <3>1, <3>2, <3>4, <3>5, <3>6
      <4>2. s \in Stores /\ t \in Nat /\ K \in SUBSET DOMAIN s.gauges /\ id \in K
        OBVIOUS
      <4>3. y = PaidStore(s, x, x.bank, id, total)
        BY DEF y
      <4> HIDE DEF info, x, g, R, e
      <4>4. MayPay(s, t, K, id, x, info, total, x.bank, new)
        BY <4>1, <4>2 DEF MayPay
      <4>5. HasPaid(s, t, K, id, x, y, new)
        BY <4>3, <4>4, PaidStoreOK
      <4> QED
        BY <4>5 DEF info, g, HasPaid
    <3>8. y \in Stores /\ new \in Infos
      BY <1>2, <3>2, <3>7 DEF DistStore, InfoOK
    <3>9. r \in Dists /\ r.st = y /\ r.info = new
      <4>1. d \in Dists
        BY <1>1
      <4> HIDE DEF r
      <4> QED
        BY ONLY <3>3, <3>8, <4>1, RedistFields
    <3>10. PaysAll(s, lk, K, y)
      <4>1. PaysAll(s, lk, K \ {id}, x)
        BY <1>1, <1>13
      <4>2. y.gauges[id].filled # g.filled /\ Payable(g, lk)
        BY <1>5, <1>13, <2>4, <3>7 DEF Payable, S
      <4> QED
        BY <3>7, <4>1, <4>2 DEF PaysAll
    <3> HIDE DEF r
    <3>11. DistOK(s, t, lk, K, r)
      BY <3>7, <3>9, <3>10 DEF DistOK
    <3> QED
      BY <3>11 DEF r
  <2> QED
    BY <2>3, <2>4
<1> QED
  BY <1>9, <1>11, <1>12, <1>13

LEMMA LastGaugeIn ==
  ASSUME NEW gs \in Seq(Gauge), NEW K \in SUBSET DOMAIN gs, K # {}
  PROVE  LastGauge(gs, K) \in K
<1> DEFINE f == [id \in DOMAIN gs |-> gs[id].startTime]
           T == {f[id] : id \in K}
           m == Max(T)
           L == {id \in K : gs[id].startTime = m}
<1>1. IsFiniteSet(K) /\ \A id \in K : id \in Int /\ gs[id] \in Gauge
  BY GaugesAre, FS_Subset
<1>2. \A id \in K : f[id] = gs[id].startTime /\ f[id] \in Int
  BY <1>1 DEF Gauge
<1>3. T = {gs[id].startTime : id \in K}
  OBVIOUS
<1> HIDE DEF f
<1>4. IsFiniteSet(T)
  BY <1>1, FiniteImage
<1>5. T \subseteq Int /\ T # {}
  BY <1>2
<1> HIDE DEF T
<1>6. m \in T
  BY <1>4, <1>5, MaxOfFinite
<1> HIDE DEF m
<1>7. L # {} /\ L \subseteq K
  BY <1>3, <1>6
<1>8. IsFiniteSet(L) /\ L \subseteq Int
  BY <1>1, <1>7, FS_Subset
<1>9. LastGauge(gs, K) = Max(L)
  BY <1>3 DEF LastGauge, m
<1> HIDE DEF L
<1>10. Max(L) \in L
  BY <1>7, <1>8, MaxOfFinite
<1> QED
  BY <1>7, <1>9, <1>10

DistStart(s) == [st |-> s, ok |-> TRUE, info |-> [o \in Owners |-> [to |-> NoReceiver, amount |-> 0]]]

DistributesAll(s, ids, lk, rec, run) ==
  run = [K \in SUBSET ids |-> IF K = {} THEN DistStart(s)
           ELSE distributeInternal(run[K \ {LastGauge(s.gauges, K)}], LastGauge(s.gauges, K), lk, rec)]

\* The end of the loop over the gauges
Distributed(s, ids, lk, rec) == (CHOOSE run : DistributesAll(s, ids, lk, rec, run))[ids]

LEMMA DistributeDef ==
  ASSUME NEW s, NEW ids, NEW lk, NEW rec
  PROVE  Distribute(s, ids, lk, rec) =
           [ok |-> Distributed(s, ids, lk, rec).ok,
            st |-> moveActiveGaugeToFinishedGauge(doDistributionSends(Distributed(s, ids, lk, rec)),
                                                  {id \in ids : Finishes(s.gauges[id])})]
BY DEF Distribute, MapThenFoldSet, Distributed, DistributesAll, DistStart

LEMMA StartOK ==
  ASSUME NEW s \in Stores, NEW t, GaugesOK(s.gauges, t), s.bank[Module] = Remains(s.gauges), NEW lk
  PROVE  DistOK(s, t, lk, {}, DistStart(s))
<1> DEFINE none == [o \in Owners |-> [to |-> NoReceiver, amount |-> 0]]
           f == [o \in Owners |-> none[o].amount]
<1>1. none \in Infos /\ \A o \in Owners : none[o].amount = 0
  BY DEF Infos, Destinations
<1>2. \A o \in Owners : f[o] = 0
  BY <1>1
<1> HIDE DEF none
<1>3. InfoOK(none)
  BY <1>1 DEF InfoOK
<1>4. SumFunctionOnSet(f, Owners) = 0
  <2> HIDE DEF f
  <2> QED
    BY <1>2, AccountsFinite, SumZero
<1>5. Owed(none) = 0
  BY <1>4 DEF Owed
<1>6. s.gauges \in Seq(Gauge) /\ WithGauges(WithBank(s, s.bank), s.gauges) = s
  BY StoreBank, WithGaugesFacts DEF Stores
<1>7. Remains(s.gauges) \in Nat
  BY <1>6, RemainsNat
<1>8. \A g : SameButPaid(g, g)
  BY DEF SameButPaid
<1>9. \A a \in Accounts : s.bank[a] >= s.bank[a]
  BY StoreBank
<1>10. DistStore(s, t, {}, s, none)
  BY <1>3, <1>5, <1>6, <1>7, <1>8, <1>9 DEF DistStore
<1>11. DistStart(s).st = s /\ DistStart(s).info = none
  BY DEF DistStart, none
<1>12. DistStart(s) \in Dists
  <2>1. DistStart(s) = [st |-> s, ok |-> TRUE, info |-> none]
    BY DEF DistStart, none
  <2>2. \A b \in BOOLEAN, x \in Stores, i \in Infos : [st |-> x, ok |-> b, info |-> i] \in Dists
    BY DEF Dists
  <2>3. TRUE \in BOOLEAN /\ none \in Infos
    BY <1>1, Zenon
  <2> QED
    BY <2>1, <2>2, <2>3, Zenon
<1>13. PaysAll(s, lk, {}, s)
  BY DEF PaysAll
<1> QED
  BY <1>10, <1>11, <1>12, <1>13 DEF DistOK

LEMMA DistributedOK ==
  ASSUME NEW s \in Stores, NEW t \in Nat, GaugesOK(s.gauges, t), s.bank[Module] = Remains(s.gauges),
         NEW lk, lk \subseteq DOMAIN Locks, NEW rec \in [DOMAIN Locks -> Destinations],
         NEW ids \in SUBSET DOMAIN s.gauges, \A id \in ids : s.gauges[id].startTime <= t
  PROVE  DistOK(s, t, lk, ids, Distributed(s, ids, lk, rec))
<1> DEFINE base == DistStart(s)
           Q == {q \in (SUBSET ids) \X Dists : DistOK(s, t, lk, q[1], q[2])}
           F == [q \in ids \X Dists |-> distributeInternal(q[2], q[1], lk, rec)]
           pick == [K \in SUBSET ids |-> LastGauge(s.gauges, K)]
<1>0. \A x, K : DistOK(s, t, lk, K, x) => x \in Dists
  BY DEF DistOK
<1>1. IsFiniteSet(ids)
  BY GaugesAre, FS_Subset DEF Stores
<1>2. \A K \in SUBSET ids : pick[K] = LastGauge(s.gauges, K) /\ (K # {} => pick[K] \in K)
  <2>1. \A K \in SUBSET ids : K # {} => LastGauge(s.gauges, K) \in K
    BY LastGaugeIn DEF Stores
  <2> QED
    BY <2>1
<1> HIDE DEF pick
<1>3. \A K \in SUBSET ids, x \in Dists : <<K, x>> \in Q <=> DistOK(s, t, lk, K, x)
  OBVIOUS
<1>4. <<{}, base>> \in Q
  <2>1. DistOK(s, t, lk, {}, base)
    BY StartOK
  <2> HIDE DEF Q, base
  <2> QED
    BY <1>0, <1>3, <2>1
<1> HIDE DEF base
<1>5. ASSUME NEW K \in SUBSET ids, NEW x, K # {}, <<K \ {pick[K]}, x>> \in Q
      PROVE  <<K, F[<<pick[K], x>>]>> \in Q /\ F[<<pick[K], x>>] = distributeInternal(x, pick[K], lk, rec)
  <2> DEFINE id == pick[K]
  <2>1. id \in K /\ id \in ids
    BY <1>2, <1>5
  <2>2. x \in Dists /\ DistOK(s, t, lk, K \ {id}, x)
    BY <1>5
  <2>3. F[<<id, x>>] = distributeInternal(x, id, lk, rec)
    BY <2>1, <2>2
  <2> HIDE DEF id, F, Q
  <2>4. DistOK(s, t, lk, K, distributeInternal(x, id, lk, rec))
    <3>1. K \in SUBSET DOMAIN s.gauges /\ s.gauges[id].startTime <= t
      BY <2>1
    <3> QED
      BY <2>1, <2>2, <3>1, DistStepOK
  <2>5. distributeInternal(x, id, lk, rec) \in Dists
    BY <1>0, <2>4
  <2> QED
    BY <1>3, <2>3, <2>4, <2>5 DEF id
<1> HIDE DEF Q, F
<1>6. Picks(pick, ids) /\ Preserves(F, base, pick, ids, Q)
  BY <1>2, <1>4, <1>5 DEF Picks, Preserves
<1>7. ASSUME NEW run, DistributesAll(s, ids, lk, rec, run)
      PROVE  \A K \in SUBSET ids : <<K, run[K]>> \in Q
  <2>1. Follows(F, base, pick, ids, Q, run)
    <3>1. run[{}] = base /\ \A K \in SUBSET ids : K # {} => run[K] = distributeInternal(run[K \ {pick[K]}], pick[K], lk, rec)
      BY <1>2, <1>7 DEF DistributesAll, base
    <3> QED
      BY <1>5, <3>1 DEF Follows
  <2> QED
    BY ONLY <1>1, <1>6, <2>1, FoldInvariant
<1>8. \E run : DistributesAll(s, ids, lk, rec, run)
  <2>1. PICK run : IsFold(F, base, pick, ids, run) /\ \A K \in SUBSET ids : <<K, run[K]>> \in Q
    BY ONLY <1>1, <1>6, FoldRun
  <2>2. /\ run = [K \in SUBSET ids |-> run[K]] /\ run[{}] = base
        /\ \A K \in SUBSET ids : K # {} => run[K] = F[<<pick[K], run[K \ {pick[K]}]>>]
    BY <2>1 DEF IsFold
  <2>3. \A K \in SUBSET ids : K # {} => run[K] = distributeInternal(run[K \ {pick[K]}], pick[K], lk, rec)
    BY <1>5, <2>1, <2>2
  <2>4. \A K \in SUBSET ids : run[K] = IF K = {} THEN DistStart(s)
           ELSE distributeInternal(run[K \ {LastGauge(s.gauges, K)}], LastGauge(s.gauges, K), lk, rec)
    BY <1>2, <2>2, <2>3 DEF base
  <2>5. DistributesAll(s, ids, lk, rec, run)
    BY <2>2, <2>4 DEF DistributesAll
  <2> QED
    BY <2>5
<1>9. <<ids, Distributed(s, ids, lk, rec)>> \in Q
  BY <1>7, <1>8 DEF Distributed
<1> QED
  BY <1>9 DEF Q

\* After the sends to owners, the module holds what the gauges have yet to pay.
Sent(s, x, y) ==
  /\ y \in Stores /\ y = WithBank(x, y.bank)
  /\ SumFunctionOnSet(y.bank, Accounts) = SumFunctionOnSet(s.bank, Accounts)
  /\ y.bank[Module] = Remains(x.gauges)
  /\ \A a \in Accounts : a # Module => y.bank[a] >= s.bank[a]
  /\ \A a \in ModuleAccounts : a # Module /\ a # Pool => y.bank[a] = s.bank[a]

LEMMA SendsOK ==
  ASSUME NEW s \in Stores, NEW t \in Nat, NEW K, NEW d, DistStore(s, t, K, d.st, d.info)
  PROVE  Sent(s, d.st, doDistributionSends(d))
<1> DEFINE x == d.st
           info == d.info
           D == {o \in Owners : info[o].amount > 0}
           p == [o \in D |-> info[o]]
           y == doDistributionSends(d)
           f == [o \in Owners |-> info[o].amount]
<1>1. /\ x \in Stores /\ InfoOK(info)
      /\ SumFunctionOnSet(x.bank, Accounts) = SumFunctionOnSet(s.bank, Accounts)
      /\ x.bank[Module] = Remains(x.gauges) + Owed(info) /\ GaugesOK(x.gauges, t)
      /\ \A a \in Accounts : a # Module => x.bank[a] >= s.bank[a]
      /\ \A a \in Accounts : a # Module /\ a # Pool => x.bank[a] = s.bank[a]
  BY DEF DistStore
<1>2. y = SendAll(x, Module, p)
  BY DEF doDistributionSends
<1>3. info \in Infos /\ \A o \in Owners : info[o].amount > 0 => info[o].to \in Payees
  BY <1>1 DEF InfoOK
<1>4. \A o \in Owners : info[o].amount \in Nat
  BY <1>3 DEF Infos
<1>5. IsFiniteSet(D) /\ D \subseteq Owners /\ DOMAIN p = D
  BY AccountsFinite, FS_Subset
<1>6. \A o \in D : p[o].to \in Payees /\ p[o].amount = info[o].amount /\ p[o].amount \in Nat
  BY <1>3, <1>4
<1>7. \A q \in Payees : q \in Accounts /\ q # Module /\ q \notin ModuleAccounts
  <2>1. \A q \in Payees : q \in Users
    BY DEF Payees, Users
  <2> QED
    BY <2>1, ModulesAre, AccountsAssumption
<1>8. SumFunctionOnSet(AmountsOf(p), D) = Owed(info)
  <2>1. (\A o \in Owners : f[o] \in Int) /\ (\A o \in Owners \ D : f[o] = 0)
    BY <1>4
  <2>2. \A o \in D : AmountsOf(p)[o] = f[o]
    BY <1>5, <1>6 DEF AmountsOf
  <2> HIDE DEF f, D, p
  <2>3. SumFunctionOnSet(f, Owners) = SumFunctionOnSet(f, D)
    BY <1>5, <2>1, AccountsFinite, SumSubset
  <2>4. SumFunctionOnSet(AmountsOf(p), D) = SumFunctionOnSet(f, D)
    BY <1>5, <2>2, SumEqual
  <2> QED
    BY <2>3, <2>4 DEF Owed, f
<1> HIDE DEF p, D, y, info, x
<1>9. PaymentsOK(Module, p)
  BY <1>5, <1>6, <1>7 DEF PaymentsOK
<1>10. y \in Stores /\ Paid(x, Module, p, D, y)
  BY <1>1, <1>2, <1>5, <1>9, SendAllOK, ModulesAre
<1>11. /\ y = WithBank(x, y.bank) /\ y.bank \in Balances
       /\ SumFunctionOnSet(y.bank, Accounts) = SumFunctionOnSet(x.bank, Accounts)
       /\ y.bank[Module] = x.bank[Module] - Owed(info)
       /\ \A a \in Accounts : a # Module => y.bank[a] >= x.bank[a]
       /\ \A a \in Accounts : a # Module /\ (\A k \in DOMAIN p : p[k].to # a) => y.bank[a] = x.bank[a]
  BY <1>8, <1>10 DEF Paid
<1>12. /\ x.gauges \in Seq(Gauge) /\ Remains(x.gauges) \in Nat /\ Owed(info) \in Nat
       /\ \A a \in Accounts : x.bank[a] \in Int /\ s.bank[a] \in Int /\ y.bank[a] \in Int
  <2>1. x.gauges \in Seq(Gauge)
    BY <1>1 DEF Stores
  <2> QED
    BY <1>1, <1>10, <2>1, RemainsNat, OwedInt, StoreBank
<1>13. y.bank[Module] = Remains(x.gauges)
  BY <1>1, <1>11, <1>12
<1>14. \A a \in Accounts : a # Module => y.bank[a] >= s.bank[a]
  BY <1>1, <1>11, <1>12
<1>15. \A a \in ModuleAccounts : a # Module /\ a # Pool => y.bank[a] = s.bank[a]
  <2>1. \A a \in ModuleAccounts : a \in Accounts /\ \A k \in DOMAIN p : p[k].to # a
    BY <1>5, <1>6, <1>7 DEF Accounts
  <2> QED
    BY <1>1, <1>11, <2>1
<1>16. Sent(s, x, y)
  BY <1>1, <1>10, <1>11, <1>13, <1>14, <1>15 DEF Sent
<1> QED
  BY <1>16 DEF x, y

\* The queues change; everything else stays.
SameButQueues(s, r) ==
  /\ r.gauges = s.gauges /\ r.provisions = s.provisions /\ r.lastReduction = s.lastReduction
  /\ r.records = s.records /\ r.bank = s.bank /\ r.supply = s.supply /\ r.offset = s.offset

LEMMA MovesFacts ==
  ASSUME NEW s \in Stores, NEW ids \in SUBSET Nat
  PROVE  /\ LET r == moveUpcomingGaugeToActiveGauge(s, ids)
            IN  r \in Stores /\ SameButQueues(s, r) /\ r.upcoming = s.upcoming \ ids
                /\ r.active = s.active \cup ids /\ r.finished = s.finished
         /\ LET r == moveActiveGaugeToFinishedGauge(s, ids)
            IN  r \in Stores /\ SameButQueues(s, r) /\ r.upcoming = s.upcoming
                /\ r.active = s.active \ ids /\ r.finished = s.finished \cup ids
BY DEF Stores, SameButQueues, moveUpcomingGaugeToActiveGauge, moveActiveGaugeToFinishedGauge

LEMMA QueuesChange ==
  ASSUME NEW s, NEW t, StoreOK(s, t), NEW r \in Stores, SameButQueues(s, r), QueuesOK(r, t)
  PROVE  StoreOK(r, t)
BY DEF StoreOK, SameButQueues, GaugesOK, DistrRecordsOK, Accounted

\* At the end of an epoch, all gauges that can be paid are, or none.
PaidTogether(s, lk, t, r) ==
  \/ \A id \in DOMAIN s.gauges : r.gauges[id] = s.gauges[id]
  \/ \A id \in DOMAIN s.gauges :
       r.gauges[id].filled # s.gauges[id].filled <=>
         id \notin s.finished /\ s.gauges[id].startTime <= t /\ Payable(s.gauges[id], lk)

LEMMA IncentivesOK ==
  ASSUME NEW s, NEW t \in Nat, StoreOK(s, t), NEW lk, lk \subseteq DOMAIN Locks,
         NEW rec \in [DOMAIN Locks -> Destinations]
  PROVE  LET r == IncentivesAfterEpochEnd(s, lk, rec, t)
         IN  StoreOK(r, t) /\ DOMAIN r.gauges = DOMAIN s.gauges /\ PaidTogether(s, lk, t, r)
<1> DEFINE r == IncentivesAfterEpochEnd(s, lk, rec, t)
           ids == {id \in s.upcoming : s.gauges[id].startTime <= t}
           u == moveUpcomingGaugeToActiveGauge(s, ids)
           d == Distributed(u, u.active, lk, rec)
           x == d.st
           y == doDistributionSends(d)
           fin == {id \in u.active : Finishes(u.gauges[id])}
           z == moveActiveGaugeToFinishedGauge(y, fin)
<1>1. /\ s \in Stores /\ GaugesOK(s.gauges, t) /\ QueuesOK(s, t) /\ DistrRecordsOK(s)
      /\ s.bank[Module] = Remains(s.gauges) /\ Accounted(s) /\ NonNegative(s.bank)
  BY DEF StoreOK
<1>2. r = IF d.ok THEN z ELSE s
  <2>1. Distribute(u, u.active, lk, rec) = [ok |-> d.ok, st |-> z]
    BY DistributeDef
  <2>2. r = IF Distribute(u, u.active, lk, rec).ok THEN Distribute(u, u.active, lk, rec).st ELSE s
    BY DEF IncentivesAfterEpochEnd
  <2> HIDE DEF r, u, d, z
  <2> QED
    BY <2>1, <2>2
<1>3. /\ DOMAIN s.gauges = s.upcoming \cup s.active \cup s.finished
      /\ s.upcoming \cap s.active = {} /\ s.upcoming \cap s.finished = {} /\ s.active \cap s.finished = {}
      /\ \A id \in s.active : s.gauges[id].startTime <= t
  BY <1>1 DEF QueuesOK
<1>4. ids \in SUBSET Nat /\ ids \subseteq s.upcoming /\ \A id \in ids : s.gauges[id].startTime <= t
  BY <1>1 DEF Stores
<1>5. /\ u \in Stores /\ SameButQueues(s, u) /\ u.upcoming = s.upcoming \ ids
      /\ u.active = s.active \cup ids /\ u.finished = s.finished
  <2> HIDE DEF ids
  <2> QED
    BY <1>1, <1>4, MovesFacts
<1>6. /\ u.gauges = s.gauges /\ u.bank = s.bank /\ u.records = s.records /\ u.supply = s.supply /\ u.offset = s.offset
  BY <1>5 DEF SameButQueues
<1>7. u.active \in SUBSET DOMAIN u.gauges /\ \A id \in u.active : u.gauges[id].startTime <= t
  BY <1>3, <1>4, <1>5, <1>6
<1>8. u.active = {id \in DOMAIN s.gauges : id \notin s.finished /\ s.gauges[id].startTime <= t}
  BY <1>3, <1>5
<1> HIDE DEF ids, u
<1>9. DistOK(u, t, lk, u.active, d)
  BY <1>1, <1>5, <1>6, <1>7, DistributedOK
<1> HIDE DEF d
<1>10. DistStore(u, t, u.active, x, d.info) /\ (d.ok => PaysAll(u, lk, u.active, x))
  BY <1>9 DEF DistOK
<1>11. Sent(u, x, y)
  BY <1>5, <1>10, SendsOK
<1> HIDE DEF x, y
<1>12. /\ x \in Stores /\ x = WithGauges(WithBank(u, x.bank), x.gauges)
       /\ DOMAIN x.gauges = DOMAIN u.gauges /\ GaugesOK(x.gauges, t)
       /\ \A id \in DOMAIN u.gauges : SameButPaid(u.gauges[id], x.gauges[id])
       /\ \A id \in DOMAIN u.gauges \ u.active : x.gauges[id] = u.gauges[id]
  BY <1>10 DEF DistStore
<1>13. /\ y \in Stores /\ y = WithBank(x, y.bank)
       /\ SumFunctionOnSet(y.bank, Accounts) = SumFunctionOnSet(u.bank, Accounts)
       /\ y.bank[Module] = Remains(x.gauges)
       /\ \A a \in Accounts : a # Module => y.bank[a] >= u.bank[a]
       /\ \A a \in ModuleAccounts : a # Module /\ a # Pool => y.bank[a] = u.bank[a]
  BY <1>11 DEF Sent
<1>14. /\ x.upcoming = u.upcoming /\ x.active = u.active /\ x.finished = u.finished
       /\ x.records = u.records /\ x.supply = u.supply /\ x.offset = u.offset
  <2> DEFINE b == x.bank
             gs == x.gauges
  <2>1. x = WithGauges(WithBank(u, b), gs) /\ b \in Balances /\ gs \in Seq(Gauge)
    BY <1>12, StoreBank DEF Stores
  <2> HIDE DEF b, gs
  <2> QED
    BY <1>5, <2>1, WithBankFacts, WithGaugesFacts
<1>15. /\ y.gauges = x.gauges /\ y.upcoming = x.upcoming /\ y.active = x.active /\ y.finished = x.finished
       /\ y.records = x.records /\ y.supply = x.supply /\ y.offset = x.offset
  <2> DEFINE b == y.bank
  <2>1. y = WithBank(x, b) /\ b \in Balances
    BY <1>13, StoreBank
  <2> HIDE DEF b
  <2> QED
    BY <1>12, <2>1, WithBankFacts
<1>16. fin \in SUBSET u.active /\ fin \in SUBSET Nat
  BY <1>5 DEF Stores
<1> HIDE DEF fin
<1>17. /\ z \in Stores /\ SameButQueues(y, z) /\ z.upcoming = y.upcoming
       /\ z.active = y.active \ fin /\ z.finished = y.finished \cup fin
  BY <1>13, <1>16, MovesFacts
<1> HIDE DEF z
<1>18. /\ z.gauges = x.gauges /\ z.bank = y.bank /\ z.records = s.records
       /\ z.supply = s.supply /\ z.offset = s.offset
  BY <1>6, <1>14, <1>15, <1>17 DEF SameButQueues
<1>19. StoreOK(z, t)
  <2>1. GaugesOK(z.gauges, t) /\ z.bank[Module] = Remains(z.gauges)
    BY <1>12, <1>13, <1>18
  <2>2. QueuesOK(z, t)
    <3>1. DOMAIN z.gauges = DOMAIN s.gauges /\ \A id \in DOMAIN s.gauges : z.gauges[id].startTime = s.gauges[id].startTime
      BY <1>6, <1>12, <1>18 DEF SameButPaid
    <3>2. z.upcoming = u.upcoming /\ z.active = u.active \ fin /\ z.finished = u.finished \cup fin
      BY <1>14, <1>15, <1>17
    <3>3. /\ DOMAIN s.gauges = u.upcoming \cup u.active \cup u.finished
          /\ u.upcoming \cap u.active = {} /\ u.upcoming \cap u.finished = {} /\ u.active \cap u.finished = {}
      BY <1>3, <1>4, <1>5
    <3>4. \A id \in z.active : z.gauges[id].startTime <= t
      BY <1>6, <1>7, <3>1, <3>2
    <3> QED
      BY <1>16, <3>1, <3>2, <3>3, <3>4 DEF QueuesOK
  <2>3. DistrRecordsOK(z)
    <3>1. \A id \in DOMAIN s.gauges : z.gauges[id].perpetual = s.gauges[id].perpetual
      BY <1>6, <1>12, <1>18 DEF SameButPaid
    <3>2. DOMAIN z.gauges = DOMAIN s.gauges /\ z.records = s.records
      BY <1>6, <1>12, <1>18
    <3> QED
      BY <1>1, <3>1, <3>2 DEF DistrRecordsOK
  <2>4. Accounted(z)
    <3>1. /\ s.supply = SumFunctionOnSet(s.bank, Accounts) /\ s.offset = -s.bank[DeveloperVesting]
          /\ s.bank[MintModule] = 0
      BY <1>1 DEF Accounted
    <3>2. z.bank[DeveloperVesting] = s.bank[DeveloperVesting] /\ z.bank[MintModule] = s.bank[MintModule]
      <4>1. DeveloperVesting \in ModuleAccounts /\ MintModule \in ModuleAccounts
        BY DEF ModuleAccounts
      <4> QED
        BY <1>6, <1>13, <1>18, <4>1, ModulesDiffer
    <3>3. SumFunctionOnSet(z.bank, Accounts) = SumFunctionOnSet(s.bank, Accounts)
      BY <1>6, <1>13, <1>18
    <3> QED
      BY <1>18, <3>1, <3>2, <3>3 DEF Accounted
  <2>5. NonNegative(z.bank)
    <3>1. x.gauges \in Seq(Gauge)
      BY <1>12 DEF Stores
    <3>2. Remains(x.gauges) \in Nat
      BY <1>12, <3>1, RemainsNat
    <3>3. \A a \in Accounts : a # Module => y.bank[a] >= s.bank[a] /\ s.bank[a] >= 0
      BY <1>1, <1>6, <1>13 DEF NonNegative
    <3>4. \A a \in Accounts : y.bank[a] \in Int /\ s.bank[a] \in Int
      BY <1>1, <1>13, StoreBank
    <3>5. \A a \in Accounts : y.bank[a] >= 0
      BY <1>13, <3>2, <3>3, <3>4
    <3> QED
      BY <1>18, <3>5 DEF NonNegative
  <2> QED
    BY <1>17, <2>1, <2>2, <2>3, <2>4, <2>5 DEF StoreOK
<1>20. DOMAIN z.gauges = DOMAIN s.gauges
  BY <1>6, <1>12, <1>18
<1>21. d.ok => PaidTogether(s, lk, t, z)
  <2> SUFFICES ASSUME d.ok, NEW id \in DOMAIN s.gauges
               PROVE  z.gauges[id].filled # s.gauges[id].filled <=>
                        id \notin s.finished /\ s.gauges[id].startTime <= t /\ Payable(s.gauges[id], lk)
    BY DEF PaidTogether
  <2>1. CASE id \in u.active
    <3>1. x.gauges[id].filled # u.gauges[id].filled <=> Payable(u.gauges[id], lk)
      BY <1>10, <2>1 DEF PaysAll
    <3> QED
      BY <1>6, <1>8, <1>18, <2>1, <3>1
  <2>2. CASE id \notin u.active
    BY <1>6, <1>8, <1>12, <1>18, <2>2
  <2> QED
    BY <2>1, <2>2
<1>22. PaidTogether(s, lk, t, s)
  BY DEF PaidTogether
<1> HIDE DEF r
<1>23. StoreOK(r, t) /\ DOMAIN r.gauges = DOMAIN s.gauges /\ PaidTogether(s, lk, t, r)
  BY <1>2, <1>19, <1>20, <1>21, <1>22
<1> QED
  BY <1>23 DEF r

----------------------------------------------------------------------------
(* The mint                                                                *)

\* Nothing of the gauges and of the records changes.
SameGauges(s, r) ==
  /\ r.gauges = s.gauges /\ r.upcoming = s.upcoming /\ r.active = s.active
  /\ r.finished = s.finished /\ r.records = s.records

\* r is s after a transfer.
Sending(s, from, to, amount, r) ==
  /\ r \in Stores /\ SameGauges(s, r) /\ r.supply = s.supply /\ r.offset = s.offset
  /\ r.bank[from] = s.bank[from] - amount /\ r.bank[to] = s.bank[to] + amount
  /\ \A a \in Accounts : a # from /\ a # to => r.bank[a] = s.bank[a]
  /\ SumFunctionOnSet(r.bank, Accounts) = SumFunctionOnSet(s.bank, Accounts)

LEMMA SendFacts ==
  ASSUME NEW s \in Stores, NEW from \in Accounts, NEW to \in Accounts, from # to, NEW amount \in Int
  PROVE  Sending(s, from, to, amount, Send(s, from, to, amount))
<1> DEFINE b == Moved(s.bank, from, to, amount)
           c == s.bank
<1>1. c \in Balances
  BY StoreBank
<1> HIDE DEF c
<1>2. /\ b \in Balances
      /\ b[from] = c[from] - amount /\ b[to] = c[to] + amount
      /\ \A a \in Accounts : a # from /\ a # to => b[a] = c[a]
      /\ SumFunctionOnSet(b, Accounts) = SumFunctionOnSet(c, Accounts)
  BY <1>1, MovedFacts DEF c
<1>3. Send(s, from, to, amount) = WithBank(s, b)
  BY SendIsMoved
<1> HIDE DEF b
<1> QED
  BY <1>2, <1>3, WithBankFacts DEF Sending, SameGauges, c

\* r is s with amount more on the mint's account and in the supply.
Coined(s, amount, r) ==
  /\ r \in Stores /\ SameGauges(s, r) /\ r.supply = s.supply + amount /\ r.offset = s.offset
  /\ r.bank[MintModule] = s.bank[MintModule] + amount
  /\ \A a \in Accounts : a # MintModule => r.bank[a] = s.bank[a]
  /\ SumFunctionOnSet(r.bank, Accounts) = SumFunctionOnSet(s.bank, Accounts) + amount

LEMMA CoinsFacts ==
  ASSUME NEW s \in Stores, NEW amount \in Int
  PROVE  Coined(s, amount, MintCoins(s, amount)) /\ Coined(s, -amount, BurnCoins(s, amount))
<1>1. ASSUME NEW c \in Int, NEW b, b = [s.bank EXCEPT ![MintModule] = @ + c],
             NEW r, r = [s EXCEPT !.bank = b, !.supply = @ + c]
      PROVE  Coined(s, c, r)
  <2> DEFINE old == s.bank
  <2>1. old \in Balances /\ MintModule \in Accounts /\ (\A a \in Accounts : old[a] \in Int) /\ s.supply \in Int
    BY StoreBank, ModulesAre DEF Stores
  <2> HIDE DEF old
  <2>2. b = [old EXCEPT ![MintModule] = @ + c]
    BY <1>1 DEF old
  <2>3. /\ b \in Balances /\ b[MintModule] = old[MintModule] + c
        /\ \A a \in Accounts : a # MintModule => b[a] = old[a]
    BY <2>1, <2>2 DEF Balances
  <2>4. SumFunctionOnSet(b, Accounts) = SumFunctionOnSet(old, Accounts) + b[MintModule] - old[MintModule]
    BY <2>1, <2>3, AccountsFinite, SumUpdate
  <2>5. SumFunctionOnSet(old, Accounts) \in Int
    BY <2>1, AccountsFinite, SumInt
  <2>6. SumFunctionOnSet(b, Accounts) = SumFunctionOnSet(old, Accounts) + c
    BY <2>1, <2>3, <2>4, <2>5
  <2>7. /\ r \in Stores /\ SameGauges(s, r) /\ r.supply = s.supply + c /\ r.offset = s.offset /\ r.bank = b
    <3> DEFINE n == s.supply + c
    <3>1. n \in Int /\ r = [s EXCEPT !.bank = b, !.supply = n]
      BY <1>1, <2>1
    <3> HIDE DEF n
    <3>2. r \in Stores
      BY <2>3, <3>1 DEF Stores, Balances
    <3>3. SameGauges(s, r) /\ r.supply = n /\ r.offset = s.offset /\ r.bank = b
      BY <3>1 DEF Stores, SameGauges
    <3> QED
      BY <3>2, <3>3 DEF n
  <2> QED
    BY <2>3, <2>6, <2>7 DEF Coined, old
<1> DEFINE up == [s.bank EXCEPT ![MintModule] = @ + amount]
           down == [s.bank EXCEPT ![MintModule] = @ + (-amount)]
<1>2. MintCoins(s, amount) = [s EXCEPT !.bank = up, !.supply = @ + amount]
  BY DEF MintCoins, Stores
<1>3. BurnCoins(s, amount) = [s EXCEPT !.bank = down, !.supply = @ + (-amount)]
  <2>1. s.supply - amount = s.supply + (-amount) /\ s.bank[MintModule] - amount = s.bank[MintModule] + (-amount)
    BY StoreBank, ModulesAre DEF Stores
  <2> QED
    BY <2>1 DEF BurnCoins, Stores
<1>4. -amount \in Int
  OBVIOUS
<1> HIDE DEF up, down
<1>5. Coined(s, amount, MintCoins(s, amount))
  BY <1>1, <1>2 DEF up
<1>6. Coined(s, -amount, BurnCoins(s, amount))
  BY <1>1, <1>3, <1>4 DEF down
<1> QED
  BY <1>5, <1>6

LEMMA OffsetFacts ==
  ASSUME NEW s \in Stores, NEW amount \in Int
  PROVE  LET r == AddSupplyOffset(s, amount)
         IN  /\ r \in Stores /\ SameGauges(s, r) /\ r.supply = s.supply /\ r.bank = s.bank
             /\ r.offset = s.offset + amount
<1> DEFINE n == s.offset + amount
<1>1. n \in Int /\ AddSupplyOffset(s, amount) = [s EXCEPT !.offset = n]
  BY DEF AddSupplyOffset, Stores
<1> HIDE DEF n
<1>2. AddSupplyOffset(s, amount) \in Stores
  BY <1>1 DEF Stores
<1>3. LET r == AddSupplyOffset(s, amount)
      IN  SameGauges(s, r) /\ r.supply = s.supply /\ r.bank = s.bank /\ r.offset = n
  BY <1>1 DEF Stores, SameGauges
<1> QED
  BY <1>2, <1>3 DEF n

----------------------------------------------------------------------------
(* Proportions                                                             *)

LEMMA ProductMonotone ==
  ASSUME NEW a \in Nat, NEW x \in Int, NEW y \in Int, x <= y
  PROVE  a * x <= a * y
OBVIOUS

LEMMA ProportionFacts ==
  ASSUME NEW amount \in Nat, NEW ratio \in Nat
  PROVE  /\ getProportions(amount, ratio) \in Nat
         /\ Dec * getProportions(amount, ratio) <= amount * ratio
         /\ amount * ratio < Dec * getProportions(amount, ratio) + Dec
<1> DEFINE x == amount * ratio
<1>1. x \in Nat /\ Dec \in Nat \ {0} /\ getProportions(amount, ratio) = x \div Dec
  BY ProductNat, ProportionsAssumption DEF getProportions
<1> HIDE DEF x
<1>2. x \div Dec \in Nat /\ Dec * (x \div Dec) <= x /\ x < Dec * (x \div Dec) + Dec
  BY <1>1, QuotientFacts
<1> QED
  BY <1>1, <1>2 DEF x

\* The three parts are not more than the whole.
LEMMA PartsFit ==
  ASSUME NEW amount \in Nat
  PROVE  /\ getProportions(amount, Staking) \in Nat /\ getProportions(amount, PoolIncentives) \in Nat
         /\ getProportions(amount, DeveloperRewards) \in Nat
         /\ getProportions(amount, Staking) + getProportions(amount, PoolIncentives)
              + getProportions(amount, DeveloperRewards) <= amount
<1> DEFINE p == getProportions(amount, Staking)
           q == getProportions(amount, PoolIncentives)
           r == getProportions(amount, DeveloperRewards)
<1>1. /\ Staking \in Nat /\ PoolIncentives \in Nat /\ DeveloperRewards \in Nat /\ Dec \in Nat \ {0}
      /\ Staking + PoolIncentives + DeveloperRewards <= Dec
  BY ProportionsAssumption
<1>2. /\ p \in Nat /\ Dec * p <= amount * Staking /\ q \in Nat /\ Dec * q <= amount * PoolIncentives
      /\ r \in Nat /\ Dec * r <= amount * DeveloperRewards
  BY <1>1, ProportionFacts
<1> HIDE DEF p, q, r
<1>3. /\ Dec * (p + q) = Dec * p + Dec * q /\ Dec * (p + q + r) = Dec * (p + q) + Dec * r
      /\ Dec * p \in Int /\ Dec * q \in Int /\ Dec * r \in Int
  <2>1. p + q \in Int
    BY <1>2
  <2> QED
    BY <1>1, <1>2, <2>1, Distributes
<1>4. /\ amount * (Staking + PoolIncentives) = amount * Staking + amount * PoolIncentives
      /\ amount * (Staking + PoolIncentives + DeveloperRewards)
           = amount * (Staking + PoolIncentives) + amount * DeveloperRewards
      /\ amount * Staking \in Int /\ amount * PoolIncentives \in Int /\ amount * DeveloperRewards \in Int
  <2>1. Staking + PoolIncentives \in Int
    BY <1>1
  <2> QED
    BY <1>1, <2>1, Distributes
<1>5. Dec * (p + q + r) <= amount * (Staking + PoolIncentives + DeveloperRewards)
  BY <1>2, <1>3, <1>4
<1>6. amount * (Staking + PoolIncentives + DeveloperRewards) <= amount * Dec /\ amount * Dec = Dec * amount
  BY <1>1, ProductMonotone, ProductNat
<1>7. Dec * (p + q + r) <= Dec * amount
  <2>1. /\ Dec * (p + q + r) \in Int /\ Dec * amount \in Int
        /\ amount * (Staking + PoolIncentives + DeveloperRewards) \in Int
    BY <1>1, <1>2
  <2> QED
    BY <1>5, <1>6, <2>1
<1>8. p + q + r <= amount
  <2>1. p + q + r \in Int
    BY <1>2
  <2> QED
    BY <1>1, <1>7, <2>1, ProductCancels
<1> QED
  BY <1>2, <1>8 DEF p, q, r

\* So are the parts of the developers.
LEMMA PortionsFit ==
  ASSUME NEW amount \in Nat, NEW f,
         \A i \in DOMAIN DeveloperReceivers : f[i] = getProportions(amount, DeveloperReceivers[i].weight)
  PROVE  /\ \A i \in DOMAIN DeveloperReceivers : f[i] \in Nat
         /\ SumFunctionOnSet(f, DOMAIN DeveloperReceivers) \in Nat
         /\ SumFunctionOnSet(f, DOMAIN DeveloperReceivers) <= amount
<1> DEFINE D == DOMAIN DeveloperReceivers
           w == [i \in D |-> DeveloperReceivers[i].weight]
           W == SumFunctionOnSet(w, D)
           T == SumFunctionOnSet(f, D)
<1>1. IsFiniteSet(D) /\ (\A i \in D : w[i] \in Nat) /\ W <= Dec /\ Dec \in Nat \ {0}
  <2>1. DOMAIN w = D
    OBVIOUS
  <2> QED
    BY <2>1, DeveloperReceiversAssumption, ProportionsAssumption
<1>2. \A i \in D : f[i] = getProportions(amount, w[i])
  OBVIOUS
<1> HIDE DEF D, w
<1>3. \A i \in D : f[i] \in Nat /\ Dec * f[i] <= amount * w[i] /\ amount * w[i] < Dec * f[i] + Dec
  BY <1>1, <1>2, ProportionFacts
<1>4. T \in Nat /\ W \in Nat
  BY <1>1, <1>3, SumNat
<1>5. Dec * T <= amount * W
  <2>1. /\ amount \in Int /\ Dec \in Int /\ \A i \in D : f[i] \in Int /\ w[i] \in Int
        /\ \A i \in D : Dec * f[i] <= amount * w[i] /\ amount * w[i] < Dec * f[i] + Dec
    BY <1>1, <1>3
  <2> QED
    BY ONLY <1>1, <2>1, SumOfQuotients
<1> HIDE DEF W, T
<1>6. amount * W <= amount * Dec /\ amount * Dec = Dec * amount
  BY <1>1, <1>4, ProductMonotone, ProductNat
<1>7. Dec * T <= Dec * amount
  <2>1. Dec * T \in Int /\ Dec * amount \in Int /\ amount * W \in Int
    BY <1>1, <1>4
  <2> QED
    BY <1>5, <1>6, <2>1
<1>8. T <= amount
  BY <1>1, <1>4, <1>7, ProductCancels
<1> QED
  BY <1>3, <1>4, <1>8 DEF D, T

LEMMA RoundedNat ==
  ASSUME NEW a \in Nat, NEW b \in Nat \ {0}
  PROVE  RoundedQuotient(a, b) \in Nat
<1> DEFINE q == a \div b
<1>1. q \in Nat
  BY QuotientFacts
<1>2. RoundedQuotient(a, b) = q \/ RoundedQuotient(a, b) = q + 1
  BY DEF RoundedQuotient
<1> HIDE DEF q
<1> QED
  BY <1>1, <1>2

\* The developers are paid from the vesting account, not more than amount.
DevelopersPaid(s, amount, r) ==
  /\ r \in Stores /\ SameGauges(s, r) /\ r.supply = s.supply /\ r.offset = s.offset
  /\ SumFunctionOnSet(r.bank, Accounts) = SumFunctionOnSet(s.bank, Accounts)
  /\ r.bank[DeveloperVesting] >= s.bank[DeveloperVesting] - amount
  /\ \A a \in Accounts : a # DeveloperVesting => r.bank[a] >= s.bank[a]
  /\ \A a \in {Module, MintModule, PoolIncentivesModule} : r.bank[a] = s.bank[a]

LEMMA PayDevelopersOK ==
  ASSUME NEW s \in Stores, NEW amount \in Nat
  PROVE  DevelopersPaid(s, amount, PayDevelopers(s, amount))
<1> DEFINE r == PayDevelopers(s, amount)
           D == DOMAIN DeveloperReceivers
           receiverOf(w) == IF w.address = NoReceiver THEN CommunityPool ELSE w.address
           p == [i \in D |-> [to |-> receiverOf(DeveloperReceivers[i]),
                              amount |-> getProportions(amount, DeveloperReceivers[i].weight)]]
<1>1. r = IF D = {} THEN Send(s, DeveloperVesting, CommunityPool, amount) ELSE SendAll(s, DeveloperVesting, p)
  BY DEF PayDevelopers
<1>2. \A a \in Accounts : s.bank[a] \in Int
  BY StoreBank
<1>3. DeveloperVesting \in Accounts /\ CommunityPool \in Accounts /\ DeveloperVesting # CommunityPool
  BY ModulesAre, ModulesDiffer
<1>4. {Module, MintModule, PoolIncentivesModule} \subseteq Accounts
  BY ModulesAre
<1>5. CASE D = {}
  <2>1. Sending(s, DeveloperVesting, CommunityPool, amount, r)
    BY <1>1, <1>3, <1>5, SendFacts
  <2> HIDE DEF r
  <2> QED
    BY <1>2, <1>3, <1>4, <2>1, ModulesDiffer DEF Sending, DevelopersPaid, r
<1>6. CASE D # {}
  <2>1. r = SendAll(s, DeveloperVesting, p)
    BY <1>1, <1>6
  <2>2. \A i \in D : /\ p[i].to \in {CommunityPool} \cup Developers
                     /\ p[i].amount = getProportions(amount, DeveloperReceivers[i].weight)
    BY DEF Developers
  <2>3. \A d \in {CommunityPool} \cup Developers :
          d \in Accounts /\ d # DeveloperVesting /\ d # Module /\ d # MintModule /\ d # PoolIncentivesModule
    <3>1. \A d \in Developers : d \in Users
      BY DEF Users
    <3> QED
      BY <3>1, ModulesAre, ModulesDiffer
  <2>4. DOMAIN p = D
    OBVIOUS
  <2> HIDE DEF p, r
  <2>5. \A i \in D : AmountsOf(p)[i] = getProportions(amount, DeveloperReceivers[i].weight) /\ AmountsOf(p)[i] = p[i].amount
    BY <2>2, <2>4 DEF AmountsOf
  <2> DEFINE T == SumFunctionOnSet(AmountsOf(p), D)
  <2>6. (\A i \in D : AmountsOf(p)[i] \in Nat) /\ T \in Nat /\ T <= amount
    <3> DEFINE f == AmountsOf(p)
    <3>1. \A i \in DOMAIN DeveloperReceivers : f[i] = getProportions(amount, DeveloperReceivers[i].weight)
      BY <2>5
    <3> HIDE DEF f
    <3>2. /\ \A i \in DOMAIN DeveloperReceivers : f[i] \in Nat
          /\ SumFunctionOnSet(f, DOMAIN DeveloperReceivers) \in Nat
          /\ SumFunctionOnSet(f, DOMAIN DeveloperReceivers) <= amount
      BY <3>1, PortionsFit
    <3> QED
      BY <3>2 DEF f
  <2>7. PaymentsOK(DeveloperVesting, p)
    <3>1. IsFiniteSet(DOMAIN p)
      BY <2>4, DeveloperReceiversAssumption
    <3> QED
      BY <2>2, <2>3, <2>4, <2>5, <2>6, <3>1 DEF PaymentsOK
  <2>8. r \in Stores /\ Paid(s, DeveloperVesting, p, D, r)
    BY <1>3, <2>1, <2>4, <2>7, SendAllOK
  <2>9. /\ r = WithBank(s, r.bank) /\ r.bank \in Balances
        /\ SumFunctionOnSet(r.bank, Accounts) = SumFunctionOnSet(s.bank, Accounts)
        /\ r.bank[DeveloperVesting] = s.bank[DeveloperVesting] - T
        /\ \A a \in Accounts : a # DeveloperVesting => r.bank[a] >= s.bank[a]
        /\ \A a \in Accounts : a # DeveloperVesting /\ (\A k \in DOMAIN p : p[k].to # a) => r.bank[a] = s.bank[a]
    BY <2>8 DEF Paid
  <2> HIDE DEF T
  <2>10. r.bank[DeveloperVesting] >= s.bank[DeveloperVesting] - amount
    BY <1>2, <1>3, <2>6, <2>9
  <2>11. \A a \in {Module, MintModule, PoolIncentivesModule} : r.bank[a] = s.bank[a]
    <3>1. \A a \in {Module, MintModule, PoolIncentivesModule} :
            a \in Accounts /\ a # DeveloperVesting /\ \A k \in DOMAIN p : p[k].to # a
      BY <2>2, <2>3, <2>4, ModulesAre, ModulesDiffer
    <3> QED
      BY <2>9, <3>1
  <2>12. SameGauges(s, r) /\ r.supply = s.supply /\ r.offset = s.offset
    <3> DEFINE b == r.bank
    <3>1. r = WithBank(s, b) /\ b \in Balances
      BY <2>9
    <3> HIDE DEF b
    <3> QED
      BY <3>1, WithBankFacts DEF SameGauges
  <2> QED
    BY <2>8, <2>9, <2>10, <2>11, <2>12 DEF DevelopersPaid, r
<1> QED
  BY <1>5, <1>6

\* The provisions and the number of the reduction change; everything else stays.
LEMMA ReducedFacts ==
  ASSUME NEW s \in Stores, NEW epoch \in Nat
  PROVE  LET r == Reduced(s, epoch)
         IN  /\ r \in Stores /\ SameGauges(s, r) /\ r.bank = s.bank /\ r.supply = s.supply
             /\ r.offset = s.offset /\ Provision(s, epoch) \in Nat
<1> DEFINE r == Reduced(s, epoch)
           last == IF epoch = StartEpoch THEN epoch ELSE s.lastReduction
           next == NextEpochProvisions(s.provisions)
<1>1. last \in Nat /\ s.provisions \in Nat
  BY DEF Stores
<1>2. next \in Nat
  <2> DEFINE x == s.provisions * ReductionFactor
  <2>1. x \in Nat /\ Dec \in Nat \ {0}
    BY <1>1, ProductNat, ProportionsAssumption
  <2> HIDE DEF x
  <2>2. RoundedQuotient(x, Dec) \in Nat
    BY <2>1, RoundedNat
  <2> QED
    BY <2>2 DEF NextEpochProvisions, x
<1>3. \/ r = [s EXCEPT !.provisions = next, !.lastReduction = epoch]
      \/ r = [s EXCEPT !.lastReduction = last]
  BY DEF Reduced
<1> HIDE DEF last, next, r
<1>4. r \in Stores
  BY <1>1, <1>2, <1>3 DEF Stores
<1>5. SameGauges(s, r) /\ r.bank = s.bank /\ r.supply = s.supply /\ r.offset = s.offset
  BY <1>3 DEF Stores, SameGauges
<1>6. Provision(s, epoch) \in Nat
  <2> DEFINE n == r.provisions
  <2>1. n \in Nat /\ Dec \in Nat \ {0} /\ Provision(s, epoch) = n \div Dec
    BY <1>4, ProportionsAssumption DEF Stores, Provision, r
  <2> HIDE DEF n
  <2> QED
    BY <2>1, QuotientFacts
<1> QED
  BY <1>4, <1>5, <1>6 DEF r

LEMMA SameGaugesTrans ==
  ASSUME NEW s, NEW r, NEW u, SameGauges(s, r), SameGauges(r, u)
  PROVE  SameGauges(s, u)
BY DEF SameGauges

\* Balances that change, gauges that do not
LEMMA SameGaugesOK ==
  ASSUME NEW s, NEW t, StoreOK(s, t), NEW r \in Stores, SameGauges(s, r),
         r.bank[Module] = s.bank[Module], Accounted(r), NonNegative(r.bank)
  PROVE  StoreOK(r, t)
<1>1. /\ s \in Stores /\ GaugesOK(s.gauges, t) /\ QueuesOK(s, t) /\ DistrRecordsOK(s)
      /\ s.bank[Module] = Remains(s.gauges)
  BY DEF StoreOK
<1>2. r.gauges = s.gauges /\ r.upcoming = s.upcoming /\ r.active = s.active /\ r.finished = s.finished
      /\ r.records = s.records
  BY DEF SameGauges
<1>3. QueuesOK(r, t)
  BY <1>1, <1>2 DEF QueuesOK
<1>4. DistrRecordsOK(r)
  BY <1>1, <1>2 DEF DistrRecordsOK
<1>5. GaugesOK(r.gauges, t) /\ r.bank[Module] = Remains(r.gauges)
  BY <1>1, <1>2
<1> QED
  BY <1>3, <1>4, <1>5 DEF StoreOK

\* The mint gives out all it mints; what developers were to get is burnt, and taken from
\* the vesting account.
LEMMA MintedOK ==
  ASSUME NEW s, NEW t, StoreOK(s, t), NEW epoch \in Nat, VestingSuffices(s, epoch)
  PROVE  StoreOK(Minted(s, epoch), t) /\ SameGauges(s, Minted(s, epoch))
<1> DEFINE n == Provision(s, epoch)
           f == getProportions(n, Staking)
           g == getProportions(n, PoolIncentives)
           h == getProportions(n, DeveloperRewards)
           rest == n - f - g - h
           u == Reduced(s, epoch)
           a == MintCoins(u, n)
           b == Send(a, MintModule, FeeCollector, f)
           c == Send(b, MintModule, PoolIncentivesModule, g)
           d == BurnCoins(c, h)
           v == c.bank[DeveloperVesting]
           e == AddSupplyOffset(d, v)
           p == PayDevelopers(e, h)
           w == p.bank[DeveloperVesting]
           q == AddSupplyOffset(p, -w)
           m == Send(q, MintModule, CommunityPool, rest)
           Sum(x) == SumFunctionOnSet(x.bank, Accounts)
<1>1. /\ s \in Stores /\ Accounted(s) /\ NonNegative(s.bank)
      /\ s.supply = Sum(s) /\ s.offset = -s.bank[DeveloperVesting] /\ s.bank[MintModule] = 0
  BY DEF StoreOK, Accounted
<1>2. Minted(s, epoch) = m
  BY DEF Minted, DistributeMintedCoin, distributeDeveloperRewards
<1>3. s.bank[DeveloperVesting] >= h
  BY DEF VestingSuffices
<1>4. u \in Stores /\ SameGauges(s, u) /\ u.bank = s.bank /\ u.supply = s.supply /\ u.offset = s.offset /\ n \in Nat
  BY <1>1, ReducedFacts
<1> HIDE DEF n, u
<1>5. f \in Nat /\ g \in Nat /\ h \in Nat /\ f + g + h <= n
  BY <1>4, PartsFit
<1> HIDE DEF f, g, h
<1>6. rest \in Nat /\ rest = n - f - g - h
  BY <1>4, <1>5
<1> HIDE DEF rest
<1>7. {Module, MintModule, FeeCollector, PoolIncentivesModule, DeveloperVesting, CommunityPool} \subseteq Accounts
  BY ModulesAre
<1>8. Coined(u, n, a)
  BY <1>4, CoinsFacts
<1> HIDE DEF a
<1>9. Sending(a, MintModule, FeeCollector, f, b)
  BY <1>5, <1>7, <1>8, ModulesDiffer, SendFacts DEF Coined
<1> HIDE DEF b
<1>10. Sending(b, MintModule, PoolIncentivesModule, g, c)
  <2>1. b \in Stores
    BY <1>9 DEF Sending
  <2> QED
    BY <1>5, <1>7, <2>1, ModulesDiffer, SendFacts
<1> HIDE DEF c
<1>11. c \in Stores /\ v \in Int
  BY <1>7, <1>10, StoreBank DEF Sending
<1>12. Coined(c, -h, d)
  BY <1>5, <1>11, CoinsFacts
<1> HIDE DEF d, v
<1>13. d \in Stores
  BY <1>12 DEF Coined
<1>14. /\ e \in Stores /\ SameGauges(d, e) /\ e.supply = d.supply /\ e.bank = d.bank /\ e.offset = d.offset + v
  BY <1>11, <1>13, OffsetFacts
<1> HIDE DEF e
<1>15. DevelopersPaid(e, h, p)
  BY <1>5, <1>14, PayDevelopersOK
<1> HIDE DEF p
<1>16. p \in Stores /\ w \in Int /\ -w \in Int
  <2>1. p \in Stores
    BY <1>15 DEF DevelopersPaid
  <2>2. w \in Int
    BY <1>7, <2>1, StoreBank
  <2> HIDE DEF w
  <2> QED
    BY <2>1, <2>2
<1> HIDE DEF w
<1>17. /\ q \in Stores /\ SameGauges(p, q) /\ q.supply = p.supply /\ q.bank = p.bank /\ q.offset = p.offset + (-w)
  BY <1>16, OffsetFacts
<1> HIDE DEF q
<1>18. Sending(q, MintModule, CommunityPool, rest, m)
  BY <1>6, <1>7, <1>17, ModulesDiffer, SendFacts
<1> HIDE DEF m
<1>19. SameGauges(s, m)
  <2>1. SameGauges(u, a) /\ SameGauges(a, b) /\ SameGauges(b, c) /\ SameGauges(c, d) /\ SameGauges(e, p) /\ SameGauges(q, m)
    BY <1>8, <1>9, <1>10, <1>12, <1>15, <1>18 DEF Coined, Sending, DevelopersPaid
  <2> QED
    BY <1>4, <1>14, <1>17, <2>1 DEF SameGauges
<1>20. \A x \in {s, u, a, b, c, d, e, p, q, m} : x \in Stores
  BY <1>1, <1>4, <1>8, <1>9, <1>10, <1>13, <1>14, <1>16, <1>17, <1>18 DEF Coined, Sending
<1>21. \A x \in {s, u, a, b, c, d, e, p, q, m} : Sum(x) \in Int /\ x.supply \in Int /\ x.offset \in Int /\ \A k \in Accounts : x.bank[k] \in Int
  <2>1. \A x \in Stores : Sum(x) \in Int /\ x.supply \in Int /\ x.offset \in Int /\ \A k \in Accounts : x.bank[k] \in Int
    <3> SUFFICES ASSUME NEW x \in Stores
                 PROVE  Sum(x) \in Int /\ x.supply \in Int /\ x.offset \in Int /\ \A k \in Accounts : x.bank[k] \in Int
      OBVIOUS
    <3>1. \A k \in Accounts : x.bank[k] \in Int
      BY StoreBank
    <3>2. Sum(x) \in Int
      BY <3>1, AccountsFinite, SumInt
    <3>3. x.supply \in Int /\ x.offset \in Int
      BY DEF Stores
    <3> QED
      BY <3>1, <3>2, <3>3
  <2> QED
    BY <1>20, <2>1
<1>22. m.supply = Sum(m)
  <2>1. /\ Sum(u) = Sum(s) /\ u.supply = s.supply /\ Sum(a) = Sum(u) + n /\ a.supply = u.supply + n
        /\ Sum(b) = Sum(a) /\ b.supply = a.supply /\ Sum(c) = Sum(b) /\ c.supply = b.supply
        /\ Sum(d) = Sum(c) + (-h) /\ d.supply = c.supply + (-h)
        /\ Sum(e) = Sum(d) /\ e.supply = d.supply /\ Sum(p) = Sum(e) /\ p.supply = e.supply
        /\ Sum(q) = Sum(p) /\ q.supply = p.supply /\ Sum(m) = Sum(q) /\ m.supply = q.supply
    BY <1>4, <1>8, <1>9, <1>10, <1>12, <1>14, <1>15, <1>17, <1>18 DEF Coined, Sending, DevelopersPaid
  <2> HIDE DEF Sum
  <2> QED
    BY <1>1, <1>4, <1>5, <1>21, <2>1
<1> HIDE DEF Sum
<1>23. v = s.bank[DeveloperVesting] /\ e.bank[DeveloperVesting] = v /\ m.bank[DeveloperVesting] = w
  BY <1>4, <1>7, <1>8, <1>9, <1>10, <1>12, <1>14, <1>17, <1>18, ModulesDiffer DEF Coined, Sending, v, w
<1>24. m.offset = -m.bank[DeveloperVesting]
  <2>1. /\ a.offset = u.offset /\ b.offset = a.offset /\ c.offset = b.offset /\ d.offset = c.offset
        /\ p.offset = e.offset /\ m.offset = q.offset
    BY <1>8, <1>9, <1>10, <1>12, <1>15, <1>18 DEF Coined, Sending, DevelopersPaid
  <2> QED
    BY <1>1, <1>4, <1>11, <1>14, <1>16, <1>17, <1>21, <1>23, <2>1
<1>25. m.bank[MintModule] = 0
  <2>1. /\ u.bank[MintModule] = 0 /\ a.bank[MintModule] = u.bank[MintModule] + n
        /\ b.bank[MintModule] = a.bank[MintModule] - f /\ c.bank[MintModule] = b.bank[MintModule] - g
        /\ d.bank[MintModule] = c.bank[MintModule] + (-h) /\ e.bank[MintModule] = d.bank[MintModule]
        /\ p.bank[MintModule] = e.bank[MintModule] /\ q.bank[MintModule] = p.bank[MintModule]
        /\ m.bank[MintModule] = q.bank[MintModule] - rest
    BY <1>1, <1>4, <1>8, <1>9, <1>10, <1>12, <1>14, <1>15, <1>17, <1>18 DEF Coined, Sending, DevelopersPaid
  <2> QED
    BY <1>4, <1>5, <1>6, <2>1
<1>26. m.bank[Module] = s.bank[Module]
  <2>1. /\ a.bank[Module] = u.bank[Module] /\ b.bank[Module] = a.bank[Module] /\ c.bank[Module] = b.bank[Module]
        /\ d.bank[Module] = c.bank[Module] /\ p.bank[Module] = e.bank[Module] /\ m.bank[Module] = q.bank[Module]
    BY <1>7, <1>8, <1>9, <1>10, <1>12, <1>15, <1>18, ModulesDiffer DEF Coined, Sending, DevelopersPaid
  <2> QED
    BY <1>4, <1>14, <1>17, <2>1
<1>27. NonNegative(m.bank)
  <2> SUFFICES ASSUME NEW k \in Accounts PROVE m.bank[k] >= 0
    BY DEF NonNegative
  <2>0. s.bank[k] >= 0
    BY <1>1 DEF NonNegative
  <2>1. CASE k = MintModule
    BY <1>25, <2>1
  <2>2. CASE k = DeveloperVesting
    <3>1. p.bank[DeveloperVesting] >= e.bank[DeveloperVesting] - h
      BY <1>15 DEF DevelopersPaid
    <3>2. w >= s.bank[DeveloperVesting] - h
      BY <1>23, <3>1 DEF w
    <3> QED
      BY <1>3, <1>5, <1>7, <1>16, <1>21, <1>23, <2>2, <3>2
  <2>3. CASE k # MintModule /\ k # DeveloperVesting
    <3>1. /\ u.bank[k] = s.bank[k] /\ a.bank[k] = u.bank[k] /\ d.bank[k] = c.bank[k] /\ e.bank[k] = d.bank[k]
          /\ q.bank[k] = p.bank[k] /\ p.bank[k] >= e.bank[k]
      BY <1>4, <1>8, <1>12, <1>14, <1>15, <1>17, <2>3 DEF Coined, DevelopersPaid
    <3>2. b.bank[k] = a.bank[k] \/ b.bank[k] = a.bank[k] + f
      BY <1>9, <2>3 DEF Sending
    <3>3. c.bank[k] = b.bank[k] \/ c.bank[k] = b.bank[k] + g
      BY <1>10, <2>3 DEF Sending
    <3>4. m.bank[k] = q.bank[k] \/ m.bank[k] = q.bank[k] + rest
      BY <1>18, <2>3 DEF Sending
    <3>5. \A x \in {s, u, a, b, c, d, e, p, q, m} : x.bank[k] \in Int
      BY <1>21
    <3> QED
      BY <1>5, <1>6, <2>0, <3>1, <3>2, <3>3, <3>4, <3>5
  <2> QED
    BY <2>1, <2>2, <2>3
<1>28. Accounted(m)
  BY <1>22, <1>24, <1>25 DEF Accounted, Sum
<1>29. m \in Stores
  BY <1>18 DEF Sending
<1>30. StoreOK(m, t)
  BY <1>19, <1>26, <1>27, <1>28, <1>29, SameGaugesOK
<1> QED
  BY <1>2, <1>19, <1>30

----------------------------------------------------------------------------
(* Coins for gauges                                                        *)

MoreCoins(g, amount) == [g EXCEPT !.coins = @ + amount]

\* Gauges that differ by their coins only
SameButCoins(g, h) ==
  /\ h.perpetual = g.perpetual /\ h.noLock = g.noLock /\ h.duration = g.duration
  /\ h.startTime = g.startTime /\ h.numEpochs = g.numEpochs /\ h.filled = g.filled

LEMMA MoreCoinsOK ==
  ASSUME NEW g \in Gauge, NEW t \in Nat, GaugeOK(g, t), g.perpetual \/ g.filled # g.numEpochs, NEW amount \in Nat
  PROVE  /\ MoreCoins(g, amount) \in Gauge /\ GaugeOK(MoreCoins(g, amount), t)
         /\ remainCoins(MoreCoins(g, amount)) = remainCoins(g) + amount /\ remainCoins(g) \in Int
         /\ SameButCoins(g, MoreCoins(g, amount))
<1> DEFINE h == MoreCoins(g, amount)
           n == g.coins + amount
<1>1. g.coins \in Nat /\ g.distributed \in Nat /\ n \in Nat
  BY DEF Gauge
<1>2. h = [g EXCEPT !.coins = n]
  BY DEF MoreCoins
<1>3. n = g.coins + amount
  OBVIOUS
<1> HIDE DEF h, n
<1>4. h \in Gauge
  BY <1>1, <1>2 DEF Gauge
<1>5. /\ h.coins = n /\ h.distributed = g.distributed
  BY <1>2 DEF Gauge
<1>6. SameButCoins(g, h)
  BY <1>2 DEF Gauge, SameButCoins
<1>7. remainCoins(h) = remainCoins(g) + amount /\ remainCoins(g) \in Int
  BY <1>1, <1>3, <1>5 DEF remainCoins
<1>8. GaugeOK(h, t)
  <2>1. /\ g.distributed <= g.coins /\ (~g.perpetual => g.filled <= g.numEpochs) /\ (g.filled > 0 => g.startTime <= t)
    BY DEF GaugeOK
  <2>2. h.distributed <= h.coins
    BY <1>1, <1>3, <1>5, <2>1
  <2>3. /\ h.perpetual = g.perpetual /\ h.startTime = g.startTime /\ h.numEpochs = g.numEpochs /\ h.filled = g.filled
    BY <1>6 DEF SameButCoins
  <2>4. Dust(h)
    BY <2>3 DEF Dust
  <2> QED
    BY <2>1, <2>2, <2>3, <2>4 DEF GaugeOK
<1> QED
  BY <1>4, <1>6, <1>7, <1>8 DEF h

\* r is s after a gauge got coins.
Filled(s, t, from, id, amount, r) ==
  /\ r \in Stores /\ DOMAIN r.gauges = DOMAIN s.gauges /\ GaugesOK(r.gauges, t)
  /\ \A i \in DOMAIN s.gauges : SameButCoins(s.gauges[i], r.gauges[i])
  /\ r.upcoming = s.upcoming /\ r.active = s.active /\ r.finished = s.finished
  /\ r.records = s.records /\ r.supply = s.supply /\ r.offset = s.offset
  /\ r.bank[from] = s.bank[from] - amount
  /\ r.bank[Module] = s.bank[Module] + amount
  /\ Remains(r.gauges) = Remains(s.gauges) + amount
  /\ \A a \in Accounts : a # from /\ a # Module => r.bank[a] = s.bank[a]
  /\ SumFunctionOnSet(r.bank, Accounts) = SumFunctionOnSet(s.bank, Accounts)

LEMMA AddToGaugeOK ==
  ASSUME NEW s \in Stores, NEW t \in Nat, GaugesOK(s.gauges, t), NEW id \in DOMAIN s.gauges,
         s.gauges[id].perpetual \/ s.gauges[id].filled # s.gauges[id].numEpochs,
         NEW from \in Accounts, from # Module, NEW amount \in Nat
  PROVE  Filled(s, t, from, id, amount, AddToGaugeRewards(s, from, amount, id))
<1> DEFINE r == AddToGaugeRewards(s, from, amount, id)
           xs == s.gauges
           g == xs[id]
           h == MoreCoins(g, amount)
           gs == Regauged(xs, id, h)
           m == Send(s, from, Module, amount)
<1>1. xs \in Seq(Gauge) /\ id \in DOMAIN xs /\ g \in Gauge /\ GaugeOK(g, t)
  BY GaugesAre DEF Stores, GaugesOK
<1>2. /\ h \in Gauge /\ GaugeOK(h, t) /\ remainCoins(h) = remainCoins(g) + amount
      /\ remainCoins(g) \in Int /\ SameButCoins(g, h)
  BY <1>1, MoreCoinsOK
<1>3. Sending(s, from, Module, amount, m)
  BY ModulesAre, SendFacts
<1>4. r = WithGauges(m, gs)
  <2>1. m \in Stores /\ m.gauges = xs
    BY <1>3 DEF Sending, SameGauges
  <2>2. r = [m EXCEPT !.gauges[id].coins = @ + amount]
    BY DEF AddToGaugeRewards
  <2> HIDE DEF m, r
  <2> QED
    BY <2>1, <2>2 DEF WithGauges, Regauged, MoreCoins, Stores
<1> HIDE DEF xs, h, m, r
<1>5. /\ gs \in Seq(Gauge) /\ DOMAIN gs = DOMAIN xs /\ gs[id] = h
      /\ \A i \in DOMAIN xs : i # id => gs[i] = xs[i]
  BY <1>1, <1>2, RegaugedFacts
<1>6. Remains(gs) = Remains(xs) + remainCoins(h) - remainCoins(g) /\ Remains(xs) \in Int
  BY <1>1, <1>2, RemainsRegauged
<1>7. Remains(gs) = Remains(xs) + amount
  BY <1>2, <1>6
<1> HIDE DEF gs, g
<1>8. m \in Stores
  BY <1>3 DEF Sending
<1>9. /\ r \in Stores /\ r.gauges = gs /\ r.bank = m.bank /\ r.upcoming = m.upcoming /\ r.active = m.active
      /\ r.finished = m.finished /\ r.records = m.records /\ r.supply = m.supply /\ r.offset = m.offset
  BY <1>4, <1>5, <1>8, WithGaugesFacts
<1>10. GaugesOK(gs, t)
  BY <1>1, <1>2, <1>5 DEF GaugesOK, xs
<1>11. \A i \in DOMAIN xs : SameButCoins(xs[i], gs[i])
  <2>1. \A k : SameButCoins(k, k)
    BY DEF SameButCoins
  <2> QED
    BY <1>2, <1>5, <2>1 DEF g
<1>12. Filled(s, t, from, id, amount, r)
  BY <1>3, <1>5, <1>7, <1>9, <1>10, <1>11 DEF Filled, Sending, SameGauges, xs
<1> QED
  BY <1>12 DEF r

----------------------------------------------------------------------------
(* The part of the pool incentives                                         *)

Allocations(m) == [id \in DOMAIN m.records |-> Allocation(m, id)]

\* The records K of m have got their part; x is the store.
Allocated(m, t, K, x) ==
  /\ x \in Stores /\ DOMAIN x.gauges = DOMAIN m.gauges /\ GaugesOK(x.gauges, t)
  /\ \A i \in DOMAIN m.gauges : SameButCoins(m.gauges[i], x.gauges[i])
  /\ x.upcoming = m.upcoming /\ x.active = m.active /\ x.finished = m.finished
  /\ x.records = m.records /\ x.supply = m.supply /\ x.offset = m.offset
  /\ x.bank[PoolIncentivesModule] = m.bank[PoolIncentivesModule] - SumFunctionOnSet(Allocations(m), K)
  /\ x.bank[Module] = Remains(x.gauges)
  /\ \A a \in Accounts : a # PoolIncentivesModule => x.bank[a] >= m.bank[a]
  /\ x.bank[MintModule] = m.bank[MintModule] /\ x.bank[DeveloperVesting] = m.bank[DeveloperVesting]
  /\ SumFunctionOnSet(x.bank, Accounts) = SumFunctionOnSet(m.bank, Accounts)

LEMMA SameButCoinsTrans ==
  ASSUME NEW f, NEW g, NEW h, SameButCoins(f, g), SameButCoins(g, h)
  PROVE  SameButCoins(f, h)
BY DEF SameButCoins

LEMMA AllocationsAre ==
  ASSUME NEW m, NEW t, StoreOK(m, t), TotalWeight(m.records) # 0
  PROVE  /\ IsFiniteSet(DOMAIN m.records) /\ DOMAIN m.records \subseteq Nat /\ TotalWeight(m.records) \in Nat
         /\ \A id \in DOMAIN m.records : Allocations(m)[id] = Allocation(m, id) /\ Allocation(m, id) \in Nat
<1>1. /\ m \in Stores /\ IsFiniteSet(DOMAIN m.records) /\ NonNegative(m.bank)
  BY DEF StoreOK, DistrRecordsOK
<1>2. DOMAIN m.records \subseteq Nat /\ \A id \in DOMAIN m.records : m.records[id] \in Nat
  <2>1. m.records \in WeightRecords
    BY <1>1 DEF Stores
  <2> QED
    BY <2>1 DEF WeightRecords
<1>3. TotalWeight(m.records) \in Nat \ {0}
  <2> DEFINE f == m.records
             D == DOMAIN f
  <2>1. IsFiniteSet(D) /\ \A id \in D : f[id] \in Nat
    BY <1>1, <1>2
  <2> HIDE DEF f, D
  <2>2. SumFunctionOnSet(f, D) \in Nat
    BY <2>1, SumNat
  <2> QED
    BY <2>2 DEF TotalWeight, f, D
<1>4. ASSUME NEW id \in DOMAIN m.records PROVE Allocation(m, id) \in Nat
  <2> DEFINE asset == m.bank[PoolIncentivesModule]
             weight == m.records[id]
             all == TotalWeight(m.records)
             x == weight * Dec
             q == RoundedQuotient(x, all)
             y == asset * q
  <2>1. asset \in Nat
    BY <1>1, StoreBank, ModulesAre DEF NonNegative
  <2>2. Dec \in Nat \ {0} /\ weight \in Nat /\ all \in Nat \ {0}
    BY <1>2, <1>3, ProportionsAssumption
  <2>3. Allocation(m, id) = y \div Dec
    BY DEF Allocation
  <2> HIDE DEF asset, weight, all
  <2>4. x \in Nat
    BY <2>2, ProductNat
  <2> HIDE DEF x
  <2>5. q \in Nat
    BY <2>2, <2>4, RoundedNat
  <2> HIDE DEF q
  <2>6. y \in Nat
    BY <2>1, <2>5, ProductNat
  <2> HIDE DEF y
  <2> QED
    BY <2>2, <2>3, <2>6, QuotientFacts
<1> QED
  BY <1>1, <1>2, <1>3, <1>4 DEF Allocations

LEMMA AllocateToOK ==
  ASSUME NEW m, NEW t \in Nat, StoreOK(m, t), TotalWeight(m.records) # 0,
         NEW K \in SUBSET DOMAIN m.records, NEW id \in K, NEW x, Allocated(m, t, K \ {id}, x)
  PROVE  Allocated(m, t, K, AllocateTo(x, id, Allocation(m, id)))
<1> DEFINE A == Allocations(m)
           c == Allocation(m, id)
           r == AllocateTo(x, id, c)
           P == PoolIncentivesModule
<1>1. /\ IsFiniteSet(DOMAIN m.records) /\ c \in Nat /\ A[id] = c
      /\ \A k \in DOMAIN m.records : A[k] \in Nat /\ A[k] \in Int
  BY AllocationsAre
<1>2. SumFunctionOnSet(A, K) = c + SumFunctionOnSet(A, K \ {id}) /\ SumFunctionOnSet(A, K \ {id}) \in Int
  <2>1. IsFiniteSet(K) /\ IsFiniteSet(K \ {id}) /\ \A k \in K : A[k] \in Int
    BY <1>1, FS_Subset
  <2> HIDE DEF A
  <2> QED
    BY <1>1, <2>1, SumRemove, SumInt
<1>3. /\ x \in Stores /\ DOMAIN x.gauges = DOMAIN m.gauges /\ GaugesOK(x.gauges, t)
      /\ \A i \in DOMAIN m.gauges : SameButCoins(m.gauges[i], x.gauges[i])
      /\ x.upcoming = m.upcoming /\ x.active = m.active /\ x.finished = m.finished
      /\ x.records = m.records /\ x.supply = m.supply /\ x.offset = m.offset
      /\ x.bank[P] = m.bank[P] - SumFunctionOnSet(A, K \ {id})
      /\ x.bank[Module] = Remains(x.gauges)
      /\ \A a \in Accounts : a # P => x.bank[a] >= m.bank[a]
      /\ x.bank[MintModule] = m.bank[MintModule] /\ x.bank[DeveloperVesting] = m.bank[DeveloperVesting]
      /\ SumFunctionOnSet(x.bank, Accounts) = SumFunctionOnSet(m.bank, Accounts)
  BY DEF Allocated
<1>4. m \in Stores /\ DistrRecordsOK(m)
  BY DEF StoreOK
<1>5. {Module, MintModule, P, DeveloperVesting, CommunityPool} \subseteq Accounts /\ P # CommunityPool /\ P # Module
  BY ModulesAre, ModulesDiffer
<1>6. \A a \in Accounts : x.bank[a] \in Int /\ m.bank[a] \in Int
  BY <1>3, <1>4, StoreBank
<1> HIDE DEF A, c
<1>7. CASE c = 0
  <2>1. r = x
    BY <1>7 DEF AllocateTo
  <2>2. SumFunctionOnSet(A, K) = SumFunctionOnSet(A, K \ {id})
    BY <1>2, <1>7
  <2>3. Allocated(m, t, K, x)
    BY <1>3, <2>2 DEF Allocated, A
  <2> QED
    BY <2>1, <2>3 DEF c
<1>8. CASE c # 0 /\ id = 0
  <2>1. r = Send(x, P, CommunityPool, c)
    BY <1>8 DEF AllocateTo
  <2>2. Sending(x, P, CommunityPool, c, r)
    BY <1>1, <1>3, <1>5, <2>1, SendFacts
  <2> HIDE DEF r
  <2>3. /\ r \in Stores /\ r.gauges = x.gauges /\ r.upcoming = x.upcoming /\ r.active = x.active
        /\ r.finished = x.finished /\ r.records = x.records /\ r.supply = x.supply /\ r.offset = x.offset
        /\ r.bank[P] = x.bank[P] - c /\ r.bank[CommunityPool] = x.bank[CommunityPool] + c
        /\ \A a \in Accounts : a # P /\ a # CommunityPool => r.bank[a] = x.bank[a]
        /\ SumFunctionOnSet(r.bank, Accounts) = SumFunctionOnSet(x.bank, Accounts)
    BY <2>2 DEF Sending, SameGauges
  <2>4. r.bank[P] = m.bank[P] - SumFunctionOnSet(A, K)
    BY <1>1, <1>2, <1>3, <1>5, <1>6, <2>3
  <2>5. \A a \in Accounts : a # P => r.bank[a] >= m.bank[a]
    BY <1>1, <1>3, <1>6, <2>3
  <2>6. /\ r.bank[Module] = x.bank[Module] /\ r.bank[MintModule] = x.bank[MintModule]
        /\ r.bank[DeveloperVesting] = x.bank[DeveloperVesting]
    BY <1>5, <2>3, ModulesDiffer
  <2>7. Allocated(m, t, K, r)
    BY <1>3, <2>3, <2>4, <2>5, <2>6 DEF Allocated, A
  <2> QED
    BY <2>7 DEF r, c
<1>9. CASE c # 0 /\ id # 0
  <2>1. r = AddToGaugeRewards(x, P, c, id)
    BY <1>9 DEF AllocateTo
  <2>2. id \in DOMAIN m.gauges /\ m.gauges[id].perpetual
    BY <1>4, <1>9 DEF DistrRecordsOK
  <2>3. id \in DOMAIN x.gauges /\ (x.gauges[id].perpetual \/ x.gauges[id].filled # x.gauges[id].numEpochs)
    BY <1>3, <2>2 DEF SameButCoins
  <2>4. Filled(x, t, P, id, c, r)
    BY <1>1, <1>3, <1>5, <2>1, <2>3, AddToGaugeOK
  <2> HIDE DEF r
  <2>5. /\ r \in Stores /\ DOMAIN r.gauges = DOMAIN x.gauges /\ GaugesOK(r.gauges, t)
        /\ \A i \in DOMAIN x.gauges : SameButCoins(x.gauges[i], r.gauges[i])
        /\ r.upcoming = x.upcoming /\ r.active = x.active /\ r.finished = x.finished
        /\ r.records = x.records /\ r.supply = x.supply /\ r.offset = x.offset
        /\ r.bank[P] = x.bank[P] - c /\ r.bank[Module] = x.bank[Module] + c
        /\ Remains(r.gauges) = Remains(x.gauges) + c
        /\ \A a \in Accounts : a # P /\ a # Module => r.bank[a] = x.bank[a]
        /\ SumFunctionOnSet(r.bank, Accounts) = SumFunctionOnSet(x.bank, Accounts)
    BY <2>4 DEF Filled
  <2>6. r.bank[P] = m.bank[P] - SumFunctionOnSet(A, K)
    BY <1>1, <1>2, <1>3, <1>5, <1>6, <2>5
  <2>7. \A a \in Accounts : a # P => r.bank[a] >= m.bank[a]
    BY <1>1, <1>3, <1>6, <2>5
  <2>8. r.bank[MintModule] = x.bank[MintModule] /\ r.bank[DeveloperVesting] = x.bank[DeveloperVesting]
    BY <1>5, <2>5, ModulesDiffer
  <2>9. r.bank[Module] = Remains(r.gauges)
    BY <1>3, <2>5
  <2>10. \A i \in DOMAIN m.gauges : SameButCoins(m.gauges[i], r.gauges[i])
    BY <1>3, <2>5, SameButCoinsTrans
  <2>11. Allocated(m, t, K, r)
    BY <1>3, <2>5, <2>6, <2>7, <2>8, <2>9, <2>10 DEF Allocated, A
  <2> QED
    BY <2>11 DEF r, c
<1> QED
  BY <1>7, <1>8, <1>9

AllocatesAll(m, run) ==
  run = [K \in SUBSET DOMAIN m.records |->
           IF K = {} THEN m ELSE AllocateTo(run[K \ {Max(K)}], Max(K), Allocation(m, Max(K)))]

LEMMA AllocateDef ==
  ASSUME NEW m, TotalWeight(m.records) # 0
  PROVE  AllocateAsset(m) = (CHOOSE run : AllocatesAll(m, run))[DOMAIN m.records]
BY DEF AllocateAsset, InOrder, MapThenFoldSet, AllocatesAll

LEMMA AllocatedAllOK ==
  ASSUME NEW m, NEW t \in Nat, StoreOK(m, t), TotalWeight(m.records) # 0
  PROVE  Allocated(m, t, DOMAIN m.records, AllocateAsset(m))
<1> DEFINE S == DOMAIN m.records
           Q == {q \in (SUBSET S) \X Stores : Allocated(m, t, q[1], q[2])}
           F == [q \in S \X Stores |-> AllocateTo(q[2], q[1], Allocation(m, q[1]))]
           pick == [K \in SUBSET S |-> Max(K)]
<1>0. \A x, K : Allocated(m, t, K, x) => x \in Stores
  BY DEF Allocated
<1>1. IsFiniteSet(S) /\ S \subseteq Int
  BY AllocationsAre
<1>2. \A K \in SUBSET S : pick[K] = Max(K) /\ (K # {} => pick[K] \in K)
  <2>1. \A K \in SUBSET S : K # {} => Max(K) \in K
    <3> HIDE DEF S
    <3> QED
      BY <1>1, FS_Subset, MaxOfFinite
  <2> QED
    BY <2>1
<1> HIDE DEF pick
<1>3. \A K \in SUBSET S, x \in Stores : <<K, x>> \in Q <=> Allocated(m, t, K, x)
  OBVIOUS
<1>4. <<{}, m>> \in Q
  <2>1. m \in Stores /\ GaugesOK(m.gauges, t) /\ m.bank[Module] = Remains(m.gauges)
    BY DEF StoreOK
  <2>2. \A a \in Accounts : m.bank[a] \in Int
    BY <2>1, StoreBank
  <2>3. \A g : SameButCoins(g, g)
    BY DEF SameButCoins
  <2>4. m.bank[PoolIncentivesModule] = m.bank[PoolIncentivesModule] - SumFunctionOnSet(Allocations(m), {})
    BY <2>2, SumEmpty, ModulesAre
  <2>5. Allocated(m, t, {}, m)
    BY <2>1, <2>2, <2>3, <2>4 DEF Allocated
  <2> HIDE DEF Q
  <2> QED
    BY <1>3, <2>1, <2>5
<1>5. ASSUME NEW K \in SUBSET S, NEW x, K # {}, <<K \ {pick[K]}, x>> \in Q
      PROVE  <<K, F[<<pick[K], x>>]>> \in Q /\ F[<<pick[K], x>>] = AllocateTo(x, pick[K], Allocation(m, pick[K]))
  <2> DEFINE id == pick[K]
  <2>1. id \in K /\ id \in S
    BY <1>2, <1>5
  <2>2. x \in Stores /\ Allocated(m, t, K \ {id}, x)
    BY <1>5
  <2>3. F[<<id, x>>] = AllocateTo(x, id, Allocation(m, id))
    BY <2>1, <2>2
  <2> HIDE DEF id, F, Q
  <2>4. Allocated(m, t, K, AllocateTo(x, id, Allocation(m, id)))
    BY <2>1, <2>2, AllocateToOK
  <2>5. AllocateTo(x, id, Allocation(m, id)) \in Stores
    BY <1>0, <2>4
  <2> QED
    BY <1>3, <2>3, <2>4, <2>5 DEF id
<1> HIDE DEF Q, F, S
<1>6. Picks(pick, S) /\ Preserves(F, m, pick, S, Q)
  BY <1>2, <1>4, <1>5 DEF Picks, Preserves
<1>7. ASSUME NEW run, AllocatesAll(m, run)
      PROVE  \A K \in SUBSET S : <<K, run[K]>> \in Q
  <2>1. Follows(F, m, pick, S, Q, run)
    <3>1. run[{}] = m /\ \A K \in SUBSET S : K # {} => run[K] = AllocateTo(run[K \ {pick[K]}], pick[K], Allocation(m, pick[K]))
      BY <1>2, <1>7 DEF AllocatesAll, S
    <3> QED
      BY <1>5, <3>1 DEF Follows
  <2> QED
    BY ONLY <1>1, <1>6, <2>1, FoldInvariant
<1>8. \E run : AllocatesAll(m, run)
  <2>1. PICK run : IsFold(F, m, pick, S, run) /\ \A K \in SUBSET S : <<K, run[K]>> \in Q
    <3>1. IsFiniteSet(S)
      BY <1>1
    <3> QED
      BY ONLY <1>6, <3>1, FoldRun
  <2>2. /\ run = [K \in SUBSET S |-> run[K]] /\ run[{}] = m
        /\ \A K \in SUBSET S : K # {} => run[K] = F[<<pick[K], run[K \ {pick[K]}]>>]
    BY <2>1 DEF IsFold
  <2>3. \A K \in SUBSET S : K # {} => run[K] = AllocateTo(run[K \ {pick[K]}], pick[K], Allocation(m, pick[K]))
    BY <1>5, <2>1, <2>2
  <2>4. \A K \in SUBSET S : run[K] = IF K = {} THEN m
           ELSE AllocateTo(run[K \ {Max(K)}], Max(K), Allocation(m, Max(K)))
    BY <1>2, <2>2, <2>3
  <2>5. AllocatesAll(m, run)
    BY <2>2, <2>4 DEF AllocatesAll, S
  <2> QED
    BY <2>5
<1>9. <<S, AllocateAsset(m)>> \in Q
  BY <1>7, <1>8, AllocateDef DEF S
<1> QED
  BY <1>9 DEF Q, S

\* A gauge that records may list takes coins at any time: it is perpetual.
LEMMA RecordsTakeCoins ==
  ASSUME NEW s, NEW t \in Nat, StoreOK(s, t)
  PROVE  CanAllocate(s, t)
<1>1. s \in Stores /\ DistrRecordsOK(s)
  BY DEF StoreOK
<1>2. ASSUME NEW id \in DOMAIN s.records \ {0} PROVE CanAddToGaugeRewards(s, id, t)
  <2>1. id \in DOMAIN s.gauges /\ s.gauges[id].perpetual
    BY <1>1, <1>2 DEF DistrRecordsOK
  <2>2. s.gauges[id].startTime \in Nat
    BY <1>1, <2>1, GaugesAre DEF Stores, Gauge
  <2> QED
    BY <2>1, <2>2 DEF CanAddToGaugeRewards, IsFinishedGauge, IsUpcomingGauge, IsActiveGauge
<1> QED
  BY <1>2 DEF CanAllocate

\* A hook changes coins of gauges only, not what they have paid and when.
KeepsGauges(s, r) ==
  DOMAIN r.gauges = DOMAIN s.gauges /\ \A i \in DOMAIN s.gauges : SameButCoins(s.gauges[i], r.gauges[i])

LEMMA AllocateAssetOK ==
  ASSUME NEW m, NEW t \in Nat, StoreOK(m, t), AllocationFits(m)
  PROVE  StoreOK(AllocateAsset(m), t) /\ KeepsGauges(m, AllocateAsset(m))
<1> DEFINE r == AllocateAsset(m)
           P == PoolIncentivesModule
<1>1. /\ m \in Stores /\ Accounted(m) /\ NonNegative(m.bank) /\ QueuesOK(m, t) /\ DistrRecordsOK(m)
      /\ m.supply = SumFunctionOnSet(m.bank, Accounts) /\ m.offset = -m.bank[DeveloperVesting]
      /\ m.bank[MintModule] = 0
  BY DEF StoreOK, Accounted
<1>2. \A a \in Accounts : m.bank[a] \in Int /\ m.bank[a] >= 0
  BY <1>1, StoreBank DEF NonNegative
<1>3. {Module, MintModule, P, DeveloperVesting, CommunityPool} \subseteq Accounts /\ P # CommunityPool /\ P # Module
  BY ModulesAre, ModulesDiffer
<1>4. CASE TotalWeight(m.records) = 0
  <2> DEFINE c == m.bank[P]
  <2>1. r = Send(m, P, CommunityPool, c)
    BY <1>4 DEF AllocateAsset
  <2>2. c \in Int /\ c >= 0
    BY <1>2, <1>3
  <2> HIDE DEF c
  <2>3. Sending(m, P, CommunityPool, c, r)
    BY <1>1, <1>3, <2>1, <2>2, SendFacts
  <2> HIDE DEF r
  <2>4. /\ r \in Stores /\ SameGauges(m, r) /\ r.supply = m.supply /\ r.offset = m.offset
        /\ r.bank[P] = m.bank[P] - c /\ r.bank[CommunityPool] = m.bank[CommunityPool] + c
        /\ \A a \in Accounts : a # P /\ a # CommunityPool => r.bank[a] = m.bank[a]
        /\ SumFunctionOnSet(r.bank, Accounts) = SumFunctionOnSet(m.bank, Accounts)
    BY <2>3 DEF Sending
  <2>5. /\ r.bank[Module] = m.bank[Module] /\ r.bank[MintModule] = m.bank[MintModule]
        /\ r.bank[DeveloperVesting] = m.bank[DeveloperVesting]
    BY <1>3, <2>4, ModulesDiffer
  <2>6. Accounted(r)
    BY <1>1, <2>4, <2>5 DEF Accounted
  <2>7. NonNegative(r.bank)
    <3>1. r.bank[P] = 0
      BY <2>2, <2>4 DEF c
    <3> QED
      BY <1>2, <2>2, <2>4, <3>1 DEF NonNegative
  <2>8. StoreOK(r, t)
    BY <2>4, <2>5, <2>6, <2>7, SameGaugesOK
  <2>9. KeepsGauges(m, r)
    BY <2>4 DEF KeepsGauges, SameGauges, SameButCoins
  <2> QED
    BY <2>8, <2>9 DEF r
<1>5. CASE TotalWeight(m.records) # 0
  <2> DEFINE T == SumFunctionOnSet(Allocations(m), DOMAIN m.records)
  <2>1. T \in Int /\ T <= m.bank[P]
    <3>1. /\ IsFiniteSet(DOMAIN m.records) /\ TotalWeight(m.records) \in Nat
          /\ \A id \in DOMAIN m.records : Allocations(m)[id] \in Nat
      BY <1>5, AllocationsAre
    <3>2. T \in Nat
      BY <3>1, SumNat
    <3>3. T <= m.bank[P]
      BY <1>5, <3>1 DEF AllocationFits, Allocations
    <3> QED
      BY <3>2, <3>3
  <2>2. Allocated(m, t, DOMAIN m.records, r)
    BY <1>5, AllocatedAllOK
  <2> HIDE DEF r, T
  <2>3. /\ r \in Stores /\ DOMAIN r.gauges = DOMAIN m.gauges /\ GaugesOK(r.gauges, t)
        /\ \A i \in DOMAIN m.gauges : SameButCoins(m.gauges[i], r.gauges[i])
        /\ r.upcoming = m.upcoming /\ r.active = m.active /\ r.finished = m.finished
        /\ r.records = m.records /\ r.supply = m.supply /\ r.offset = m.offset
        /\ r.bank[P] = m.bank[P] - T /\ r.bank[Module] = Remains(r.gauges)
        /\ \A a \in Accounts : a # P => r.bank[a] >= m.bank[a]
        /\ r.bank[MintModule] = m.bank[MintModule] /\ r.bank[DeveloperVesting] = m.bank[DeveloperVesting]
        /\ SumFunctionOnSet(r.bank, Accounts) = SumFunctionOnSet(m.bank, Accounts)
    BY <2>2 DEF Allocated, T
  <2>4. \A a \in Accounts : r.bank[a] \in Int
    BY <2>3, StoreBank
  <2>5. NonNegative(r.bank)
    <3>1. r.bank[P] >= 0
      BY <1>2, <1>3, <2>1, <2>3
    <3> QED
      BY <1>2, <2>3, <2>4, <3>1 DEF NonNegative
  <2>6. Accounted(r)
    BY <1>1, <2>3 DEF Accounted
  <2>7. QueuesOK(r, t)
    <3>1. \A id \in DOMAIN m.gauges : r.gauges[id].startTime = m.gauges[id].startTime
      BY <2>3 DEF SameButCoins
    <3> QED
      BY <1>1, <2>3, <3>1 DEF QueuesOK
  <2>8. DistrRecordsOK(r)
    <3>1. \A id \in DOMAIN m.gauges : r.gauges[id].perpetual = m.gauges[id].perpetual
      BY <2>3 DEF SameButCoins
    <3> QED
      BY <1>1, <2>3, <3>1 DEF DistrRecordsOK
  <2>9. StoreOK(r, t)
    BY <2>3, <2>5, <2>6, <2>7, <2>8 DEF StoreOK
  <2>10. KeepsGauges(m, r)
    BY <2>3 DEF KeepsGauges
  <2> QED
    BY <2>9, <2>10 DEF r
<1> QED
  BY <1>4, <1>5

LEMMA MintHookOK ==
  ASSUME NEW s, NEW t \in Nat, StoreOK(s, t), NEW epoch \in Nat
  PROVE  StoreOK(MintAfterEpochEnd(s, epoch, t), t) /\ KeepsGauges(s, MintAfterEpochEnd(s, epoch, t))
<1> DEFINE m == Minted(s, epoch)
           r == MintAfterEpochEnd(s, epoch, t)
<1>1. \/ r = s
      \/ VestingSuffices(s, epoch) /\ AllocationFits(m) /\ r = AllocateAsset(m)
  BY DEF MintAfterEpochEnd
<1>2. KeepsGauges(s, s)
  BY DEF KeepsGauges, SameButCoins
<1>3. CASE VestingSuffices(s, epoch) /\ AllocationFits(m) /\ r = AllocateAsset(m)
  <2>1. StoreOK(m, t) /\ SameGauges(s, m)
    BY <1>3, MintedOK
  <2> HIDE DEF m, r
  <2>2. StoreOK(r, t) /\ KeepsGauges(m, r)
    BY <1>3, <2>1, AllocateAssetOK
  <2>3. KeepsGauges(s, r)
    BY <2>1, <2>2 DEF KeepsGauges, SameGauges
  <2> QED
    BY <2>2, <2>3 DEF r
<1>4. CASE r = s
  BY <1>2, <1>4
<1> QED
  BY <1>1, <1>3, <1>4

LEMMA EpochEndOK ==
  ASSUME NEW s, NEW t \in Nat, StoreOK(s, t), locked \subseteq DOMAIN Locks,
         receiver \in [DOMAIN Locks -> Destinations], NEW i, NEW epoch \in Nat
  PROVE  StoreOK(AfterEpochEnd(s, i, epoch, t), t)
<1> DEFINE p == IF i = DistrIdentifier THEN IncentivesAfterEpochEnd(s, locked, receiver, t) ELSE s
<1>1. StoreOK(p, t)
  BY IncentivesOK
<1>2. AfterEpochEnd(s, i, epoch, t) = IF i = MintIdentifier THEN MintAfterEpochEnd(p, epoch, t) ELSE p
  BY DEF AfterEpochEnd
<1> HIDE DEF p
<1>3. StoreOK(MintAfterEpochEnd(p, epoch, t), t)
  BY <1>1, MintHookOK
<1> QED
  BY <1>1, <1>2, <1>3

----------------------------------------------------------------------------
(* The begin blocker                                                       *)

Ends(t) == {i \in Identifiers : EpochEnds(epochs[i], t)}

HookStep(i, s, t) == AfterEpochEnd(s, i, epochs[i].currentEpoch, t)

BlockStore(t) == InOrder(LAMBDA i, s : AfterEpochEnd(s, i, epochs[i].currentEpoch, t), st, Ends(t))

FilledSame(s, r) == \A id \in DOMAIN s.gauges : r.gauges[id].filled = s.gauges[id].filled

FilledTogether(s, t, r) ==
  \A id \in DOMAIN s.gauges :
    r.gauges[id].filled # s.gauges[id].filled <=>
      id \notin s.finished /\ s.gauges[id].startTime <= t /\ Payable(s.gauges[id], locked)

\* The hooks of the epochs K have run.
InBlock(t, K, x) ==
  /\ StoreOK(x, t) /\ DOMAIN x.gauges = DOMAIN st.gauges
  /\ DistrIdentifier \notin K => FilledSame(st, x)
  /\ DistrIdentifier \notin K /\ MintIdentifier \notin K => x = st
  /\ DistrIdentifier <= MintIdentifier => FilledSame(st, x) \/ FilledTogether(st, t, x)

LEMMA HookStepOK ==
  ASSUME EpochsOK, NEW t \in Nat, StoreOK(st, t), NEW K \in SUBSET Ends(t), NEW i \in K,
         \A k \in K : k <= i, NEW x, InBlock(t, K \ {i}, x)
  PROVE  InBlock(t, K, HookStep(i, x, t))
<1> DEFINE epoch == epochs[i].currentEpoch
           p == IF i = DistrIdentifier THEN IncentivesAfterEpochEnd(x, locked, receiver, t) ELSE x
           r == HookStep(i, x, t)
<1>1. epoch \in Nat
  BY DEF EpochsOK, EpochInfo, Ends
<1>2. /\ StoreOK(x, t) /\ DOMAIN x.gauges = DOMAIN st.gauges
      /\ DistrIdentifier \notin K \ {i} => FilledSame(st, x)
      /\ DistrIdentifier \notin K \ {i} /\ MintIdentifier \notin K \ {i} => x = st
      /\ DistrIdentifier <= MintIdentifier => FilledSame(st, x) \/ FilledTogether(st, t, x)
  BY DEF InBlock
<1>3. /\ StoreOK(p, t) /\ DOMAIN p.gauges = DOMAIN x.gauges
      /\ i = DistrIdentifier => PaidTogether(x, locked, t, p)
  BY <1>2, IncentivesOK DEF EpochsOK
<1>4. r = IF i = MintIdentifier THEN MintAfterEpochEnd(p, epoch, t) ELSE p
  BY DEF HookStep, AfterEpochEnd
<1>5. i # DistrIdentifier => p = x
  OBVIOUS
<1> HIDE DEF p, r, epoch
<1>6. StoreOK(r, t) /\ KeepsGauges(p, r)
  <2>1. KeepsGauges(p, p)
    BY DEF KeepsGauges, SameButCoins
  <2> QED
    BY <1>1, <1>3, <1>4, <2>1, MintHookOK
<1>7. DOMAIN r.gauges = DOMAIN st.gauges /\ \A id \in DOMAIN st.gauges : r.gauges[id].filled = p.gauges[id].filled
  BY <1>2, <1>3, <1>6 DEF KeepsGauges, SameButCoins
<1>8. DistrIdentifier \notin K => FilledSame(st, r)
  <2> HAVE DistrIdentifier \notin K
  <2>1. i # DistrIdentifier /\ DistrIdentifier \notin K \ {i}
    OBVIOUS
  <2> QED
    BY <1>2, <1>5, <1>7, <2>1 DEF FilledSame
<1>9. DistrIdentifier \notin K /\ MintIdentifier \notin K => r = st
  <2> HAVE DistrIdentifier \notin K /\ MintIdentifier \notin K
  <2>1. i # DistrIdentifier /\ i # MintIdentifier /\ DistrIdentifier \notin K \ {i} /\ MintIdentifier \notin K \ {i}
    OBVIOUS
  <2> QED
    BY <1>2, <1>4, <1>5, <2>1
<1>10. DistrIdentifier <= MintIdentifier => FilledSame(st, r) \/ FilledTogether(st, t, r)
  <2> HAVE DistrIdentifier <= MintIdentifier
  <2>1. CASE i # DistrIdentifier
    BY <1>2, <1>5, <1>7, <2>1 DEF FilledSame, FilledTogether
  <2>2. CASE i = DistrIdentifier
    <3>1. DistrIdentifier \notin K \ {i} /\ MintIdentifier \notin K \ {i}
      <4>1. MintIdentifier \in Int /\ DistrIdentifier \in Int
        BY ClocksAssumption
      <4> QED
        BY <2>2, <4>1
    <3>2. x = st
      BY <1>2, <3>1
    <3>3. PaidTogether(st, locked, t, p)
      BY <1>3, <2>2, <3>2
    <3> QED
      BY <1>7, <3>3 DEF PaidTogether, FilledSame, FilledTogether
  <2> QED
    BY <2>1, <2>2
<1>11. InBlock(t, K, r)
  BY <1>6, <1>7, <1>8, <1>9, <1>10 DEF InBlock
<1> QED
  BY <1>11 DEF r

RunsHooks(t, run) ==
  run = [K \in SUBSET Ends(t) |-> IF K = {} THEN st ELSE HookStep(Max(K), run[K \ {Max(K)}], t)]

LEMMA BlockDef ==
  ASSUME NEW t
  PROVE  BlockStore(t) = (CHOOSE run : RunsHooks(t, run))[Ends(t)]
BY DEF BlockStore, InOrder, MapThenFoldSet, RunsHooks, HookStep

LEMMA BlockOK ==
  ASSUME EpochsOK, NEW t \in Nat, StoreOK(st, t)
  PROVE  InBlock(t, Ends(t), BlockStore(t))
<1> DEFINE S == Ends(t)
           Q == {q \in (SUBSET S) \X Stores : InBlock(t, q[1], q[2])}
           F == [q \in S \X Stores |-> HookStep(q[1], q[2], t)]
           pick == [K \in SUBSET S |-> Max(K)]
<1>0. \A x, K : InBlock(t, K, x) => x \in Stores
  BY DEF InBlock, StoreOK
<1>1. IsFiniteSet(S) /\ S \subseteq Int
  <2>1. S \subseteq Identifiers
    BY DEF Ends
  <2> QED
    BY <2>1, ClocksAssumption, FS_Subset
<1> HIDE DEF S
<1>2. \A K \in SUBSET S : pick[K] = Max(K) /\ (K # {} => pick[K] \in K /\ \A k \in K : k <= pick[K])
  <2>1. \A K \in SUBSET S : K # {} => Max(K) \in K /\ \A k \in K : k <= Max(K)
    BY <1>1, FS_Subset, MaxOfFinite
  <2> QED
    BY <2>1
<1> HIDE DEF pick
<1>3. \A K \in SUBSET S, x \in Stores : <<K, x>> \in Q <=> InBlock(t, K, x)
  OBVIOUS
<1>4. <<{}, st>> \in Q
  <2>1. st \in Stores
    BY DEF StoreOK
  <2>2. InBlock(t, {}, st)
    BY DEF InBlock, FilledSame
  <2> HIDE DEF Q
  <2> QED
    BY <1>3, <2>1, <2>2
<1>5. ASSUME NEW K \in SUBSET S, NEW x, K # {}, <<K \ {pick[K]}, x>> \in Q
      PROVE  <<K, F[<<pick[K], x>>]>> \in Q /\ F[<<pick[K], x>>] = HookStep(pick[K], x, t)
  <2> DEFINE i == pick[K]
  <2>1. i \in K /\ i \in S /\ \A k \in K : k <= i
    BY <1>2, <1>5
  <2>2. x \in Stores /\ InBlock(t, K \ {i}, x)
    BY <1>5
  <2>3. F[<<i, x>>] = HookStep(i, x, t)
    BY <2>1, <2>2
  <2> HIDE DEF i, F, Q
  <2>4. InBlock(t, K, HookStep(i, x, t))
    BY <2>1, <2>2, HookStepOK DEF S
  <2>5. HookStep(i, x, t) \in Stores
    BY <1>0, <2>4
  <2> QED
    BY <1>3, <2>3, <2>4, <2>5 DEF i
<1> HIDE DEF Q, F
<1>6. Picks(pick, S) /\ Preserves(F, st, pick, S, Q)
  BY <1>2, <1>4, <1>5 DEF Picks, Preserves
<1>7. ASSUME NEW run, RunsHooks(t, run)
      PROVE  \A K \in SUBSET S : <<K, run[K]>> \in Q
  <2>1. Follows(F, st, pick, S, Q, run)
    <3>1. run[{}] = st /\ \A K \in SUBSET S : K # {} => run[K] = HookStep(pick[K], run[K \ {pick[K]}], t)
      BY <1>2, <1>7 DEF RunsHooks, S
    <3> QED
      BY <1>5, <3>1 DEF Follows
  <2> QED
    BY ONLY <1>1, <1>6, <2>1, FoldInvariant
<1>8. \E run : RunsHooks(t, run)
  <2>1. PICK run : IsFold(F, st, pick, S, run) /\ \A K \in SUBSET S : <<K, run[K]>> \in Q
    <3>1. IsFiniteSet(S)
      BY <1>1
    <3> QED
      BY ONLY <1>6, <3>1, FoldRun
  <2>2. /\ run = [K \in SUBSET S |-> run[K]] /\ run[{}] = st
        /\ \A K \in SUBSET S : K # {} => run[K] = F[<<pick[K], run[K \ {pick[K]}]>>]
    BY <2>1 DEF IsFold
  <2>3. \A K \in SUBSET S : K # {} => run[K] = HookStep(pick[K], run[K \ {pick[K]}], t)
    BY <1>5, <2>1, <2>2
  <2>4. \A K \in SUBSET S : run[K] = IF K = {} THEN st ELSE HookStep(Max(K), run[K \ {Max(K)}], t)
    BY <1>2, <2>2, <2>3
  <2>5. RunsHooks(t, run)
    BY <2>2, <2>4 DEF RunsHooks, S
  <2> QED
    BY <2>5
<1>9. <<S, BlockStore(t)>> \in Q
  BY <1>7, <1>8, BlockDef DEF S
<1> QED
  BY <1>9 DEF Q, S

LEMMA LaterOK ==
  ASSUME NEW s, NEW t \in Nat, StoreOK(s, t), NEW later \in Nat, t <= later
  PROVE  StoreOK(s, later)
<1>1. /\ s \in Stores /\ GaugesOK(s.gauges, t) /\ QueuesOK(s, t)
  BY DEF StoreOK
<1>2. \A id \in DOMAIN s.gauges : s.gauges[id].startTime \in Nat
  BY <1>1, GaugesAre DEF Stores, Gauge
<1>3. \A id \in DOMAIN s.gauges : s.gauges[id].startTime <= t => s.gauges[id].startTime <= later
  BY <1>2
<1>4. GaugesOK(s.gauges, later)
  BY <1>1, <1>3 DEF GaugesOK, GaugeOK
<1>5. QueuesOK(s, later)
  BY <1>1, <1>3 DEF QueuesOK
<1> QED
  BY <1>4, <1>5 DEF StoreOK

LEMMA AdvanceOK ==
  ASSUME NEW e \in EpochInfo, NEW t
  PROVE  Advance(e, t) \in EpochInfo
<1>1. e.startTime \in Nat /\ e.duration \in Nat /\ e.currentEpoch \in Nat /\ e.currentEpochStartTime \in Nat
  BY DEF EpochInfo
<1>2. \A b \in BOOLEAN, x \in Nat : [e EXCEPT !.countingStarted = b, !.currentEpoch = 1, !.currentEpochStartTime = x] \in EpochInfo
  BY DEF EpochInfo
<1>3. [e EXCEPT !.countingStarted = TRUE, !.currentEpoch = 1, !.currentEpochStartTime = e.startTime] \in EpochInfo
  BY <1>1, <1>2, Zenon
<1>4. NextEpoch(e, t) \in EpochInfo
  <2>1. \A x \in Nat, y \in Nat : [e EXCEPT !.currentEpoch = x, !.currentEpochStartTime = y] \in EpochInfo
    BY DEF EpochInfo
  <2>2. e.currentEpoch + 1 \in Nat /\ e.currentEpochStartTime + e.duration \in Nat
    BY <1>1
  <2> QED
    BY <2>1, <2>2 DEF NextEpoch
<1> QED
  BY <1>3, <1>4, Zenon DEF Advance

LEMMA BeginBlockerOK ==
  ASSUME HooksInv, NEW t \in blockTime .. MaxBlockTime, BeginBlocker(t)
  PROVE  HooksInv'
<1>1. EpochsOK /\ StoreOK(st, blockTime)
  BY DEF HooksInv
<1>2. blockTime \in Nat /\ t \in Nat /\ blockTime <= t /\ t \in 0 .. MaxBlockTime
  BY <1>1, GenesisAssumption DEF EpochsOK
<1>3. StoreOK(st, t)
  BY <1>1, <1>2, LaterOK
<1>4. st' = BlockStore(t) /\ blockTime' = t /\ epochs' = [i \in Identifiers |-> Advance(epochs[i], t)]
      /\ locked' = locked /\ receiver' = receiver
  BY DEF BeginBlocker, Tick, BlockStore, Ends
<1>5. StoreOK(BlockStore(t), t)
  BY <1>1, <1>2, <1>3, BlockOK DEF InBlock
<1>6. StoreOK(st', blockTime')
  BY <1>4, <1>5
<1>7. epochs' \in [Identifiers -> EpochInfo]
  BY <1>1, <1>4, AdvanceOK DEF EpochsOK
<1>8. EpochsOK'
  BY <1>1, <1>2, <1>4, <1>7 DEF EpochsOK
<1> QED
  BY <1>6, <1>8 DEF HooksInv

----------------------------------------------------------------------------
(* Messages and proposals                                                  *)

LEMMA FeeOK ==
  ASSUME NEW s, NEW t, StoreOK(s, t), NEW owner \in Sponsors, NEW fee \in Nat, s.bank[owner] >= fee
  PROVE  LET r == chargeFeeIfSufficientFeeDenomBalance(s, owner, fee)
         IN  StoreOK(r, t) /\ SameGauges(s, r) /\ r.bank[owner] = s.bank[owner] - fee
<1> DEFINE r == chargeFeeIfSufficientFeeDenomBalance(s, owner, fee)
<1>1. owner \in Users
  BY DEF Users
<1>2. /\ owner \in Accounts /\ owner # Module /\ owner # CommunityPool /\ owner # MintModule
      /\ owner # DeveloperVesting /\ CommunityPool \in Accounts /\ CommunityPool # Module
      /\ {Module, MintModule, DeveloperVesting} \subseteq Accounts
  BY <1>1, ModulesAre, ModulesDiffer
<1>3. s \in Stores /\ Accounted(s) /\ NonNegative(s.bank) /\ \A a \in Accounts : s.bank[a] \in Int
  BY StoreBank DEF StoreOK
<1>4. Sending(s, owner, CommunityPool, fee, r)
  BY <1>2, <1>3, SendFacts DEF chargeFeeIfSufficientFeeDenomBalance
<1> HIDE DEF r
<1>5. /\ r \in Stores /\ SameGauges(s, r) /\ r.supply = s.supply /\ r.offset = s.offset
      /\ r.bank[owner] = s.bank[owner] - fee /\ r.bank[CommunityPool] = s.bank[CommunityPool] + fee
      /\ \A a \in Accounts : a # owner /\ a # CommunityPool => r.bank[a] = s.bank[a]
      /\ SumFunctionOnSet(r.bank, Accounts) = SumFunctionOnSet(s.bank, Accounts)
  BY <1>4 DEF Sending
<1>6. /\ r.bank[Module] = s.bank[Module] /\ r.bank[MintModule] = s.bank[MintModule]
      /\ r.bank[DeveloperVesting] = s.bank[DeveloperVesting]
  BY <1>2, <1>5, ModulesDiffer
<1>7. Accounted(r)
  BY <1>3, <1>5, <1>6 DEF Accounted
<1>8. NonNegative(r.bank)
  BY <1>2, <1>3, <1>5 DEF NonNegative
<1>9. StoreOK(r, t)
  BY <1>5, <1>6, <1>7, <1>8, SameGaugesOK
<1> QED
  BY <1>5, <1>9 DEF r

LEMMA CreateGaugeOK ==
  ASSUME NEW s, NEW t \in Nat, StoreOK(s, t), NEW owner \in Sponsors, NEW msg \in GaugeMsgs,
         s.bank[owner] >= msg.coins
  PROVE  StoreOK(CreateGauge(s, owner, msg), t) /\ FilledSame(s, CreateGauge(s, owner, msg))
<1> DEFINE r == CreateGauge(s, owner, msg)
           c == msg.coins
           n == Len(s.gauges) + 1
           g == [perpetual |-> msg.perpetual, noLock |-> msg.noLock, duration |-> msg.duration,
                 coins |-> c, startTime |-> msg.startTime, numEpochs |-> msg.numEpochs,
                 filled |-> 0, distributed |-> 0]
           m == Send(s, owner, Module, c)
           gs == Append(s.gauges, g)
<1>1. owner \in Users
  BY DEF Users
<1>2. /\ owner \in Accounts /\ owner # Module /\ owner # MintModule /\ owner # DeveloperVesting
      /\ {Module, MintModule, DeveloperVesting} \subseteq Accounts
  BY <1>1, ModulesAre, ModulesDiffer
<1>3. /\ s \in Stores /\ Accounted(s) /\ NonNegative(s.bank) /\ \A a \in Accounts : s.bank[a] \in Int
      /\ GaugesOK(s.gauges, t) /\ QueuesOK(s, t) /\ DistrRecordsOK(s) /\ s.bank[Module] = Remains(s.gauges)
  BY StoreBank DEF StoreOK
<1>4. /\ msg.perpetual \in BOOLEAN /\ msg.noLock \in BOOLEAN /\ msg.duration \in Nat /\ c \in Nat
      /\ msg.startTime \in Nat /\ msg.numEpochs \in Nat \ {0}
  BY MessagesAssumption
<1>5. g \in Gauge
  BY <1>4 DEF Gauge
<1>6. /\ g.coins = c /\ g.distributed = 0 /\ g.filled = 0 /\ g.numEpochs = msg.numEpochs
  OBVIOUS
<1>7. Sending(s, owner, Module, c, m)
  BY <1>2, <1>3, <1>4, SendFacts
<1>8. r = [m EXCEPT !.gauges = Append(@, g), !.upcoming = @ \cup {n}, !.byDenom = @ \cup {n}]
  BY DEF CreateGauge
<1> HIDE DEF g, m, r, c
<1>9. /\ m \in Stores /\ m.gauges = s.gauges /\ m.upcoming = s.upcoming /\ m.active = s.active
      /\ m.finished = s.finished /\ m.records = s.records /\ m.supply = s.supply /\ m.offset = s.offset
      /\ m.bank[owner] = s.bank[owner] - c /\ m.bank[Module] = s.bank[Module] + c
      /\ \A a \in Accounts : a # owner /\ a # Module => m.bank[a] = s.bank[a]
      /\ SumFunctionOnSet(m.bank, Accounts) = SumFunctionOnSet(s.bank, Accounts)
  BY <1>7 DEF Sending, SameGauges
<1>10. s.gauges \in Seq(Gauge) /\ DOMAIN s.gauges = 1 .. Len(s.gauges) /\ Len(s.gauges) \in Nat
  BY <1>3, GaugesAre DEF Stores
<1>11. /\ gs \in Seq(Gauge) /\ DOMAIN gs = DOMAIN s.gauges \cup {n} /\ n \notin DOMAIN s.gauges /\ n \in Nat
       /\ gs[n] = g /\ \A i \in DOMAIN s.gauges : gs[i] = s.gauges[i]
  BY <1>5, <1>10
<1>12. Remains(gs) = Remains(s.gauges) + remainCoins(g)
  BY <1>5, <1>10, RemainsAppend
<1> HIDE DEF gs, n
<1>13. r \in Stores
  BY <1>8, <1>9, <1>11 DEF Stores, gs
<1>14. /\ r.gauges = gs /\ r.upcoming = s.upcoming \cup {n} /\ r.active = s.active /\ r.finished = s.finished
       /\ r.records = s.records /\ r.supply = s.supply /\ r.offset = s.offset /\ r.bank = m.bank
  BY <1>8, <1>9 DEF Stores, gs
<1>15. GaugesOK(r.gauges, t)
  <2>1. GaugeOK(g, t)
    BY <1>4, <1>6 DEF GaugeOK, Dust, c
  <2> QED
    BY <1>3, <1>11, <1>14, <2>1 DEF GaugesOK
<1>16. QueuesOK(r, t)
  <2>1. /\ DOMAIN s.gauges = s.upcoming \cup s.active \cup s.finished
        /\ s.upcoming \cap s.active = {} /\ s.upcoming \cap s.finished = {} /\ s.active \cap s.finished = {}
        /\ \A id \in s.active : s.gauges[id].startTime <= t
    BY <1>3 DEF QueuesOK
  <2>2. n \notin s.active /\ n \notin s.finished /\ n \notin s.upcoming
    BY <1>11, <2>1
  <2>3. DOMAIN r.gauges = (s.upcoming \cup {n}) \cup s.active \cup s.finished
    BY <1>11, <1>14, <2>1
  <2>4. \A id \in s.active : r.gauges[id].startTime <= t
    BY <1>11, <1>14, <2>1
  <2> QED
    BY <1>14, <2>1, <2>2, <2>3, <2>4 DEF QueuesOK
<1>17. DistrRecordsOK(r)
  BY <1>3, <1>11, <1>14 DEF DistrRecordsOK
<1>18. r.bank[Module] = Remains(r.gauges)
  <2>1. remainCoins(g) = c
    BY <1>4, <1>6 DEF remainCoins
  <2> QED
    BY <1>3, <1>9, <1>12, <1>14, <2>1
<1>19. Accounted(r)
  <2>1. r.bank[MintModule] = s.bank[MintModule] /\ r.bank[DeveloperVesting] = s.bank[DeveloperVesting]
    BY <1>2, <1>9, <1>14, ModulesDiffer
  <2> QED
    BY <1>3, <1>9, <1>14, <2>1 DEF Accounted
<1>20. NonNegative(r.bank)
  <2>1. s.bank[owner] >= c
    BY DEF c
  <2> QED
    BY <1>2, <1>3, <1>4, <1>9, <1>14, <2>1 DEF NonNegative
<1>21. StoreOK(r, t)
  BY <1>13, <1>15, <1>16, <1>17, <1>18, <1>19, <1>20 DEF StoreOK
<1>22. FilledSame(s, r)
  BY <1>11, <1>14 DEF FilledSame
<1> QED
  BY <1>21, <1>22 DEF r

LEMMA AddRewardOK ==
  ASSUME NEW s, NEW t \in Nat, StoreOK(s, t), NEW owner \in Sponsors, NEW id, CanAddToGaugeRewards(s, id, t),
         NEW c \in Nat, s.bank[owner] >= c
  PROVE  StoreOK(AddToGaugeRewards(s, owner, c, id), t) /\ FilledSame(s, AddToGaugeRewards(s, owner, c, id))
<1> DEFINE r == AddToGaugeRewards(s, owner, c, id)
<1>1. owner \in Users
  BY DEF Users
<1>2. /\ owner \in Accounts /\ owner # Module /\ owner # MintModule /\ owner # DeveloperVesting
      /\ {Module, MintModule, DeveloperVesting} \subseteq Accounts
  BY <1>1, ModulesAre, ModulesDiffer
<1>3. /\ s \in Stores /\ Accounted(s) /\ NonNegative(s.bank) /\ \A a \in Accounts : s.bank[a] \in Int
      /\ GaugesOK(s.gauges, t) /\ QueuesOK(s, t) /\ DistrRecordsOK(s) /\ s.bank[Module] = Remains(s.gauges)
  BY StoreBank DEF StoreOK
<1>4. id \in DOMAIN s.gauges /\ ~IsFinishedGauge(s.gauges[id], t)
  BY DEF CanAddToGaugeRewards
<1>5. s.gauges[id].perpetual \/ s.gauges[id].filled # s.gauges[id].numEpochs
  <2> DEFINE g == s.gauges[id]
  <2>1. g \in Gauge /\ GaugeOK(g, t) /\ ~IsFinishedGauge(g, t)
    BY <1>3, <1>4, GaugesAre DEF Stores, GaugesOK
  <2> HIDE DEF g
  <2>2. g.startTime \in Nat /\ g.filled \in Nat /\ g.numEpochs \in Nat \ {0}
    BY <2>1 DEF Gauge
  <2>3. g.filled > 0 => g.startTime <= t
    BY <2>1 DEF GaugeOK
  <2>4. g.perpetual \/ g.filled # g.numEpochs
    BY <2>1, <2>2, <2>3 DEF IsFinishedGauge, IsUpcomingGauge, IsActiveGauge
  <2> QED
    BY <2>4 DEF g
<1>6. Filled(s, t, owner, id, c, r)
  BY <1>2, <1>3, <1>4, <1>5, AddToGaugeOK
<1> HIDE DEF r
<1>7. /\ r \in Stores /\ DOMAIN r.gauges = DOMAIN s.gauges /\ GaugesOK(r.gauges, t)
      /\ \A i \in DOMAIN s.gauges : SameButCoins(s.gauges[i], r.gauges[i])
      /\ r.upcoming = s.upcoming /\ r.active = s.active /\ r.finished = s.finished
      /\ r.records = s.records /\ r.supply = s.supply /\ r.offset = s.offset
      /\ r.bank[owner] = s.bank[owner] - c /\ r.bank[Module] = s.bank[Module] + c
      /\ Remains(r.gauges) = Remains(s.gauges) + c
      /\ \A a \in Accounts : a # owner /\ a # Module => r.bank[a] = s.bank[a]
      /\ SumFunctionOnSet(r.bank, Accounts) = SumFunctionOnSet(s.bank, Accounts)
  BY <1>6 DEF Filled
<1>8. QueuesOK(r, t)
  <2>1. \A i \in DOMAIN s.gauges : r.gauges[i].startTime = s.gauges[i].startTime
    BY <1>7 DEF SameButCoins
  <2> QED
    BY <1>3, <1>7, <2>1 DEF QueuesOK
<1>9. DistrRecordsOK(r)
  <2>1. \A i \in DOMAIN s.gauges : r.gauges[i].perpetual = s.gauges[i].perpetual
    BY <1>7 DEF SameButCoins
  <2> QED
    BY <1>3, <1>7, <2>1 DEF DistrRecordsOK
<1>10. r.bank[Module] = Remains(r.gauges)
  BY <1>3, <1>7
<1>11. Accounted(r)
  <2>1. r.bank[MintModule] = s.bank[MintModule] /\ r.bank[DeveloperVesting] = s.bank[DeveloperVesting]
    BY <1>2, <1>7, ModulesDiffer
  <2> QED
    BY <1>3, <1>7, <2>1 DEF Accounted
<1>12. NonNegative(r.bank)
  BY <1>2, <1>3, <1>7 DEF NonNegative
<1>13. StoreOK(r, t)
  BY <1>7, <1>8, <1>9, <1>10, <1>11, <1>12 DEF StoreOK
<1>14. FilledSame(s, r)
  BY <1>7 DEF FilledSame, SameButCoins
<1> QED
  BY <1>13, <1>14 DEF r

WithRecords(s, p) == [s EXCEPT !.records = p]

LEMMA NewRecordsOK ==
  ASSUME NEW s, NEW t, StoreOK(s, t), NEW p \in WeightRecords, IsFiniteSet(DOMAIN p),
         \A id \in DOMAIN p : id # 0 => id \in DOMAIN s.gauges /\ s.gauges[id].perpetual
  PROVE  StoreOK(WithRecords(s, p), t)
<1> DEFINE r == WithRecords(s, p)
<1>1. s \in Stores
  BY DEF StoreOK
<1>2. r \in Stores
  BY <1>1 DEF WithRecords, Stores
<1>3. /\ r.gauges = s.gauges /\ r.upcoming = s.upcoming /\ r.active = s.active /\ r.finished = s.finished
      /\ r.bank = s.bank /\ r.supply = s.supply /\ r.offset = s.offset /\ r.records = p
  BY <1>1 DEF WithRecords, Stores
<1> HIDE DEF r
<1>4. DistrRecordsOK(r)
  BY <1>3 DEF DistrRecordsOK
<1>5. GaugesOK(r.gauges, t) /\ QueuesOK(r, t) /\ r.bank[Module] = Remains(r.gauges)
      /\ Accounted(r) /\ NonNegative(r.bank)
  BY <1>3 DEF StoreOK, QueuesOK, Accounted
<1> QED
  BY <1>2, <1>4, <1>5 DEF StoreOK, r

LEMMA ReplaceOK ==
  ASSUME NEW s, NEW t, StoreOK(s, t), NEW p \in Proposals, validateRecords(s, p)
  PROVE  StoreOK(ReplaceDistrRecords(s, p), t)
<1>1. /\ IsFiniteSet(DOMAIN p) /\ DOMAIN p \subseteq Nat
      /\ p = [id \in DOMAIN p |-> p[id]] /\ \A id \in DOMAIN p : p[id] \in Nat
  BY MessagesAssumption
<1>2. p \in WeightRecords
  BY <1>1 DEF WeightRecords
<1>3. \A id \in DOMAIN p : id # 0 => id \in DOMAIN s.gauges /\ s.gauges[id].perpetual
  BY DEF validateRecords
<1>4. StoreOK(WithRecords(s, p), t)
  BY <1>1, <1>2, <1>3, NewRecordsOK
<1> QED
  BY <1>4 DEF ReplaceDistrRecords, WithRecords

LEMMA UpdateRecordsOK ==
  ASSUME NEW s, NEW t, StoreOK(s, t), NEW p \in Proposals, validateRecords(s, p)
  PROVE  StoreOK(UpdateDistrRecords(s, p), t)
<1> DEFINE old == s.records
           all == [id \in DOMAIN p \cup DOMAIN old |-> IF id \in DOMAIN p THEN p[id] ELSE old[id]]
           D == {i \in DOMAIN all : all[i] # 0}
           new == [id \in D |-> all[id]]
<1>1. /\ IsFiniteSet(DOMAIN p) /\ DOMAIN p \subseteq Nat /\ \A id \in DOMAIN p : p[id] \in Nat
  BY MessagesAssumption
<1>2. /\ s \in Stores /\ IsFiniteSet(DOMAIN old)
      /\ \A id \in DOMAIN old : id # 0 => id \in DOMAIN s.gauges /\ s.gauges[id].perpetual
  BY DEF StoreOK, DistrRecordsOK
<1>3. DOMAIN old \subseteq Nat /\ \A id \in DOMAIN old : old[id] \in Nat
  <2>1. old \in WeightRecords
    BY <1>2 DEF Stores
  <2> QED
    BY <2>1 DEF WeightRecords
<1>4. UpdateDistrRecords(s, p) = WithRecords(s, new)
  BY DEF UpdateDistrRecords, WithRecords
<1> HIDE DEF old
<1>5. D \subseteq DOMAIN p \cup DOMAIN old /\ D \subseteq Nat /\ \A id \in D : all[id] \in Nat
  BY <1>1, <1>3
<1>6. IsFiniteSet(D)
  <2>1. IsFiniteSet(DOMAIN p \cup DOMAIN old)
    BY <1>1, <1>2, FS_Union
  <2> HIDE DEF D
  <2> QED
    BY <1>5, <2>1, FS_Subset
<1>7. \A id \in D : id # 0 => id \in DOMAIN s.gauges /\ s.gauges[id].perpetual
  <2>1. \A id \in DOMAIN p : id # 0 => id \in DOMAIN s.gauges /\ s.gauges[id].perpetual
    BY DEF validateRecords
  <2> QED
    BY <1>2, <1>5, <2>1
<1> HIDE DEF all, D
<1>8. new \in WeightRecords /\ DOMAIN new = D
  <2>1. new \in [D -> Nat] /\ D \in SUBSET Nat
    BY <1>5
  <2> HIDE DEF new
  <2> QED
    BY <2>1 DEF WeightRecords
<1> HIDE DEF new
<1>9. StoreOK(WithRecords(s, new), t)
  BY <1>6, <1>7, <1>8, NewRecordsOK
<1> QED
  BY <1>4, <1>9

----------------------------------------------------------------------------
(* The invariant                                                           *)

LEMMA HooksInitOK == HooksInit => HooksInv
<1> SUFFICES ASSUME HooksInit PROVE HooksInv
  OBVIOUS
<1> DEFINE bank == [a \in Accounts |-> CASE a \in Sponsors -> InitialBalance
                                         [] a = DeveloperVesting -> InitialVesting
                                         [] OTHER -> 0]
<1>1. /\ blockTime = 0 /\ locked = DOMAIN Locks /\ receiver = [l \in DOMAIN Locks |-> NoReceiver]
      /\ epochs = [i \in Identifiers |-> NewEpochInfo(Clocks[i].startTime, Clocks[i].duration)]
  BY DEF HooksInit
<1>2. st = [gauges |-> <<>>, upcoming |-> {}, active |-> {}, finished |-> {}, byDenom |-> {},
            provisions |-> InitialProvisions, lastReduction |-> 0, records |-> [id \in {} |-> 0],
            bank |-> bank, supply |-> InitialBalance * Cardinality(Sponsors) + InitialVesting,
            offset |-> -InitialVesting]
  BY DEF HooksInit
<1>3. InitialBalance \in Nat /\ InitialVesting \in Nat /\ InitialProvisions \in Nat /\ MaxBlockTime \in Nat
  BY GenesisAssumption
<1>4. /\ Sponsors \subseteq Accounts /\ DeveloperVesting \in Accounts /\ MintModule \in Accounts /\ Module \in Accounts
      /\ \A a \in Sponsors : a # DeveloperVesting /\ a # MintModule /\ a # Module
  <2>1. Sponsors \subseteq Users
    BY DEF Users
  <2> QED
    BY <2>1, ModulesAre
<1>5. /\ \A a \in Sponsors : bank[a] = InitialBalance
      /\ bank[DeveloperVesting] = InitialVesting /\ bank[MintModule] = 0 /\ bank[Module] = 0
      /\ \A a \in Accounts : a \notin Sponsors /\ a # DeveloperVesting => bank[a] = 0
      /\ \A a \in Accounts : bank[a] \in Int /\ bank[a] >= 0
      /\ bank \in [Accounts -> Int]
  BY <1>3, <1>4, ModulesDiffer
<1>6. EpochsOK
  <2>1. ASSUME NEW i \in Identifiers
        PROVE  NewEpochInfo(Clocks[i].startTime, Clocks[i].duration) \in EpochInfo
    <3>1. Clocks[i].startTime \in Nat /\ Clocks[i].duration \in Nat \ {0}
      BY ClocksAssumption
    <3>2. \A x \in Nat, y \in Nat \ {0}, b \in BOOLEAN :
            [startTime |-> x, duration |-> y, countingStarted |-> b,
             currentEpoch |-> 0, currentEpochStartTime |-> 0] \in EpochInfo
      BY DEF EpochInfo
    <3> QED
      BY <3>1, <3>2, Zenon DEF NewEpochInfo
  <2>2. epochs \in [Identifiers -> EpochInfo]
    BY <1>1, <2>1
  <2>3. receiver \in [DOMAIN Locks -> Destinations]
    BY <1>1 DEF Destinations
  <2> QED
    BY <1>1, <1>3, <2>2, <2>3 DEF EpochsOK
<1> HIDE DEF bank
<1> DEFINE total == InitialBalance * Cardinality(Sponsors) + InitialVesting
<1>7. SumFunctionOnSet(bank, Accounts) = total /\ total \in Int
  <2> DEFINE rest == Accounts \ {DeveloperVesting}
             c == Cardinality(Sponsors)
  <2>1. IsFiniteSet(Accounts) /\ IsFiniteSet(rest) /\ IsFiniteSet(Sponsors)
    BY AccountsFinite, FS_Subset, SponsorsAssumption
  <2>2. SumFunctionOnSet(bank, Accounts) = InitialVesting + SumFunctionOnSet(bank, rest)
    BY <1>4, <1>5, <2>1, SumRemove
  <2>3. /\ Sponsors \in SUBSET rest /\ \A a \in rest : bank[a] \in Int
        /\ \A a \in rest \ Sponsors : bank[a] = 0
    BY <1>4, <1>5
  <2> HIDE DEF rest
  <2>4. SumFunctionOnSet(bank, rest) = SumFunctionOnSet(bank, Sponsors)
    BY <2>1, <2>3, SumSubset
  <2>5. SumFunctionOnSet(bank, Sponsors) = InitialBalance * c
    BY <1>3, <1>5, <2>1, SumOfConstant
  <2>6. c \in Nat
    BY <2>1, FS_CardinalityType
  <2> HIDE DEF c
  <2>7. InitialBalance * c \in Nat
    BY <1>3, <2>6, ProductNat
  <2>8. total = InitialBalance * c + InitialVesting
    BY DEF c
  <2> HIDE DEF total
  <2> QED
    BY <1>3, <2>2, <2>4, <2>5, <2>7, <2>8
<1> HIDE DEF total
<1>8. -InitialVesting \in Int
  BY <1>3
<1> DEFINE none == [id \in {} |-> 0]
<1>9. none \in WeightRecords /\ DOMAIN none = {}
  <2>1. none \in [{} -> Nat] /\ {} \in SUBSET Nat
    OBVIOUS
  <2> QED
    BY <2>1 DEF WeightRecords
<1> HIDE DEF none
<1>10. /\ st.gauges = <<>> /\ st.upcoming = {} /\ st.active = {} /\ st.finished = {} /\ st.byDenom = {}
       /\ st.provisions = InitialProvisions /\ st.lastReduction = 0 /\ st.records = none
       /\ st.bank = bank /\ st.supply = total /\ st.offset = -InitialVesting
  BY <1>2 DEF total, none
<1>11. st \in Stores
  <2> DEFINE off == -InitialVesting
  <2>1. st = [gauges |-> <<>>, upcoming |-> {}, active |-> {}, finished |-> {}, byDenom |-> {},
              provisions |-> InitialProvisions, lastReduction |-> 0, records |-> none,
              bank |-> bank, supply |-> total, offset |-> off]
    BY <1>2 DEF total, none
  <2>2. off \in Int /\ <<>> \in Seq(Gauge)
    BY <1>8
  <2> HIDE DEF off
  <2> QED
    BY <1>3, <1>5, <1>7, <1>9, <2>1, <2>2 DEF Stores
<1>12. DOMAIN st.gauges = {}
  BY <1>10
<1>13. Remains(st.gauges) = 0
  <2>1. Remains(st.gauges) = SumFunctionOnSet([id \in DOMAIN st.gauges |-> remainCoins(st.gauges[id])], {})
    BY <1>12 DEF Remains
  <2> QED
    BY <2>1, SumEmpty
<1>14. GaugesOK(st.gauges, 0) /\ QueuesOK(st, 0)
  BY <1>10, <1>12 DEF GaugesOK, QueuesOK
<1>15. DistrRecordsOK(st)
  BY <1>9, <1>10, FS_EmptySet DEF DistrRecordsOK
<1>16. Accounted(st) /\ NonNegative(st.bank) /\ st.bank[Module] = Remains(st.gauges)
  BY <1>5, <1>7, <1>10, <1>13 DEF Accounted, NonNegative
<1>17. StoreOK(st, blockTime)
  BY <1>1, <1>11, <1>14, <1>15, <1>16 DEF StoreOK
<1> QED
  BY <1>6, <1>17 DEF HooksInv

LEMMA HooksNextOK == HooksInv /\ [HooksNext]_hooksVars => HooksInv'
<1> SUFFICES ASSUME HooksInv, [HooksNext]_hooksVars PROVE HooksInv'
  OBVIOUS
<1>1. EpochsOK /\ StoreOK(st, blockTime)
  BY DEF HooksInv
<1>2. blockTime \in Nat
  BY <1>1, GenesisAssumption DEF EpochsOK
<1>3. \A o \in Sponsors : st.bank[o] \in Int /\ o \in Accounts
  <2>1. \A o \in Sponsors : o \in Accounts
    BY DEF Users, Accounts
  <2> QED
    BY <1>1, <2>1, StoreBank DEF StoreOK
<1>4. CreateGaugeFee \in Nat /\ AddToGaugeFee \in Nat
  BY SponsorsAssumption
<1>5. ASSUME StoreOK(st', blockTime), UNCHANGED <<blockTime, epochs, locked, receiver>>
      PROVE  HooksInv'
  BY <1>1, <1>5 DEF HooksInv, EpochsOK
<1>6. ASSUME NEW t \in blockTime .. MaxBlockTime, BeginBlocker(t)
      PROVE  HooksInv'
  BY <1>6, BeginBlockerOK
<1>7. ASSUME NEW o \in Sponsors, NEW m \in GaugeMsgs, MsgCreateGauge(o, m)
      PROVE  HooksInv'
  <2> DEFINE a == chargeFeeIfSufficientFeeDenomBalance(st, o, CreateGaugeFee)
  <2>1. /\ CanPay(st, o, m.coins, CreateGaugeFee) /\ st' = CreateGauge(a, o, m)
        /\ UNCHANGED <<blockTime, epochs, locked, receiver>>
    BY <1>7 DEF MsgCreateGauge
  <2>2. m.coins \in Nat
    BY MessagesAssumption
  <2>3. st.bank[o] >= CreateGaugeFee /\ st.bank[o] - CreateGaugeFee >= m.coins
    BY <1>3, <1>4, <2>1, <2>2 DEF CanPay
  <2>4. StoreOK(a, blockTime) /\ a.bank[o] = st.bank[o] - CreateGaugeFee
    BY <1>1, <1>4, <2>3, FeeOK
  <2> HIDE DEF a
  <2>5. StoreOK(CreateGauge(a, o, m), blockTime)
    BY <1>2, <2>3, <2>4, CreateGaugeOK
  <2> QED
    BY <1>5, <2>1, <2>5
<1>8. ASSUME NEW o \in Sponsors, NEW id \in GaugeIds, NEW c \in Rewards, MsgAddToGauge(o, id, c)
      PROVE  HooksInv'
  <2> DEFINE a == chargeFeeIfSufficientFeeDenomBalance(st, o, AddToGaugeFee)
  <2>1. /\ CanAddToGaugeRewards(st, id, blockTime)
        /\ CanPay(st, o, c, AddToGaugeFee) /\ st' = AddToGaugeRewards(a, o, c, id)
        /\ UNCHANGED <<blockTime, epochs, locked, receiver>>
    BY <1>8 DEF MsgAddToGauge
  <2>2. c \in Nat
    BY MessagesAssumption
  <2>3. st.bank[o] >= AddToGaugeFee /\ st.bank[o] - AddToGaugeFee >= c
    BY <1>3, <1>4, <2>1, <2>2 DEF CanPay
  <2>4. StoreOK(a, blockTime) /\ SameGauges(st, a) /\ a.bank[o] = st.bank[o] - AddToGaugeFee
    BY <1>1, <1>4, <2>3, FeeOK
  <2> HIDE DEF a
  <2>5. CanAddToGaugeRewards(a, id, blockTime)
    BY <2>1, <2>4 DEF CanAddToGaugeRewards, SameGauges
  <2>6. StoreOK(AddToGaugeRewards(a, o, c, id), blockTime)
    BY <1>2, <2>2, <2>3, <2>4, <2>5, AddRewardOK
  <2> QED
    BY <1>5, <2>1, <2>6
<1>9. ASSUME NEW l \in DOMAIN Locks, LockOrUnlock(l)
      PROVE  HooksInv'
  <2>1. /\ locked' = IF l \in locked THEN locked \ {l} ELSE locked \cup {l}
        /\ receiver' = [receiver EXCEPT ![l] = NoReceiver]
        /\ blockTime' = blockTime /\ epochs' = epochs /\ st' = st
    BY <1>9 DEF LockOrUnlock
  <2>2. locked' \subseteq DOMAIN Locks /\ receiver' \in [DOMAIN Locks -> Destinations]
    BY <1>1, <2>1 DEF EpochsOK, Destinations
  <2>3. EpochsOK'
    BY <1>1, <2>1, <2>2 DEF EpochsOK
  <2>4. StoreOK(st', blockTime')
    BY <1>1, <2>1
  <2> QED
    BY <2>3, <2>4 DEF HooksInv
<1>10. ASSUME NEW l \in DOMAIN Locks, NEW r \in Owners \cup Receivers, SetLockRewardReceiverAddress(l, r)
       PROVE  HooksInv'
  <2>1. /\ \E d \in {NoReceiver, r} : receiver' = [receiver EXCEPT ![l] = d]
        /\ blockTime' = blockTime /\ epochs' = epochs /\ st' = st /\ locked' = locked
    BY <1>10 DEF SetLockRewardReceiverAddress
  <2>2. receiver' \in [DOMAIN Locks -> Destinations]
    BY <1>1, <2>1 DEF EpochsOK, Destinations
  <2>3. EpochsOK'
    BY <1>1, <2>1, <2>2 DEF EpochsOK
  <2>4. StoreOK(st', blockTime')
    BY <1>1, <2>1
  <2> QED
    BY <2>3, <2>4 DEF HooksInv
<1>11. ASSUME NEW p \in Proposals, HandleReplacePoolIncentivesProposal(p)
       PROVE  HooksInv'
  <2>1. /\ validateRecords(st, p) /\ st' = ReplaceDistrRecords(st, p)
        /\ UNCHANGED <<blockTime, epochs, locked, receiver>>
    BY <1>11 DEF HandleReplacePoolIncentivesProposal
  <2>2. StoreOK(ReplaceDistrRecords(st, p), blockTime)
    BY <1>1, <2>1, ReplaceOK
  <2> QED
    BY <1>5, <2>1, <2>2
<1>12. ASSUME NEW p \in Proposals, HandleUpdatePoolIncentivesProposal(p)
       PROVE  HooksInv'
  <2>1. /\ validateRecords(st, p) /\ st' = UpdateDistrRecords(st, p)
        /\ UNCHANGED <<blockTime, epochs, locked, receiver>>
    BY <1>12 DEF HandleUpdatePoolIncentivesProposal
  <2>2. StoreOK(UpdateDistrRecords(st, p), blockTime)
    BY <1>1, <2>1, UpdateRecordsOK
  <2> QED
    BY <1>5, <2>1, <2>2
<1>13. CASE UNCHANGED hooksVars
  <2>1. blockTime' = blockTime /\ epochs' = epochs /\ st' = st /\ locked' = locked /\ receiver' = receiver
    BY <1>13 DEF hooksVars
  <2>2. EpochsOK'
    BY <1>1, <2>1 DEF EpochsOK
  <2>3. StoreOK(st', blockTime')
    BY <1>1, <2>1
  <2> QED
    BY <2>2, <2>3 DEF HooksInv
<1> QED
  BY <1>6, <1>7, <1>8, <1>9, <1>10, <1>11, <1>12, <1>13 DEF HooksNext

\* The stores keep their shape and no balance falls below zero.
LEMMA HooksInvTypeOK == HooksInv => HooksTypeOK
<1> SUFFICES ASSUME HooksInv PROVE HooksTypeOK
  OBVIOUS
<1>1. EpochsOK /\ StoreOK(st, blockTime)
  BY DEF HooksInv
<1>2. st \in Stores /\ DistrRecordsOK(st) /\ Accounted(st) /\ NonNegative(st.bank)
  BY <1>1 DEF StoreOK
<1>3. st.bank \in [Accounts -> Nat]
  BY <1>2 DEF Stores, NonNegative
<1>4. {st.provisions, st.lastReduction, st.supply} \subseteq Nat
  <2>1. SumFunctionOnSet(st.bank, Accounts) \in Nat
    BY <1>3, AccountsFinite, SumNat
  <2>2. st.provisions \in Nat /\ st.lastReduction \in Nat
    BY <1>2 DEF Stores
  <2> QED
    BY <1>2, <2>1, <2>2 DEF Accounted
<1>5. \A id \in DOMAIN st.gauges : st.gauges[id] \in Gauge
  BY <1>2, GaugesAre DEF Stores
<1>6. DOMAIN st.records \subseteq {0} \cup DOMAIN st.gauges
  BY <1>2 DEF DistrRecordsOK
<1> QED
  BY <1>1, <1>3, <1>4, <1>5, <1>6 DEF HooksTypeOK, EpochsOK, Destinations

LEMMA HooksInvSafe ==
  HooksInv => GaugesAreBacked /\ OnlyDustRemains /\ MintIsAccounted /\ RecordsNeverBlockMint
<1> SUFFICES ASSUME HooksInv
             PROVE  GaugesAreBacked /\ OnlyDustRemains /\ MintIsAccounted /\ RecordsNeverBlockMint
  OBVIOUS
<1>1. EpochsOK /\ StoreOK(st, blockTime)
  BY DEF HooksInv
<1>2. GaugesOK(st.gauges, blockTime) /\ st.bank[Module] = Remains(st.gauges) /\ Accounted(st)
  BY <1>1 DEF StoreOK
<1>3. GaugesAreBacked
  BY <1>2 DEF GaugesAreBacked, GaugesOK, GaugeOK, Remains
<1>4. OnlyDustRemains
  BY <1>2 DEF OnlyDustRemains, GaugesOK, GaugeOK, Dust
<1>5. MintIsAccounted
  BY <1>2 DEF MintIsAccounted, Accounted
<1>6. RecordsNeverBlockMint
  <2> DEFINE epoch == epochs[MintIdentifier].currentEpoch
  <2>1. epoch \in Nat /\ blockTime \in Nat
    BY <1>1, ClocksAssumption, GenesisAssumption DEF EpochsOK, EpochInfo
  <2> HIDE DEF epoch
  <2>2. VestingSuffices(st, epoch) => CanAllocate(Minted(st, epoch), blockTime)
    BY <1>1, <2>1, MintedOK, RecordsTakeCoins
  <2> QED
    BY <2>2 DEF RecordsNeverBlockMint, epoch
<1> QED
  BY <1>3, <1>4, <1>5, <1>6

LEMMA HooksInvariant == HooksSpec => []HooksInv
BY HooksInitOK, HooksNextOK, PTL DEF HooksSpec

\* In every reachable state the stores of x/epochs, x/incentives, x/mint, x/pool-incentives
\* and the bank have their types, and no transfer of a hook or a message has taken a balance
\* below zero, whatever the locks, the epochs, the gauges and the weights.
THEOREM HooksTypeCorrect == HooksSpec => []HooksTypeOK
BY HooksInvariant, HooksInvTypeOK, PTL

\* x/incentives holds exactly what its gauges have yet to pay, a gauge that has paid its
\* last epoch keeps dust only, the mint's supply, offset and balances agree, and no state of
\* the gauges makes the allocation of newly minted coins fail.
THEOREM EpochHooksSafety ==
  HooksSpec => /\ []GaugesAreBacked
               /\ []OnlyDustRemains
               /\ []MintIsAccounted
               /\ []RecordsNeverBlockMint
BY HooksInvariant, HooksInvSafe, PTL

\* A step pays all gauges that can be paid at the end of their epoch, or none.
PaidGauges == {id \in DOMAIN st.gauges : st'.gauges[id].filled # st.gauges[id].filled}

CanBePaid(id) ==
  /\ id \in DOMAIN st.gauges \ st.finished
  /\ st.gauges[id].startTime <= blockTime'
  /\ st.gauges[id].noLock \/ QualifiedLocks(st.gauges[id], locked) # {}

AllOrNothing ==
  PaidGauges = {} \/ /\ EpochEnds(epochs[DistrIdentifier], blockTime')
                     /\ PaidGauges = {id \in DOMAIN st.gauges : CanBePaid(id)}

LEMMA NoGaugePaid ==
  ASSUME FilledSame(st, st')
  PROVE  AllOrNothing
BY DEF FilledSame, AllOrNothing, PaidGauges

LEMMA BlockPays ==
  ASSUME DistrIdentifier <= MintIdentifier, HooksInv, NEW t \in blockTime .. MaxBlockTime, BeginBlocker(t)
  PROVE  AllOrNothing
<1>1. EpochsOK /\ StoreOK(st, blockTime)
  BY DEF HooksInv
<1>2. blockTime \in Nat /\ t \in Nat /\ blockTime <= t
  BY <1>1, GenesisAssumption DEF EpochsOK
<1>3. StoreOK(st, t)
  BY <1>1, <1>2, LaterOK
<1>4. st' = BlockStore(t) /\ blockTime' = t
  BY DEF BeginBlocker, Tick, BlockStore, Ends
<1>5. InBlock(t, Ends(t), st')
  BY <1>1, <1>2, <1>3, <1>4, BlockOK
<1>6. FilledSame(st, st') \/ (FilledTogether(st, t, st') /\ DistrIdentifier \in Ends(t))
  BY <1>5 DEF InBlock
<1>7. CASE FilledTogether(st, t, st') /\ DistrIdentifier \in Ends(t)
  <2>1. EpochEnds(epochs[DistrIdentifier], t)
    BY <1>7 DEF Ends
  <2>2. \A id \in DOMAIN st.gauges : st'.gauges[id].filled # st.gauges[id].filled <=> CanBePaid(id)
    BY <1>4, <1>7 DEF FilledTogether, CanBePaid, Payable
  <2>3. PaidGauges = {id \in DOMAIN st.gauges : CanBePaid(id)}
    BY <2>2 DEF PaidGauges
  <2> QED
    BY <1>4, <2>1, <2>3 DEF AllOrNothing
<1> QED
  BY <1>6, <1>7, NoGaugePaid

LEMMA StepPays ==
  ASSUME DistrIdentifier <= MintIdentifier, HooksInv, HooksNext
  PROVE  AllOrNothing
<1>1. EpochsOK /\ StoreOK(st, blockTime)
  BY DEF HooksInv
<1>2. blockTime \in Nat
  BY <1>1, GenesisAssumption DEF EpochsOK
<1>3. \A o \in Sponsors : st.bank[o] \in Int /\ o \in Accounts
  <2>1. \A o \in Sponsors : o \in Accounts
    BY DEF Users, Accounts
  <2> QED
    BY <1>1, <2>1, StoreBank DEF StoreOK
<1>4. CreateGaugeFee \in Nat /\ AddToGaugeFee \in Nat
  BY SponsorsAssumption
<1>5. ASSUME st'.gauges = st.gauges PROVE AllOrNothing
  BY <1>5, NoGaugePaid DEF FilledSame
<1>6. ASSUME NEW t \in blockTime .. MaxBlockTime, BeginBlocker(t)
      PROVE  AllOrNothing
  BY <1>6, BlockPays
<1>7. ASSUME NEW o \in Sponsors, NEW m \in GaugeMsgs, MsgCreateGauge(o, m)
      PROVE  AllOrNothing
  <2> DEFINE a == chargeFeeIfSufficientFeeDenomBalance(st, o, CreateGaugeFee)
  <2>1. CanPay(st, o, m.coins, CreateGaugeFee) /\ st' = CreateGauge(a, o, m)
    BY <1>7 DEF MsgCreateGauge
  <2>2. m.coins \in Nat
    BY MessagesAssumption
  <2>3. st.bank[o] >= CreateGaugeFee /\ st.bank[o] - CreateGaugeFee >= m.coins
    BY <1>3, <1>4, <2>1, <2>2 DEF CanPay
  <2>4. StoreOK(a, blockTime) /\ SameGauges(st, a) /\ a.bank[o] = st.bank[o] - CreateGaugeFee
    BY <1>1, <1>4, <2>3, FeeOK
  <2> HIDE DEF a
  <2>5. FilledSame(a, st')
    BY <1>2, <2>1, <2>3, <2>4, CreateGaugeOK
  <2> QED
    BY <2>4, <2>5, NoGaugePaid DEF FilledSame, SameGauges
<1>8. ASSUME NEW o \in Sponsors, NEW id \in GaugeIds, NEW c \in Rewards, MsgAddToGauge(o, id, c)
      PROVE  AllOrNothing
  <2> DEFINE a == chargeFeeIfSufficientFeeDenomBalance(st, o, AddToGaugeFee)
  <2>1. /\ CanAddToGaugeRewards(st, id, blockTime)
        /\ CanPay(st, o, c, AddToGaugeFee) /\ st' = AddToGaugeRewards(a, o, c, id)
    BY <1>8 DEF MsgAddToGauge
  <2>2. c \in Nat
    BY MessagesAssumption
  <2>3. st.bank[o] >= AddToGaugeFee /\ st.bank[o] - AddToGaugeFee >= c
    BY <1>3, <1>4, <2>1, <2>2 DEF CanPay
  <2>4. StoreOK(a, blockTime) /\ SameGauges(st, a) /\ a.bank[o] = st.bank[o] - AddToGaugeFee
    BY <1>1, <1>4, <2>3, FeeOK
  <2> HIDE DEF a
  <2>5. CanAddToGaugeRewards(a, id, blockTime)
    BY <2>1, <2>4 DEF CanAddToGaugeRewards, SameGauges
  <2>6. FilledSame(a, st')
    BY <1>2, <2>1, <2>2, <2>3, <2>4, <2>5, AddRewardOK
  <2> QED
    BY <2>4, <2>6, NoGaugePaid DEF FilledSame, SameGauges
<1>9. ASSUME NEW l \in DOMAIN Locks, LockOrUnlock(l)
      PROVE  AllOrNothing
  BY <1>5, <1>9 DEF LockOrUnlock
<1>10. ASSUME NEW l \in DOMAIN Locks, NEW r \in Owners \cup Receivers, SetLockRewardReceiverAddress(l, r)
       PROVE  AllOrNothing
  BY <1>5, <1>10 DEF SetLockRewardReceiverAddress
<1>11. ASSUME NEW p \in Proposals, HandleReplacePoolIncentivesProposal(p)
       PROVE  AllOrNothing
  <2>1. st' = WithRecords(st, p) /\ st \in Stores
    BY <1>1, <1>11 DEF HandleReplacePoolIncentivesProposal, ReplaceDistrRecords, WithRecords, StoreOK
  <2>2. st'.gauges = st.gauges
    BY <2>1 DEF WithRecords, Stores
  <2> QED
    BY <1>5, <2>2
<1>12. ASSUME NEW p \in Proposals, HandleUpdatePoolIncentivesProposal(p)
       PROVE  AllOrNothing
  <2>1. st' = UpdateDistrRecords(st, p) /\ st \in Stores
    BY <1>1, <1>12 DEF HandleUpdatePoolIncentivesProposal, StoreOK
  <2>2. \E new : st' = WithRecords(st, new)
    BY <2>1 DEF UpdateDistrRecords, WithRecords
  <2>3. st'.gauges = st.gauges
    BY <2>1, <2>2 DEF WithRecords, Stores
  <2> QED
    BY <1>5, <2>3
<1> QED
  BY <1>6, <1>7, <1>8, <1>9, <1>10, <1>11, <1>12 DEF HooksNext

\* Where the epoch that pays the gauges is handled no later than the one that mints (the
\* mint's coins can give a gauge someone to pay within the same block), a step that pays a
\* gauge is the begin blocker at the end of that epoch, and it pays every active gauge that
\* has someone to pay.
THEOREM EpochsPayTogether ==
  ASSUME DistrIdentifier <= MintIdentifier
  PROVE  HooksSpec => EpochEndIsAllOrNothing
<1>1. HooksInv /\ [HooksNext]_hooksVars => [AllOrNothing]_hooksVars
  BY StepPays
<1>2. EpochEndIsAllOrNothing <=> [][AllOrNothing]_hooksVars
  BY DEF EpochEndIsAllOrNothing, AllOrNothing, PaidGauges, CanBePaid
<1> QED
  BY <1>1, <1>2, HooksInvariant, PTL DEF HooksSpec

=============================================================================
