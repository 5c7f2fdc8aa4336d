----------------------------- MODULE RateLimit -----------------------------
(***************************************************************************)
(* The data structures of the rate-limiter contract and the operations on  *)
(* its storage (contracts/rate-limiter/src: state.rs, sudo.rs, execute.rs) *)
(* as operators.  An operation of the contract that can fail returns a     *)
(* record [ok, store]; a failed one, and one that aborts on an arithmetic  *)
(* overflow, saves nothing, so its store is the old one.                   *)
(***************************************************************************)
EXTENDS Integers, Sequences

CONSTANTS
  MaxUint,        \* largest Uint256
  MaxTimestamp,   \* largest Timestamp (u64), in the unit of quota durations
  None,           \* Option::None in Quota.channel_value
  Absent,         \* no entry under a key of RATE_LIMIT_TRACKERS
  IbcDenoms       \* the denoms whose text contains "ibc"

ASSUME MaxUintAssumption == MaxUint \in Nat
ASSUME MaxTimestampAssumption == MaxTimestamp \in Nat
ASSUME NoneAssumption == None \notin Int

Uint256 == 0 .. MaxUint
FlowType == {"In", "Out"}

saturating_add(a, b) == IF a + b > MaxUint THEN MaxUint ELSE a + b
saturating_sub(a, b) == IF a > b THEN a - b ELSE 0

----------------------------------------------------------------------------
(* Flow: what has moved in the current period.                             *)

Flow == [inflow : Uint256, outflow : Uint256, period_end : Nat]

\* Flow::new(0, 0, now, duration), and what Flow::expire leaves
ZeroFlow(now, duration) ==
  [inflow |-> 0, outflow |-> 0, period_end |-> now + duration]

balance_in(flow) == saturating_sub(flow.inflow, flow.outflow)
balance_out(flow) == saturating_sub(flow.outflow, flow.inflow)

\* Mutant: only outflows are limited
exceedsOutOnly(flow, direction, max_in, max_out) ==
  direction = "Out" /\ balance_out(flow) > max_out

exceeds(flow, direction, max_in, max_out) ==
  \/ direction = "In" /\ balance_in(flow) > max_in
  \/ direction = "Out" /\ balance_out(flow) > max_out

\* Mutant: the last instant of the period already counts as expired
is_expiredEarly(flow, now) == flow.period_end <= now

is_expired(flow, now) == flow.period_end < now

expire(now, duration) == ZeroFlow(now, duration)

\* Mutant: a gross limit, only outflows are counted
add_flowGross(flow, direction, value) ==
  IF direction = "In" THEN flow
  ELSE [flow EXCEPT !.outflow = saturating_add(@, value)]

add_flow(flow, direction, value) ==
  IF direction = "In"
  THEN [flow EXCEPT !.inflow = saturating_add(@, value)]
  ELSE [flow EXCEPT !.outflow = saturating_add(@, value)]

\* undo_flow is only ever called for FlowType::Out
undo_flow(flow, value) == [flow EXCEPT !.outflow = saturating_sub(@, value)]

apply_transfer(flow, direction, funds, now, duration) ==
  add_flow(IF is_expired(flow, now) THEN expire(now, duration) ELSE flow,
           direction, funds)

----------------------------------------------------------------------------
(* Quota: the share of the channel value that may move in a period.        *)

QuotaMsg == [name : STRING, duration : Nat, send : Nat, recv : Nat]

Quota ==
  [name : STRING, max_percentage_send : 0 .. 100, max_percentage_recv : 0 .. 100,
   duration : Nat, channel_value : Uint256 \cup {None}]

\* Mutant: percentages are taken as they come
QuotaFromUncapped(msg) ==
  [name |-> msg.name, max_percentage_send |-> msg.send,
   max_percentage_recv |-> msg.recv, duration |-> msg.duration,
   channel_value |-> None]

QuotaFrom(msg) ==
  [name |-> msg.name,
   max_percentage_send |-> IF msg.send > 100 THEN 100 ELSE msg.send,
   max_percentage_recv |-> IF msg.recv > 100 THEN 100 ELSE msg.recv,
   duration |-> msg.duration,
   channel_value |-> None]

PercentageOf(value, percentage) ==
  IF value = None THEN 0 ELSE (value * percentage) \div 100

capacity_in(quota) == PercentageOf(quota.channel_value, quota.max_percentage_recv)
capacity_out(quota) == PercentageOf(quota.channel_value, quota.max_percentage_send)

\* Quota::capacity multiplies before it divides: Uint256 aborts on overflow
CapacityOverflows(quota) ==
  \/ quota.channel_value * quota.max_percentage_recv > MaxUint
  \/ quota.channel_value * quota.max_percentage_send > MaxUint

----------------------------------------------------------------------------
(* RateLimit: a quota with its flow.                                       *)

RateLimits == [quota : Quota, flow : Flow]

ASSUME AbsentAssumption == Absent \notin Seq(RateLimits)

\* Mutant: the amount is added for a receive too, though it has not arrived yet
calculate_channel_valueBothWays(channel_value, denom, funds, direction) ==
  IF denom \in IbcDenoms THEN channel_value + funds ELSE channel_value

calculate_channel_value(channel_value, denom, funds, direction) ==
  IF direction = "Out" /\ denom \in IbcDenoms
  THEN channel_value + funds
  ELSE channel_value

\* Mutant: the quota is compared with the flow before this transfer
allow_transferChecksFirst(limit, denom, direction, funds, channel_value, now) ==
  LET expired == is_expired(limit.flow, now)
      before == apply_transfer(limit.flow, direction, 0, now, limit.quota.duration)
      quota == IF limit.quota.channel_value = None \/ expired
               THEN [limit.quota EXCEPT !.channel_value =
                       calculate_channel_value(channel_value, denom, funds, direction)]
               ELSE limit.quota
  IN [ok |-> /\ before.period_end <= MaxTimestamp
             /\ quota.channel_value <= MaxUint
             /\ ~ CapacityOverflows(quota)
             /\ ~ exceeds(before, direction, capacity_in(quota), capacity_out(quota)),
      limit |-> [quota |-> quota, flow |-> add_flow(before, direction, funds)]]

allow_transfer(limit, denom, direction, funds, channel_value, now) ==
  LET expired == is_expired(limit.flow, now)
      flow == apply_transfer(limit.flow, direction, funds, now,
                             limit.quota.duration)
      quota == IF limit.quota.channel_value = None \/ expired
               THEN [limit.quota EXCEPT !.channel_value =
                       calculate_channel_value(channel_value, denom, funds, direction)]
               ELSE limit.quota
  IN [ok |-> /\ flow.period_end <= MaxTimestamp
             /\ quota.channel_value <= MaxUint
             /\ ~ CapacityOverflows(quota)
             /\ ~ exceeds(flow, direction, capacity_in(quota), capacity_out(quota)),
      limit |-> [quota |-> quota, flow |-> flow]]

----------------------------------------------------------------------------
(* RATE_LIMIT_TRACKERS and the operations on it.                           *)

Path(channel, denom) == [channel |-> channel, denom |-> denom]

\* may_load(..).unwrap_or_default()
Load(store, path) == IF store[path] = Absent THEN <<>> ELSE store[path]

\* allow_transfer on every tracker of a vector
AllowAll(limits, denom, direction, funds, channel_value, now) ==
  [i \in 1 .. Len(limits) |->
     allow_transfer(limits[i], denom, direction, funds, channel_value, now)]

AllAllowed(results) == \A i \in DOMAIN results : results[i].ok

LimitsOf(results) == [i \in DOMAIN results |-> results[i].limit]

not_configured(store, channel, denom) ==
  /\ Load(store, Path(channel, denom)) = <<>>
  /\ Load(store, Path("any", denom)) = <<>>

\* The trackers of the path are tried first, then those of the "any" channel;
\* both vectors are saved, the empty one of an unconfigured key included.
try_transfer(store, channel, denom, channel_value, funds, direction, now) ==
  LET results == AllowAll(Load(store, Path(channel, denom)), denom, direction,
                          funds, channel_value, now)
      any_results == AllowAll(Load(store, Path("any", denom)), denom, direction,
                              funds, channel_value, now)
      ok == AllAllowed(results) /\ AllAllowed(any_results)
  IN [ok |-> ok,
      store |-> IF not_configured(store, channel, denom) \/ ~ ok
                THEN store
                ELSE [store EXCEPT ![Path(channel, denom)] = LimitsOf(results),
                                   ![Path("any", denom)] = LimitsOf(any_results)]]

UndoAll(limits, funds) ==
  [i \in 1 .. Len(limits) |->
     [limits[i] EXCEPT !.flow = undo_flow(@, funds)]]

\* Mutant: the trackers of the "any" channel are forgotten
undo_sendPathOnly(store, channel, denom, funds) ==
  IF not_configured(store, channel, denom)
  THEN store
  ELSE [store EXCEPT
          ![Path(channel, denom)] = UndoAll(Load(store, Path(channel, denom)), funds)]

undo_send(store, channel, denom, funds) ==
  IF not_configured(store, channel, denom)
  THEN store
  ELSE [store EXCEPT
          ![Path(channel, denom)] = UndoAll(Load(store, Path(channel, denom)), funds),
          ![Path("any", denom)] = UndoAll(Load(store, Path("any", denom)), funds)]

\* The vector add_new_paths saves for one PathMsg, whatever was there before
NewLimits(quotas, now) ==
  [i \in 1 .. Len(quotas) |->
     [quota |-> QuotaFrom(quotas[i]),
      flow |-> ZeroFlow(now, quotas[i].duration)]]

\* No period_end of the vector overflows the Timestamp
PeriodsFit(limits) ==
  \A i \in 1 .. Len(limits) : limits[i].flow.period_end <= MaxTimestamp

add_new_path(store, path, quotas, now) ==
  LET limits == NewLimits(quotas, now)
      ok == PeriodsFit(limits)
  IN [ok |-> ok, store |-> IF ok THEN [store EXCEPT ![path] = limits] ELSE store]

remove_path(store, path) == [store EXCEPT ![path] = Absent]

\* The flow starts over; the cached channel value of the quota is kept.
ResetLimits(limits, quota_id, now) ==
  [i \in 1 .. Len(limits) |->
     IF limits[i].quota.name = quota_id
     THEN [limits[i] EXCEPT !.flow = expire(now, limits[i].quota.duration)]
     ELSE limits[i]]

reset_path_quota(store, path, quota_id, now) ==
  LET limits == ResetLimits(Load(store, path), quota_id, now)
      ok == store[path] # Absent /\ PeriodsFit(limits)
  IN [ok |-> ok, store |-> IF ok THEN [store EXCEPT ![path] = limits] ELSE store]
=============================================================================
