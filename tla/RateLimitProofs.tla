-------------------------- MODULE RateLimitProofs --------------------------
(***************************************************************************)
(* What the operations of the rate-limiter contract do to its storage, for *)
(* every configuration: they keep every tracker well formed and its net    *)
(* outflow within capacity, and they change one tracker at a time.         *)
(***************************************************************************)
EXTENDS RateLimit, TLAPS

\* What is proved of one tracker: it is well formed, it has recorded nothing
\* before its channel value is cached, and its net outflow is within capacity.
LimitOK(limit) ==
  /\ limit \in RateLimits
  /\ limit.quota.channel_value = None => limit.flow.inflow = 0 /\ limit.flow.outflow = 0
  /\ balance_out(limit.flow) <= capacity_out(limit.quota)

LimitsOK(limits) ==
  limits \in Seq(RateLimits) /\ \A i \in 1 .. Len(limits) : LimitOK(limits[i])

\* The same of a storage with the keys P
StoreOK(P, store) ==
  /\ store \in [P -> Seq(RateLimits) \cup {Absent}]
  /\ \A p \in P : store[p] # Absent => LimitsOK(store[p])

----------------------------------------------------------------------------

\* Saturating subtraction on naturals (Uint256::saturating_sub) never goes
\* below zero nor above its first argument.
LEMMA SaturatingSub ==
  ASSUME NEW a \in Nat, NEW b \in Nat
  PROVE  saturating_sub(a, b) \in 0 .. a
BY DEF saturating_sub

\* Saturating addition stays within Uint256.
LEMMA SaturatingAdd ==
  ASSUME NEW a \in Uint256, NEW b \in Uint256
  PROVE  saturating_add(a, b) \in Uint256 /\ saturating_add(a, b) >= a
BY MaxUintAssumption DEF saturating_add, Uint256

\* A capacity is a natural number (Quota::capacity, None included).
LEMMA CapacityType ==
  ASSUME NEW value \in Nat \cup {None}, NEW percentage \in 0 .. 100
  PROVE  PercentageOf(value, percentage) \in Nat
<1>1. CASE value = None
  BY <1>1 DEF PercentageOf
<1>2. CASE value # None
  <2>1. value * percentage \in Nat
    BY <1>2
  <2>2. \A n \in Nat : n \div 100 \in Nat
    OBVIOUS
  <2> QED
    BY <1>2, <2>1, <2>2 DEF PercentageOf
<1> QED
  BY <1>1, <1>2

\* The same for the outflow capacity of a quota.
LEMMA CapacityOutType ==
  ASSUME NEW quota \in Quota
  PROVE  capacity_out(quota) \in Nat
<1>1. quota.channel_value \in Nat \cup {None}
  BY MaxUintAssumption DEF Quota, Uint256
<1>2. quota.max_percentage_send \in 0 .. 100
  BY DEF Quota
<1> QED
  BY <1>1, <1>2, CapacityType DEF capacity_out

\* RateLimit::allow_transfer keeps a tracker correct when it accepts.
LEMMA AllowTransferOK ==
  ASSUME NEW limit, LimitOK(limit), NEW denom,
         NEW direction \in FlowType, NEW funds \in Uint256,
         NEW supply \in Uint256, NEW time \in Nat,
         allow_transfer(limit, denom, direction, funds, supply, time).ok
  PROVE  LimitOK(allow_transfer(limit, denom, direction, funds, supply, time).limit)
<1> DEFINE res == allow_transfer(limit, denom, direction, funds, supply, time)
           base == IF is_expired(limit.flow, time)
                   THEN expire(time, limit.quota.duration) ELSE limit.flow
           flow == apply_transfer(limit.flow, direction, funds, time, limit.quota.duration)
           fresh == limit.quota.channel_value = None \/ is_expired(limit.flow, time)
           value == calculate_channel_value(supply, denom, funds, direction)
           quota == IF fresh THEN [limit.quota EXCEPT !.channel_value = value]
                    ELSE limit.quota
<1>1. /\ res.limit = [quota |-> quota, flow |-> flow]
      /\ quota.channel_value <= MaxUint
      /\ ~ exceeds(flow, direction, capacity_in(quota), capacity_out(quota))
  BY DEF allow_transfer
<1>2. /\ limit.flow \in Flow
      /\ limit.quota \in Quota
  BY DEF LimitOK, RateLimits
<1>3. base \in Flow
  BY <1>2, MaxUintAssumption DEF expire, ZeroFlow, Flow, Quota, Uint256
<1>4. flow = add_flow(base, direction, funds)
  BY DEF apply_transfer
<1>5. flow \in Flow
  BY <1>3, <1>4, SaturatingAdd DEF add_flow, Flow
<1>6. quota \in Quota /\ quota.channel_value \in Uint256
  <2>1. value \in Nat
    BY DEF calculate_channel_value, Uint256
  <2>2. CASE fresh
    <3>1. quota = [limit.quota EXCEPT !.channel_value = value]
      BY <2>2
    <3>2. quota.channel_value = value
      BY <3>1, <1>2 DEF Quota
    <3>3. value \in Uint256
      BY <1>1, <2>1, <3>2, MaxUintAssumption DEF Uint256
    <3> QED
      BY <1>2, <3>1, <3>2, <3>3 DEF Quota
  <2>3. CASE ~ fresh
    BY <1>2, <2>3 DEF Quota
  <2> QED
    BY <2>2, <2>3
<1>7. quota.channel_value # None
  BY <1>6, NoneAssumption, MaxUintAssumption DEF Uint256
<1>8. capacity_out(quota) \in Nat
  BY <1>6, CapacityOutType
<1>9. balance_out(flow) <= capacity_out(quota)
  <2>0. flow.inflow \in Nat /\ flow.outflow \in Nat /\ base.inflow \in Nat /\ base.outflow \in Nat
    BY <1>3, <1>5, MaxUintAssumption DEF Flow, Uint256
  <2>1. CASE direction = "Out"
    BY <1>1, <1>8, <2>0, <2>1, SaturatingSub DEF exceeds, balance_out
  <2>2. CASE direction = "In"
    <3>1. flow.outflow = base.outflow /\ flow.inflow >= base.inflow
      BY <1>3, <1>4, <2>2, SaturatingAdd DEF add_flow, Flow
    <3>2. CASE base.outflow <= base.inflow
      BY <3>1, <3>2, <2>0, <1>8 DEF balance_out, saturating_sub
    <3>3. CASE base.outflow > base.inflow
      <4>1. ~ fresh /\ base = limit.flow
        BY <3>3, <2>0 DEF expire, ZeroFlow, LimitOK
      <4>2. balance_out(base) <= capacity_out(quota)
        BY <4>1 DEF LimitOK
      <4> QED
        BY <4>2, <3>1, <3>3, <2>0, <1>8 DEF balance_out, saturating_sub
    <3> QED
      BY <3>2, <3>3, <2>0
  <2> QED
    BY <2>1, <2>2 DEF FlowType
<1> QED
  BY <1>1, <1>5, <1>6, <1>7, <1>9 DEF LimitOK, RateLimits

\* undo_send takes from the outflow only, so it keeps a tracker correct whatever
\* packet it is asked to undo.
LEMMA UndoOK ==
  ASSUME NEW limit, LimitOK(limit), NEW funds \in Uint256
  PROVE  LimitOK([limit EXCEPT !.flow = undo_flow(@, funds)])
<1> DEFINE flow == undo_flow(limit.flow, funds)
           res == [limit EXCEPT !.flow = undo_flow(@, funds)]
<1>1. limit.flow \in Flow /\ limit.quota \in Quota /\ limit \in RateLimits
  BY DEF LimitOK, RateLimits
<1>2. /\ limit.flow.inflow \in Nat /\ limit.flow.outflow \in Nat
      /\ limit.flow.outflow <= MaxUint /\ funds \in Nat
  BY <1>1, MaxUintAssumption DEF Flow, Uint256
<1>3. /\ flow.inflow = limit.flow.inflow
      /\ flow.outflow \in 0 .. limit.flow.outflow
      /\ flow.period_end = limit.flow.period_end
  BY <1>1, <1>2, SaturatingSub DEF undo_flow, Flow
<1>4. flow \in Flow
  <2>1. flow.outflow \in Uint256
    BY <1>2, <1>3, MaxUintAssumption DEF Uint256
  <2>2. flow = [limit.flow EXCEPT !.outflow = flow.outflow]
    BY <1>1 DEF undo_flow, Flow
  <2> QED
    BY <1>1, <2>1, <2>2 DEF Flow
<1>5. res \in RateLimits /\ res.flow = flow /\ res.quota = limit.quota
  BY <1>1, <1>4 DEF RateLimits
<1>6. capacity_out(limit.quota) \in Nat
  BY <1>1, CapacityOutType
<1>7. balance_out(flow) <= capacity_out(limit.quota)
  <2>1. balance_out(limit.flow) <= capacity_out(limit.quota)
    BY DEF LimitOK
  <2> QED
    BY <1>2, <1>3, <1>6, <2>1 DEF balance_out, saturating_sub
<1>8. limit.quota.channel_value = None => flow.inflow = 0 /\ flow.outflow = 0
  BY <1>2, <1>3 DEF LimitOK
<1> QED
  BY <1>5, <1>7, <1>8 DEF LimitOK

\* Flow::expire, as ResetPathQuota uses it, keeps a tracker correct although the
\* cached channel value stays.
LEMMA ExpireOK ==
  ASSUME NEW limit, LimitOK(limit), NEW time \in Nat
  PROVE  LimitOK([limit EXCEPT !.flow = expire(time, limit.quota.duration)])
<1> DEFINE flow == expire(time, limit.quota.duration)
           res == [limit EXCEPT !.flow = flow]
<1>1. limit \in RateLimits /\ limit.quota \in Quota
  BY DEF LimitOK, RateLimits
<1>2. flow \in Flow /\ flow.inflow = 0 /\ flow.outflow = 0
  BY <1>1, MaxUintAssumption DEF expire, ZeroFlow, Flow, Quota, Uint256
<1>3. res \in RateLimits /\ res.flow = flow /\ res.quota = limit.quota
  BY <1>1, <1>2 DEF RateLimits
<1>4. capacity_out(limit.quota) \in Nat
  BY <1>1, CapacityOutType
<1>5. balance_out(flow) = 0
  BY <1>2 DEF balance_out, saturating_sub
<1> QED
  BY <1>2, <1>3, <1>4, <1>5 DEF LimitOK

\* The vector AddPath and instantiate save is correct: percentages are capped at
\* 100, nothing is cached and nothing is recorded.
LEMMA NewLimitsOK ==
  ASSUME NEW quotas \in Seq(QuotaMsg), NEW time \in Nat
  PROVE  LimitsOK(NewLimits(quotas, time))
<1> DEFINE new == NewLimits(quotas, time)
<1>1. /\ Len(quotas) \in Nat
      /\ \A i \in 1 .. Len(quotas) : quotas[i] \in QuotaMsg
  OBVIOUS
<1>2. ASSUME NEW i \in 1 .. Len(quotas)
      PROVE  LimitOK(new[i]) /\ new[i] \in RateLimits
  <2>0. new[i] = [quota |-> QuotaFrom(quotas[i]), flow |-> ZeroFlow(time, quotas[i].duration)]
    BY DEF NewLimits
  <2>1. QuotaFrom(quotas[i]) \in Quota /\ QuotaFrom(quotas[i]).channel_value = None
    <3>1. /\ quotas[i].name \in STRING /\ quotas[i].duration \in Nat
          /\ quotas[i].send \in Nat /\ quotas[i].recv \in Nat
      BY <1>1 DEF QuotaMsg
    <3>2. /\ (IF quotas[i].send > 100 THEN 100 ELSE quotas[i].send) \in 0 .. 100
          /\ (IF quotas[i].recv > 100 THEN 100 ELSE quotas[i].recv) \in 0 .. 100
      <4>1. \A n \in Nat : (IF n > 100 THEN 100 ELSE n) \in 0 .. 100
        OBVIOUS
      <4> QED
        BY <3>1, <4>1
    <3> QED
      BY <3>1, <3>2 DEF QuotaFrom, Quota
  <2>2. ZeroFlow(time, quotas[i].duration) \in Flow
    BY <1>1, MaxUintAssumption DEF ZeroFlow, QuotaMsg, Flow, Uint256
  <2>3. balance_out(ZeroFlow(time, quotas[i].duration)) = 0
    BY DEF ZeroFlow, balance_out, saturating_sub
  <2>4. capacity_out(QuotaFrom(quotas[i])) = 0
    BY <2>1 DEF capacity_out, PercentageOf
  <2> QED
    BY <2>0, <2>1, <2>2, <2>3, <2>4 DEF LimitOK, RateLimits, ZeroFlow
<1>3. new \in Seq(RateLimits) /\ Len(new) = Len(quotas)
  BY <1>1, <1>2 DEF NewLimits
<1> QED
  BY <1>2, <1>3 DEF LimitsOK

----------------------------------------------------------------------------
(* The storage operations.                                                 *)

\* may_load(..).unwrap_or_default() gives a correct vector.
LEMMA LoadOK ==
  ASSUME NEW P, NEW store, StoreOK(P, store), NEW p \in P
  PROVE  LimitsOK(Load(store, p))
BY DEF StoreOK, Load, LimitsOK

\* Replacing the vector of a key by a correct one keeps the storage correct.
LEMMA SaveOK ==
  ASSUME NEW P, NEW store, StoreOK(P, store), NEW p \in P, NEW limits, LimitsOK(limits)
  PROVE  StoreOK(P, [store EXCEPT ![p] = limits])
BY DEF StoreOK, LimitsOK

\* Accepting a transfer on every tracker of a vector keeps the vector correct.
LEMMA AllowAllOK ==
  ASSUME NEW limits, LimitsOK(limits), NEW denom,
         NEW direction \in FlowType, NEW funds \in Uint256,
         NEW supply \in Uint256, NEW time \in Nat,
         AllAllowed(AllowAll(limits, denom, direction, funds, supply, time))
  PROVE  LimitsOK(LimitsOf(AllowAll(limits, denom, direction, funds, supply, time)))
<1> DEFINE results == AllowAll(limits, denom, direction, funds, supply, time)
<1>1. limits \in Seq(RateLimits) /\ Len(limits) \in Nat
  BY DEF LimitsOK
<1>2. DOMAIN results = 1 .. Len(limits)
  BY DEF AllowAll
<1>3. ASSUME NEW i \in 1 .. Len(limits)
      PROVE  LimitOK(results[i].limit) /\ results[i].limit \in RateLimits
  <2>1. results[i] = allow_transfer(limits[i], denom, direction, funds, supply, time)
    BY DEF AllowAll
  <2>2. results[i].ok
    BY <1>2 DEF AllAllowed
  <2>3. LimitOK(limits[i])
    BY DEF LimitsOK
  <2>4. LimitOK(results[i].limit)
    BY <2>1, <2>2, <2>3, AllowTransferOK
  <2> QED
    BY <2>4 DEF LimitOK
<1>4. LimitsOf(results) = [i \in 1 .. Len(limits) |-> results[i].limit]
  BY <1>2 DEF LimitsOf
<1> HIDE DEF results
<1>5. LimitsOf(results) \in Seq(RateLimits) /\ Len(LimitsOf(results)) = Len(limits)
  BY <1>1, <1>3, <1>4
<1> QED
  BY <1>3, <1>4, <1>5 DEF LimitsOK, results

\* try_transfer keeps the storage correct, accepted or refused.
LEMMA TryTransferOK ==
  ASSUME NEW P, NEW store, StoreOK(P, store), NEW channel, NEW denom,
         Path(channel, denom) \in P, Path("any", denom) \in P,
         NEW direction \in FlowType, NEW funds \in Uint256,
         NEW supply \in Uint256, NEW time \in Nat
  PROVE  StoreOK(P, try_transfer(store, channel, denom, supply, funds, direction, time).store)
<1> DEFINE path == Path(channel, denom)
           any_path == Path("any", denom)
           results == AllowAll(Load(store, path), denom, direction, funds, supply, time)
           any_results == AllowAll(Load(store, any_path), denom, direction, funds, supply, time)
           res == try_transfer(store, channel, denom, supply, funds, direction, time)
<1>1. path \in P /\ any_path \in P
  OBVIOUS
<1>2. CASE not_configured(store, channel, denom) \/ ~ (AllAllowed(results) /\ AllAllowed(any_results))
  BY <1>2 DEF try_transfer
<1>3. CASE /\ ~ not_configured(store, channel, denom)
           /\ AllAllowed(results) /\ AllAllowed(any_results)
  <2> DEFINE mid == [store EXCEPT ![path] = LimitsOf(results)]
  <2>1. res.store = [mid EXCEPT ![any_path] = LimitsOf(any_results)]
    BY <1>3 DEF try_transfer
  <2>2. LimitsOK(Load(store, path)) /\ LimitsOK(Load(store, any_path))
    BY <1>1, LoadOK
  <2>3. LimitsOK(LimitsOf(results)) /\ LimitsOK(LimitsOf(any_results))
    BY <1>3, <2>2, AllowAllOK
  <2>4. StoreOK(P, mid)
    BY <1>1, <2>3, SaveOK
  <2> HIDE DEF mid, any_results
  <2> QED
    BY <1>1, <2>1, <2>3, <2>4, SaveOK
<1> QED
  BY <1>2, <1>3

\* Undoing a send on every tracker of a vector keeps the vector correct.
LEMMA UndoAllOK ==
  ASSUME NEW limits, LimitsOK(limits), NEW funds \in Uint256
  PROVE  LimitsOK(UndoAll(limits, funds))
<1>1. limits \in Seq(RateLimits) /\ Len(limits) \in Nat
  BY DEF LimitsOK
<1>2. ASSUME NEW i \in 1 .. Len(limits)
      PROVE  LimitOK(UndoAll(limits, funds)[i]) /\ UndoAll(limits, funds)[i] \in RateLimits
  <2>1. UndoAll(limits, funds)[i] = [limits[i] EXCEPT !.flow = undo_flow(@, funds)]
    BY DEF UndoAll
  <2>2. LimitOK(limits[i])
    BY DEF LimitsOK
  <2>3. LimitOK(UndoAll(limits, funds)[i])
    BY <2>1, <2>2, UndoOK
  <2> QED
    BY <2>3 DEF LimitOK
<1>3. /\ DOMAIN UndoAll(limits, funds) = 1 .. Len(limits)
      /\ UndoAll(limits, funds) = [i \in 1 .. Len(limits) |-> UndoAll(limits, funds)[i]]
  BY DEF UndoAll
<1>4. UndoAll(limits, funds) \in Seq(RateLimits) /\ Len(UndoAll(limits, funds)) = Len(limits)
  BY <1>1, <1>2, <1>3
<1> QED
  BY <1>2, <1>4 DEF LimitsOK

\* undo_send keeps the storage correct.
LEMMA UndoSendOK ==
  ASSUME NEW P, NEW store, StoreOK(P, store), NEW channel, NEW denom,
         Path(channel, denom) \in P, Path("any", denom) \in P,
         NEW funds \in Uint256
  PROVE  StoreOK(P, undo_send(store, channel, denom, funds))
<1> DEFINE path == Path(channel, denom)
           any_path == Path("any", denom)
<1>1. path \in P /\ any_path \in P
  OBVIOUS
<1>3. CASE not_configured(store, channel, denom)
  BY <1>3 DEF undo_send
<1>4. CASE ~ not_configured(store, channel, denom)
  <2> DEFINE mid == [store EXCEPT ![path] = UndoAll(Load(store, path), funds)]
             any_limits == UndoAll(Load(store, any_path), funds)
  <2>1. undo_send(store, channel, denom, funds) = [mid EXCEPT ![any_path] = any_limits]
    BY <1>4 DEF undo_send
  <2>2. /\ LimitsOK(UndoAll(Load(store, path), funds))
        /\ LimitsOK(any_limits)
    BY <1>1, LoadOK, UndoAllOK
  <2>3. StoreOK(P, mid)
    BY <1>1, <2>2, SaveOK
  <2> HIDE DEF mid, any_limits
  <2>4. StoreOK(P, [mid EXCEPT ![any_path] = any_limits])
    BY <1>1, <2>2, <2>3, SaveOK
  <2> QED
    BY <2>1, <2>4
<1> QED
  BY <1>3, <1>4

\* ResetPathQuota keeps the storage correct, the unknown quota id included.
LEMMA ResetPathQuotaOK ==
  ASSUME NEW P, NEW store, StoreOK(P, store), NEW p \in P, NEW id, NEW time \in Nat
  PROVE  StoreOK(P, reset_path_quota(store, p, id, time).store)
<1> DEFINE limits == Load(store, p)
           new == ResetLimits(limits, id, time)
<1>1. LimitsOK(limits)
  BY LoadOK
<1>2. limits \in Seq(RateLimits) /\ Len(limits) \in Nat
  BY <1>1 DEF LimitsOK
<1>3. ASSUME NEW i \in 1 .. Len(limits)
      PROVE  LimitOK(new[i]) /\ new[i] \in RateLimits
  <2>1. LimitOK(limits[i])
    BY <1>1 DEF LimitsOK
  <2>2. new[i] = limits[i] \/ new[i] = [limits[i] EXCEPT !.flow = expire(time, limits[i].quota.duration)]
    BY DEF ResetLimits
  <2>3. LimitOK(new[i])
    BY <2>1, <2>2, ExpireOK
  <2> QED
    BY <2>3 DEF LimitOK
<1>4. DOMAIN new = 1 .. Len(limits) /\ new = [i \in 1 .. Len(limits) |-> new[i]]
  BY DEF ResetLimits
<1>5. reset_path_quota(store, p, id, time).store \in {store, [store EXCEPT ![p] = new]}
  BY DEF reset_path_quota
<1> HIDE DEF new, limits
<1>6. new \in Seq(RateLimits) /\ Len(new) = Len(limits)
  BY <1>2, <1>3, <1>4
<1>7. LimitsOK(new)
  BY <1>3, <1>6 DEF LimitsOK
<1> QED
  BY <1>5, <1>7, SaveOK
----------------------------------------------------------------------------
(* What becomes of each tracker.                                           *)

\* An accepted transfer applies allow_transfer to every tracker of the path and of
\* the "any" channel, each of which accepted it, and to no other; a refused one
\* changes nothing.
LEMMA TryTransferIs ==
  ASSUME NEW P, NEW store, StoreOK(P, store), NEW channel, NEW denom,
         Path(channel, denom) \in P, Path("any", denom) \in P,
         NEW direction \in FlowType, NEW funds \in Uint256,
         NEW supply \in Uint256, NEW time \in Nat
  PROVE  LET res == try_transfer(store, channel, denom, supply, funds, direction, time)
         IN  /\ ~ res.ok => res.store = store
             /\ res.ok => \A p \in P :
                  /\ Len(Load(res.store, p)) = Len(Load(store, p))
                  /\ \A i \in 1 .. Len(Load(store, p)) :
                       LET call == allow_transfer(Load(store, p)[i], denom, direction, funds, supply, time)
                       IN IF p \in {Path(channel, denom), Path("any", denom)}
                          THEN call.ok /\ Load(res.store, p)[i] = call.limit
                          ELSE Load(res.store, p)[i] = Load(store, p)[i]
<1> DEFINE path == Path(channel, denom)
           any_path == Path("any", denom)
           all(p) == AllowAll(Load(store, p), denom, direction, funds, supply, time)
           res == try_transfer(store, channel, denom, supply, funds, direction, time)
<1>1. res.ok <=> AllAllowed(all(path)) /\ AllAllowed(all(any_path))
  BY DEF try_transfer
<1>2. ~ res.ok => res.store = store
  BY DEF try_transfer
<1>3. CASE res.ok /\ not_configured(store, channel, denom)
  <2>1. res.store = store
    BY <1>3 DEF try_transfer
  <2>2. Len(Load(store, path)) = 0 /\ Len(Load(store, any_path)) = 0
    BY <1>3 DEF not_configured
  <2> HIDE DEF res
  <2> QED
    BY <1>3, <2>1, <2>2 DEF res
<1>4. CASE res.ok /\ ~ not_configured(store, channel, denom)
  <2>1. res.store = [[store EXCEPT ![path] = LimitsOf(all(path))]
                       EXCEPT ![any_path] = LimitsOf(all(any_path))]
    BY <1>1, <1>4 DEF try_transfer
  <2>2. store \in [P -> Seq(RateLimits) \cup {Absent}]
    BY DEF StoreOK
  <2> HIDE DEF res, all
  <2>3. \A p \in P : res.store[p] = IF p \in {path, any_path} THEN LimitsOf(all(p)) ELSE store[p]
    BY <2>1, <2>2
  <2>4. ASSUME NEW p \in P
        PROVE  /\ Len(Load(res.store, p)) = Len(Load(store, p))
               /\ \A i \in 1 .. Len(Load(store, p)) :
                    LET call == allow_transfer(Load(store, p)[i], denom, direction, funds, supply, time)
                    IN IF p \in {path, any_path}
                       THEN call.ok /\ Load(res.store, p)[i] = call.limit
                       ELSE Load(res.store, p)[i] = Load(store, p)[i]
    <3>1. CASE p \notin {path, any_path}
      BY <2>3, <3>1 DEF Load
    <3>2. CASE p \in {path, any_path}
      <4> DEFINE old == Load(store, p)
                 new == LimitsOf(all(p))
      <4>1. LimitsOK(old) /\ AllAllowed(all(p))
        BY <1>1, <1>4, <3>2, LoadOK
      <4>2. LimitsOK(new)
        BY <4>1, AllowAllOK DEF all
      <4>3. new \in Seq(RateLimits) /\ old \in Seq(RateLimits) /\ Len(old) \in Nat
        BY <4>1, <4>2 DEF LimitsOK
      <4>4. Load(res.store, p) = new
        BY <2>3, <3>2, <4>3, AbsentAssumption DEF Load
      <4>5. /\ DOMAIN all(p) = 1 .. Len(old)
            /\ \A i \in 1 .. Len(old) :
                 all(p)[i] = allow_transfer(old[i], denom, direction, funds, supply, time)
        BY DEF all, AllowAll
      <4> HIDE DEF old
      <4>6. new = [i \in 1 .. Len(old) |-> all(p)[i].limit]
        BY <4>5 DEF LimitsOf
      <4>7. Len(new) = Len(old)
        BY <4>3, <4>6
      <4>8. \A i \in 1 .. Len(old) : all(p)[i].ok
        BY <4>1, <4>5 DEF AllAllowed
      <4>9. \A i \in 1 .. Len(old) : new[i] = all(p)[i].limit
        BY <4>6
      <4> HIDE DEF new
      <4> QED
        BY <3>2, <4>4, <4>5, <4>7, <4>8, <4>9 DEF old
    <3> QED
      BY <3>1, <3>2
  <2> QED
    BY <1>4, <2>4 DEF res
<1> HIDE DEF res
<1> QED
  BY <1>2, <1>3, <1>4 DEF res

\* undo_send lowers the outflow of every tracker of the path and of "any".
LEMMA UndoSendIs ==
  ASSUME NEW P, NEW store, StoreOK(P, store), NEW channel, NEW denom,
         Path(channel, denom) \in P, Path("any", denom) \in P, NEW funds \in Uint256
  PROVE  LET new == undo_send(store, channel, denom, funds)
         IN  \A p \in P :
               /\ Len(Load(new, p)) = Len(Load(store, p))
               /\ \A i \in 1 .. Len(Load(store, p)) :
                    Load(new, p)[i] =
                      IF p \in {Path(channel, denom), Path("any", denom)}
                      THEN [Load(store, p)[i] EXCEPT !.flow = undo_flow(@, funds)]
                      ELSE Load(store, p)[i]
<1> DEFINE path == Path(channel, denom)
           any_path == Path("any", denom)
           new == undo_send(store, channel, denom, funds)
           all(p) == UndoAll(Load(store, p), funds)
<1>1. CASE not_configured(store, channel, denom)
  <2>1. new = store
    BY <1>1 DEF undo_send
  <2>2. Len(Load(store, path)) = 0 /\ Len(Load(store, any_path)) = 0
    BY <1>1 DEF not_configured
  <2> HIDE DEF new
  <2> QED
    BY <2>1, <2>2 DEF new
<1>2. CASE ~ not_configured(store, channel, denom)
  <2>1. new = [[store EXCEPT ![path] = all(path)] EXCEPT ![any_path] = all(any_path)]
    BY <1>2 DEF undo_send
  <2>2. store \in [P -> Seq(RateLimits) \cup {Absent}]
    BY DEF StoreOK
  <2> HIDE DEF new, all
  <2>3. \A p \in P : new[p] = IF p \in {path, any_path} THEN all(p) ELSE store[p]
    BY <2>1, <2>2
  <2>4. ASSUME NEW p \in P
        PROVE  /\ Len(Load(new, p)) = Len(Load(store, p))
               /\ \A i \in 1 .. Len(Load(store, p)) :
                    Load(new, p)[i] =
                      IF p \in {path, any_path}
                      THEN [Load(store, p)[i] EXCEPT !.flow = undo_flow(@, funds)]
                      ELSE Load(store, p)[i]
    <3>1. CASE p \notin {path, any_path}
      BY <2>3, <3>1 DEF Load
    <3>2. CASE p \in {path, any_path}
      <4> DEFINE old == Load(store, p)
      <4>1. LimitsOK(old)
        BY LoadOK
      <4>2. LimitsOK(all(p))
        BY <4>1, UndoAllOK DEF all
      <4>3. all(p) \in Seq(RateLimits) /\ old \in Seq(RateLimits) /\ Len(old) \in Nat
        BY <4>1, <4>2 DEF LimitsOK
      <4>4. Load(new, p) = all(p)
        BY <2>3, <3>2, <4>3, AbsentAssumption DEF Load
      <4>5. all(p) = [i \in 1 .. Len(old) |-> [old[i] EXCEPT !.flow = undo_flow(@, funds)]]
        BY DEF all, UndoAll
      <4> HIDE DEF old
      <4>6. Len(all(p)) = Len(old)
        BY <4>3, <4>5
      <4>7. \A i \in 1 .. Len(old) : all(p)[i] = [old[i] EXCEPT !.flow = undo_flow(@, funds)]
        BY <4>5
      <4> QED
        BY <3>2, <4>4, <4>6, <4>7 DEF old
    <3> QED
      BY <3>1, <3>2
  <2> QED
    BY <2>4 DEF new
<1> QED
  BY <1>1, <1>2

\* Net flows are natural numbers.
LEMMA BalanceType ==
  ASSUME NEW flow, flow.inflow \in Nat, flow.outflow \in Nat
  PROVE  balance_in(flow) \in Nat /\ balance_out(flow) \in Nat
BY DEF balance_in, balance_out, saturating_sub

\* What an accepted transfer does to one tracker: within the period it only adds to
\* the flow, and keeps the end of the period and the cached value; and it leaves the
\* net inflow above its capacity only if it did not raise it.
LEMMA AllowTransferIs ==
  ASSUME NEW limit, LimitOK(limit), NEW denom,
         NEW direction \in FlowType, NEW funds \in Uint256,
         NEW supply \in Uint256, NEW time \in Nat,
         allow_transfer(limit, denom, direction, funds, supply, time).ok
  PROVE  LET new == allow_transfer(limit, denom, direction, funds, supply, time).limit
         IN  /\ new.quota.channel_value # None
             /\ time <= limit.flow.period_end =>
                  /\ new.flow.period_end = limit.flow.period_end
                  /\ new.flow.inflow >= limit.flow.inflow
                  /\ \/ new.quota.channel_value = limit.quota.channel_value
                     \/ limit.quota.channel_value = None
             /\ balance_in(new.flow) > capacity_in(new.quota) =>
                  balance_in(new.flow) <= balance_in(limit.flow)
<1> DEFINE res == allow_transfer(limit, denom, direction, funds, supply, time)
           old == limit.flow
           base == IF is_expired(old, time) THEN expire(time, limit.quota.duration) ELSE old
           flow == add_flow(base, direction, funds)
           quota == IF limit.quota.channel_value = None \/ is_expired(old, time)
                    THEN [limit.quota EXCEPT !.channel_value =
                            calculate_channel_value(supply, denom, funds, direction)]
                    ELSE limit.quota
<1>1. limit.quota \in Quota /\ old \in Flow
  BY DEF LimitOK, RateLimits
<1>2. res.limit.quota = quota /\ res.limit.flow = flow
  BY DEF allow_transfer, apply_transfer
<1>3. /\ quota.channel_value <= MaxUint
      /\ ~ exceeds(flow, direction, capacity_in(quota), capacity_out(quota))
  BY DEF allow_transfer, apply_transfer
<1> HIDE DEF res
<1>4. /\ old.inflow \in Uint256 /\ old.outflow \in Uint256 /\ old.period_end \in Nat
      /\ limit.quota.duration \in Nat
  BY <1>1 DEF Flow, Quota
<1>5. quota.channel_value # None
  <2>1. calculate_channel_value(supply, denom, funds, direction) \in Nat
    BY DEF calculate_channel_value, Uint256
  <2> QED
    BY <1>1, <2>1, NoneAssumption DEF Quota
<1>6. is_expired(old, time) <=> ~ (time <= old.period_end)
  BY <1>4 DEF is_expired
<1>7. base \in Flow /\ base.inflow \in Uint256 /\ base.outflow \in Uint256
  BY <1>1, <1>4, MaxUintAssumption DEF Flow, expire, ZeroFlow, Uint256
<1>8. /\ time <= old.period_end => base = old
      /\ ~ (time <= old.period_end) => base.inflow = 0 /\ base.outflow = 0
  BY <1>6 DEF expire, ZeroFlow
<1>9. /\ flow.period_end = base.period_end
      /\ direction = "In" => /\ flow.inflow = saturating_add(base.inflow, funds)
                             /\ flow.outflow = base.outflow
      /\ direction = "Out" => /\ flow.inflow = base.inflow
                              /\ flow.outflow = saturating_add(base.outflow, funds)
  <2> HIDE DEF base
  <2> QED
    BY <1>7 DEF add_flow, Flow
<1>10. /\ saturating_add(base.inflow, funds) \in Uint256
       /\ saturating_add(base.outflow, funds) \in Uint256
       /\ saturating_add(base.inflow, funds) >= base.inflow
       /\ saturating_add(base.outflow, funds) >= base.outflow
  BY <1>7, SaturatingAdd
<1>11. flow.inflow \in Nat /\ flow.outflow \in Nat /\ flow.inflow >= base.inflow
  <2> HIDE DEF base, flow
  <2> QED
    BY <1>7, <1>9, <1>10 DEF Uint256, FlowType
<1>12. time <= old.period_end =>
         quota.channel_value = limit.quota.channel_value \/ limit.quota.channel_value = None
  BY <1>6
<1>13. balance_in(flow) > capacity_in(quota) => balance_in(flow) <= balance_in(old)
  <2>1. CASE direction = "In"
    BY <1>3, <2>1 DEF exceeds
  <2>2. CASE direction = "Out"
    <3> HIDE DEF base, flow
    <3>1. balance_in(flow) <= balance_in(base)
      BY <1>7, <1>9, <1>10, <1>11, <2>2 DEF balance_in, saturating_sub, Uint256
    <3>2. balance_in(base) <= balance_in(old)
      <4>1. base = old \/ (base.inflow = 0 /\ base.outflow = 0)
        BY <1>8
      <4> HIDE DEF old
      <4> QED
        BY <1>4, <4>1 DEF balance_in, saturating_sub, Uint256
    <3>3. balance_in(base) \in Nat /\ balance_in(flow) \in Nat /\ balance_in(old) \in Nat
      <4> HIDE DEF old
      <4>1. \A n \in Uint256 : n \in Nat
        BY DEF Uint256
      <4> QED
        BY <1>4, <1>7, <1>11, <4>1, BalanceType
    <3> QED
      BY <3>1, <3>2, <3>3
  <2> QED
    BY <2>1, <2>2 DEF FlowType
<1> HIDE DEF flow, quota, base
<1> QED
  BY <1>2, <1>5, <1>8, <1>9, <1>11, <1>12, <1>13 DEF res

\* Sent out and received back at the same time, an amount leaves one tracker with the
\* net flow it had, and the tracker accepts it back unless it was above its recv
\* capacity before.
LEMMA RoundTripLimit ==
  ASSUME NEW limit, LimitOK(limit), NEW denom, NEW funds \in Uint256,
         NEW supply \in Uint256, NEW time \in Nat,
         limit.flow.inflow + funds <= MaxUint, limit.flow.outflow + funds <= MaxUint,
         allow_transfer(limit, denom, "Out", funds, supply, time).ok
  PROVE  LET sent == allow_transfer(limit, denom, "Out", funds, supply, time).limit
             back == allow_transfer(sent, denom, "In", funds, supply, time)
             net == IF limit.flow.period_end < time THEN 0
                    ELSE limit.flow.inflow - limit.flow.outflow
             flow == back.limit.flow
         IN  net <= capacity_in(sent.quota) =>
               /\ back.ok
               /\ (IF flow.period_end < time THEN 0 ELSE flow.inflow - flow.outflow) = net
<1> DEFINE out == allow_transfer(limit, denom, "Out", funds, supply, time)
           sent == out.limit
           back == allow_transfer(sent, denom, "In", funds, supply, time)
           old == limit.flow
           base == IF is_expired(old, time) THEN expire(time, limit.quota.duration) ELSE old
           net == IF old.period_end < time THEN 0 ELSE old.inflow - old.outflow
<1>1. limit.quota \in Quota /\ old \in Flow
  BY DEF LimitOK, RateLimits
<1>2. LimitOK(sent)
  BY AllowTransferOK DEF FlowType
<1>3. sent.quota.channel_value # None
  BY AllowTransferIs DEF FlowType
<1>4. /\ old.inflow \in Uint256 /\ old.outflow \in Uint256 /\ old.period_end \in Nat
      /\ limit.quota.duration \in Nat
  BY <1>1 DEF Flow, Quota
<1>5. /\ base \in Flow /\ base.inflow \in Nat /\ base.outflow \in Nat
      /\ base.period_end \in Nat /\ base.period_end >= time
      /\ base.inflow - base.outflow = net
      /\ base.inflow + funds <= MaxUint /\ base.outflow + funds <= MaxUint
  BY <1>1, <1>4, MaxUintAssumption DEF Flow, Uint256, is_expired, expire, ZeroFlow
<1>6. sent.flow = add_flow(base, "Out", funds)
  <2>1. sent.flow = apply_transfer(old, "Out", funds, time, limit.quota.duration)
    BY DEF allow_transfer
  <2> HIDE DEF sent, old
  <2> QED
    BY <2>1 DEF apply_transfer
<1>7. funds \in Nat
  BY DEF Uint256
<1> HIDE DEF base, net
<1>8. /\ sent.flow.inflow = base.inflow /\ sent.flow.outflow = base.outflow + funds
      /\ sent.flow.period_end = base.period_end
  BY <1>5, <1>6, <1>7, MaxUintAssumption DEF add_flow, saturating_add, Flow
<1>9. /\ sent.flow.period_end <= MaxTimestamp
      /\ sent.quota.channel_value <= MaxUint /\ ~ CapacityOverflows(sent.quota)
  BY DEF allow_transfer
<1>10. sent.flow \in Flow /\ sent.quota \in Quota
  BY <1>2 DEF LimitOK, RateLimits
<1> HIDE DEF sent
<1>11. ~ is_expired(sent.flow, time)
  BY <1>5, <1>8 DEF is_expired
<1>12. back.limit.quota = sent.quota /\ back.limit.flow = add_flow(sent.flow, "In", funds)
  <2>1. back.limit.flow = apply_transfer(sent.flow, "In", funds, time, sent.quota.duration)
    BY DEF allow_transfer
  <2>2. back.limit.quota = sent.quota
    BY <1>3, <1>11 DEF allow_transfer
  <2> HIDE DEF back
  <2> QED
    BY <1>11, <2>1, <2>2 DEF apply_transfer
<1>13. back.ok <=> /\ back.limit.flow.period_end <= MaxTimestamp
                   /\ back.limit.quota.channel_value <= MaxUint
                   /\ ~ CapacityOverflows(back.limit.quota)
                   /\ ~ exceeds(back.limit.flow, "In", capacity_in(back.limit.quota),
                                capacity_out(back.limit.quota))
  BY DEF allow_transfer
<1> HIDE DEF back
<1>14. /\ back.limit.flow.inflow = base.inflow + funds
       /\ back.limit.flow.outflow = base.outflow + funds
       /\ back.limit.flow.period_end = base.period_end
  BY <1>5, <1>7, <1>8, <1>10, <1>12, MaxUintAssumption DEF add_flow, saturating_add, Flow
<1>15. capacity_in(sent.quota) \in Nat
  <2>1. sent.quota.channel_value \in Nat \cup {None} /\ sent.quota.max_percentage_recv \in 0 .. 100
    BY <1>10 DEF Quota, Uint256
  <2> QED
    BY <2>1, CapacityType DEF capacity_in
<1>16. ASSUME net <= capacity_in(sent.quota)
       PROVE  back.ok /\ back.limit.flow.period_end >= time
                      /\ back.limit.flow.inflow - back.limit.flow.outflow = net
  <2>1. back.limit.flow.inflow - back.limit.flow.outflow = net
    BY <1>5, <1>7, <1>14
  <2>2. balance_in(back.limit.flow) <= capacity_in(sent.quota)
    BY <1>5, <1>7, <1>14, <1>15, <1>16, <2>1 DEF balance_in, saturating_sub
  <2>3. balance_in(back.limit.flow) \in Nat
    BY <1>5, <1>7, <1>14 DEF balance_in, saturating_sub
  <2>4. ~ exceeds(back.limit.flow, "In", capacity_in(sent.quota), capacity_out(sent.quota))
    BY <1>15, <2>2, <2>3 DEF exceeds
  <2>5. back.ok
    BY <1>8, <1>9, <1>12, <1>13, <1>14, <2>4
  <2> QED
    BY <1>5, <1>14, <2>1, <2>5
<1>17. back.limit.flow.period_end \in Nat
  BY <1>5, <1>14
<1>18. net <= capacity_in(sent.quota) =>
         /\ back.ok
         /\ (IF back.limit.flow.period_end < time THEN 0
             ELSE back.limit.flow.inflow - back.limit.flow.outflow) = net
  BY <1>16, <1>17
<1> QED
  BY <1>18 DEF back, sent, net

\* The contract accepts a transfer when every tracker of its two keys does.
LEMMA TryTransferAccepts ==
  ASSUME NEW store, NEW channel, NEW denom, NEW direction, NEW funds, NEW supply, NEW time
  PROVE  try_transfer(store, channel, denom, supply, funds, direction, time).ok <=>
           \A p \in {Path(channel, denom), Path("any", denom)} :
             \A i \in 1 .. Len(Load(store, p)) :
               allow_transfer(Load(store, p)[i], denom, direction, funds, supply, time).ok
<1> DEFINE all(p) == AllowAll(Load(store, p), denom, direction, funds, supply, time)
<1>1. try_transfer(store, channel, denom, supply, funds, direction, time).ok <=>
        AllAllowed(all(Path(channel, denom))) /\ AllAllowed(all(Path("any", denom)))
  BY DEF try_transfer
<1>2. ASSUME NEW p
      PROVE  AllAllowed(all(p)) <=> \A i \in 1 .. Len(Load(store, p)) :
               allow_transfer(Load(store, p)[i], denom, direction, funds, supply, time).ok
  BY DEF AllowAll, AllAllowed
<1> QED
  BY <1>1, <1>2

\* The counters after an accepted transfer: what they were, or nothing if the period
\* has expired, plus the transfer on its side.
LEMMA AllowTransferCounts ==
  ASSUME NEW limit, LimitOK(limit), NEW denom, NEW direction \in FlowType, NEW funds,
         NEW supply, NEW time
  PROVE  LET new == allow_transfer(limit, denom, direction, funds, supply, time).limit.flow
             inflow == IF is_expired(limit.flow, time) THEN 0 ELSE limit.flow.inflow
             outflow == IF is_expired(limit.flow, time) THEN 0 ELSE limit.flow.outflow
         IN  /\ new.inflow = IF direction = "In" THEN saturating_add(inflow, funds) ELSE inflow
             /\ new.outflow = IF direction = "Out" THEN saturating_add(outflow, funds) ELSE outflow
<1> DEFINE base == IF is_expired(limit.flow, time)
                   THEN expire(time, limit.quota.duration) ELSE limit.flow
<1>1. allow_transfer(limit, denom, direction, funds, supply, time).limit.flow
        = add_flow(base, direction, funds)
  BY DEF allow_transfer, apply_transfer
<1>2. limit.flow \in Flow
  BY DEF LimitOK, RateLimits
<1>3. /\ base.inflow = IF is_expired(limit.flow, time) THEN 0 ELSE limit.flow.inflow
      /\ base.outflow = IF is_expired(limit.flow, time) THEN 0 ELSE limit.flow.outflow
  BY DEF expire, ZeroFlow
<1>4. /\ add_flow(base, direction, funds).inflow =
           IF direction = "In" THEN saturating_add(base.inflow, funds) ELSE base.inflow
      /\ add_flow(base, direction, funds).outflow =
           IF direction = "Out" THEN saturating_add(base.outflow, funds) ELSE base.outflow
  <2>1. base = [inflow |-> base.inflow, outflow |-> base.outflow, period_end |-> base.period_end]
    BY <1>2 DEF expire, ZeroFlow, Flow
  <2> HIDE DEF base
  <2> QED
    BY <2>1 DEF add_flow, FlowType
<1> QED
  BY <1>1, <1>3, <1>4

\* The channel value after an accepted transfer: the one cached, or one calculated from
\* the supply of this transfer.
LEMMA AllowTransferCaches ==
  ASSUME NEW limit, LimitOK(limit), NEW denom, NEW direction, NEW funds, NEW supply, NEW time
  PROVE  allow_transfer(limit, denom, direction, funds, supply, time).limit.quota.channel_value \in
           {limit.quota.channel_value, calculate_channel_value(supply, denom, funds, direction)}
<1> DEFINE value == calculate_channel_value(supply, denom, funds, direction)
<1>1. allow_transfer(limit, denom, direction, funds, supply, time).limit.quota \in
        {limit.quota, [limit.quota EXCEPT !.channel_value = value]}
  BY DEF allow_transfer
<1>2. [limit.quota EXCEPT !.channel_value = value].channel_value = value
  BY DEF LimitOK, RateLimits, Quota
<1> HIDE DEF value
<1> QED
  BY <1>1, <1>2 DEF value
=============================================================================
