------------------------- MODULE RateLimiterProofs -------------------------
(***************************************************************************)
(* What the rate-limiter contract guarantees, for every set of channels,   *)
(* denoms, amounts, supplies and quotas.  The inductive invariant is       *)
(* StoreOK(Paths, trackers): every tracker is well formed, unused before   *)
(* its channel value is cached, and within its outflow capacity.  The      *)
(* action properties follow from it one step at a time; RoundTripIsNeutral *)
(* needs the bound on the recorded flows besides.                          *)
(***************************************************************************)
EXTENDS RateLimiter, PacketDenom, RateLimitProofs, SequenceTheorems, TLAPS

\* The keys the sudo messages touch are keys of the map.
LEMMA PathIsKey ==
  ASSUME NEW channel \in Channels, NEW denom \in Denoms
  PROVE  /\ Path(channel, denom) \in Paths
         /\ Path("any", denom) \in Paths
BY DEF Path, Paths

\* The inductive invariant in terms of the named parts.
LEMMA InvIsStoreOK ==
  ASSUME TypeOK
  PROVE  UncachedIsUnused /\ OutflowWithinCapacity <=> StoreOK(Paths, trackers)
<1>1. \A p \in Paths : trackers[p] # Absent =>
        trackers[p] \in Seq(RateLimits) /\ \A i \in 1 .. Len(trackers[p]) : trackers[p][i] \in RateLimits
  BY DEF TypeOK
<1> QED
  BY <1>1 DEF TypeOK, UncachedIsUnused, OutflowWithinCapacity, ForAllLimits, StoreOK, LimitsOK, LimitOK

\* The initial storage, made by instantiate, is correct.
LEMMA InitOK == Init => StoreOK(Paths, trackers) /\ now \in Nat
<1> SUFFICES ASSUME Init PROVE StoreOK(Paths, trackers) /\ now \in Nat
  OBVIOUS
<1>1. PICK conf \in [Paths -> QuotaLists \cup {Absent}] :
        trackers = [p \in Paths |-> IF conf[p] = Absent THEN Absent ELSE NewLimits(conf[p], 0)]
  BY DEF Init
<1>2. ASSUME NEW p \in Paths, trackers[p] # Absent
      PROVE  LimitsOK(trackers[p])
  BY <1>1, <1>2, NewLimitsOK, QuotaListsAssumption
<1>3. ASSUME NEW p \in Paths
      PROVE  trackers[p] \in Seq(RateLimits) \cup {Absent}
  BY <1>2 DEF LimitsOK
<1> QED
  BY <1>1, <1>2, <1>3 DEF Init, StoreOK

\* Every step of the contract keeps its storage correct.
LEMMA NextOK ==
  ASSUME StoreOK(Paths, trackers), now \in Nat, [Next]_vars
  PROVE  StoreOK(Paths, trackers') /\ now' \in Nat
<1>1. ASSUME NEW channel \in Channels, NEW denom \in Denoms, NEW funds \in Amounts,
             NEW supply \in Supplies, SendPacket(channel, denom, funds, supply)
      PROVE  StoreOK(Paths, trackers') /\ now' \in Nat
  BY <1>1, TryTransferOK, PathIsKey, AmountsAssumption, SuppliesAssumption DEF SendPacket, FlowType
<1>2. ASSUME NEW channel \in Channels, NEW denom \in Denoms, NEW funds \in Amounts,
             NEW supply \in Supplies, RecvPacket(channel, denom, funds, supply)
      PROVE  StoreOK(Paths, trackers') /\ now' \in Nat
  BY <1>2, TryTransferOK, PathIsKey, AmountsAssumption, SuppliesAssumption DEF RecvPacket, FlowType
<1>3. ASSUME NEW channel \in Channels, NEW denom \in Denoms, NEW funds \in Amounts,
             UndoSend(channel, denom, funds)
      PROVE  StoreOK(Paths, trackers') /\ now' \in Nat
  BY <1>3, UndoSendOK, PathIsKey, AmountsAssumption DEF UndoSend
<1>4. ASSUME NEW sender, NEW path \in Paths, NEW quotas \in QuotaLists,
             AddPath(sender, path, quotas)
      PROVE  StoreOK(Paths, trackers') /\ now' \in Nat
  BY <1>4, NewLimitsOK, SaveOK, QuotaListsAssumption DEF AddPath, add_new_path
<1>5. ASSUME NEW sender, NEW path \in Paths, RemovePath(sender, path)
      PROVE  StoreOK(Paths, trackers') /\ now' \in Nat
  BY <1>5 DEF RemovePath, remove_path, StoreOK
<1>6. ASSUME NEW sender, NEW path \in Paths, NEW id, ResetPathQuota(sender, path, id)
      PROVE  StoreOK(Paths, trackers') /\ now' \in Nat
  BY <1>6, ResetPathQuotaOK DEF ResetPathQuota
<1>7. CASE NextBlock
  BY <1>7 DEF NextBlock
<1>8. CASE UNCHANGED vars
  BY <1>8 DEF vars
<1> QED
  BY <1>1, <1>2, <1>3, <1>4, <1>5, <1>6, <1>7, <1>8 DEF Next, Sudo, Execute

\* RATE_LIMIT_TRACKERS always holds well-formed trackers: Uint256 flows, capped
\* percentages, a cached channel value that fits a Uint256 or none.
THEOREM TypeCorrect == Spec => []TypeOK
<1>1. Init => StoreOK(Paths, trackers) /\ now \in Nat
  BY InitOK
<1>2. StoreOK(Paths, trackers) /\ now \in Nat /\ [Next]_vars => (StoreOK(Paths, trackers) /\ now \in Nat)'
  BY NextOK
<1>3. StoreOK(Paths, trackers) /\ now \in Nat => TypeOK
  BY DEF StoreOK, TypeOK
<1> QED
  BY <1>1, <1>2, <1>3, PTL DEF Spec

\* For every configuration and every sequence of messages, the net outflow of
\* every tracker is within its capacity, and a tracker without a cached channel
\* value has recorded nothing.
THEOREM OutflowSafety == Spec => [](OutflowWithinCapacity /\ UncachedIsUnused)
<1>1. Init => StoreOK(Paths, trackers) /\ now \in Nat
  BY InitOK
<1>2. StoreOK(Paths, trackers) /\ now \in Nat /\ [Next]_vars => (StoreOK(Paths, trackers) /\ now \in Nat)'
  BY NextOK
<1>3. StoreOK(Paths, trackers) /\ now \in Nat => OutflowWithinCapacity /\ UncachedIsUnused
  BY InvIsStoreOK DEF StoreOK, TypeOK
<1> QED
  BY <1>1, <1>2, <1>3, PTL DEF Spec
----------------------------------------------------------------------------
(* What a step may do to a tracker.                                        *)

\* The formulas of PeriodIsKept and InflowExceedsOnlyByUndo for one tracker
Kept(old, new) ==
  now <= old.flow.period_end /\ ~ StartedOver(new) =>
    /\ new.flow.period_end = old.flow.period_end
    /\ new.flow.inflow >= old.flow.inflow
    /\ new.quota.channel_value = old.quota.channel_value
       \/ old.quota.channel_value = None

ExceedsByUndo(old, new) ==
  /\ balance_in(new.flow) > capacity_in(new.quota)
  /\ balance_in(new.flow) > balance_in(old.flow)
  => /\ new.flow.outflow < old.flow.outflow
     /\ new.flow.inflow = old.flow.inflow

Change(old, new) == Kept(old, new) /\ ExceedsByUndo(old, new)

\* Natural flows, so that they can be compared
LEMMA FlowFacts ==
  ASSUME NEW limit, LimitOK(limit)
  PROVE  /\ limit.flow.inflow \in Nat /\ limit.flow.outflow \in Nat
         /\ limit.flow.period_end \in Nat
         /\ balance_in(limit.flow) \in Nat
         /\ limit \in RateLimits
<1>1. /\ limit.flow.inflow \in Nat /\ limit.flow.outflow \in Nat
      /\ limit.flow.period_end \in Nat /\ limit \in RateLimits
  BY DEF LimitOK, RateLimits, Flow, Uint256
<1> QED
  BY <1>1, BalanceType

\* A tracker that stays as it is
LEMMA SameChange ==
  ASSUME NEW limit, LimitOK(limit)
  PROVE  Change(limit, limit)
BY FlowFacts DEF Change, Kept, ExceedsByUndo

\* A tracker that starts over, through AddPath or ResetPathQuota
LEMMA StartedOverChange ==
  ASSUME NEW old, LimitOK(old), NEW new, LimitOK(new), StartedOver(new)
  PROVE  Change(old, new)
<1>1. balance_in(new.flow) = 0
  BY DEF StartedOver, ZeroFlow, balance_in, saturating_sub
<1>2. balance_in(old.flow) \in Nat
  BY FlowFacts
<1> QED
  BY <1>1, <1>2 DEF Change, Kept, ExceedsByUndo

\* A tracker that takes part in an accepted transfer
LEMMA TransferChange ==
  ASSUME NEW limit, LimitOK(limit), NEW denom,
         NEW direction \in FlowType, NEW funds \in Uint256, NEW supply \in Uint256,
         now \in Nat, allow_transfer(limit, denom, direction, funds, supply, now).ok
  PROVE  Change(limit, allow_transfer(limit, denom, direction, funds, supply, now).limit)
<1> DEFINE new == allow_transfer(limit, denom, direction, funds, supply, now).limit
<1>1. /\ now <= limit.flow.period_end =>
           /\ new.flow.period_end = limit.flow.period_end
           /\ new.flow.inflow >= limit.flow.inflow
           /\ \/ new.quota.channel_value = limit.quota.channel_value
              \/ limit.quota.channel_value = None
      /\ balance_in(new.flow) > capacity_in(new.quota) =>
           balance_in(new.flow) <= balance_in(limit.flow)
  BY AllowTransferIs
<1>2. LimitOK(new)
  BY AllowTransferOK
<1>3. balance_in(new.flow) \in Nat /\ balance_in(limit.flow) \in Nat
  BY <1>2, FlowFacts
<1> HIDE DEF new
<1>4. Change(limit, new)
  BY <1>1, <1>3 DEF Change, Kept, ExceedsByUndo
<1> QED
  BY <1>4 DEF new

\* A tracker whose send is undone
LEMMA UndoChange ==
  ASSUME NEW limit, LimitOK(limit), NEW funds \in Uint256
  PROVE  Change(limit, [limit EXCEPT !.flow = undo_flow(@, funds)])
<1> DEFINE new == [limit EXCEPT !.flow = undo_flow(@, funds)]
<1>1. /\ limit.flow.inflow \in Nat /\ limit.flow.outflow \in Nat
      /\ limit.flow.period_end \in Nat /\ limit \in RateLimits
      /\ balance_in(limit.flow) \in Nat
  BY FlowFacts
<1>2. /\ new.quota = limit.quota
      /\ new.flow.inflow = limit.flow.inflow
      /\ new.flow.period_end = limit.flow.period_end
      /\ new.flow.outflow = saturating_sub(limit.flow.outflow, funds)
  BY <1>1 DEF RateLimits, Flow, undo_flow
<1>3. new.flow.outflow \in 0 .. limit.flow.outflow
  <2>1. funds \in Nat
    BY DEF Uint256
  <2> QED
    BY <1>1, <1>2, <2>1, SaturatingSub
<1> HIDE DEF new
<1>4. balance_in(new.flow) > balance_in(limit.flow) => new.flow.outflow < limit.flow.outflow
  BY <1>1, <1>2, <1>3 DEF balance_in, saturating_sub
<1>5. Change(limit, new)
  BY <1>1, <1>2, <1>4 DEF Change, Kept, ExceedsByUndo
<1> QED
  BY <1>5 DEF new

\* Enough to look at each tracker that is there before and after the step
LEMMA ChangesByLoad ==
  ASSUME StoreOK(Paths, trackers),
         \A p \in Paths : trackers'[p] # Absent =>
           \A i \in 1 .. Len(Load(trackers, p)) :
             i <= Len(Load(trackers', p)) => Change(Load(trackers, p)[i], Load(trackers', p)[i])
  PROVE  ForAllChanges(Change)
BY DEF ForAllChanges, Load

\* A transfer, in either direction
LEMMA TransferChanges ==
  ASSUME StoreOK(Paths, trackers), now \in Nat,
         NEW channel \in Channels, NEW denom \in Denoms, NEW funds \in Amounts,
         NEW supply \in Supplies, NEW direction \in FlowType,
         trackers' = try_transfer(trackers, channel, denom, supply, funds, direction, now).store
  PROVE  ForAllChanges(Change)
<1> DEFINE res == try_transfer(trackers, channel, denom, supply, funds, direction, now)
<1>1. funds \in Uint256 /\ supply \in Uint256
  BY AmountsAssumption, SuppliesAssumption
<1>2. Path(channel, denom) \in Paths /\ Path("any", denom) \in Paths
  BY PathIsKey
<1>3. /\ ~ res.ok => res.store = trackers
      /\ res.ok => \A p \in Paths :
           /\ Len(Load(res.store, p)) = Len(Load(trackers, p))
           /\ \A i \in 1 .. Len(Load(trackers, p)) :
                LET call == allow_transfer(Load(trackers, p)[i], denom, direction, funds, supply, now)
                IN IF p \in {Path(channel, denom), Path("any", denom)}
                   THEN call.ok /\ Load(res.store, p)[i] = call.limit
                   ELSE Load(res.store, p)[i] = Load(trackers, p)[i]
  BY <1>1, <1>2, TryTransferIs
<1>4. ASSUME NEW p \in Paths, NEW i \in 1 .. Len(Load(trackers, p))
      PROVE  Change(Load(trackers, p)[i], Load(trackers', p)[i])
  <2> DEFINE old == Load(trackers, p)[i]
             call == allow_transfer(old, denom, direction, funds, supply, now)
  <2>1. LimitOK(old)
    BY LoadOK DEF LimitsOK
  <2>2. CASE res.ok /\ p \in {Path(channel, denom), Path("any", denom)}
    <3>1. call.ok /\ Load(trackers', p)[i] = call.limit
      BY <1>3, <2>2
    <3> QED
      BY <1>1, <2>1, <3>1, TransferChange
  <2>3. CASE ~ (res.ok /\ p \in {Path(channel, denom), Path("any", denom)})
    <3>1. Load(trackers', p)[i] = old
      BY <1>3, <2>3
    <3> QED
      BY <2>1, <3>1, SameChange
  <2> QED
    BY <2>2, <2>3
<1> QED
  BY <1>4, ChangesByLoad

\* An undo
LEMMA UndoChanges ==
  ASSUME StoreOK(Paths, trackers),
         NEW channel \in Channels, NEW denom \in Denoms, NEW funds \in Amounts,
         trackers' = undo_send(trackers, channel, denom, funds)
  PROVE  ForAllChanges(Change)
<1>1. funds \in Uint256
  BY AmountsAssumption
<1>2. \A p \in Paths : \A i \in 1 .. Len(Load(trackers, p)) :
        Load(trackers', p)[i] = IF p \in {Path(channel, denom), Path("any", denom)}
                                THEN [Load(trackers, p)[i] EXCEPT !.flow = undo_flow(@, funds)]
                                ELSE Load(trackers, p)[i]
  BY <1>1, PathIsKey, UndoSendIs
<1>3. ASSUME NEW p \in Paths, NEW i \in 1 .. Len(Load(trackers, p))
      PROVE  Change(Load(trackers, p)[i], Load(trackers', p)[i])
  <2>1. LimitOK(Load(trackers, p)[i])
    BY LoadOK DEF LimitsOK
  <2>2. \/ Load(trackers', p)[i] = Load(trackers, p)[i]
        \/ Load(trackers', p)[i] = [Load(trackers, p)[i] EXCEPT !.flow = undo_flow(@, funds)]
    BY <1>2
  <2> QED
    BY <1>1, <2>1, <2>2, SameChange, UndoChange
<1> QED
  BY <1>3, ChangesByLoad

\* A key that governance configures, removes or resets: its trackers start over or
\* stay, and those of other keys stay.
LEMMA KeyChanges ==
  ASSUME StoreOK(Paths, trackers), StoreOK(Paths, trackers'), NEW path \in Paths,
         \A p \in Paths : p # path => trackers'[p] = trackers[p],
         trackers'[path] # Absent =>
           \A i \in 1 .. Len(Load(trackers', path)) :
             \/ StartedOver(trackers'[path][i])
             \/ trackers'[path] # Absent /\ i \in 1 .. Len(Load(trackers, path))
                  /\ trackers'[path][i] = Load(trackers, path)[i]
  PROVE  ForAllChanges(Change)
<1>1. ASSUME NEW p \in Paths, trackers'[p] # Absent,
             NEW i \in 1 .. Len(Load(trackers, p)), i <= Len(Load(trackers', p))
      PROVE  Change(Load(trackers, p)[i], Load(trackers', p)[i])
  <2>1. LimitsOK(Load(trackers, p)) /\ LimitsOK(Load(trackers', p))
    BY LoadOK
  <2>2. Len(Load(trackers, p)) \in Nat /\ Len(Load(trackers', p)) \in Nat
    BY <2>1 DEF LimitsOK
  <2>3. i \in 1 .. Len(Load(trackers', p))
    BY <1>1, <2>2
  <2>4. LimitOK(Load(trackers, p)[i]) /\ LimitOK(Load(trackers', p)[i])
    BY <2>1, <2>3 DEF LimitsOK
  <2>5. \/ StartedOver(Load(trackers', p)[i])
        \/ Load(trackers', p)[i] = Load(trackers, p)[i]
    <3>1. Load(trackers', p) = trackers'[p]
      BY <1>1 DEF Load
    <3>2. CASE p = path
      BY <1>1, <2>3, <3>1, <3>2
    <3>3. CASE p # path
      BY <1>1, <3>3 DEF Load
    <3> QED
      BY <3>2, <3>3
  <2> QED
    BY <2>4, <2>5, SameChange, StartedOverChange
<1> QED
  BY <1>1, ChangesByLoad

\* AddPath: the whole vector starts over, or the call fails and nothing changes.
LEMMA AddPathChanges ==
  ASSUME StoreOK(Paths, trackers), StoreOK(Paths, trackers'), now \in Nat,
         NEW path \in Paths, NEW quotas \in QuotaLists,
         trackers' = add_new_path(trackers, path, quotas, now).store
  PROVE  ForAllChanges(Change)
<1> DEFINE limits == NewLimits(quotas, now)
<1>1. trackers' \in {trackers, [trackers EXCEPT ![path] = limits]}
  BY DEF add_new_path
<1>2. ASSUME NEW i \in 1 .. Len(quotas)
      PROVE  StartedOver(limits[i])
  BY DEF NewLimits, StartedOver, QuotaFrom
<1>3. LimitsOK(limits)
  BY NewLimitsOK, QuotaListsAssumption
<1>4. quotas \in Seq(QuotaMsg) /\ Len(quotas) \in Nat /\ limits \in Seq(RateLimits)
  BY <1>3, QuotaListsAssumption DEF LimitsOK
<1>5. Len(limits) = Len(quotas)
  BY <1>4 DEF NewLimits
<1> HIDE DEF limits
<1>6. CASE trackers' = trackers
  BY <1>6, KeyChanges DEF Load
<1>7. CASE trackers' = [trackers EXCEPT ![path] = limits]
  <2>1. trackers'[path] = limits /\ Load(trackers', path) = limits
    BY <1>4, <1>7, AbsentAssumption DEF Load, StoreOK
  <2>2. \A p \in Paths : p # path => trackers'[p] = trackers[p]
    BY <1>7 DEF StoreOK
  <2> QED
    BY <1>2, <1>5, <2>1, <2>2, KeyChanges
<1> QED
  BY <1>1, <1>6, <1>7

\* ResetPathQuota: the trackers with the quota's name start over, the others stay.
LEMMA ResetChanges ==
  ASSUME StoreOK(Paths, trackers), StoreOK(Paths, trackers'), now \in Nat,
         NEW path \in Paths, NEW id,
         trackers' = reset_path_quota(trackers, path, id, now).store
  PROVE  ForAllChanges(Change)
<1> DEFINE old == Load(trackers, path)
           limits == ResetLimits(old, id, now)
<1>1. \/ trackers' = trackers
      \/ trackers' = [trackers EXCEPT ![path] = limits] /\ trackers[path] # Absent
  BY DEF reset_path_quota
<1>2. old \in Seq(RateLimits) /\ Len(old) \in Nat
  BY LoadOK DEF LimitsOK
<1>3. ASSUME NEW i \in 1 .. Len(old)
      PROVE  StartedOver(limits[i]) \/ limits[i] = old[i]
  <2>1. old[i] \in RateLimits
    BY <1>2
  <2>2. \/ limits[i] = old[i]
        \/ limits[i] = [old[i] EXCEPT !.flow = expire(now, old[i].quota.duration)]
    BY DEF ResetLimits
  <2> HIDE DEF old, limits
  <2> QED
    BY <2>1, <2>2 DEF StartedOver, expire, RateLimits
<1>4. DOMAIN limits = 1 .. Len(old)
  BY DEF ResetLimits
<1> HIDE DEF limits
<1>5. CASE trackers' = trackers
  BY <1>5, KeyChanges DEF Load
<1>6. CASE trackers' = [trackers EXCEPT ![path] = limits] /\ trackers[path] # Absent
  <2>1. trackers'[path] = limits
    BY <1>6 DEF StoreOK
  <2>2. \A p \in Paths : p # path => trackers'[p] = trackers[p]
    BY <1>6 DEF StoreOK
  <2>3. CASE trackers'[path] = Absent
    BY <2>2, <2>3, KeyChanges
  <2>4. CASE trackers'[path] # Absent
    <3>1. Load(trackers', path) = limits /\ limits \in Seq(RateLimits)
      BY <2>1, <2>4 DEF Load, StoreOK
    <3>2. Len(limits) = Len(old)
      BY <1>2, <1>4, <3>1
    <3> QED
      BY <1>3, <2>1, <2>2, <3>1, <3>2, KeyChanges
  <2> QED
    BY <2>3, <2>4
<1> QED
  BY <1>1, <1>5, <1>6

\* Every step changes the trackers it keeps as Change says.
LEMMA NextChanges ==
  ASSUME StoreOK(Paths, trackers), now \in Nat, [Next]_vars
  PROVE  ForAllChanges(Change)
<1>0. StoreOK(Paths, trackers')
  BY NextOK
<1>1. ASSUME NEW channel \in Channels, NEW denom \in Denoms, NEW funds \in Amounts,
             NEW supply \in Supplies,
             SendPacket(channel, denom, funds, supply) \/ RecvPacket(channel, denom, funds, supply)
      PROVE  ForAllChanges(Change)
  <2>1. PICK direction \in FlowType :
          trackers' = try_transfer(trackers, channel, denom, supply, funds, direction, now).store
    BY <1>1 DEF SendPacket, RecvPacket, FlowType
  <2> QED
    BY <2>1, TransferChanges
<1>2. ASSUME NEW channel \in Channels, NEW denom \in Denoms, NEW funds \in Amounts,
             UndoSend(channel, denom, funds)
      PROVE  ForAllChanges(Change)
  BY <1>2, UndoChanges DEF UndoSend
<1>3. ASSUME NEW sender, NEW path \in Paths, NEW quotas \in QuotaLists,
             AddPath(sender, path, quotas)
      PROVE  ForAllChanges(Change)
  BY <1>0, <1>3, AddPathChanges DEF AddPath
<1>4. ASSUME NEW sender, NEW path \in Paths, RemovePath(sender, path)
      PROVE  ForAllChanges(Change)
  <2>1. trackers'[path] = Absent /\ \A p \in Paths : p # path => trackers'[p] = trackers[p]
    BY <1>4 DEF RemovePath, remove_path, StoreOK
  <2> QED
    BY <1>0, <2>1, KeyChanges
<1>5. ASSUME NEW sender, NEW path \in Paths, NEW id, ResetPathQuota(sender, path, id)
      PROVE  ForAllChanges(Change)
  BY <1>0, <1>5, ResetChanges DEF ResetPathQuota
<1>6. CASE UNCHANGED trackers
  <2>1. \A p \in Paths : LimitsOK(Load(trackers, p))
    BY LoadOK
  <2>2. \A p \in Paths : \A i \in 1 .. Len(Load(trackers, p)) :
          Change(Load(trackers, p)[i], Load(trackers, p)[i])
    BY <2>1, SameChange DEF LimitsOK
  <2> QED
    BY <1>6, <2>2, ChangesByLoad DEF Load
<1> QED
  BY <1>1, <1>2, <1>3, <1>4, <1>5, <1>6 DEF Next, Sudo, Execute, NextBlock, vars

\* No transfer and no undo moves the end of a running period, forgets recorded inflow
\* or re-reads the channel value: only governance starts a tracker over.
THEOREM PeriodKept == Spec => PeriodIsKept
<1> DEFINE Inv == StoreOK(Paths, trackers) /\ now \in Nat
<1>1. Init => Inv
  BY InitOK
<1>2. Inv /\ [Next]_vars => Inv'
  BY NextOK
<1>3. Inv /\ [Next]_vars => [ForAllChanges(LAMBDA old, new :
        now <= old.flow.period_end /\ ~ StartedOver(new) =>
          /\ new.flow.period_end = old.flow.period_end
          /\ new.flow.inflow >= old.flow.inflow
          /\ new.quota.channel_value = old.quota.channel_value
             \/ old.quota.channel_value = None)]_vars
  <2> SUFFICES ASSUME Inv, [Next]_vars PROVE ForAllChanges(Kept)
    BY DEF ForAllChanges, Kept
  <2>1. ForAllChanges(Change)
    BY NextChanges
  <2> QED
    BY <2>1 DEF ForAllChanges, Change
<1> QED
  BY <1>1, <1>2, <1>3, PTL DEF Spec, PeriodIsKept

\* The net inflow of a tracker rises above its recv capacity only through the undo of
\* a send, never through a reception.
THEOREM InflowOnlyByUndo == Spec => InflowExceedsOnlyByUndo
<1> DEFINE Inv == StoreOK(Paths, trackers) /\ now \in Nat
<1>1. Init => Inv
  BY InitOK
<1>2. Inv /\ [Next]_vars => Inv'
  BY NextOK
<1>3. Inv /\ [Next]_vars => [ForAllChanges(LAMBDA old, new :
        /\ balance_in(new.flow) > capacity_in(new.quota)
        /\ balance_in(new.flow) > balance_in(old.flow)
        => /\ new.flow.outflow < old.flow.outflow
           /\ new.flow.inflow = old.flow.inflow)]_vars
  <2> SUFFICES ASSUME Inv, [Next]_vars PROVE ForAllChanges(ExceedsByUndo)
    BY DEF ForAllChanges, ExceedsByUndo
  <2>1. ForAllChanges(Change)
    BY NextChanges
  <2> QED
    BY <2>1 DEF ForAllChanges, Change
<1> QED
  BY <1>1, <1>2, <1>3, PTL DEF Spec, InflowExceedsOnlyByUndo
----------------------------------------------------------------------------
(* Round trips.                                                            *)

\* The bound on the recorded flows, which the transfers keep by their guard, survives
\* the other steps.
LEMMA NextBounded ==
  ASSUME MaxFlow \in Nat, StoreOK(Paths, trackers), now \in Nat,
         FlowsBounded(trackers), [Next]_vars
  PROVE  FlowsBounded(trackers')
<1>0. StoreOK(Paths, trackers')
  BY NextOK
<1>1. SUFFICES ASSUME NEW p \in Paths, NEW i \in 1 .. Len(Load(trackers', p))
               PROVE  /\ trackers'[p][i].flow.inflow <= MaxFlow
                      /\ trackers'[p][i].flow.outflow <= MaxFlow
  BY DEF FlowsBounded
<1>2. ASSUME NEW flow, NEW time, NEW duration, flow = ZeroFlow(time, duration)
      PROVE  flow.inflow <= MaxFlow /\ flow.outflow <= MaxFlow
  BY <1>2 DEF ZeroFlow
<1>3. ASSUME trackers'[p] = trackers[p]
      PROVE  /\ trackers'[p][i].flow.inflow <= MaxFlow
             /\ trackers'[p][i].flow.outflow <= MaxFlow
  BY <1>3 DEF FlowsBounded, Load
<1>4. ASSUME NEW channel \in Channels, NEW denom \in Denoms, NEW funds \in Amounts,
             NEW supply \in Supplies,
             SendPacket(channel, denom, funds, supply) \/ RecvPacket(channel, denom, funds, supply)
      PROVE  /\ trackers'[p][i].flow.inflow <= MaxFlow
             /\ trackers'[p][i].flow.outflow <= MaxFlow
  BY <1>4 DEF SendPacket, RecvPacket, FlowsBounded
<1>5. ASSUME NEW channel \in Channels, NEW denom \in Denoms, NEW funds \in Amounts,
             UndoSend(channel, denom, funds)
      PROVE  /\ trackers'[p][i].flow.inflow <= MaxFlow
             /\ trackers'[p][i].flow.outflow <= MaxFlow
  <2> DEFINE old == Load(trackers, p)[i]
  <2>1. funds \in Uint256 /\ funds \in Nat
    BY AmountsAssumption DEF Uint256
  <2>2. /\ Len(Load(trackers', p)) = Len(Load(trackers, p))
        /\ Load(trackers', p)[i] = old \/ Load(trackers', p)[i] = [old EXCEPT !.flow = undo_flow(@, funds)]
    BY <1>5, <2>1, PathIsKey, UndoSendIs DEF UndoSend
  <2>3. LimitOK(old)
    BY <2>2, LoadOK DEF LimitsOK
  <2>4. old \in RateLimits /\ old.flow.inflow \in Nat /\ old.flow.outflow \in Nat
    BY <2>3, FlowFacts
  <2>5. trackers[p] # Absent /\ Load(trackers, p) = trackers[p]
    BY <2>2 DEF Load
  <2>6. old.flow.inflow <= MaxFlow /\ old.flow.outflow <= MaxFlow
    BY <2>2, <2>5 DEF FlowsBounded
  <2>7. trackers'[p][i] = Load(trackers', p)[i]
    BY DEF Load
  <2> HIDE DEF old
  <2>8. saturating_sub(old.flow.outflow, funds) \in 0 .. old.flow.outflow
    BY <2>1, <2>4, SaturatingSub
  <2> QED
    BY <2>2, <2>4, <2>6, <2>7, <2>8 DEF undo_flow, RateLimits, Flow
<1>6. ASSUME NEW sender, NEW path \in Paths, NEW quotas \in QuotaLists,
             AddPath(sender, path, quotas)
      PROVE  /\ trackers'[p][i].flow.inflow <= MaxFlow
             /\ trackers'[p][i].flow.outflow <= MaxFlow
  <2>1. \/ trackers'[p] = trackers[p]
        \/ trackers'[p] = NewLimits(quotas, now)
    BY <1>6 DEF AddPath, add_new_path, StoreOK
  <2>2. ASSUME trackers'[p] = NewLimits(quotas, now)
        PROVE  trackers'[p][i].flow = ZeroFlow(now, quotas[i].duration)
    <3>1. LimitsOK(NewLimits(quotas, now))
      BY NewLimitsOK, QuotaListsAssumption
    <3>2. NewLimits(quotas, now) \in Seq(RateLimits) /\ quotas \in Seq(QuotaMsg)
      BY <3>1, QuotaListsAssumption DEF LimitsOK
    <3>3. i \in 1 .. Len(NewLimits(quotas, now))
      BY <2>2 DEF Load
    <3>4. Len(NewLimits(quotas, now)) = Len(quotas)
      BY <3>2 DEF NewLimits
    <3> QED
      BY <2>2, <3>3, <3>4 DEF NewLimits
  <2> QED
    BY <1>2, <1>3, <2>1, <2>2
<1>7. ASSUME NEW sender, NEW path \in Paths, RemovePath(sender, path)
      PROVE  /\ trackers'[p][i].flow.inflow <= MaxFlow
             /\ trackers'[p][i].flow.outflow <= MaxFlow
  <2>1. trackers'[p] = trackers[p] \/ trackers'[p] = Absent
    BY <1>7 DEF RemovePath, remove_path, StoreOK
  <2> QED
    BY <1>3, <2>1 DEF Load
<1>8. ASSUME NEW sender, NEW path \in Paths, NEW id, ResetPathQuota(sender, path, id)
      PROVE  /\ trackers'[p][i].flow.inflow <= MaxFlow
             /\ trackers'[p][i].flow.outflow <= MaxFlow
  <2> DEFINE old == Load(trackers, p)
             limits == ResetLimits(old, id, now)
  <2>1. trackers'[p] = trackers[p] \/ (trackers[p] # Absent /\ trackers'[p] = limits)
    BY <1>8 DEF ResetPathQuota, reset_path_quota, StoreOK
  <2>2. CASE trackers[p] # Absent /\ trackers'[p] = limits
    <3>1. old \in Seq(RateLimits) /\ Len(old) \in Nat /\ old = trackers[p]
      BY <2>2, LoadOK DEF LimitsOK, Load
    <3>2. DOMAIN limits = 1 .. Len(old)
      BY DEF ResetLimits
    <3> HIDE DEF limits, old
    <3>3. limits \in Seq(RateLimits)
      BY <1>0, <1>1, <2>2 DEF StoreOK, Load
    <3>4. i \in 1 .. Len(old)
      BY <2>2, <3>1, <3>2, <3>3 DEF Load
    <3>5. old[i] \in RateLimits
      BY <3>1, <3>4
    <3>6. \/ limits[i] = old[i]
          \/ limits[i] = [old[i] EXCEPT !.flow = expire(now, old[i].quota.duration)]
      BY <3>4 DEF limits, ResetLimits
    <3>7. CASE limits[i] = old[i]
      BY <2>2, <3>1, <3>4, <3>7 DEF FlowsBounded, Load
    <3>8. CASE limits[i] = [old[i] EXCEPT !.flow = expire(now, old[i].quota.duration)]
      BY <1>2, <2>2, <3>5, <3>8 DEF RateLimits, expire
    <3> QED
      BY <3>6, <3>7, <3>8
  <2> QED
    BY <1>3, <2>1, <2>2
<1>9. CASE UNCHANGED trackers
  BY <1>3, <1>9
<1> QED
  BY <1>4, <1>5, <1>6, <1>7, <1>8, <1>9 DEF Next, Sudo, Execute, NextBlock, vars

\* A state whose flows leave room for another amount lets any accepted send come back.
LEMMA RoundTripInState ==
  ASSUME MaxFlow \in Nat, \A funds \in Amounts : MaxFlow + funds <= MaxUint,
         StoreOK(Paths, trackers), now \in Nat, FlowsBounded(trackers)
  PROVE  RoundTripIsNeutral
<1> SUFFICES ASSUME NEW channel \in Channels, NEW denom \in Denoms,
                    NEW funds \in Amounts, NEW supply \in Supplies
             PROVE  LET out == try_transfer(trackers, channel, denom, supply, funds, "Out", now)
                        back == try_transfer(out.store, channel, denom, supply, funds, "In", now)
                        before == LimitsOn(trackers, channel, denom)
                        sent == LimitsOn(out.store, channel, denom)
                        after == LimitsOn(back.store, channel, denom)
                    IN /\ out.ok
                       /\ \A i \in DOMAIN before : CurrentNet(before[i]) <= capacity_in(sent[i].quota)
                       => /\ back.ok
                          /\ \A i \in DOMAIN before : CurrentNet(after[i]) = CurrentNet(before[i])
  BY DEF RoundTripIsNeutral
<1> DEFINE out == try_transfer(trackers, channel, denom, supply, funds, "Out", now)
           back == try_transfer(out.store, channel, denom, supply, funds, "In", now)
           before == LimitsOn(trackers, channel, denom)
           sent == LimitsOn(out.store, channel, denom)
           after == LimitsOn(back.store, channel, denom)
           Keys == {Path(channel, denom), Path("any", denom)}
           L(s, p) == Load(s, p)
           there(limit) == allow_transfer(limit, denom, "Out", funds, supply, now)
           again(limit) == allow_transfer(limit, denom, "In", funds, supply, now)
<1>1. /\ funds \in Uint256 /\ supply \in Uint256 /\ funds \in Nat
      /\ Keys \subseteq Paths /\ Path(channel, denom) \in Keys /\ Path("any", denom) \in Keys
  BY AmountsAssumption, SuppliesAssumption, PathIsKey DEF Uint256
<1>2. StoreOK(Paths, out.store) /\ StoreOK(Paths, back.store)
  <2>1. StoreOK(Paths, out.store)
    BY <1>1, TryTransferOK DEF FlowType
  <2> HIDE DEF out
  <2> QED
    BY <1>1, <2>1, TryTransferOK DEF FlowType
<1>3. out.ok => \A p \in Keys :
        /\ Len(L(out.store, p)) = Len(L(trackers, p))
        /\ \A i \in 1 .. Len(L(trackers, p)) :
             there(L(trackers, p)[i]).ok /\ L(out.store, p)[i] = there(L(trackers, p)[i]).limit
  BY <1>1, TryTransferIs DEF FlowType
<1> HIDE DEF out
<1>4. back.ok => \A p \in Keys :
        /\ Len(L(back.store, p)) = Len(L(out.store, p))
        /\ \A i \in 1 .. Len(L(out.store, p)) :
             L(back.store, p)[i] = again(L(out.store, p)[i]).limit
  BY <1>1, <1>2, TryTransferIs DEF FlowType
<1>5. back.ok <=> \A p \in Keys : \A i \in 1 .. Len(L(out.store, p)) : again(L(out.store, p)[i]).ok
  BY TryTransferAccepts
<1> HIDE DEF back
<1>6. ASSUME out.ok, NEW p \in Keys, NEW i \in 1 .. Len(L(trackers, p)),
             CurrentNet(L(trackers, p)[i]) <= capacity_in(L(out.store, p)[i].quota)
      PROVE  /\ again(L(out.store, p)[i]).ok
             /\ CurrentNet(again(L(out.store, p)[i]).limit) = CurrentNet(L(trackers, p)[i])
  <2> DEFINE old == L(trackers, p)[i]
  <2>1. LimitOK(old)
    BY <1>1, LoadOK DEF LimitsOK
  <2>2. old.flow.inflow \in Nat /\ old.flow.outflow \in Nat
    BY <2>1, FlowFacts
  <2>3. old.flow.inflow <= MaxFlow /\ old.flow.outflow <= MaxFlow
    BY <1>1 DEF FlowsBounded, Load
  <2>4. MaxFlow + funds <= MaxUint
    OBVIOUS
  <2>5. L(out.store, p)[i] = there(old).limit /\ there(old).ok
    BY <1>3, <1>6
  <2>6. CurrentNet(old) <= capacity_in(there(old).limit.quota)
    BY <1>6, <2>5
  <2> HIDE DEF old
  <2>7. old.flow.inflow + funds <= MaxUint /\ old.flow.outflow + funds <= MaxUint
    BY <1>1, <2>2, <2>3, <2>4, MaxUintAssumption
  <2>8. /\ again(there(old).limit).ok
        /\ CurrentNet(again(there(old).limit).limit) = CurrentNet(old)
    BY <1>1, <2>1, <2>5, <2>6, <2>7, RoundTripLimit DEF CurrentNet
  <2> QED
    BY <2>5, <2>8 DEF old
<1> HIDE DEF there, again, L
<1>7. ASSUME out.ok, \A i \in DOMAIN before : CurrentNet(before[i]) <= capacity_in(sent[i].quota)
      PROVE  back.ok /\ \A i \in DOMAIN before : CurrentNet(after[i]) = CurrentNet(before[i])
  <2> DEFINE own(s) == L(s, Path(channel, denom))
             any(s) == L(s, Path("any", denom))
  <2>1. ASSUME NEW s, StoreOK(Paths, s)
        PROVE  /\ own(s) \in Seq(RateLimits) /\ any(s) \in Seq(RateLimits)
               /\ LimitsOn(s, channel, denom) = own(s) \o any(s)
    BY <1>1, <2>1, LoadOK DEF L, LimitsOn, LimitsOK
  <2> HIDE DEF own, any
  <2>2. /\ before = own(trackers) \o any(trackers) /\ sent = own(out.store) \o any(out.store)
        /\ after = own(back.store) \o any(back.store)
        /\ own(trackers) \in Seq(RateLimits) /\ any(trackers) \in Seq(RateLimits)
        /\ own(out.store) \in Seq(RateLimits) /\ any(out.store) \in Seq(RateLimits)
        /\ own(back.store) \in Seq(RateLimits) /\ any(back.store) \in Seq(RateLimits)
    BY <1>2, <2>1
  <2> HIDE DEF before, sent, after
  <2>3. Len(own(out.store)) = Len(own(trackers)) /\ Len(any(out.store)) = Len(any(trackers))
    BY <1>1, <1>3, <1>7 DEF own, any
  <2>4. ASSUME NEW i \in 1 .. Len(own(trackers))
        PROVE  CurrentNet(own(trackers)[i]) <= capacity_in(own(out.store)[i].quota)
    <3>1. i \in DOMAIN before /\ before[i] = own(trackers)[i] /\ sent[i] = own(out.store)[i]
      BY <2>2, <2>3
    <3> QED
      BY <1>7, <3>1
  <2>5. ASSUME NEW i \in 1 .. Len(any(trackers))
        PROVE  CurrentNet(any(trackers)[i]) <= capacity_in(any(out.store)[i].quota)
    <3> DEFINE j == i + Len(own(trackers))
    <3>1. j \in DOMAIN before /\ before[j] = any(trackers)[i] /\ sent[j] = any(out.store)[i]
      BY <2>2, <2>3, SMTT(30)
    <3> QED
      BY <1>7, <3>1
  <2>6. ASSUME NEW p \in Keys, NEW i \in 1 .. Len(L(trackers, p))
        PROVE  /\ again(L(out.store, p)[i]).ok
               /\ CurrentNet(again(L(out.store, p)[i]).limit) = CurrentNet(L(trackers, p)[i])
    BY <1>6, <1>7, <2>4, <2>5 DEF own, any
  <2>7. \A p \in Keys : Len(L(out.store, p)) = Len(L(trackers, p))
    BY <1>3, <1>7
  <2>8. back.ok
    BY <1>5, <2>6, <2>7
  <2>9. /\ Len(own(back.store)) = Len(own(trackers)) /\ Len(any(back.store)) = Len(any(trackers))
        /\ \A i \in 1 .. Len(own(trackers)) :
             CurrentNet(own(back.store)[i]) = CurrentNet(own(trackers)[i])
        /\ \A i \in 1 .. Len(any(trackers)) :
             CurrentNet(any(back.store)[i]) = CurrentNet(any(trackers)[i])
    BY <1>1, <1>4, <2>6, <2>7, <2>8 DEF own, any
  <2>10. ASSUME NEW i \in DOMAIN before
         PROVE  CurrentNet(after[i]) = CurrentNet(before[i])
    <3>1. CASE i \in 1 .. Len(own(trackers))
      <4>1. before[i] = own(trackers)[i] /\ after[i] = own(back.store)[i]
        BY <2>2, <2>9, <3>1
      <4> QED
        BY <2>9, <3>1, <4>1
    <3>2. CASE i \notin 1 .. Len(own(trackers))
      <4> DEFINE j == i - Len(own(trackers))
      <4>1. /\ j \in 1 .. Len(any(trackers))
            /\ before[i] = any(trackers)[j] /\ after[i] = any(back.store)[j]
        BY <2>2, <2>9, <3>2, SMTT(30)
      <4> QED
        BY <2>9, <4>1
    <3> QED
      BY <3>1, <3>2
  <2> QED
    BY <2>8, <2>10
<1> QED
  BY <1>7 DEF out, back

\* As long as the recorded flows are at least one packet away from the largest Uint256,
\* sending tokens out and back is neutral in every reachable state.
THEOREM RoundTrip ==
  ASSUME MaxFlow \in Nat, \A funds \in Amounts : MaxFlow + funds <= MaxUint
  PROVE  Spec => []RoundTripIsNeutral
<1> DEFINE Inv == StoreOK(Paths, trackers) /\ now \in Nat /\ FlowsBounded(trackers)
<1>1. Init => Inv
  <2> SUFFICES ASSUME Init PROVE FlowsBounded(trackers)
    BY InitOK
  <2>1. PICK conf \in [Paths -> QuotaLists \cup {Absent}] :
          trackers = [p \in Paths |-> IF conf[p] = Absent THEN Absent ELSE NewLimits(conf[p], 0)]
    BY DEF Init
  <2>2. SUFFICES ASSUME NEW p \in Paths, NEW i \in 1 .. Len(Load(trackers, p))
                 PROVE  /\ trackers[p][i].flow.inflow <= MaxFlow
                        /\ trackers[p][i].flow.outflow <= MaxFlow
    BY DEF FlowsBounded
  <2>3. Load(trackers, p) = NewLimits(conf[p], 0) /\ trackers[p] = NewLimits(conf[p], 0)
        /\ conf[p] \in QuotaLists
    BY <2>1, <2>2 DEF Load
  <2>4. LimitsOK(NewLimits(conf[p], 0))
    BY <2>3, NewLimitsOK, QuotaListsAssumption
  <2>5. NewLimits(conf[p], 0) \in Seq(RateLimits) /\ conf[p] \in Seq(QuotaMsg)
    BY <2>3, <2>4, QuotaListsAssumption DEF LimitsOK
  <2>6. Len(NewLimits(conf[p], 0)) = Len(conf[p])
    BY <2>5 DEF NewLimits
  <2>7. trackers[p][i].flow = ZeroFlow(0, conf[p][i].duration)
    BY <2>3, <2>6 DEF NewLimits
  <2> QED
    BY <2>7 DEF ZeroFlow
<1>2. Inv /\ [Next]_vars => Inv'
  BY NextOK, NextBounded
<1>3. Inv => RoundTripIsNeutral
  BY RoundTripInState
<1> QED
  BY <1>1, <1>2, <1>3, PTL DEF Spec

----------------------------------------------------------------------------
(* The key of a packet (packet.rs), which PacketDenom compares with what   *)
(* the transfer module credits.                                            *)

\* A hop is put before a denom and taken off again.
LEMMA PrefixHop ==
  ASSUME "transfer" \in Text, NEW c \in Text, NEW d \in Seq(Text)
  PROVE  /\ Prefix(c, d) \in Seq(Text)
         /\ Len(Prefix(c, d)) = Len(d) + 2
         /\ Prefix(c, d)[1] = "transfer" /\ Prefix(c, d)[2] = c
         /\ Unprefix(Prefix(c, d)) = d
<1> DEFINE h == <<"transfer", c>>
           p == Prefix(c, d)
           u == Unprefix(p)
<1>1. h \in Seq(Text) /\ Len(h) = 2 /\ h[1] = "transfer" /\ h[2] = c
  OBVIOUS
<1>2. p = h \o d
  BY DEF Prefix
<1> HIDE DEF h, p
<1>3. p \in Seq(Text) /\ Len(d) \in Nat
  BY <1>1, <1>2
<1>4. Len(p) = Len(d) + 2 /\ p[1] = h[1] /\ p[2] = h[2]
  <2>1. Len(p) = Len(h) + Len(d)
    BY <1>1, <1>2, ConcatProperties
  <2>2. Len(p) = Len(d) + 2
    BY <1>1, <1>3, <2>1
  <2> QED
    BY <1>1, <1>2, <1>3, <2>2
<1>5. ASSUME NEW i \in 1 .. Len(d)
      PROVE  p[i + 2] = d[i]
  <2>1. i + 2 \in 1 .. Len(p) /\ i + 2 > 2 /\ (i + 2) - 2 = i
    BY <1>3, <1>4
  <2>2. \A j \in 1 .. Len(p) : j > 2 => p[j] = d[j - 2]
    BY <1>1, <1>2, <1>3, <1>4
  <2> QED
    BY <2>1, <2>2
<1>6. u \in Seq(Text) /\ Len(u) = Len(d) /\ \A i \in 1 .. Len(d) : u[i] = p[i + 2]
  BY <1>3, <1>4 DEF Unprefix
<1>7. u = d
  <2> HIDE DEF u
  <2> QED
    BY <1>5, <1>6
<1> QED
  BY <1>1, <1>3, <1>4, <1>7 DEF p

\* The tokens there are: base denoms of this chain and vouchers of one arrival.
IsVoucher(token) ==
  \E c \in LocalChannels : \E d \in ForeignDenoms(c) : token = hash_denom(Prefix(c, d))

IsToken(token) == (\E base \in Natives : token = Plain(base)) \/ IsVoucher(token)

\* What arrives from elsewhere did not start here.
LEMMA ForeignFacts ==
  ASSUME NEW c \in LocalChannels, NEW d \in ForeignDenoms(c)
  PROVE  /\ d \in Seq(Text) /\ Len(d) > 0
         /\ d[1] = "transfer" => Len(d) > 2 /\ d[2] # Peer[c]
<1>1. CASE d \in Foreign
  BY <1>1, BaseAssumption
<1>2. ASSUME NEW id \in ChannelIds \ {Peer[c]}, NEW base \in Foreign, d = Prefix(id, base)
      PROVE  d \in Seq(Text) /\ Len(d) > 2 /\ d[2] # Peer[c]
  <2>1. "transfer" \in Text /\ id \in Text /\ base \in Seq(Text) /\ Len(base) > 0
    BY BaseAssumption
  <2>2. d \in Seq(Text) /\ Len(d) = Len(base) + 2 /\ d[2] = id
    BY <1>2, <2>1, PrefixHop
  <2>3. Len(base) \in Nat
    BY <2>1
  <2> QED
    BY <2>1, <2>2, <2>3
<1> QED
  BY <1>1, <1>2 DEF ForeignDenoms

\* The segments of a voucher that arrived directly
LEMMA VoucherFacts ==
  ASSUME NEW c \in LocalChannels, NEW d \in ForeignDenoms(c)
  PROVE  /\ Prefix(c, d) \in Seq(Text) /\ Len(Prefix(c, d)) = Len(d) + 2
         /\ Prefix(c, d)[1] = "transfer" /\ Prefix(c, d)[2] = c /\ Unprefix(Prefix(c, d)) = d
         /\ Len(d) > 2 => Prefix(c, d)[3] = d[1] /\ Prefix(c, d)[4] = d[2]
<1>1. "transfer" \in Text /\ c \in Text /\ d \in Seq(Text) /\ Len(d) > 0
  BY ForeignFacts, PeerAssumption, BaseAssumption
<1> DEFINE p == Prefix(c, d)
<1>2. /\ p \in Seq(Text) /\ Len(p) = Len(d) + 2 /\ p[1] = "transfer" /\ p[2] = c
      /\ Unprefix(p) = d
  BY <1>1, PrefixHop
<1> HIDE DEF p
<1>3. ASSUME Len(d) > 2
      PROVE  p[3] = d[1] /\ p[4] = d[2]
  <2>1. /\ Len(p) \in Nat /\ Len(p) > 4
        /\ Unprefix(p)[1] = p[3] /\ Unprefix(p)[2] = p[4]
    BY <1>1, <1>2, <1>3 DEF Unprefix
  <2> QED
    BY <1>2, <2>1
<1> QED
  BY <1>2, <1>3 DEF p

\* What packet.rs makes of an arrival from elsewhere: the voucher, or the empty denom.
LEMMA ArrivalKey ==
  ASSUME NEW c \in LocalChannels, NEW d \in ForeignDenoms(c),
         NEW t, t = hash_denom(Prefix(c, d)), NEW p, p = Packet(Peer[c], c, d)
  PROVE  /\ MustExtractDenomFromPacketOnRecv(p) = t
         /\ path_data(p, "In") = <<c, IF Misread(c, t) THEN Plain(<<>>) ELSE t>>
<1>1. p.source_channel = Peer[c] /\ p.destination_channel = c /\ p.denom = d
  BY DEF Packet
<1> DEFINE v == Prefix(c, d)
<1>2. /\ v \in Seq(Text) /\ Len(v) = Len(d) + 2 /\ v[2] = c
      /\ Len(d) > 2 => v[3] = d[1] /\ v[4] = d[2]
  BY VoucherFacts
<1>3. /\ d \in Seq(Text) /\ Len(d) \in Nat \ {0}
      /\ d[1] = "transfer" => Len(d) > 2 /\ d[2] # Peer[c]
  BY ForeignFacts
<1>4. t.ibc = TRUE /\ t.path = v /\ t = hash_denom(v)
  BY DEF hash_denom
<1> HIDE DEF v
<1>5. ~StartsWith(d, Peer[c])
  BY <1>3 DEF StartsWith
<1>6. MustExtractDenomFromPacketOnRecv(p) = t
  BY <1>1, <1>4, <1>5 DEF MustExtractDenomFromPacketOnRecv, v
<1>7. unprefixed(p) = <<>>
  BY <1>1, <1>5 DEF unprefixed
<1>8. receiver_chain_is_source(p) <=> Misread(c, t)
  <2>1. Misread(c, t) <=>
          /\ Len(v) > 4 /\ v[2] = c /\ v[3] = "transfer"
          /\ v[4] # Peer[c] /\ <<Peer[c], v[4]>> \in TextPrefix
    BY <1>4, Zenon DEF Misread
  <2>2. CASE d[1] = "transfer"
    BY <1>1, <1>2, <1>3, <2>1, <2>2 DEF receiver_chain_is_source
  <2>3. CASE d[1] # "transfer"
    <3>1. ~receiver_chain_is_source(p)
      BY <1>1, <2>3 DEF receiver_chain_is_source
    <3>2. Len(v) > 4 => v[3] # "transfer"
      BY <1>2, <1>3, <2>3
    <3> QED
      BY <2>1, <3>1, <3>2
  <2> QED
    BY <2>2, <2>3
<1>9. handle_denom_for_recvs(p) = IF Misread(c, t) THEN Plain(<<>>) ELSE t
  BY <1>1, <1>4, <1>7, <1>8 DEF handle_denom_for_recvs, v
<1> QED
  BY <1>1, <1>6, <1>9 DEF path_data, local_channel, local_denom

\* A hash is never a plain text.
LEMMA HashIsNotPlain ==
  ASSUME NEW x, NEW y
  PROVE  hash_denom(x) # Plain(y)
<1>1. hash_denom(x).ibc = TRUE /\ Plain(y).ibc = FALSE
  BY DEF hash_denom, Plain
<1> QED
  BY <1>1

\* The path of a token
LEMMA TokenFacts ==
  ASSUME NEW t, IsToken(t)
  PROVE  /\ t.path \in Seq(Text) /\ Len(t.path) > 0
         /\ \/ /\ t.path[1] # "transfer" /\ ~HasTrace(t.path)
               /\ t.ibc = FALSE /\ t = Plain(t.path)
            \/ /\ Len(t.path) > 2 /\ t.path[1] = "transfer" /\ t.path[2] \in LocalChannels
               /\ Unprefix(t.path) \in ForeignDenoms(t.path[2])
               /\ t.path = Prefix(t.path[2], Unprefix(t.path))
               /\ t.ibc = TRUE /\ t = hash_denom(t.path)
<1>1. ASSUME NEW base \in Natives, t = Plain(base)
      PROVE  t.path = base /\ t.ibc = FALSE
  BY <1>1 DEF Plain
<1>2. ASSUME NEW c \in LocalChannels, NEW d \in ForeignDenoms(c), t = hash_denom(Prefix(c, d))
      PROVE  /\ t.path = Prefix(c, d) /\ t.ibc = TRUE /\ t = hash_denom(t.path)
             /\ t.path \in Seq(Text) /\ Len(t.path) > 2
             /\ t.path[1] = "transfer" /\ t.path[2] = c /\ Unprefix(t.path) = d
  <2>1. t.path = Prefix(c, d) /\ t.ibc = TRUE /\ t = hash_denom(t.path)
    BY <1>2 DEF hash_denom
  <2>2. d \in Seq(Text) /\ Len(d) > 0 /\ Len(d) \in Nat
    BY ForeignFacts
  <2> QED
    BY <2>1, <2>2, VoucherFacts
<1>3. CASE \E base \in Natives : t = Plain(base)
  <2>1. PICK base \in Natives : t = Plain(base)
    BY <1>3
  <2>2. t.path = base /\ t.ibc = FALSE
    BY <1>1, <2>1
  <2>3. base \in Seq(Text) /\ Len(base) > 0 /\ base[1] # "transfer" /\ ~HasTrace(base)
    BY BaseAssumption
  <2> QED
    BY <2>1, <2>2, <2>3, Zenon
<1>4. CASE IsVoucher(t)
  <2>1. PICK c \in LocalChannels : \E d \in ForeignDenoms(c) : t = hash_denom(Prefix(c, d))
    BY <1>4 DEF IsVoucher
  <2>2. PICK d \in ForeignDenoms(c) : t = hash_denom(Prefix(c, d))
    BY <2>1
  <2>3. /\ t.path = Prefix(c, d) /\ t.ibc = TRUE /\ t = hash_denom(t.path)
        /\ t.path \in Seq(Text) /\ Len(t.path) > 2
        /\ t.path[1] = "transfer" /\ t.path[2] = c /\ Unprefix(t.path) = d
    BY <1>2, <2>2
  <2>4. Len(t.path) > 0
    BY <2>3
  <2> QED
    BY <2>3, <2>4, Zenon
<1> QED
  BY <1>3, <1>4 DEF IsToken

\* A transfer that left: of a token there is, counted under the key of that token
IsTransfer(x) ==
  \E c \in LocalChannels : \E t :
    IsToken(t) /\ x = [channel |-> c, token |-> t, key |-> <<c, t>>]

\* What left counts under the token itself.
LEMMA SendKey ==
  ASSUME NEW c \in LocalChannels, NEW t, IsToken(t)
  PROVE  path_data(Outgoing(c, t), "Out") = <<c, t>>
<1> DEFINE p == Outgoing(c, t)
           path == t.path
<1>1. p.source_channel = c /\ p.denom = path
  BY DEF Outgoing, Packet
<1>2. /\ path \in Seq(Text)
      /\ \/ path[1] # "transfer" /\ t = Plain(path)
         \/ Len(path) > 2 /\ path[1] = "transfer" /\ t = hash_denom(path)
  BY TokenFacts
<1> HIDE DEF p, path
<1>3. handle_denom_for_sends(p) = t
  <2>1. CASE path[1] # "transfer" /\ t = Plain(path)
    BY <1>1, <2>1 DEF handle_denom_for_sends
  <2>2. CASE Len(path) > 2 /\ path[1] = "transfer" /\ t = hash_denom(path)
    BY <1>1, <1>2, <2>2 DEF handle_denom_for_sends
  <2> QED
    BY <1>2, <2>1, <2>2
<1>4. path_data(p, "Out") = <<c, t>>
  BY <1>1, <1>3 DEF path_data, local_channel, local_denom
<1> QED
  BY <1>4 DEF p

\* What comes back is credited as the token that left, and counted as that token
\* unless packet.rs misreads it.
LEMMA ReturnKey ==
  ASSUME NEW c \in LocalChannels, NEW t, IsToken(t),
         NEW x, x = [channel |-> c, token |-> t, key |-> <<c, t>>]
  PROVE  /\ Returning(x).destination_channel = c
         /\ MustExtractDenomFromPacketOnRecv(Returning(x)) = t
         /\ (path_data(Returning(x), "In") = <<c, t>>) <=> ~Misread(c, t)
<1> DEFINE p == Returning(x)
           path == t.path
<1>1. x.channel = c /\ x.token.path = path
  OBVIOUS
<1>2. c \in Text /\ Peer[c] \in Text /\ "transfer" \in Text /\ Peer[c] \in ChannelIds
  BY PeerAssumption, BaseAssumption
<1>3. CASE StartsWith(path, c)
  <2> DEFINE d == Unprefix(path)
  <2>1. /\ d \in ForeignDenoms(c) /\ path = Prefix(c, d)
        /\ t = hash_denom(path)
    BY <1>3, TokenFacts DEF StartsWith
  <2>2. p = Packet(Peer[c], c, d)
    BY <1>1, <1>3 DEF Returning
  <2>3. p.destination_channel = c
    BY <2>2 DEF Packet
  <2> HIDE DEF d, p, path
  <2>4. t = hash_denom(Prefix(c, d))
    BY <2>1
  <2>5. /\ MustExtractDenomFromPacketOnRecv(p) = t
        /\ path_data(p, "In") = <<c, IF Misread(c, t) THEN Plain(<<>>) ELSE t>>
    BY <2>1, <2>2, <2>4, ArrivalKey
  <2>6. Plain(<<>>) # t
    BY <2>4, HashIsNotPlain
  <2>7. (path_data(p, "In") = <<c, t>>) <=> ~Misread(c, t)
    BY <2>5, <2>6
  <2> QED
    BY <2>3, <2>5, <2>7 DEF p
<1>4. CASE ~StartsWith(path, c)
  <2> DEFINE q == Prefix(Peer[c], path)
  <2>1. p = Packet(Peer[c], c, q)
    BY <1>1, <1>4 DEF Returning
  <2>2. /\ q \in Seq(Text) /\ Len(q) = Len(path) + 2 /\ q[1] = "transfer" /\ q[2] = Peer[c]
        /\ Unprefix(q) = path
    <3>1. path \in Seq(Text)
      BY TokenFacts
    <3> HIDE DEF path
    <3> QED
      BY <1>2, <3>1, PrefixHop
  <2>3. /\ path \in Seq(Text) /\ Len(path) \in Nat \ {0}
        /\ \/ ~HasTrace(path) /\ t.ibc = FALSE /\ t = Plain(path)
           \/ /\ Len(path) > 2 /\ path[1] = "transfer" /\ path[2] \in ChannelIds
              /\ t.ibc = TRUE /\ t = hash_denom(path)
    <3>1. /\ path \in Seq(Text) /\ Len(path) > 0
          /\ \/ ~HasTrace(path) /\ t.ibc = FALSE /\ t = Plain(path)
             \/ /\ Len(path) > 2 /\ path[1] = "transfer" /\ path[2] \in LocalChannels
                /\ t.ibc = TRUE /\ t = hash_denom(path)
      BY TokenFacts, Zenon
    <3> HIDE DEF path
    <3>2. Len(path) \in Nat \ {0}
      BY <3>1
    <3>3. path[2] \in LocalChannels => path[2] \in ChannelIds
      BY PeerAssumption
    <3> QED
      BY <3>1, <3>2, <3>3, Zenon
  <2>4. p.source_channel = Peer[c] /\ p.destination_channel = c /\ p.denom = q
    BY <2>1 DEF Packet
  <2>5. t.path = path
    OBVIOUS
  <2> HIDE DEF p, q, path
  <2>6. StartsWith(q, Peer[c])
    BY <2>2, <2>3 DEF StartsWith
  <2>7. MustExtractDenomFromPacketOnRecv(p) = t
    BY <2>2, <2>3, <2>4, <2>6 DEF MustExtractDenomFromPacketOnRecv, HasTrace
  <2>8. receiver_chain_is_source(p)
    BY <1>2, <2>2, <2>3, <2>4, TextPrefixAssumption DEF receiver_chain_is_source
  <2>9. unprefixed(p) = path
    BY <2>2, <2>4, <2>6 DEF unprefixed
  <2>10. handle_denom_for_recvs(p) = IF Len(path) <= 1 THEN Plain(path) ELSE hash_denom(path)
    BY <2>8, <2>9 DEF handle_denom_for_recvs
  <2>11. (handle_denom_for_recvs(p) = t) <=> ~Misread(c, t)
    <3>1. CASE ~HasTrace(path) /\ t.ibc = FALSE /\ t = Plain(path)
      <4>1. Misread(c, t) <=> Len(path) > 1
        BY <2>5, <3>1 DEF Misread
      <4> QED
        BY <2>3, <2>10, <3>1, <4>1, HashIsNotPlain
    <3>2. CASE Len(path) > 2 /\ path[1] = "transfer" /\ t.ibc = TRUE /\ t = hash_denom(path)
      <4>1. path[2] # c
        BY <1>4, <3>2 DEF StartsWith
      <4>2. ~Misread(c, t)
        BY <2>5, <3>2, <4>1 DEF Misread
      <4> QED
        BY <2>3, <2>10, <3>2, <4>2
    <3> QED
      BY <2>3, <3>1, <3>2
  <2>12. (path_data(p, "In") = <<c, t>>) <=> ~Misread(c, t)
    BY <2>4, <2>11 DEF path_data, local_channel, local_denom
  <2> QED
    BY <2>4, <2>7, <2>12 DEF p
<1> QED
  BY <1>3, <1>4

\* The inductive invariant: only such tokens exist, only such transfers are away, and
\* the last arrival was counted rightly unless it was misread.
DenomInv ==
  /\ \A t \in held : IsToken(t)
  /\ \A x \in away : IsTransfer(x)
  /\ RecvUsesCreditedDenom

\* Packet.rs keeps the agreement with the transfer module, one packet at a time.
LEMMA DenomStep ==
  ASSUME DenomInv, [DenomNext]_denomVars
  PROVE  DenomInv'
<1>1. ASSUME NEW c \in LocalChannels, NEW t \in held, Send(c, t)
      PROVE  DenomInv'
  <2>1. IsToken(t) /\ path_data(Outgoing(c, t), "Out") = <<c, t>>
    BY SendKey DEF DenomInv
  <2>2. IsTransfer([channel |-> c, token |-> t, key |-> <<c, t>>])
    BY <2>1 DEF IsTransfer
  <2>3. away' = away \cup {[channel |-> c, token |-> t, key |-> <<c, t>>]}
    BY <1>1, <2>1 DEF Send
  <2>4. UNCHANGED <<held, came>>
    BY <1>1 DEF Send
  <2> QED
    BY <2>2, <2>3, <2>4 DEF DenomInv, RecvUsesCreditedDenom
<1>2. ASSUME NEW x \in away, Return(x)
      PROVE  DenomInv'
  <2>1. PICK c \in LocalChannels : \E t :
          IsToken(t) /\ x = [channel |-> c, token |-> t, key |-> <<c, t>>]
    BY DEF DenomInv, IsTransfer
  <2>2. PICK t : IsToken(t) /\ x = [channel |-> c, token |-> t, key |-> <<c, t>>]
    BY <2>1
  <2>3. /\ Returning(x).destination_channel = c
        /\ MustExtractDenomFromPacketOnRecv(Returning(x)) = t
        /\ (path_data(Returning(x), "In") = <<c, t>>) <=> ~Misread(c, t)
    BY <2>2, ReturnKey
  <2> DEFINE key == path_data(Returning(x), "In")
  <2>4. /\ held' = held \cup {t}
        /\ came' = {[key |-> key, right |-> <<c, t>>]}
        /\ away' = away \ {x}
    BY <1>2, <2>3 DEF Return, OnRecvPacket
  <2> HIDE DEF key
  <2>5. RecvUsesCreditedDenom'
    BY <2>3, <2>4 DEF RecvUsesCreditedDenom, key
  <2> QED
    BY <2>2, <2>4, <2>5 DEF DenomInv
<1>3. ASSUME NEW c \in LocalChannels, NEW d \in ForeignDenoms(c), Recv(c, d)
      PROVE  DenomInv'
  <2> DEFINE token == hash_denom(Prefix(c, d))
             packet == Packet(Peer[c], c, d)
             key == <<c, IF Misread(c, token) THEN Plain(<<>>) ELSE token>>
  <2>1. MustExtractDenomFromPacketOnRecv(packet) = token /\ path_data(packet, "In") = key
    BY ArrivalKey
  <2>2. IsToken(token) /\ Plain(<<>>) # token
    BY HashIsNotPlain DEF IsToken, IsVoucher
  <2>3. Incoming(c, d) = packet /\ packet.destination_channel = c
    BY DEF Incoming, Packet
  <2> HIDE DEF token, packet
  <2>4. /\ held' = held \cup {token}
        /\ came' = {[key |-> key, right |-> <<c, token>>]}
        /\ away' = away
    BY <1>3, <2>1, <2>3 DEF Recv, OnRecvPacket
  <2>5. (key = <<c, token>>) <=> ~Misread(c, token)
    BY <2>2
  <2> HIDE DEF key
  <2>6. RecvUsesCreditedDenom'
    BY <2>4, <2>5 DEF RecvUsesCreditedDenom
  <2> QED
    BY <2>2, <2>4, <2>6 DEF DenomInv
<1>4. CASE UNCHANGED denomVars
  BY <1>4 DEF denomVars, DenomInv, RecvUsesCreditedDenom
<1> QED
  BY <1>1, <1>2, <1>3, <1>4 DEF DenomNext

\* For all channels, texts of ids and base denoms: the key packet.rs finds for a
\* receive is the one the transfer module credits, and a token that comes back is
\* counted under the key of its send, exactly for the tokens that Misread does not name.
THEOREM DenomSafety == DenomSpec => [](RecvUsesCreditedDenom /\ ReturnUsesKeyOfSend)
<1>1. DenomInit => DenomInv
  BY DEF DenomInit, DenomInv, IsToken, RecvUsesCreditedDenom
<1>2. DenomInv /\ [DenomNext]_denomVars => DenomInv'
  BY DenomStep
<1>3. DenomInv => RecvUsesCreditedDenom /\ ReturnUsesKeyOfSend
  <2> SUFFICES ASSUME DenomInv, NEW x \in away
               PROVE  (path_data(Returning(x), "In") = x.key) <=> ~Misread(x.channel, x.token)
    BY DEF DenomInv, ReturnUsesKeyOfSend
  <2>1. PICK c \in LocalChannels : \E t :
          IsToken(t) /\ x = [channel |-> c, token |-> t, key |-> <<c, t>>]
    BY DEF DenomInv, IsTransfer
  <2>2. PICK t : IsToken(t) /\ x = [channel |-> c, token |-> t, key |-> <<c, t>>]
    BY <2>1
  <2> QED
    BY <2>2, ReturnKey
<1> QED
  BY <1>1, <1>2, <1>3, PTL DEF DenomSpec
=============================================================================
