---------------------------- MODULE RateLimiter ----------------------------
(***************************************************************************)
(* The rate-limiter contract on its own: RATE_LIMIT_TRACKERS under the     *)
(* messages of contract.rs, in any order, from a governance and an IBC     *)
(* module that may send anything the message types allow.  The denom's     *)
(* supply, which the contract queries from the bank, is any value.         *)
(*                                                                         *)
(* A call that returns Err is rolled back by the chain: it is a step that  *)
(* changes nothing.                                                        *)
(***************************************************************************)
EXTENDS RateLimit

CONSTANTS
  Channels,      \* local channel ids ("any" is not one)
  Denoms,        \* local denoms
  Amounts,       \* amounts a packet can carry
  Supplies,      \* answers of the bank's SupplyOf query
  QuotaLists,    \* the vectors of QuotaMsg governance may configure
  Senders,       \* accounts that call execute
  GovModule, IbcModule,
  QuotaIds,      \* quota names a reset may ask for, unknown ones included
  MaxNow,        \* bound on the block time
  MaxFlow        \* bound on the recorded flows (MaxUint: no bound)

ASSUME ChannelsAssumption == "any" \notin Channels
ASSUME AmountsAssumption == Amounts \subseteq Uint256
ASSUME SuppliesAssumption == Supplies \subseteq Uint256
ASSUME QuotaListsAssumption == QuotaLists \subseteq Seq(QuotaMsg)
ASSUME MaxNowAssumption == MaxNow \in Nat

VARIABLES
  trackers,      \* RATE_LIMIT_TRACKERS
  now            \* env.block.time

vars == <<trackers, now>>

Paths == [channel : Channels \cup {"any"}, denom : Denoms]

TypeOK ==
  /\ trackers \in [Paths -> Seq(RateLimits) \cup {Absent}]
  /\ now \in Nat

----------------------------------------------------------------------------

\* instantiate: add_new_paths for the paths of the InstantiateMsg
Init ==
  /\ now = 0
  /\ \E conf \in [Paths -> QuotaLists \cup {Absent}] :
       /\ \A p \in Paths : conf[p] # Absent => PeriodsFit(NewLimits(conf[p], 0))
       /\ trackers = [p \in Paths |->
            IF conf[p] = Absent THEN Absent ELSE NewLimits(conf[p], 0)]

\* The model's bound on how much a tracker records in a period
FlowsBounded(store) ==
  \A p \in Paths : \A i \in 1 .. Len(Load(store, p)) :
    store[p][i].flow.inflow <= MaxFlow /\ store[p][i].flow.outflow <= MaxFlow

SendPacket(channel, denom, funds, supply) ==
  /\ trackers' = try_transfer(trackers, channel, denom, supply, funds, "Out", now).store
  /\ FlowsBounded(trackers')
  /\ UNCHANGED now

RecvPacket(channel, denom, funds, supply) ==
  /\ trackers' = try_transfer(trackers, channel, denom, supply, funds, "In", now).store
  /\ FlowsBounded(trackers')
  /\ UNCHANGED now

UndoSend(channel, denom, funds) ==
  /\ trackers' = undo_send(trackers, channel, denom, funds)
  /\ UNCHANGED now

AddPath(sender, path, quotas) ==
  /\ sender \in {GovModule, IbcModule}
  /\ trackers' = add_new_path(trackers, path, quotas, now).store
  /\ UNCHANGED now

RemovePath(sender, path) ==
  /\ sender \in {GovModule, IbcModule}
  /\ trackers' = remove_path(trackers, path)
  /\ UNCHANGED now

ResetPathQuota(sender, path, quota_id) ==
  /\ sender = GovModule
  /\ trackers' = reset_path_quota(trackers, path, quota_id, now).store
  /\ UNCHANGED now

NextBlock ==
  /\ now < MaxNow
  /\ now' = now + 1
  /\ UNCHANGED trackers

Sudo ==
  \E channel \in Channels, denom \in Denoms, funds \in Amounts :
    \/ \E supply \in Supplies : SendPacket(channel, denom, funds, supply)
    \/ \E supply \in Supplies : RecvPacket(channel, denom, funds, supply)
    \/ UndoSend(channel, denom, funds)

Execute ==
  \E sender \in Senders, path \in Paths :
    \/ \E quotas \in QuotaLists : AddPath(sender, path, quotas)
    \/ RemovePath(sender, path)
    \/ \E quota_id \in QuotaIds : ResetPathQuota(sender, path, quota_id)

Next == Sudo \/ Execute \/ NextBlock

Spec == Init /\ [][Next]_vars

----------------------------------------------------------------------------
(* What the contract guarantees.                                           *)

\* P holds of every tracker of every key.
ForAllLimits(P(_)) ==
  \A p \in Paths : trackers[p] # Absent =>
    \A i \in 1 .. Len(trackers[p]) : P(trackers[p][i])

\* A tracker whose channel value was never cached (AddPath, no transfer yet)
\* has recorded nothing, not even through the UndoSend of an older packet.
UncachedIsUnused ==
  ForAllLimits(LAMBDA limit : limit.quota.channel_value = None =>
                 limit.flow.inflow = 0 /\ limit.flow.outflow = 0)

\* The main promise of the rate limit: at every moment, for every quota of
\* every path and of the "any" channel, the net outflow recorded in the current
\* period is within the quota's share of the channel value cached for it,
\* whatever sequence of transfers, undos, resets and reconfigurations, and
\* whatever supply the bank answers.
OutflowWithinCapacity ==
  ForAllLimits(LAMBDA limit : balance_out(limit.flow) <= capacity_out(limit.quota))

\* The trackers a transfer on a channel meets
LimitsOn(store, channel, denom) ==
  Load(store, Path(channel, denom)) \o Load(store, Path("any", denom))

\* The net inflow a tracker has recorded in a period that has not ended
CurrentNet(limit) ==
  IF limit.flow.period_end < now THEN 0 ELSE limit.flow.inflow - limit.flow.outflow

\* Sending tokens out and back is neutral ("prevents DOS issues, of someone
\* repeatedly sending assets back and forth"): after an accepted send the same
\* amount can come back, unless undone sends already left the tracker above its
\* recv capacity, and then every tracker is where it was.
RoundTripIsNeutral ==
  \A channel \in Channels, denom \in Denoms, funds \in Amounts, supply \in Supplies :
    LET out == try_transfer(trackers, channel, denom, supply, funds, "Out", now)
        back == try_transfer(out.store, channel, denom, supply, funds, "In", now)
        before == LimitsOn(trackers, channel, denom)
        sent == LimitsOn(out.store, channel, denom)
        after == LimitsOn(back.store, channel, denom)
    IN /\ out.ok
       /\ \A i \in DOMAIN before : CurrentNet(before[i]) <= capacity_in(sent[i].quota)
       => /\ back.ok
          /\ \A i \in DOMAIN before : CurrentNet(after[i]) = CurrentNet(before[i])

\* Q holds of each tracker that stays at its place in a step, before and after.
ForAllChanges(Q(_, _)) ==
  \A p \in Paths :
    trackers[p] # Absent /\ trackers'[p] # Absent =>
      \A i \in 1 .. Len(trackers[p]) :
        i <= Len(trackers'[p]) => Q(trackers[p][i], trackers'[p][i])

StartedOver(new) == new.flow = ZeroFlow(now, new.quota.duration)

\* Until a period has ended, no transfer moves its end, forgets recorded inflow
\* or changes the channel value that was cached for it; only governance starting
\* the tracker over (AddPath, ResetPathQuota) does.
PeriodIsKept ==
  [][ForAllChanges(LAMBDA old, new :
       now <= old.flow.period_end /\ ~ StartedOver(new) =>
         /\ new.flow.period_end = old.flow.period_end
         /\ new.flow.inflow >= old.flow.inflow
         /\ new.quota.channel_value = old.quota.channel_value
            \/ old.quota.channel_value = None)]_vars

\* Receiving never takes the net inflow of a tracker above its recv capacity.
\* The only way above it is the undo of a send made before those receptions.
InflowExceedsOnlyByUndo ==
  [][ForAllChanges(LAMBDA old, new :
       /\ balance_in(new.flow) > capacity_in(new.quota)
       /\ balance_in(new.flow) > balance_in(old.flow)
       => /\ new.flow.outflow < old.flow.outflow
          /\ new.flow.inflow = old.flow.inflow)]_vars
=============================================================================
