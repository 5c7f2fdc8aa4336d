--------------------------- MODULE TransferStack ---------------------------
(***************************************************************************)
(* ICS-20 transfers through the rate-limit middleware: the Go middleware   *)
(* (ibc_module.go, ics4_wrapper.go, rate_limit.go) with the contract, the  *)
(* transfer module's escrow, burn, mint and refund, and the life of each   *)
(* packet the chain sends, under interleaved users, relayers, blocks and   *)
(* governance.                                                             *)
(*                                                                         *)
(* A message is one atomic step: the SDK discards every write of a         *)
(* transaction that fails, and core IBC every write of an OnRecvPacket     *)
(* whose acknowledgement is an error.  Failed messages therefore change    *)
(* nothing.  Denoms are local denoms; how they are found from a packet is  *)
(* the subject of module PacketDenom.                                      *)
(***************************************************************************)
EXTENDS RateLimit, FiniteSets, Functions

CONSTANTS
  Channels,        \* local channel ids
  Natives,         \* denoms of this chain
  Vouchers,        \* ibc/... denoms
  Origin,          \* the channel a voucher came in through
  InitialSupply,   \* supply of each denom in the first block
  InitialQuotas,   \* the paths of the InstantiateMsg: quotas or Absent
  Amounts,         \* amounts users and the counterparty transfer
  Lifetimes,       \* packet timeouts, relative to the block of the send
  AckErrors,       \* error texts of the counterparty's acknowledgements
  ContractAddr,    \* address of the rate-limiter contract
  Contracts,       \* values governance gives to Params.ContractAddress
  Governance,      \* governance messages that occur
  QuotaLists, QuotaIds,
  MaxNow, MaxPackets, MaxRecvs, MaxSupply, MaxProposals   \* bounds

\* Params.ContractAddress when it is not set, and the error text of an
\* acknowledgement that carries none
NoContract == ""
NoAckError == ""

Denoms == Natives \cup Vouchers
Paths == [channel : Channels \cup {"any"}, denom : Denoms]

ASSUME StackChannelsAssumption == "any" \notin Channels
ASSUME VouchersAssumption == Vouchers \cap Natives = {} /\ Vouchers \subseteq IbcDenoms
ASSUME OriginAssumption == Origin \in [Vouchers -> Channels]
ASSUME StackAmountsAssumption == Amounts \subseteq 1 .. MaxUint
ASSUME StackQuotasAssumption ==
  /\ QuotaLists \subseteq Seq(QuotaMsg)
  /\ InitialQuotas \in [Paths -> QuotaLists \cup {Absent}]
  /\ \A p \in Paths : InitialQuotas[p] # Absent => PeriodsFit(NewLimits(InitialQuotas[p], 0))
ASSUME ContractsAssumption == ContractAddr # NoContract /\ ContractAddr \in Contracts
ASSUME StackBoundsAssumption ==
  /\ IsFiniteSet(Channels) /\ Lifetimes \subseteq Nat
  /\ MaxNow \in Nat /\ MaxProposals \in Nat /\ MaxSupply \in Uint256
  /\ InitialSupply \in [Denoms -> 0 .. MaxSupply]

VARIABLES
  now,        \* block time
  contract,   \* Params.ContractAddress
  trackers,   \* RATE_LIMIT_TRACKERS of the contract
  supply,     \* bank supply of each denom
  escrow,     \* balance of each channel's escrow account
  abroad,     \* what counterparties hold of the escrowed tokens
  packets,    \* packets sent, by order of sending
  log,        \* history: what the contract has been told, in order
  opened,     \* history: for each tracker, Len(log) when its period started
  proposals   \* governance messages executed so far

bank == <<supply, escrow, abroad>>
vars ==
  <<now, contract, trackers, supply, escrow, abroad, packets, log, opened, proposals>>

Status == {"sent", "delivered", "rejected", "acked", "refunded"}

Packet ==
  [channel : Channels, denom : Denoms, amount : Uint256, timeout : Nat,
   status : Status, ack : AckErrors \cup {NoAckError}, event : Nat]

\* A message to the contract (SendPacketMsg, RecvPacketMsg, UndoPacketMsg) with
\* what it keeps of the packet; an undo also names the event of its send
Event ==
  [kind : FlowType \cup {"Undo"}, channel : Channels, denom : Denoms,
   amount : Uint256, of : Nat]

TypeOK ==
  /\ now \in 0 .. MaxNow
  /\ proposals \in 0 .. MaxProposals
  /\ contract \in Contracts \cup {NoContract}
  /\ trackers \in [Paths -> Seq(RateLimits) \cup {Absent}]
  /\ supply \in [Denoms -> 0 .. MaxSupply]
  /\ escrow \in [Channels -> [Denoms -> Nat]]
  /\ abroad \in [Channels -> [Denoms -> Nat]]
  /\ packets \in Seq(Packet)
  /\ log \in Seq(Event)
  /\ opened \in [Paths -> Seq(Nat)]
  /\ \A p \in Paths : Len(opened[p]) = Len(Load(trackers, p))

----------------------------------------------------------------------------
(* The transfer module and the bank (external).                            *)

\* SenderChainIsSource: the token is escrowed, not burned
IsEscrowed(channel, denom) == denom \in Natives \/ Origin[denom] # channel

Spendable(denom) ==
  supply[denom] - SumFunctionOnSet([c \in Channels |-> escrow[c][denom]], Channels)

\* SendTransfer, before it calls the ICS4 wrapper
Take(channel, denom, amount) ==
  IF IsEscrowed(channel, denom)
  THEN [supply |-> supply,
        escrow |-> [escrow EXCEPT ![channel][denom] = @ + amount]]
  ELSE [supply |-> [supply EXCEPT ![denom] = @ - amount], escrow |-> escrow]

\* Tokens that arrive, and tokens that are refunded: the inverse of Take
Give(channel, denom, amount) ==
  IF IsEscrowed(channel, denom)
  THEN [supply |-> supply,
        escrow |-> [escrow EXCEPT ![channel][denom] = @ - amount]]
  ELSE [supply |-> [supply EXCEPT ![denom] = @ + amount], escrow |-> escrow]

\* What may still be refunded on a channel
InFlight(channel, denom) ==
  SumFunctionOnSet([k \in DOMAIN packets |-> packets[k].amount],
    {k \in DOMAIN packets : /\ packets[k].channel = channel
                            /\ packets[k].denom = denom
                            /\ packets[k].status \in {"sent", "rejected"}})

----------------------------------------------------------------------------
(* The middleware's calls to the contract.                                 *)

\* Mutant: the contract runs with the time of the previous block
CheckAndUpdateRateLimitsStaleTime(direction, channel, denom, channel_value, amount) ==
  IF contract = ContractAddr
  THEN try_transfer(trackers, channel, denom, channel_value, amount, direction,
                    IF now = 0 THEN 0 ELSE now - 1)
  ELSE [ok |-> contract = NoContract, store |-> trackers]

\* CheckAndUpdateRateLimits, skipped when no contract is set.  The parameter is
\* only checked to be an address: a Sudo to one without the contract fails.
CheckAndUpdateRateLimits(direction, channel, denom, channel_value, amount) ==
  IF contract = ContractAddr
  THEN try_transfer(trackers, channel, denom, channel_value, amount, direction, now)
  ELSE [ok |-> contract = NoContract, store |-> trackers]

\* RevertSentPacket: an error of the contract is only reported in an event
RevertSentPacket(packet) ==
  IF contract = ContractAddr
  THEN undo_send(trackers, packet.channel, packet.denom, packet.amount)
  ELSE trackers

IsAckError(ack) == ack # NoAckError

\* History: the contract was told of an event
Record(kind, channel, denom, amount, of) ==
  log' = IF contract = ContractAddr
         THEN Append(log, [kind |-> kind, channel |-> channel, denom |-> denom,
                           amount |-> amount, of |-> of])
         ELSE log

\* History: a transfer starts a period for the expired trackers it meets
OpenExpired(channel, denom) ==
  opened' = IF contract # ContractAddr THEN opened
            ELSE [p \in Paths |->
                    IF p.denom = denom /\ p.channel \in {channel, "any"}
                    THEN [i \in 1 .. Len(Load(trackers, p)) |->
                            IF is_expired(trackers[p][i].flow, now)
                            THEN Len(log) ELSE opened[p][i]]
                    ELSE opened[p]]

----------------------------------------------------------------------------

Init ==
  /\ now = 0
  /\ proposals = 0
  /\ contract \in {NoContract, ContractAddr}
  /\ trackers = [p \in Paths |->
       IF InitialQuotas[p] = Absent THEN Absent ELSE NewLimits(InitialQuotas[p], 0)]
  /\ supply = InitialSupply
  /\ escrow = [c \in Channels |-> [d \in Denoms |-> 0]]
  /\ abroad = [c \in Channels |-> [d \in Denoms |-> 0]]
  /\ packets = <<>>
  /\ log = <<>>
  /\ opened = [p \in Paths |-> [i \in 1 .. Len(Load(trackers, p)) |-> 0]]

\* MsgTransfer: SendTransfer takes the tokens, then ICS4Wrapper.SendPacket asks
\* the contract, which sees the supply after the tokens were taken.
SendPacket(channel, denom, amount, lifetime) ==
  LET taken == Take(channel, denom, amount)
      check == CheckAndUpdateRateLimits("Out", channel, denom,
                                        taken.supply[denom], amount)
  IN /\ Len(packets) < MaxPackets
     /\ now + lifetime < MaxNow
     /\ amount <= Spendable(denom)
     /\ check.ok
     /\ trackers' = check.store
     /\ supply' = taken.supply
     /\ escrow' = taken.escrow
     /\ packets' = Append(packets,
          [channel |-> channel, denom |-> denom, amount |-> amount,
           timeout |-> now + lifetime, status |-> "sent", ack |-> NoAckError,
           event |-> IF contract = ContractAddr THEN Len(log) + 1 ELSE 0])
     /\ Record("Out", channel, denom, amount, 0)
     /\ OpenExpired(channel, denom)
     /\ UNCHANGED <<now, contract, abroad, proposals>>

\* OnRecvPacket: the contract is asked before the transfer module mints the
\* voucher or releases the escrow.
OnRecvPacket(channel, denom, amount) ==
  LET check == CheckAndUpdateRateLimits("In", channel, denom, supply[denom], amount)
      given == Give(channel, denom, amount)
  IN /\ Cardinality({k \in DOMAIN log : log[k].kind = "In"}) < MaxRecvs
     /\ check.ok
     /\ IF IsEscrowed(channel, denom)
        THEN /\ amount <= abroad[channel][denom]
             /\ abroad' = [abroad EXCEPT ![channel][denom] = @ - amount]
        ELSE /\ supply[denom] + InFlight(channel, denom) + amount <= MaxSupply
             /\ UNCHANGED abroad
     /\ trackers' = check.store
     /\ supply' = given.supply
     /\ escrow' = given.escrow
     /\ Record("In", channel, denom, amount, 0)
     /\ OpenExpired(channel, denom)
     /\ UNCHANGED <<now, contract, packets, proposals>>

\* The counterparty receives a packet that has not timed out (external).
CounterpartyAccepts(k) ==
  LET packet == packets[k]
  IN /\ packet.status = "sent"
     /\ now <= packet.timeout
     /\ packets' = [packets EXCEPT ![k].status = "delivered"]
     /\ abroad' = IF IsEscrowed(packet.channel, packet.denom)
                  THEN [abroad EXCEPT ![packet.channel][packet.denom] = @ + packet.amount]
                  ELSE abroad
     /\ UNCHANGED <<now, contract, trackers, supply, escrow, log, opened, proposals>>

CounterpartyRejects(k, error) ==
  /\ packets[k].status = "sent"
  /\ now <= packets[k].timeout
  /\ packets' = [packets EXCEPT ![k].status = "rejected", ![k].ack = error]
  /\ UNCHANGED <<now, contract, trackers, bank, log, opened, proposals>>

\* What the transfer module does with a packet that failed
RefundPacket(k) ==
  LET given == Give(packets[k].channel, packets[k].denom, packets[k].amount)
  IN /\ supply' = given.supply
     /\ escrow' = given.escrow
     /\ packets' = [packets EXCEPT ![k].status = "refunded"]

\* RevertSentPacket as a step, with its history
Revert(k) ==
  /\ trackers' = RevertSentPacket(packets[k])
  /\ Record("Undo", packets[k].channel, packets[k].denom, packets[k].amount,
            packets[k].event)

\* Mutant: every acknowledgement is taken for a failure of the send
OnAcknowledgementPacketAlwaysReverts(k) ==
  /\ packets[k].status \in {"delivered", "rejected"}
  /\ Revert(k)
  /\ IF packets[k].status = "rejected"
     THEN RefundPacket(k)
     ELSE /\ packets' = [packets EXCEPT ![k].status = "acked"]
          /\ UNCHANGED <<supply, escrow>>
  /\ UNCHANGED <<now, contract, abroad, opened, proposals>>

\* The counterparty is an ICS-20 application, so its acknowledgement decodes; the
\* message that brings another fails before it changes anything (ibc_module.go:160).
OnAcknowledgementPacket(k) ==
  /\ packets[k].status \in {"delivered", "rejected"}
  /\ IF packets[k].status = "rejected" /\ IsAckError(packets[k].ack)
     THEN Revert(k)
     ELSE UNCHANGED <<trackers, log>>
  /\ IF packets[k].status = "rejected"
     THEN RefundPacket(k)
     ELSE /\ packets' = [packets EXCEPT ![k].status = "acked"]
          /\ UNCHANGED <<supply, escrow>>
  /\ UNCHANGED <<now, contract, abroad, opened, proposals>>

\* Mutant: without a contract the timeout does not reach the transfer module
OnTimeoutPacketNotForwarded(k) ==
  /\ packets[k].status = "sent"
  /\ now > packets[k].timeout
  /\ Revert(k)
  /\ IF contract = NoContract
     THEN /\ packets' = [packets EXCEPT ![k].status = "refunded"]
          /\ UNCHANGED <<supply, escrow>>
     ELSE RefundPacket(k)
  /\ UNCHANGED <<now, contract, abroad, opened, proposals>>

\* Mutant: an error of the contract fails the timeout
OnTimeoutPacketRevertMustSucceed(k) ==
  /\ packets[k].status = "sent"
  /\ now > packets[k].timeout
  /\ contract \in {NoContract, ContractAddr}
  /\ Revert(k)
  /\ RefundPacket(k)
  /\ UNCHANGED <<now, contract, abroad, opened, proposals>>

OnTimeoutPacket(k) ==
  /\ packets[k].status = "sent"
  /\ now > packets[k].timeout
  /\ Revert(k)
  /\ RefundPacket(k)
  /\ UNCHANGED <<now, contract, abroad, opened, proposals>>

\* A parameter change proposal
SetParams(address) ==
  /\ "SetParams" \in Governance
  /\ contract' = address
  /\ UNCHANGED <<now, trackers, bank, packets, log, opened>>

AddPath(path, quotas) ==
  LET res == add_new_path(trackers, path, quotas, now)
  IN /\ "AddPath" \in Governance
     /\ res.ok
     /\ trackers' = res.store
     /\ opened' = [opened EXCEPT ![path] = [i \in 1 .. Len(quotas) |-> Len(log)]]
     /\ UNCHANGED <<now, contract, bank, packets, log>>

RemovePath(path) ==
  /\ "RemovePath" \in Governance
  /\ trackers' = remove_path(trackers, path)
  /\ opened' = [opened EXCEPT ![path] = <<>>]
  /\ UNCHANGED <<now, contract, bank, packets, log>>

ResetPathQuota(path, quota_id) ==
  LET res == reset_path_quota(trackers, path, quota_id, now)
  IN /\ "ResetPathQuota" \in Governance
     /\ res.ok
     /\ trackers' = res.store
     /\ opened' = [opened EXCEPT ![path] =
          [i \in DOMAIN @ |-> IF trackers[path][i].quota.name = quota_id
                              THEN Len(log) ELSE @[i]]]
     /\ UNCHANGED <<now, contract, bank, packets, log>>

NextBlock ==
  /\ now < MaxNow
  /\ now' = now + 1
  /\ UNCHANGED <<contract, trackers, bank, packets, log, opened, proposals>>

Transfer ==
  \E channel \in Channels, denom \in Denoms, amount \in Amounts :
    \/ \E lifetime \in Lifetimes : SendPacket(channel, denom, amount, lifetime)
    \/ OnRecvPacket(channel, denom, amount)

Relay ==
  \E k \in DOMAIN packets :
    \/ CounterpartyAccepts(k)
    \/ \E error \in AckErrors : CounterpartyRejects(k, error)
    \/ OnAcknowledgementPacket(k)
    \/ OnTimeoutPacket(k)

Govern ==
  /\ proposals < MaxProposals
  /\ proposals' = proposals + 1
  /\ \/ \E address \in Contracts \cup {NoContract} : SetParams(address)
     \/ \E path \in Paths :
          \/ \E quotas \in QuotaLists : AddPath(path, quotas)
          \/ RemovePath(path)
          \/ \E quota_id \in QuotaIds : ResetPathQuota(path, quota_id)

Next == Transfer \/ Relay \/ Govern \/ NextBlock

Spec == Init /\ [][Next]_vars

\* Blocks are produced, and some relayer brings back every acknowledgement and
\* every timeout: relaying is permissionless, so one live relayer is enough.
FairSpec ==
  /\ Spec
  /\ WF_vars(NextBlock)
  /\ \A k \in 1 .. MaxPackets :
       /\ WF_vars(k \in DOMAIN packets /\ OnAcknowledgementPacket(k))
       /\ WF_vars(k \in DOMAIN packets /\ OnTimeoutPacket(k))

----------------------------------------------------------------------------
(* Accounting.                                                             *)

Total(events) == SumFunctionOnSet([k \in DOMAIN log |-> log[k].amount], events)

\* The events of the current period of tracker i of path p
InPeriod(p, i) ==
  {k \in DOMAIN log : /\ k > opened[p][i]
                      /\ log[k].denom = p.denom
                      /\ p.channel \in {"any", log[k].channel}}

Undone(event) == \E j \in DOMAIN log : log[j].kind = "Undo" /\ log[j].of = event

\* What has come in during the period
Received(p, i) == Total({k \in InPeriod(p, i) : log[k].kind = "In"})

\* What has been sent during the period and not come back as a refund
Gone(p, i) == Total({k \in InPeriod(p, i) : log[k].kind = "Out" /\ ~ Undone(k)})

\* Refunds applied in the period for packets that were sent before it
LateUndos(p, i) ==
  Total({k \in InPeriod(p, i) : log[k].kind = "Undo" /\ log[k].of <= opened[p][i]})

ForAllTrackers(P(_, _)) ==
  \A p \in Paths : \A i \in 1 .. Len(Load(trackers, p)) : P(p, i)

\* The two counters of every tracker agree with the transfers that really
\* happened in its period, on its channel or, for "any", on all channels: the
\* inflow is exactly what was received; the outflow never counts a refunded send,
\* and misses a send only for refunds of packets from before the period.
FlowMatchesTransfers ==
  ForAllTrackers(LAMBDA p, i :
    LET flow == trackers[p][i].flow
    IN /\ flow.inflow = Received(p, i)
       /\ flow.outflow <= Gone(p, i)
       /\ Gone(p, i) <= flow.outflow + LateUndos(p, i))

\* What a rate limit is for: no more than the quota's share of the channel value
\* leaves, net, in a period.
NetOutflowWithinQuota ==
  ForAllTrackers(LAMBDA p, i :
    Gone(p, i) - Received(p, i) <= capacity_out(trackers[p][i].quota))

\* Every unresolved packet can still be refunded: a channel's escrow holds what
\* is abroad plus what is in packets that may fail, whatever the rate limit
\* decided and whether or not its contract works.
EscrowBacksPackets ==
  \A c \in Channels, d \in Denoms :
    IsEscrowed(c, d) =>
      escrow[c][d] = abroad[c][d] + InFlight(c, d)

\* A send is undone exactly if its tokens were given back, and once: a delivered
\* transfer never frees quota, and while the contract is in place a failed one does
\* not stay counted.
UndoneExactlyIfRefunded ==
  \A k \in DOMAIN packets :
    LET undos == {j \in DOMAIN log : log[j].kind = "Undo" /\ log[j].of = packets[k].event}
    IN packets[k].event # 0 =>
         Cardinality(undos) = IF packets[k].status = "refunded" THEN 1 ELSE 0

\* P holds in a step of each tracker that stays, with its path.
ForAllTrackerSteps(P(_, _, _)) ==
  \A p \in Paths :
    trackers[p] # Absent /\ trackers'[p] # Absent =>
      \A i \in 1 .. Len(trackers[p]) :
        i <= Len(trackers'[p]) => P(p, trackers[p][i], trackers'[p][i])

\* The channel value a tracker caches is the supply when the transaction began,
\* before the transfer module changed it.
CachedValueIsSupplyAtStart ==
  [][ForAllTrackerSteps(LAMBDA p, old, new :
       new.quota.channel_value \in {old.quota.channel_value, None, supply[p.denom]})]_vars

\* Every packet is settled in the end, acknowledged or refunded, even when the
\* configured contract does not exist and the undo fails.
EveryPacketSettles ==
  \A k \in 1 .. MaxPackets :
    k \in DOMAIN packets ~>
      k \in DOMAIN packets /\ packets[k].status \in {"acked", "refunded"}

----------------------------------------------------------------------------
(* Inside the stack the contract only sees what module RateLimiter allows. *)

Limiter == INSTANCE RateLimiter WITH
  Supplies <- 0 .. MaxSupply,
  Senders <- {"gov"}, GovModule <- "gov", IbcModule <- "ibc",
  MaxFlow <- MaxUint

\* Every step of the stack is a step of the contract on its own, or leaves it
\* alone: the middleware never bypasses the contract's messages, never calls it
\* with another time than the block's, and what is proved of RateLimiter holds
\* of the trackers on the chain.
ImplementsRateLimiter == Limiter!Spec
=============================================================================
