-------------------------- MODULE CrosschainSwaps --------------------------
(***************************************************************************)
(* The crosschain-swaps contract and the swaprouter it calls: tokens that  *)
(* arrive are swapped and forwarded over IBC; a forward that fails is      *)
(* refunded to the contract, which keeps it for the recovery address that  *)
(* the call has named.  A token of more than one hop is first unwrapped by *)
(* a transfer that comes back with the same call.                          *)
(*                                                                         *)
(* A transaction runs the contract, the swap, and both replies in one step *)
(* and is undone as a whole when a part of it fails: an operator gives     *)
(* [ok, s], and an action takes place only where the whole is ok.  Acks    *)
(* and timeouts are delivered once for each packet, after the refund and   *)
(* in the same transaction (x/ibc-hooks, see PacketCallbacks).             *)
(***************************************************************************)
EXTENDS Integers, FiniteSets, Functions, SequencesExt

CONSTANTS
  Users,          \* accounts that may be recovery addresses
  Channels,
  Calls,          \* OsmosisSwap messages
  Outputs,        \* amounts that a swap may give
  Governors,      \* accounts that may own the contracts
  None, NoAddr,   \* an empty item of the store; FailedDeliveryAction::DoNothing
  MaxPackets,     \* bound on the number of transfers
  MaxGovernance   \* bound on the number of governance messages

Near == "near"   \* a native token, or one of a single hop
Far == "far"     \* a token of several hops
Out == "out"     \* the token that is bought
Swaprouter == "swaprouter"

VARIABLES
  s,           \* the stores of the contracts, with the bank and the channels
  governance   \* number of governance messages so far

vars == <<s, governance>>

Call == [coin : {Near, Far}, amount : Nat \ {0}, channel : Channels, receiverOk : BOOLEAN,
         memoOk : BOOLEAN, min : Nat, recovery : Users \cup {NoAddr}]

ASSUME CallsAssumption == Calls \subseteq Call
\* A swap that gives nothing fails in the pools.
ASSUME OutputsAssumption == Outputs \subseteq Nat \ {0}
ASSUME NoAddrAssumption == NoAddr \notin Users
ASSUME MaxPacketsAssumption == MaxPackets \in Nat

Init ==
  /\ \E g, o \in Governors :
       s = [config |-> [governor |-> g, swapContract |-> Swaprouter],
            router |-> [owner |-> o, route |-> FALSE],
            swapReply |-> None, forwardReply |-> None,
            inflight |-> <<>>, recovery |-> <<>>,
            held |-> [d \in {Near, Far, Out} |-> 0],
            paid |-> [u \in Users |-> 0],
            packets |-> <<>>]
  /\ governance = 0

Fail(x) == [ok |-> FALSE, s |-> x]
Success(x) == [ok |-> TRUE, s |-> x]

----------------------------------------------------------------------------
(* External: the transfer module, with the packet's sequence on its channel *)

Sequence(x, channel) == Cardinality({i \in DOMAIN x.packets : x.packets[i].channel = channel})

\* A packet is kept with the call it serves; the callback is the one of the memo.
NewPacket(x, denom, amount, call, callback) ==
  [denom |-> denom, amount |-> amount, channel |-> call.channel, callback |-> callback,
   call |-> call, sequence |-> Sequence(x, call.channel) + 1, status |-> "sent"]

Transfer(x, denom, amount, call, callback) ==
  [x EXCEPT !.held[denom] = @ - amount,
            !.packets = Append(@, NewPacket(x, denom, amount, call, callback))]

CanTransfer(x, denom, amount) == x.held[denom] >= amount

(* External: save and remove of a map of cw-storage-plus *)

Save(map, key, value) ==
  [k \in DOMAIN map \cup {key} |-> IF k = key THEN value ELSE map[k]]

Erase(map, key) == Restrict(map, DOMAIN map \ {key})

----------------------------------------------------------------------------
(* swaprouter                                                              *)

Swapped(x, call, out) == [x EXCEPT !.held[Near] = @ - call.amount, !.held[Out] = @ + out]

\* execute::trade_with_slippage_limit, the pools' swap and handle_swap_reply
trade_with_slippage_limit(x, call, out) ==
  IF ~x.router.route \/ out < call.min THEN Fail(x)
  ELSE Success(Swapped(x, call, out))

\* A contract of another kind that governance has configured (external): it may swap
\* where the swaprouter would not, and pays what its answer says.
other_swap_contract(x, call, out) == Success(Swapped(x, call, out))

----------------------------------------------------------------------------
(* execute.rs                                                              *)

Track(x, fwd, sequence) ==
  LET transfer == [recovery |-> fwd.recovery, channel |-> fwd.channel, sequence |-> sequence,
                   amount |-> fwd.amount, denom |-> fwd.denom, status |-> "Sent"]
  IN [x EXCEPT !.inflight = Save(@, <<fwd.channel, sequence>>, transfer)]

\* The transfer has been sent: it is tracked when there is someone to recover it.
handle_forward_reply(x) ==
  LET done == [x EXCEPT !.forwardReply = None]
  IN IF x.forwardReply.recovery = NoAddr THEN done
     ELSE Track(done, x.forwardReply, Last(x.packets).sequence)

\* Send the amount as the call asks, with a callback in the memo.
Forward(x, call, amount) ==
  LET fwd == [channel |-> call.channel, amount |-> amount, denom |-> Out, recovery |-> call.recovery]
  IN IF x.forwardReply # None \/ ~CanTransfer(x, Out, amount) THEN Fail(x)
     ELSE Success(handle_forward_reply(Transfer([x EXCEPT !.forwardReply = fwd], Out, amount, call, TRUE)))

\* Mutant: the amount is the one of the call, not the one of the swap's response
handle_swap_replyInput(x, out) == Forward([x EXCEPT !.swapReply = None], x.swapReply, x.swapReply.amount)

\* The swap has been made: forward what it gave.
handle_swap_reply(x, out) == Forward([x EXCEPT !.swapReply = None], x.swapReply, out)

\* The swap contract that is configured, whichever it is: its answer is trusted.
Swap(x, call, out) ==
  IF x.config.swapContract = Swaprouter THEN trade_with_slippage_limit(x, call, out)
  ELSE other_swap_contract(x, call, out)

swap_and_forward(x, call, out) ==
  IF ~call.receiverOk \/ ~call.memoOk \/ x.swapReply # None
  THEN Fail(x)
  ELSE LET swapped == Swap([x EXCEPT !.swapReply = call], call, out)
       IN IF swapped.ok THEN handle_swap_reply(swapped.s, out) ELSE Fail(x)

\* The transfer that unwraps has no callback and is not tracked: its memo brings the call back.
unwrap(x, call) ==
  Success(Transfer(x, Far, call.amount, call, FALSE))

unwrap_or_swap_and_forward(x, call, out) ==
  IF call.coin = Far THEN unwrap(x, call) ELSE swap_and_forward(x, call, out)

\* The funds of a message are the contract's before it runs.
Receive(x, call) == [x EXCEPT !.held[call.coin] = @ + call.amount]

OsmosisSwap(call, out) ==
  LET done == unwrap_or_swap_and_forward(Receive(s, call), call, out)
  IN /\ Len(s.packets) < MaxPackets
     /\ done.ok
     /\ s' = done.s
     /\ UNCHANGED governance

----------------------------------------------------------------------------
(* ibc_lifecycle.rs                                                        *)

\* Mutant: a second recovery of an address takes the place of the first
create_recoveryReplaces(x, transfer, reason) ==
  [x EXCEPT !.recovery = Save(@, transfer.recovery, <<[transfer EXCEPT !.status = reason]>>)]

create_recovery(x, transfer, reason) ==
  LET a == transfer.recovery
      before == IF a \in DOMAIN x.recovery THEN x.recovery[a] ELSE <<>>
  IN [x EXCEPT !.recovery = Save(@, a, Append(before, [transfer EXCEPT !.status = reason]))]

Forget(x, key) == [x EXCEPT !.inflight = Erase(@, key)]

\* Mutant: a packet that was delivered is still tracked
receive_ackKeeps(x, key, success) ==
  IF key \notin DOMAIN x.inflight \/ success THEN x
  ELSE create_recovery(Forget(x, key), x.inflight[key], "AckFailure")

receive_ack(x, key, success) ==
  IF key \notin DOMAIN x.inflight THEN x
  ELSE IF success THEN Forget(x, key)
  ELSE create_recovery(Forget(x, key), x.inflight[key], "AckFailure")

receive_timeout(x, key) ==
  IF key \notin DOMAIN x.inflight THEN x
  ELSE create_recovery(Forget(x, key), x.inflight[key], "TimedOut")

Key(p) == <<p.channel, p.sequence>>
InFlight(i) == i \in DOMAIN s.packets /\ s.packets[i].status = "sent"
Settled(x, i, status) == [x EXCEPT !.packets[i].status = status]
Refunded(x, i) == [Settled(x, i, "failed") EXCEPT !.held[x.packets[i].denom] = @ + x.packets[i].amount]

\* The receiver has the tokens.
AckSuccess(i) ==
  /\ InFlight(i)
  /\ s.packets[i].callback
  /\ s' = receive_ack(Settled(s, i, "delivered"), Key(s.packets[i]), TRUE)
  /\ UNCHANGED governance

AckFailure(i) ==
  LET p == s.packets[i]
  IN /\ InFlight(i)
     /\ s' = IF p.callback THEN receive_ack(Refunded(s, i), Key(p), FALSE) ELSE Refunded(s, i)
     /\ UNCHANGED governance

Timeout(i) ==
  LET p == s.packets[i]
  IN /\ InFlight(i)
     /\ s' = IF p.callback THEN receive_timeout(Refunded(s, i), Key(p)) ELSE Refunded(s, i)
     /\ UNCHANGED governance

\* The unwrapped token comes back and runs the call; where that fails, the transfer fails.
UnwrapReturns(i, out) ==
  LET call == [s.packets[i].call EXCEPT !.coin = Near]
      done == unwrap_or_swap_and_forward(Receive(Settled(s, i, "delivered"), call), call, out)
  IN /\ InFlight(i)
     /\ ~s.packets[i].callback
     /\ Len(s.packets) < MaxPackets
     /\ done.ok
     /\ s' = done.s
     /\ UNCHANGED governance

----------------------------------------------------------------------------
(* Recovery and management                                                 *)

SumAmounts(ts) == SumFunction([i \in DOMAIN ts |-> ts[i].amount])

\* Everything of the sender, in one transaction that fails when a send does
recover(u) ==
  /\ u \in DOMAIN s.recovery
  /\ s.held[Out] >= SumAmounts(s.recovery[u])
  /\ s' = [s EXCEPT !.recovery = Erase(@, u),
                    !.held[Out] = @ - SumAmounts(s.recovery[u]),
                    !.paid[u] = @ + SumAmounts(s.recovery[u])]
  /\ UNCHANGED governance

Governance(sender, owner) ==
  sender = owner /\ governance < MaxGovernance /\ governance' = governance + 1

transfer_ownership(sender, new) ==
  /\ Governance(sender, s.config.governor)
  /\ s' = [s EXCEPT !.config.governor = new]

set_swap_contract(sender, new) ==
  /\ Governance(sender, s.config.governor)
  /\ s' = [s EXCEPT !.config.swapContract = new]

\* swaprouter: set_route (the route has been validated) and transfer_ownership
set_route(sender) ==
  /\ Governance(sender, s.router.owner)
  /\ s' = [s EXCEPT !.router.route = TRUE]

router_transfer_ownership(sender, new) ==
  /\ Governance(sender, s.router.owner)
  /\ s' = [s EXCEPT !.router.owner = new]

Next ==
  \/ \E call \in Calls, out \in Outputs : OsmosisSwap(call, out)
  \/ \E i \in 1 .. MaxPackets : AckSuccess(i) \/ AckFailure(i) \/ Timeout(i)
  \/ \E i \in 1 .. MaxPackets, out \in Outputs : UnwrapReturns(i, out)
  \/ \E u \in Users : recover(u)
  \/ \E g, new \in Governors : transfer_ownership(g, new) \/ router_transfer_ownership(g, new)
  \/ \E g \in Governors, new \in {Swaprouter, "other"} : set_swap_contract(g, new)
  \/ \E g \in Governors : set_route(g)

Spec == Init /\ [][Next]_vars

----------------------------------------------------------------------------
(* Properties                                                              *)

IBCTransfer == [recovery : Users, channel : Channels, sequence : Nat \ {0}, amount : Nat \ {0},
                denom : {Out}, status : {"Sent", "AckFailure", "TimedOut"}]

\* The stores keep their shape and the contract never spends more than it holds.
TypeOK ==
  /\ s.held \in [{Near, Far, Out} -> Nat]
  /\ \A k \in DOMAIN s.inflight : s.inflight[k] \in IBCTransfer
  /\ \A u \in DOMAIN s.recovery : \A i \in DOMAIN s.recovery[u] : s.recovery[u][i] \in IBCTransfer

Forwards == {i \in DOMAIN s.packets : s.packets[i].callback}
Recoverable(u) == {i \in Forwards : s.packets[i].call.recovery = u /\ s.packets[i].status = "failed"}

SumPackets(is) == SumFunction([i \in is |-> s.packets[i].amount])

\* The contract tracks exactly the forwards under way that someone may recover, each
\* under the channel and sequence that the chain will call it back with.
TracksForwardsInFlight ==
  DOMAIN s.inflight = {Key(s.packets[i]) : i \in
    {j \in Forwards : s.packets[j].status = "sent" /\ s.packets[j].call.recovery # NoAddr}}

\* What an address was paid and may still recover is what was forwarded in its name and
\* failed: no failure is lost or counted twice, whatever came between it and recover.
RecoveriesAddUp ==
  \A u \in Users :
    s.paid[u] + (IF u \in DOMAIN s.recovery THEN SumAmounts(s.recovery[u]) ELSE 0)
      = SumPackets(Recoverable(u))

\* Between transactions the contract holds in the token that is bought what can be
\* recovered and the refunds of calls that named nobody: a recovery is always covered,
\* and nothing of a swap stays behind. In the token to unwrap it holds the refunds of
\* failed unwraps, whomever the calls named (FailuresAreRecoverable).
HeldIsAccounted ==
  LET unclaimed == Recoverable(NoAddr)
  IN /\ s.held[Near] = 0
     /\ s.held[Far] = SumPackets({i \in DOMAIN s.packets \ Forwards : s.packets[i].status = "failed"})
     /\ s.held[Out] = SumPackets(unclaimed)
                        + SumFunction([u \in DOMAIN s.recovery |-> SumAmounts(s.recovery[u])])

\* What the contract's README says of every packet: "If set to a local recovery addr,
\* the contract will track the packet, and the specified address will be able to
\* execute {"recover": {}}". The code does not keep it for the transfers that unwrap.
FailuresAreRecoverable ==
  \A u \in Users :
    s.paid[u] + (IF u \in DOMAIN s.recovery THEN SumAmounts(s.recovery[u]) ELSE 0)
      = SumPackets({i \in DOMAIN s.packets :
                      s.packets[i].call.recovery = u /\ s.packets[i].status = "failed"})
=============================================================================
