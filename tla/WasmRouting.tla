---------------------------- MODULE WasmRouting ----------------------------
(***************************************************************************)
(* Contract calls carried by incoming transfers (OnRecvPacketOverride and  *)
(* ValidateAndParseMemo of ibc-hooks/wasm_hook.go): the tokens of a packet *)
(* whose memo has a "wasm" key go to an account derived from the channel   *)
(* and the sender, and the contract is executed from that account with     *)
(* them.                                                                   *)
(*                                                                         *)
(* Core IBC discards what the application wrote when the acknowledgement   *)
(* is an error, and the whole transaction when the application panics.     *)
(***************************************************************************)
EXTENDS Naturals, Sequences, FiniteSets, Functions

CONSTANTS
  DestChannels,   \* destination channels
  Senders,        \* accounts of the counterparties
  Accounts,       \* accounts of this chain that receive transfers
  CallContracts,  \* addresses with a contract
  Memos,          \* the memos that occur
  MaxRecvs        \* bound on the packets that arrive

NoReceiver == ""   \* the receiver of a packet that names none

\* "wasm": whether the memo is a JSON object with that key, and its value a map
Memo ==
  [wasm : {"absent", "not-map", "map"},
   contract : Accounts \cup CallContracts \cup {"absent", "not-bech32"},
   msg : {"absent", "not-map", "map"},
   forward : BOOLEAN]   \* packet-forward finds its key as well

ASSUME MemosAssumption == Memos \subseteq Memo
ASSUME AddressesAssumption ==
  /\ Accounts \cap CallContracts = {}
  /\ {NoReceiver, "absent", "not-bech32"} \cap (Accounts \cup CallContracts) = {}
  /\ IsFiniteSet(Accounts \cup CallContracts)
ASSUME MaxRecvsAssumption == MaxRecvs \in Nat

IncomingPacket ==
  [channel : DestChannels, sender : Senders,
   receiver : Accounts \cup CallContracts \cup {NoReceiver}, memo : Memos]

\* What an application returns for OnRecvPacket; a nil acknowledgement is one
\* packet-forward writes later.
Acks == {"success", "error", "nil"}

VARIABLES
  balance,    \* amounts credited to each account; every packet carries 1
  received,   \* history: packets with their acknowledgement, by order of arrival
  calls       \* history: contract calls that succeeded

routingVars == <<balance, received, calls>>

\* The account whose address is hashed from the text "channel/sender", named here by
\* the two: it is none of the accounts that receive transfers. That two senders
\* never share such an address is the hash's, and is claimed nowhere below.
DeriveIntermediateSender(channel, sender) == <<channel, sender>>

\* Who holds tokens: an account of this chain, or a derived one
Local(address) == <<address>>
Locals == {Local(a) : a \in Accounts \cup CallContracts}
Derived == {DeriveIntermediateSender(c, s) : c \in DestChannels, s \in Senders}

RoutingTypeOK ==
  /\ balance \in [Locals \cup Derived -> Nat]
  /\ received \in Seq([packet : IncomingPacket, ack : Acks])
  /\ \A call \in calls : /\ call.contract \in CallContracts
                         /\ call.caller \in Derived
                         /\ call.of \in DOMAIN received

----------------------------------------------------------------------------

IsWasmRouted(packet) == packet.memo.wasm # "absent"

\* The checks on a routed packet; an address need not have a contract.
ValidateAndParseMemo(packet) ==
  /\ packet.memo.wasm = "map"
  /\ packet.memo.contract \in Accounts \cup CallContracts
  /\ packet.memo.contract = packet.receiver
  /\ packet.memo.msg = "map"

\* The application below credits the receiver, refuses, or, when packet-forward
\* has found its key, sends the tokens on and leaves the answer open (external).
AppAcks(packet) ==
  IF packet.memo.forward THEN {"nil", "error"}
  ELSE IF packet.receiver = NoReceiver THEN {"error"} ELSE {"success", "error"}

\* The application's writes for an answer that is not an error
Credited(holder) == [balance EXCEPT ![holder] = @ + 1]

Acknowledge(packet, ack) ==
  received' = Append(received, [packet |-> packet, ack |-> ack])

ErrorAck(packet) == Acknowledge(packet, "error") /\ UNCHANGED <<balance, calls>>

----------------------------------------------------------------------------

RoutingInit ==
  /\ balance = [holder \in Locals \cup Derived |-> 0]
  /\ received = <<>>
  /\ calls = {}

\* The packet is not for the hooks: the application's answer is the answer.
PassOn(packet) ==
  /\ ~ IsWasmRouted(packet)
  /\ \E ack \in AppAcks(packet) :
       /\ Acknowledge(packet, ack)
       /\ balance' = IF ack = "success" THEN Credited(Local(packet.receiver)) ELSE balance
       /\ UNCHANGED calls

RejectMemo(packet) ==
  /\ IsWasmRouted(packet)
  /\ ~ ValidateAndParseMemo(packet)
  /\ ErrorAck(packet)

\* The call the hooks make after the application credited the caller: its tokens
\* go to the contract as the funds of the message.
ExecWasmMsg(packet, caller) ==
  /\ packet.memo.contract \in CallContracts
  /\ balance' = [Credited(caller) EXCEPT ![caller] = @ - 1,
                                       ![Local(packet.memo.contract)] = @ + 1]
  /\ calls' = calls \cup
       {[contract |-> packet.memo.contract, caller |-> caller, of |-> Len(received) + 1]}

\* Mutant: the answer of the application is not looked at
ExecuteRegardless(packet) ==
  LET caller == DeriveIntermediateSender(packet.channel, packet.sender)
  IN /\ IsWasmRouted(packet)
     /\ ValidateAndParseMemo(packet)
     /\ \E ack \in AppAcks([packet EXCEPT !.receiver = "intermediate"]) :
          /\ ack # "nil"
          /\ \/ ExecWasmMsg(packet, caller) /\ Acknowledge(packet, ack)
             \/ ErrorAck(packet)

\* Mutant: an error of the contract is left out of the acknowledgement
ExecuteIgnoresError(packet) ==
  LET caller == DeriveIntermediateSender(packet.channel, packet.sender)
  IN /\ IsWasmRouted(packet)
     /\ ValidateAndParseMemo(packet)
     /\ \E ack \in AppAcks([packet EXCEPT !.receiver = "intermediate"]) :
          \/ ack = "error" /\ ErrorAck(packet)
          \/ ack = "success" /\ ExecWasmMsg(packet, caller) /\ Acknowledge(packet, "success")
          \/ /\ ack = "success"
             /\ balance' = Credited(caller)
             /\ Acknowledge(packet, "success")
             /\ UNCHANGED calls

\* The receiver is replaced by the intermediate account, then the contract runs,
\* which may fail.  A nil acknowledgement is dereferenced: the transaction panics.
Execute(packet) ==
  LET caller == DeriveIntermediateSender(packet.channel, packet.sender)
  IN /\ IsWasmRouted(packet)
     /\ ValidateAndParseMemo(packet)
     /\ \E ack \in AppAcks([packet EXCEPT !.receiver = "intermediate"]) :
          \/ ack = "error" /\ ErrorAck(packet)
          \/ ack = "success" /\ ErrorAck(packet)
          \/ ack = "success" /\ ExecWasmMsg(packet, caller) /\ Acknowledge(packet, "success")

OnRecvPacketOverride(packet) ==
  /\ Len(received) < MaxRecvs
  /\ PassOn(packet) \/ RejectMemo(packet) \/ Execute(packet)

RoutingNext == \E packet \in IncomingPacket : OnRecvPacketOverride(packet)

RoutingSpec == RoutingInit /\ [][RoutingNext]_routingVars

----------------------------------------------------------------------------

\* A packet for the hooks is all or nothing: a success acknowledgement means that
\* its contract was executed with its tokens, an error that neither happened.
SuccessIffExecuted ==
  \A i \in DOMAIN received :
    IsWasmRouted(received[i].packet) =>
      LET mine == {call \in calls : call.of = i}
      IN /\ received[i].ack = "success" <=> mine # {}
         /\ \A call \in mine : call.contract = received[i].packet.receiver

\* No tokens stay in the derived accounts, whose key nobody holds: what was
\* credited is with receivers and contracts, one unit for each success.
NothingStranded ==
  /\ \A holder \in Derived : balance[holder] = 0
  /\ SumFunctionOnSet(balance, Locals)
       = Cardinality({i \in DOMAIN received : received[i].ack = "success"})
=============================================================================
