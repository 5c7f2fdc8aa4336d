-------------------------- MODULE PacketCallbacks --------------------------
(***************************************************************************)
(* The ack and timeout callbacks of ibc-hooks (wasm_hook.go,               *)
(* keeper/keeper.go): a transfer may name a contract in its memo that is   *)
(* told how the packet ended.  The application below (rate limit, packet   *)
(* forward, transfer) only appears as the refund it makes.                 *)
(*                                                                         *)
(* The handlers run inside a transaction of core IBC, which removes the    *)
(* packet's commitment: a handler that returns an error undoes all of it,  *)
(* and the relayer may try again.                                          *)
(***************************************************************************)
EXTENDS Naturals, Sequences, FiniteSetsExt

CONSTANTS
  Channels,       \* source channels
  Contracts,      \* addresses with a contract that may listen
  Empty,          \* a bech32 address without a contract
  Malformed,      \* an ibc_callback that is no string or no bech32 address
  AckErrors,      \* error texts of the counterparty's acknowledgements
  MaxPackets      \* bound on the packets that are sent

NoCallback == ""   \* what the store returns for a key it does not hold
NoError == ""      \* the error of an acknowledgement that is none
NoReply == ""

ASSUME CallbackValuesAssumption ==
  /\ Empty \notin Contracts \cup {NoCallback, Malformed}
  /\ Malformed \notin Contracts \cup {NoCallback}
  /\ NoCallback \notin Contracts
\* ibc-go writes the text of an error it was given, which is never empty.
ASSUME AckErrorsAssumption == NoError \notin AckErrors
ASSUME MaxPacketsAssumption == MaxPackets \in Nat

Addresses == Contracts \cup {Empty}
Keys == Channels \X (1 .. MaxPackets)

VARIABLES
  packets,     \* the packets of each channel, by sequence
  callbacks,   \* the hooks store: key -> contract, NoCallback when there is none
  working,     \* contracts whose sudo entry point succeeds at present
  told,        \* history: the notifications contracts accepted, by packet
  lost         \* history: packets whose callback a restart has lost

vars == <<packets, callbacks, working, told, lost>>

Outcomes == {"pending", "accepted", "rejected", "expired"}

Packet ==
  [callback : Addresses \cup {Malformed, NoCallback}, outcome : Outcomes,
   ack : AckErrors \cup {NoError}, committed : BOOLEAN, refunded : BOOLEAN]

Notification ==
  [contract : Contracts,
   message : {"success", "failure", "timeout"}]

TypeOK ==
  /\ packets \in [Channels -> Seq(Packet)]
  /\ callbacks \in [Keys -> Addresses \cup {NoCallback}]
  /\ working \subseteq Contracts
  /\ told \in [Keys -> Seq(Notification)]
  /\ lost \subseteq Keys

----------------------------------------------------------------------------
(* keeper.go                                                               *)

\* Mutant: the key forgets the channel
GetPacketKeySequenceOnly(channel, sequence) == <<CHOOSE c \in Channels : TRUE, sequence>>

GetPacketKey(channel, sequence) == <<channel, sequence>>

StorePacketCallback(store, channel, sequence, contract) ==
  [store EXCEPT ![GetPacketKey(channel, sequence)] = contract]

GetPacketCallback(store, channel, sequence) == store[GetPacketKey(channel, sequence)]

DeletePacketCallback(store, channel, sequence) ==
  [store EXCEPT ![GetPacketKey(channel, sequence)] = NoCallback]

----------------------------------------------------------------------------
(* wasm_hook.go                                                            *)

NewPacket(callback) ==
  [callback |-> callback, outcome |-> "pending", ack |-> NoError,
   committed |-> TRUE, refunded |-> FALSE]

\* The packet is sent whatever ibc_callback is; it is stored if it is an address.
SendPacketOverride(ps, store, channel, callback) ==
  [packets |-> [ps EXCEPT ![channel] = Append(@, NewPacket(callback))],
   callbacks |-> IF callback \in Addresses
                 THEN StorePacketCallback(store, channel, Len(ps[channel]) + 1, callback)
                 ELSE store]

\* What a contract does in its sudo entry point: nothing, or a transfer over the
\* channel "reply" with itself as callback (external)
Sudo(ps, store, contract, reply) ==
  IF reply = NoReply THEN [packets |-> ps, callbacks |-> store]
  ELSE SendPacketOverride(ps, store, reply, contract)

CanSend == MapThenSumSet(LAMBDA c : Len(packets[c]), Channels) < MaxPackets

Replies == {NoReply} \cup IF CanSend THEN Channels ELSE {}

\* Core IBC and the application below have settled the packet
Settled(channel, sequence) ==
  [packets EXCEPT ![channel][sequence].committed = FALSE,
                  ![channel][sequence].refunded = @ \/
                     packets[channel][sequence].outcome # "accepted"]

Notify(contract, channel, sequence, message) ==
  told' = [told EXCEPT ![<<channel, sequence>>] =
             Append(@, [contract |-> contract, message |-> message])]

IsAckError(ack) == ack # NoError

AckMessage(packet) == IF IsAckError(packet.ack) THEN "failure" ELSE "success"

----------------------------------------------------------------------------

Init ==
  /\ packets = [c \in Channels |-> <<>>]
  /\ callbacks = [key \in Keys |-> NoCallback]
  /\ working = Contracts
  /\ told = [key \in Keys |-> <<>>]
  /\ lost = {}

SendPacket(channel, callback) ==
  LET sent == SendPacketOverride(packets, callbacks, channel, callback)
  IN /\ CanSend
     /\ packets' = sent.packets
     /\ callbacks' = sent.callbacks
     /\ UNCHANGED <<working, told, lost>>

\* The counterparty acknowledges the packet, or it expires (external)
Counterparty(channel, sequence) ==
  /\ packets[channel][sequence].outcome = "pending"
  /\ \/ packets' = [packets EXCEPT ![channel][sequence].outcome = "accepted"]
     \/ \E error \in AckErrors :
          packets' = [packets EXCEPT ![channel][sequence].outcome = "rejected",
                                     ![channel][sequence].ack = error]
     \/ packets' = [packets EXCEPT ![channel][sequence].outcome = "expired"]
  /\ UNCHANGED <<callbacks, working, told, lost>>

\* Mutant: an error of the callback is ignored, as it is for a timeout
OnAcknowledgementPacketOverrideIgnoresError(channel, sequence, reply) ==
  LET packet == packets[channel][sequence]
      contract == GetPacketCallback(callbacks, channel, sequence)
      after == Sudo(Settled(channel, sequence), callbacks, contract, reply)
  IN /\ packet.committed /\ packet.outcome \in {"accepted", "rejected"}
     /\ UNCHANGED <<working, lost>>
     /\ \/ /\ contract \notin working /\ reply = NoReply
           /\ packets' = Settled(channel, sequence)
           /\ callbacks' = DeletePacketCallback(callbacks, channel, sequence)
           /\ UNCHANGED told
        \/ /\ contract \in working
           /\ packets' = after.packets
           /\ callbacks' = DeletePacketCallback(after.callbacks, channel, sequence)
           /\ Notify(contract, channel, sequence, AckMessage(packet))

\* The application first; then the callback, whose error fails the transaction.
OnAcknowledgementPacketOverride(channel, sequence, reply) ==
  LET packet == packets[channel][sequence]
      contract == GetPacketCallback(callbacks, channel, sequence)
      after == Sudo(Settled(channel, sequence), callbacks, contract, reply)
  IN /\ packet.committed /\ packet.outcome \in {"accepted", "rejected"}
     /\ UNCHANGED <<working, lost>>
     /\ \/ /\ contract = NoCallback /\ reply = NoReply
           /\ packets' = Settled(channel, sequence)
           /\ UNCHANGED <<callbacks, told>>
        \/ /\ contract \in working
           /\ packets' = after.packets
           /\ callbacks' = DeletePacketCallback(after.callbacks, channel, sequence)
           /\ Notify(contract, channel, sequence, AckMessage(packet))

\* Mutant: the callback is only deleted when the contract accepts it
OnTimeoutPacketOverrideKeepsFailed(channel, sequence, reply) ==
  LET contract == GetPacketCallback(callbacks, channel, sequence)
      after == Sudo(Settled(channel, sequence), callbacks, contract, reply)
  IN /\ packets[channel][sequence].committed
     /\ packets[channel][sequence].outcome = "expired"
     /\ UNCHANGED <<working, lost>>
     /\ \/ /\ contract \notin working /\ reply = NoReply
           /\ packets' = Settled(channel, sequence)
           /\ UNCHANGED <<callbacks, told>>
        \/ /\ contract \in working
           /\ packets' = after.packets
           /\ callbacks' = DeletePacketCallback(after.callbacks, channel, sequence)
           /\ Notify(contract, channel, sequence, "timeout")

\* Mutant: an error of the callback fails the timeout, as it does an ack
OnTimeoutPacketOverrideMustSucceed(channel, sequence, reply) ==
  LET contract == GetPacketCallback(callbacks, channel, sequence)
      after == Sudo(Settled(channel, sequence), callbacks, contract, reply)
  IN /\ packets[channel][sequence].committed
     /\ packets[channel][sequence].outcome = "expired"
     /\ UNCHANGED <<working, lost>>
     /\ \/ /\ contract = NoCallback /\ reply = NoReply
           /\ packets' = Settled(channel, sequence)
           /\ UNCHANGED <<callbacks, told>>
        \/ /\ contract \in working
           /\ packets' = after.packets
           /\ callbacks' = DeletePacketCallback(after.callbacks, channel, sequence)
           /\ Notify(contract, channel, sequence, "timeout")

\* An error of the callback is only reported in an event.
OnTimeoutPacketOverride(channel, sequence, reply) ==
  LET contract == GetPacketCallback(callbacks, channel, sequence)
      after == Sudo(Settled(channel, sequence), callbacks, contract, reply)
  IN /\ packets[channel][sequence].committed
     /\ packets[channel][sequence].outcome = "expired"
     /\ UNCHANGED <<working, lost>>
     /\ \/ /\ contract \notin working /\ reply = NoReply
           /\ packets' = Settled(channel, sequence)
           /\ callbacks' = DeletePacketCallback(callbacks, channel, sequence)
           /\ UNCHANGED told
        \/ /\ contract \in working
           /\ packets' = after.packets
           /\ callbacks' = DeletePacketCallback(after.callbacks, channel, sequence)
           /\ Notify(contract, channel, sequence, "timeout")

\* A contract is broken, or repaired by a migration (external)
ContractChanges(contract) ==
  /\ working' = IF contract \in working THEN working \ {contract}
                                        ELSE working \cup {contract}
  /\ UNCHANGED <<packets, callbacks, told, lost>>

\* ExportGenesis writes "{}" and InitGenesis reads nothing: the store is lost,
\* while core IBC exports its commitments.
Restart ==
  /\ callbacks' = [key \in Keys |-> NoCallback]
  /\ lost' = lost \cup {key \in Keys : callbacks[key] # NoCallback}
  /\ UNCHANGED <<packets, working, told>>

Relay ==
  \E channel \in Channels : \E sequence \in DOMAIN packets[channel] :
    \/ Counterparty(channel, sequence)
    \/ \E reply \in Replies :
         \/ OnAcknowledgementPacketOverride(channel, sequence, reply)
         \/ OnTimeoutPacketOverride(channel, sequence, reply)

Next ==
  \/ \E channel \in Channels, callback \in Addresses \cup {Malformed, NoCallback} :
       SendPacket(channel, callback)
  \/ Relay
  \/ \E contract \in Contracts : ContractChanges(contract)
  \/ Restart

Spec == Init /\ [][Next]_vars

\* A packet is answered or expires, and some relayer brings that back.
FairSpec ==
  /\ Spec
  /\ \A key \in Keys :
       LET exists == key[2] \in DOMAIN packets[key[1]]
       IN /\ WF_vars(exists /\ Counterparty(key[1], key[2]))
          /\ WF_vars(exists /\ \E reply \in Replies :
                       \/ OnAcknowledgementPacketOverride(key[1], key[2], reply)
                       \/ OnTimeoutPacketOverride(key[1], key[2], reply))

----------------------------------------------------------------------------

ForAllPackets(P(_, _)) ==
  \A key \in Keys :
    key[2] \in DOMAIN packets[key[1]] => P(packets[key[1]][key[2]], key)

\* A contract is told once, only about packets that named it, and the truth: of a
\* success only when the tokens stay with the receiver, of a failure or a timeout
\* only when they have been refunded.
ToldOnceAndTruly ==
  ForAllPackets(LAMBDA packet, key :
    /\ Len(told[key]) <= 1
    /\ \A i \in DOMAIN told[key] :
         /\ told[key][i].contract = packet.callback
         /\ ~ packet.committed
         /\ told[key][i].message = "success" <=> ~ packet.refunded
         /\ told[key][i].message = "timeout" <=> packet.outcome = "expired")

\* The store holds no callback but those of packets still in flight: it does not
\* grow with failed callbacks, and none waits for an answer that cannot come.
CallbackOnlyInFlight ==
  \A key \in Keys :
    callbacks[key] # NoCallback =>
      /\ key[2] \in DOMAIN packets[key[1]]
      /\ packets[key[1]][key[2]].committed
      /\ packets[key[1]][key[2]].callback = callbacks[key]

\* A contract that asked to be told of a packet's acknowledgement is told in the
\* transaction that settles it: no acknowledged packet is kept from its listener,
\* except those whose callback a restart from exported genesis has lost.
AcknowledgedIsTold ==
  ForAllPackets(LAMBDA packet, key :
    /\ ~ packet.committed
    /\ packet.outcome \in {"accepted", "rejected"}
    /\ packet.callback \in Addresses
    /\ key \notin lost
    => told[key] # <<>>)

\* Every packet is settled in the end, unless it was acknowledged and its callback is
\* to an address where no contract answers; a timeout, and a packet without a
\* callback, is settled whatever happens.
SettlesUnlessCallbackFails ==
  \A c \in Channels, s \in 1 .. MaxPackets :
    s \in DOMAIN packets[c] ~>
      /\ s \in DOMAIN packets[c]
      /\ packets[c][s].committed =>
           /\ packets[c][s].outcome \in {"accepted", "rejected"}
           /\ packets[c][s].callback \in Addresses \ working
=============================================================================
