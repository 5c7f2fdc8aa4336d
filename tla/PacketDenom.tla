---------------------------- MODULE PacketDenom ----------------------------
(***************************************************************************)
(* How the contract finds the (channel, denom) key of a packet             *)
(* (packet.rs), against what the transfer module really credits            *)
(* (osmoutils.MustExtractDenomFromPacketOnRecv), while tokens travel       *)
(* between this chain and its counterparties.                              *)
(*                                                                         *)
(* A packet's denom is the sequence of the segments between its slashes;   *)
(* a local denom is either that text or the hash of it under "ibc/".       *)
(***************************************************************************)
EXTENDS Naturals, Sequences, FiniteSets

CONSTANTS
  LocalChannels, \* local channel ids
  Peer,          \* the counterparty's id of each local channel
  ChannelIds,    \* every text that has the format of a channel id
  TextPrefix,    \* <<a, b>>: the text of id a is a prefix of the text of id b
  Text,          \* the texts between the slashes of a denom
  Natives,       \* base denoms of this chain
  Foreign,       \* base denoms of other chains
  MaxSegments,   \* bound on the length of a denom
  MaxAway        \* bound on the transfers that are away

ASSUME PeerAssumption == Peer \in [LocalChannels -> ChannelIds] /\ LocalChannels \subseteq ChannelIds
ASSUME TextPrefixAssumption == \A id \in ChannelIds : <<id, id>> \in TextPrefix

VARIABLES
  held,   \* local denoms that exist on this chain
  away,   \* transfers that left: channel, token, key the contract used
  came    \* the last arrival, if any: the key the contract used and the right one

denomVars == <<held, away, came>>

hash_denom(denom) == [ibc |-> TRUE, path |-> denom]
Plain(denom) == [ibc |-> FALSE, path |-> denom]

StartsWith(denom, channel) == Len(denom) > 2 /\ denom[1] = "transfer" /\ denom[2] = channel
Unprefix(denom) == SubSeq(denom, 3, Len(denom))
Prefix(channel, denom) == <<"transfer", channel>> \o denom

Packet(source, destination, denom) ==
  [source_channel |-> source, destination_channel |-> destination, denom |-> denom]

\* ParseDenomTrace(denom).Path is not empty (external)
HasTrace(denom) == Len(denom) > 2 /\ denom[2] \in ChannelIds

\* Base denoms, with slashes or without, do not look like vouchers
ASSUME BaseAssumption ==
  /\ "transfer" \in Text /\ ChannelIds \subseteq Text
  /\ \A base \in Natives \cup Foreign : base \in Seq(Text) /\ Len(base) > 0 /\ base[1] # "transfer"
  /\ \A base \in Natives : ~HasTrace(base)

----------------------------------------------------------------------------
(* packet.rs                                                               *)

local_channel(packet, direction) ==
  IF direction = "In" THEN packet.destination_channel ELSE packet.source_channel

\* A text comparison, without the slash that ends the channel id
receiver_chain_is_source(packet) ==
  /\ Len(packet.denom) >= 2
  /\ packet.denom[1] = "transfer"
  /\ <<packet.source_channel, packet.denom[2]>> \in TextPrefix

handle_denom_for_sends(packet) ==
  IF Len(packet.denom) > 1 /\ packet.denom[1] = "transfer"
  THEN hash_denom(packet.denom)
  ELSE Plain(packet.denom)

\* strip_prefix(..).unwrap_or_default(): the empty denom when it does not match
unprefixed(packet) ==
  IF StartsWith(packet.denom, packet.source_channel) THEN Unprefix(packet.denom) ELSE <<>>

\* Mutant: a new voucher gets the counterparty's channel in its trace
handle_denom_for_recvsSource(packet) ==
  IF receiver_chain_is_source(packet)
  THEN IF Len(unprefixed(packet)) <= 1
       THEN Plain(unprefixed(packet))
       ELSE hash_denom(unprefixed(packet))
  ELSE hash_denom(Prefix(packet.source_channel, packet.denom))

\* Mutant: a returning token is never hashed, voucher or not
handle_denom_for_recvsNative(packet) ==
  IF receiver_chain_is_source(packet)
  THEN Plain(unprefixed(packet))
  ELSE hash_denom(Prefix(packet.destination_channel, packet.denom))

handle_denom_for_recvs(packet) ==
  IF receiver_chain_is_source(packet)
  THEN IF Len(unprefixed(packet)) <= 1
       THEN Plain(unprefixed(packet))
       ELSE hash_denom(unprefixed(packet))
  ELSE hash_denom(Prefix(packet.destination_channel, packet.denom))

local_denom(packet, direction) ==
  IF direction = "In" THEN handle_denom_for_recvs(packet) ELSE handle_denom_for_sends(packet)

path_data(packet, direction) ==
  <<local_channel(packet, direction), local_denom(packet, direction)>>

----------------------------------------------------------------------------
(* The transfer module.                                                    *)

MustExtractDenomFromPacketOnRecv(packet) ==
  IF StartsWith(packet.denom, packet.source_channel)
  THEN IF HasTrace(Unprefix(packet.denom))
       THEN hash_denom(Unprefix(packet.denom))
       ELSE Plain(Unprefix(packet.denom))
  ELSE hash_denom(Prefix(packet.destination_channel, packet.denom))

\* SendTransfer writes the whole trace into the packet (external)
Outgoing(channel, token) == Packet(channel, Peer[channel], token.path)

\* What a counterparty that follows ICS-20 sends back for a packet (external)
Returning(transfer) ==
  Packet(Peer[transfer.channel], transfer.channel,
         IF StartsWith(transfer.token.path, transfer.channel)
         THEN Unprefix(transfer.token.path)
         ELSE Prefix(Peer[transfer.channel], transfer.token.path))

\* Denoms of other chains, directly or over one other channel, that arrive on a
\* channel and did not come from here
ForeignDenoms(channel) ==
  Foreign \cup {Prefix(id, base) : id \in ChannelIds \ {Peer[channel]}, base \in Foreign}

Incoming(channel, denom) == Packet(Peer[channel], channel, denom)

----------------------------------------------------------------------------

DenomInit ==
  /\ held = {Plain(base) : base \in Natives}
  /\ away = {}
  /\ came = {}

Send(channel, token) ==
  /\ Len(token.path) + 2 <= MaxSegments
  /\ Cardinality(away) < MaxAway
  /\ away' = away \cup
       {[channel |-> channel, token |-> token,
         key |-> path_data(Outgoing(channel, token), "Out")]}
  /\ UNCHANGED <<held, came>>

OnRecvPacket(packet) ==
  LET credited == MustExtractDenomFromPacketOnRecv(packet)
  IN /\ held' = held \cup {credited}
     /\ came' = {[key |-> path_data(packet, "In"),
                   right |-> <<packet.destination_channel, credited>>]}

Return(transfer) ==
  /\ OnRecvPacket(Returning(transfer))
  /\ away' = away \ {transfer}

Recv(channel, denom) ==
  /\ Len(denom) + 2 <= MaxSegments
  /\ OnRecvPacket(Incoming(channel, denom))
  /\ UNCHANGED away

DenomNext ==
  \/ \E channel \in LocalChannels, token \in held : Send(channel, token)
  \/ \E transfer \in away : Return(transfer)
  \/ \E channel \in LocalChannels : \E denom \in ForeignDenoms(channel) : Recv(channel, denom)

DenomSpec == DenomInit /\ [][DenomNext]_denomVars

----------------------------------------------------------------------------

\* The two kinds of token that packet.rs does not know when they arrive on a channel:
\* one native to this chain whose name has a slash (gamm/pool/1, factory/..), which it
\* hashes, and one that the counterparty had received over a channel whose id
\* continues the id of its channel to us (channel-17 after channel-1), which it takes
\* for a token that comes back and reduces to the empty denom.
Misread(channel, token) ==
  \/ ~token.ibc /\ Len(token.path) > 1
  \/ /\ token.ibc /\ Len(token.path) > 4
     /\ token.path[2] = channel /\ token.path[3] = "transfer"
     /\ token.path[4] # Peer[channel] /\ <<Peer[channel], token.path[4]>> \in TextPrefix

\* On a receive the contract finds the local channel and the denom the transfer
\* module will credit, but for the tokens it misreads, wherever they have been.
RecvUsesCreditedDenom ==
  \A arrival \in came :
    (arrival.key = arrival.right) <=> ~Misread(arrival.right[1], arrival.right[2])

\* A token that comes back is counted under the key its send was counted under, so
\* that the return takes back from the quota what the send took: but for the tokens
\* that will be misread on that channel.
ReturnUsesKeyOfSend ==
  \A transfer \in away :
    (path_data(Returning(transfer), "In") = transfer.key)
      <=> ~Misread(transfer.channel, transfer.token)
=============================================================================
