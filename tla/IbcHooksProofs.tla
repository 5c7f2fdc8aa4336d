--------------------------- MODULE IbcHooksProofs ---------------------------
(***************************************************************************)
(* What ibc-hooks guarantees.                                              *)
(*                                                                         *)
(* Its callbacks are delivered once, truly and to the right contract, for  *)
(* every number of channels, contracts and packets.  The invariant is      *)
(* stated of one packet and of what the store and the history hold under   *)
(* its key, so that each handler only has to be examined at the key it     *)
(* writes.  A handler with a reply is the handler without one followed by  *)
(* a send.                                                                 *)
(*                                                                         *)
(* A transfer that calls a contract is all or nothing and leaves nothing   *)
(* in the derived account: for every set of channels, senders, accounts    *)
(* and memos.                                                              *)
(***************************************************************************)
EXTENDS PacketCallbacks, WasmRouting, Sums, TLAPS

\* A packet is open until it is settled, and then refunded unless it was accepted.
PacketOK(packet) ==
  /\ packet \in Packet
  /\ packet.outcome = "rejected" <=> packet.ack # NoError
  /\ packet.committed => ~ packet.refunded
  /\ ~ packet.committed => /\ packet.outcome # "pending"
                           /\ packet.refunded <=> packet.outcome # "accepted"

\* What is kept under the key of a packet that was sent: its callback while it is
\* open, what its contract was told once it is settled.
SentOK(packet, callback, notes, isLost) ==
  /\ callback # NoCallback => packet.committed /\ callback = packet.callback
  /\ packet.committed => notes = <<>>
  /\ packet.committed /\ packet.callback \in Addresses /\ ~ isLost
       => callback = packet.callback
  /\ ~ packet.committed /\ packet.outcome \in {"accepted", "rejected"}
       /\ packet.callback \in Addresses /\ ~ isLost => notes # <<>>
  /\ notes = <<>> \/ \E note \in Notification :
       /\ notes = <<note>>
       /\ note.contract = packet.callback
       /\ note.message = "success" <=> packet.outcome = "accepted"
       /\ note.message = "timeout" <=> packet.outcome = "expired"

\* Nothing is kept under the key of a packet that was not sent.
UnsentOK(callback, notes, isLost) == callback = NoCallback /\ notes = <<>> /\ ~ isLost

PacketsOK(ps) ==
  /\ ps \in [Channels -> Seq(Packet)]
  /\ \A c \in Channels : \A s \in 1 .. Len(ps[c]) : PacketOK(ps[c][s])

KeysOK(ps, store, notes, gone) ==
  /\ store \in [Keys -> Addresses \cup {NoCallback}]
  /\ notes \in [Keys -> Seq(Notification)]
  /\ gone \subseteq Keys
  /\ \A c \in Channels, s \in 1 .. MaxPackets :
       IF s \in 1 .. Len(ps[c])
       THEN SentOK(ps[c][s], store[<<c, s>>], notes[<<c, s>>], <<c, s>> \in gone)
       ELSE UnsentOK(store[<<c, s>>], notes[<<c, s>>], <<c, s>> \in gone)

IInv ==
  /\ PacketsOK(packets)
  /\ KeysOK(packets, callbacks, told, lost)
  /\ working \subseteq Contracts
----------------------------------------------------------------------------

\* An element of a sequence replaced, as core IBC does with a packet's state.
LEMMA ReplacedElement ==
  ASSUME NEW T, NEW seq \in Seq(T), NEW i \in 1 .. Len(seq), NEW v \in T
  PROVE  LET new == [seq EXCEPT ![i] = v]
         IN  /\ new \in Seq(T) /\ Len(new) = Len(seq) /\ new[i] = v
             /\ \A j \in 1 .. Len(seq) : j # i => new[j] = seq[j]
OBVIOUS

\* An element appended to a sequence, as for each packet that is sent.
LEMMA AppendedElement ==
  ASSUME NEW T, NEW seq \in Seq(T), NEW v \in T
  PROVE  LET new == Append(seq, v)
         IN  /\ new \in Seq(T) /\ Len(new) = Len(seq) + 1 /\ new[Len(seq) + 1] = v
             /\ Len(seq) \in Nat
             /\ \A j \in 1 .. Len(seq) : new[j] = seq[j]
OBVIOUS

\* One packet changes, on one channel.
LEMMA ReplacedPacket ==
  ASSUME NEW ps \in [Channels -> Seq(Packet)], NEW channel \in Channels,
         NEW sequence \in 1 .. Len(ps[channel]), NEW new \in Packet
  PROVE  LET qs == [ps EXCEPT ![channel][sequence] = new]
         IN  /\ qs \in [Channels -> Seq(Packet)]
             /\ \A c \in Channels : Len(qs[c]) = Len(ps[c])
             /\ qs[channel][sequence] = new
             /\ \A c \in Channels : \A s \in 1 .. Len(ps[c]) :
                  c # channel \/ s # sequence => qs[c][s] = ps[c][s]
<1> DEFINE seq == [ps[channel] EXCEPT ![sequence] = new]
           qs == [ps EXCEPT ![channel] = seq]
<1>1. /\ seq \in Seq(Packet) /\ Len(seq) = Len(ps[channel]) /\ seq[sequence] = new
      /\ \A j \in 1 .. Len(ps[channel]) : j # sequence => seq[j] = ps[channel][j]
  BY ReplacedElement
<1>2. [ps EXCEPT ![channel][sequence] = new] = qs
  OBVIOUS
<1>3. qs[channel] = seq /\ \A c \in Channels : c # channel => qs[c] = ps[c]
  OBVIOUS
<1>4. qs \in [Channels -> Seq(Packet)]
  BY <1>1
<1> HIDE DEF qs, seq
<1> QED
  BY <1>1, <1>2, <1>3, <1>4

\* What core IBC and the application leave behind of a packet they have settled
SettledPacket(packet) ==
  [packet EXCEPT !.committed = FALSE,
                 !.refunded = @ \/ packet.outcome # "accepted"]

\* Settling a packet changes that packet and no other.
LEMMA SettledIs ==
  ASSUME PacketsOK(packets), NEW channel \in Channels,
         NEW sequence \in 1 .. Len(packets[channel])
  PROVE  LET qs == Settled(channel, sequence)
             new == SettledPacket(packets[channel][sequence])
         IN  /\ qs = [packets EXCEPT ![channel][sequence] = new]
             /\ new \in Packet
<1> DEFINE packet == packets[channel][sequence]
<1>1. packet \in Packet
  BY DEF PacketsOK
<1>2. SettledPacket(packet) \in Packet
  BY <1>1 DEF SettledPacket, Packet
<1>3. Settled(channel, sequence) = [packets EXCEPT ![channel][sequence] = SettledPacket(packet)]
  BY <1>1 DEF Settled, SettledPacket, PacketsOK
<1> QED
  BY <1>2, <1>3

\* SendPacketOverride: the new packet is open, and its key, unused before, holds its
\* callback exactly if that is an address.
LEMMA SendOK ==
  ASSUME NEW ps, NEW store, NEW notes, NEW gone, NEW channel \in Channels,
         NEW callback \in Addresses \cup {Malformed, NoCallback},
         PacketsOK(ps), KeysOK(ps, store, notes, gone)
  PROVE  LET sent == SendPacketOverride(ps, store, channel, callback)
         IN  /\ PacketsOK(sent.packets)
             /\ KeysOK(sent.packets, sent.callbacks, notes, gone)
<1> DEFINE n == Len(ps[channel]) + 1
           qs == [ps EXCEPT ![channel] = Append(@, NewPacket(callback))]
           kept == SendPacketOverride(ps, store, channel, callback).callbacks
<1>1. /\ ps \in [Channels -> Seq(Packet)]
      /\ ps[channel] \in Seq(Packet)
      /\ Len(ps[channel]) \in Nat
      /\ n = Len(ps[channel]) + 1
  <2>1. ps \in [Channels -> Seq(Packet)]
    BY DEF PacketsOK
  <2>2. ps[channel] \in Seq(Packet)
    BY <2>1
  <2>3. Len(ps[channel]) \in Nat
    BY <2>2
  <2> QED
    BY <2>1, <2>2, <2>3
<1> HIDE DEF n
<1>2. PacketOK(NewPacket(callback)) /\ NewPacket(callback) \in Packet
  BY AckErrorsAssumption DEF PacketOK, NewPacket, Packet, Outcomes
<1>3. /\ qs \in [Channels -> Seq(Packet)]
      /\ Len(qs[channel]) = n /\ qs[channel][n] = NewPacket(callback)
      /\ \A s \in 1 .. Len(ps[channel]) : qs[channel][s] = ps[channel][s]
      /\ \A c \in Channels : c # channel => qs[c] = ps[c]
  <2> DEFINE seq == Append(ps[channel], NewPacket(callback))
  <2>1. /\ seq \in Seq(Packet) /\ Len(seq) = n /\ seq[n] = NewPacket(callback)
        /\ \A j \in 1 .. Len(ps[channel]) : seq[j] = ps[channel][j]
    BY <1>1, <1>2, AppendedElement
  <2> HIDE DEF seq
  <2>2. qs = [ps EXCEPT ![channel] = seq]
    BY DEF seq
  <2> HIDE DEF qs, n
  <2> QED
    BY <1>1, <2>1, <2>2
<1>4. PacketsOK(qs)
  <2> HIDE DEF qs
  <2>1. ASSUME NEW c \in Channels, NEW s \in 1 .. Len(qs[c])
        PROVE  PacketOK(qs[c][s])
    <3>1. CASE c = channel /\ s = n
      BY <1>2, <1>3, <3>1
    <3>2. CASE c = channel /\ s # n
      <4>1. s \in 1 .. Len(ps[c])
        BY <1>1, <1>3, <3>2
      <4> QED
        BY <1>3, <3>2, <4>1 DEF PacketsOK
    <3>3. CASE c # channel
      BY <1>3, <3>3 DEF PacketsOK
    <3> QED
      BY <3>1, <3>2, <3>3
  <2> QED
    BY <1>3, <2>1 DEF PacketsOK
<1>5. /\ kept \in [Keys -> Addresses \cup {NoCallback}]
      /\ \A key \in Keys : key # <<channel, n>> => kept[key] = store[key]
      /\ <<channel, n>> \in Keys =>
           kept[<<channel, n>>] = IF callback \in Addresses THEN callback
                                  ELSE store[<<channel, n>>]
  <2> HIDE DEF n
  <2>1. store \in [Keys -> Addresses \cup {NoCallback}]
    BY DEF KeysOK
  <2>2. kept = IF callback \in Addresses THEN [store EXCEPT ![<<channel, n>>] = callback]
               ELSE store
    BY DEF SendPacketOverride, StorePacketCallback, GetPacketKey, n
  <2> HIDE DEF kept
  <2> QED
    BY <2>1, <2>2
<1>6. ASSUME NEW c \in Channels, NEW s \in 1 .. MaxPackets
      PROVE  IF s \in 1 .. Len(qs[c])
             THEN SentOK(qs[c][s], kept[<<c, s>>], notes[<<c, s>>], <<c, s>> \in gone)
             ELSE UnsentOK(kept[<<c, s>>], notes[<<c, s>>], <<c, s>> \in gone)
  <2> HIDE DEF qs, kept
  <2>0. <<c, s>> \in Keys
    BY DEF Keys
  <2>1. IF s \in 1 .. Len(ps[c])
        THEN SentOK(ps[c][s], store[<<c, s>>], notes[<<c, s>>], <<c, s>> \in gone)
        ELSE UnsentOK(store[<<c, s>>], notes[<<c, s>>], <<c, s>> \in gone)
    BY DEF KeysOK
  <2>2. CASE c = channel /\ s = n
    <3>1. UnsentOK(store[<<c, s>>], notes[<<c, s>>], <<c, s>> \in gone)
      BY <1>1, <2>1, <2>2
    <3>2. qs[c][s] = NewPacket(callback) /\ s \in 1 .. Len(qs[c])
      BY <1>1, <1>3, <2>2
    <3>3. kept[<<c, s>>] = IF callback \in Addresses THEN callback ELSE NoCallback
      BY <1>5, <2>0, <2>2, <3>1 DEF UnsentOK
    <3>4. SentOK(NewPacket(callback), kept[<<c, s>>], notes[<<c, s>>], <<c, s>> \in gone)
      BY <3>1, <3>3 DEF SentOK, UnsentOK, NewPacket
    <3> QED
      BY <3>2, <3>4
  <2>3. CASE ~ (c = channel /\ s = n)
    <3>1. kept[<<c, s>>] = store[<<c, s>>]
      BY <1>5, <2>0, <2>3
    <3>2. s \in 1 .. Len(qs[c]) <=> s \in 1 .. Len(ps[c])
      BY <1>1, <1>3, <2>3
    <3>3. s \in 1 .. Len(ps[c]) => qs[c][s] = ps[c][s]
      BY <1>3
    <3> QED
      BY <2>1, <3>1, <3>2, <3>3
  <2> QED
    BY <2>2, <2>3
<1>7. SendPacketOverride(ps, store, channel, callback).packets = qs
  BY DEF SendPacketOverride
<1>8. KeysOK(qs, kept, notes, gone)
  <2> HIDE DEF qs, kept
  <2> QED
    BY <1>5, <1>6 DEF KeysOK
<1> HIDE DEF qs, kept
<1> QED
  BY <1>4, <1>7, <1>8 DEF kept

\* A handler that replaces one packet, and writes nothing but under its key, keeps
\* the invariant if what it leaves under that key fits the new packet.
LEMMA ReplaceOK ==
  ASSUME PacketsOK(packets), KeysOK(packets, callbacks, told, lost),
         NEW channel \in Channels, NEW sequence \in 1 .. Len(packets[channel]),
         NEW new \in Packet, PacketOK(new),
         NEW store1 \in [Keys -> Addresses \cup {NoCallback}],
         NEW notes1 \in [Keys -> Seq(Notification)],
         \A key \in Keys : key # <<channel, sequence>> =>
           store1[key] = callbacks[key] /\ notes1[key] = told[key],
         <<channel, sequence>> \in Keys =>
           SentOK(new, store1[<<channel, sequence>>], notes1[<<channel, sequence>>],
                  <<channel, sequence>> \in lost)
  PROVE  LET qs == [packets EXCEPT ![channel][sequence] = new]
         IN  PacketsOK(qs) /\ KeysOK(qs, store1, notes1, lost)
<1> DEFINE qs == [packets EXCEPT ![channel][sequence] = new]
<1>1. /\ qs \in [Channels -> Seq(Packet)]
      /\ \A c \in Channels : Len(qs[c]) = Len(packets[c])
      /\ qs[channel][sequence] = new
      /\ \A c \in Channels : \A s \in 1 .. Len(packets[c]) :
           c # channel \/ s # sequence => qs[c][s] = packets[c][s]
  BY ReplacedPacket DEF PacketsOK
<1> HIDE DEF qs
<1>2. PacketsOK(qs)
  BY <1>1 DEF PacketsOK
<1>3. ASSUME NEW c \in Channels, NEW s \in 1 .. MaxPackets
      PROVE  IF s \in 1 .. Len(qs[c])
             THEN SentOK(qs[c][s], store1[<<c, s>>], notes1[<<c, s>>], <<c, s>> \in lost)
             ELSE UnsentOK(store1[<<c, s>>], notes1[<<c, s>>], <<c, s>> \in lost)
  <2>1. <<c, s>> \in Keys
    BY DEF Keys
  <2>2. IF s \in 1 .. Len(packets[c])
        THEN SentOK(packets[c][s], callbacks[<<c, s>>], told[<<c, s>>], <<c, s>> \in lost)
        ELSE UnsentOK(callbacks[<<c, s>>], told[<<c, s>>], <<c, s>> \in lost)
    BY DEF KeysOK
  <2>3. CASE c = channel /\ s = sequence
    BY <1>1, <2>1, <2>3
  <2>4. CASE ~ (c = channel /\ s = sequence)
    <3>1. store1[<<c, s>>] = callbacks[<<c, s>>] /\ notes1[<<c, s>>] = told[<<c, s>>]
      BY <2>1, <2>4
    <3> QED
      BY <1>1, <2>2, <2>4, <3>1
  <2> QED
    BY <2>3, <2>4
<1>4. KeysOK(qs, store1, notes1, lost)
  BY <1>3 DEF KeysOK
<1> QED
  BY <1>2, <1>4 DEF qs

\* What a contract sends from its sudo entry point: the handler then deletes the
\* callback of the packet it handles, which is not the one just stored.
LEMMA SudoOK ==
  ASSUME NEW ps, NEW store \in [Keys -> Addresses \cup {NoCallback}], NEW notes, NEW gone,
         NEW channel \in Channels, NEW sequence \in 1 .. Len(ps[channel]),
         NEW contract \in Contracts, NEW reply \in Replies,
         PacketsOK(ps),
         KeysOK(ps, DeletePacketCallback(store, channel, sequence), notes, gone)
  PROVE  LET after == Sudo(ps, store, contract, reply)
         IN  /\ PacketsOK(after.packets)
             /\ KeysOK(after.packets,
                       DeletePacketCallback(after.callbacks, channel, sequence), notes, gone)
<1>1. CASE reply = NoReply
  BY <1>1 DEF Sudo
<1>2. CASE reply # NoReply
  <2> DEFINE key == <<channel, sequence>>
             n == Len(ps[reply]) + 1
             deleted == DeletePacketCallback(store, channel, sequence)
             sent == SendPacketOverride(ps, store, reply, contract)
             sent1 == SendPacketOverride(ps, deleted, reply, contract)
  <2>1. reply \in Channels /\ contract \in Addresses
    BY <1>2 DEF Replies, Addresses
  <2>2. PacketsOK(sent1.packets) /\ KeysOK(sent1.packets, sent1.callbacks, notes, gone)
    <3> HIDE DEF deleted
    <3> QED
      BY <2>1, SendOK DEF deleted
  <2>3. sent.packets = sent1.packets
    BY DEF SendPacketOverride
  <2>4. <<reply, n>> # key
    <3>1. ps[reply] \in Seq(Packet)
      BY <2>1 DEF PacketsOK
    <3>2. Len(ps[reply]) \in Nat
      BY <3>1
    <3> QED
      BY <3>2
  <2>5. [[store EXCEPT ![key] = NoCallback] EXCEPT ![<<reply, n>>] = contract]
        = [[store EXCEPT ![<<reply, n>>] = contract] EXCEPT ![key] = NoCallback]
    <3> HIDE DEF n, key
    <3> QED
      BY <2>4
  <2>6. DeletePacketCallback(sent.callbacks, channel, sequence) = sent1.callbacks
    BY <2>1, <2>5 DEF SendPacketOverride, StorePacketCallback, DeletePacketCallback, GetPacketKey
  <2>7. Sudo(ps, store, contract, reply) = sent
    BY <1>2 DEF Sudo
  <2> HIDE DEF sent, sent1
  <2> QED
    BY <2>2, <2>3, <2>6, <2>7
<1> QED
  BY <1>1, <1>2

\* What is known of one packet that was sent
LEMMA PacketFacts ==
  ASSUME IInv, NEW channel \in Channels, NEW sequence \in DOMAIN packets[channel]
  PROVE  /\ sequence \in 1 .. Len(packets[channel])
         /\ PacketOK(packets[channel][sequence])
         /\ <<channel, sequence>> \in Keys =>
              SentOK(packets[channel][sequence], callbacks[<<channel, sequence>>],
                     told[<<channel, sequence>>], <<channel, sequence>> \in lost)
<1>1. packets[channel] \in Seq(Packet)
  BY DEF IInv, PacketsOK
<1>2. sequence \in 1 .. Len(packets[channel])
  BY <1>1
<1>3. <<channel, sequence>> \in Keys => sequence \in 1 .. MaxPackets
  BY DEF Keys
<1> QED
  BY <1>2, <1>3 DEF IInv, PacketsOK, KeysOK

\* A settled packet is as a packet should be.
LEMMA SettledPacketOK ==
  ASSUME NEW packet, PacketOK(packet), packet.committed, packet.outcome # "pending"
  PROVE  /\ SettledPacket(packet) \in Packet
         /\ PacketOK(SettledPacket(packet))
         /\ ~ SettledPacket(packet).committed
         /\ SettledPacket(packet).callback = packet.callback
         /\ SettledPacket(packet).outcome = packet.outcome
BY DEF PacketOK, SettledPacket, Packet

\* The handler of an acknowledgement or a timeout when no contract accepts a
\* notification: the callback is deleted if there was one.
LEMMA SettleSilentlyOK ==
  ASSUME IInv, NEW channel \in Channels, NEW sequence \in DOMAIN packets[channel],
         packets[channel][sequence].committed,
         \/ packets[channel][sequence].outcome = "expired"
         \/ /\ packets[channel][sequence].outcome \in {"accepted", "rejected"}
            /\ <<channel, sequence>> \in Keys => callbacks[<<channel, sequence>>] = NoCallback
  PROVE  LET qs == Settled(channel, sequence)
         IN  /\ PacketsOK(qs)
             /\ KeysOK(qs, DeletePacketCallback(callbacks, channel, sequence), told, lost)
<1> DEFINE key == <<channel, sequence>>
           packet == packets[channel][sequence]
           new == SettledPacket(packet)
           store1 == [callbacks EXCEPT ![key] = NoCallback]
<1>1. /\ sequence \in 1 .. Len(packets[channel]) /\ PacketOK(packet)
      /\ key \in Keys => SentOK(packet, callbacks[key], told[key], key \in lost)
  BY PacketFacts
<1>2. Settled(channel, sequence) = [packets EXCEPT ![channel][sequence] = new]
  BY <1>1, SettledIs DEF IInv
<1>3. /\ new \in Packet /\ PacketOK(new) /\ ~ new.committed
      /\ new.callback = packet.callback /\ new.outcome = packet.outcome
  BY <1>1, SettledPacketOK
<1>4. /\ callbacks \in [Keys -> Addresses \cup {NoCallback}]
      /\ told \in [Keys -> Seq(Notification)]
  BY DEF IInv, KeysOK
<1>5. /\ store1 \in [Keys -> Addresses \cup {NoCallback}]
      /\ \A k \in Keys : k # key => store1[k] = callbacks[k]
      /\ key \in Keys => store1[key] = NoCallback
  BY <1>4
<1> HIDE DEF packet, new, store1
<1>6. key \in Keys => SentOK(new, store1[key], told[key], key \in lost)
  <2> SUFFICES ASSUME key \in Keys
               PROVE  SentOK(new, NoCallback, told[key], key \in lost)
    BY <1>5
  <2>1. told[key] = <<>>
    BY <1>1 DEF SentOK, packet
  <2>2. NoCallback \notin Addresses
    BY CallbackValuesAssumption DEF Addresses
  <2>3. packet.outcome \in {"accepted", "rejected"} /\ packet.callback \in Addresses => key \in lost
    BY <1>1, <2>2 DEF SentOK, packet
  <2> QED
    BY <1>3, <2>1, <2>3 DEF SentOK
<1>7. LET qs == [packets EXCEPT ![channel][sequence] = new]
      IN  PacketsOK(qs) /\ KeysOK(qs, store1, told, lost)
  <2>1. PacketsOK(packets) /\ KeysOK(packets, callbacks, told, lost)
    BY DEF IInv
  <2>2. \A k \in Keys : k # <<channel, sequence>> =>
          store1[k] = callbacks[k] /\ told[k] = told[k]
    BY <1>5
  <2> QED
    BY <1>1, <1>3, <1>4, <1>5, <1>6, <2>1, <2>2, ReplaceOK
<1> QED
  BY <1>2, <1>7 DEF DeletePacketCallback, GetPacketKey, store1

\* The same when the contract that is stored for the packet is told of it.
LEMMA SettleAndTellOK ==
  ASSUME IInv, NEW channel \in Channels, NEW sequence \in DOMAIN packets[channel],
         packets[channel][sequence].committed,
         packets[channel][sequence].outcome # "pending",
         NEW contract \in Contracts, contract = callbacks[<<channel, sequence>>],
         NEW message \in {"success", "failure", "timeout"},
         message = "success" <=> packets[channel][sequence].outcome = "accepted",
         message = "timeout" <=> packets[channel][sequence].outcome = "expired"
  PROVE  LET qs == Settled(channel, sequence)
             notes == [told EXCEPT ![<<channel, sequence>>] =
                         Append(@, [contract |-> contract, message |-> message])]
         IN  /\ PacketsOK(qs)
             /\ KeysOK(qs, DeletePacketCallback(callbacks, channel, sequence), notes, lost)
<1> DEFINE key == <<channel, sequence>>
           packet == packets[channel][sequence]
           new == SettledPacket(packet)
           note == [contract |-> contract, message |-> message]
           store1 == [callbacks EXCEPT ![key] = NoCallback]
           notes1 == [told EXCEPT ![key] = Append(@, note)]
<1>1. /\ sequence \in 1 .. Len(packets[channel]) /\ PacketOK(packet)
      /\ key \in Keys => SentOK(packet, callbacks[key], told[key], key \in lost)
  BY PacketFacts
<1>2. Settled(channel, sequence) = [packets EXCEPT ![channel][sequence] = new]
  BY <1>1, SettledIs DEF IInv
<1>3. /\ new \in Packet /\ PacketOK(new) /\ ~ new.committed
      /\ new.callback = packet.callback /\ new.outcome = packet.outcome
  BY <1>1, SettledPacketOK
<1>4. /\ callbacks \in [Keys -> Addresses \cup {NoCallback}]
      /\ told \in [Keys -> Seq(Notification)]
  BY DEF IInv, KeysOK
<1>5. /\ store1 \in [Keys -> Addresses \cup {NoCallback}]
      /\ \A k \in Keys : k # key => store1[k] = callbacks[k]
      /\ key \in Keys => store1[key] = NoCallback
  BY <1>4
<1>6. note \in Notification /\ note.contract = contract /\ note.message = message
  BY DEF Notification
<1> HIDE DEF packet, new, store1, note
<1>7. key \in Keys => told[key] = <<>> /\ packet.callback = contract
  <2>1. contract # NoCallback
    BY CallbackValuesAssumption
  <2> QED
    BY <1>1, <2>1 DEF SentOK, packet
<1>8. /\ notes1 \in [Keys -> Seq(Notification)]
      /\ \A k \in Keys : k # key => notes1[k] = told[k]
      /\ key \in Keys => notes1[key] = <<note>>
  <2>1. Append(<<>>, note) = <<note>> /\ <<note>> \in Seq(Notification)
    BY <1>6
  <2>2. CASE key \in Keys
    BY <1>4, <1>7, <2>1, <2>2
  <2>3. CASE key \notin Keys
    BY <1>4, <2>3
  <2> QED
    BY <2>2, <2>3
<1> HIDE DEF notes1
<1>9. key \in Keys => SentOK(new, store1[key], notes1[key], key \in lost)
  <2> SUFFICES ASSUME key \in Keys
               PROVE  SentOK(new, NoCallback, <<note>>, key \in lost)
    BY <1>5, <1>8
  <2>1. <<note>> # <<>>
    OBVIOUS
  <2> QED
    BY <1>3, <1>6, <1>7, <2>1 DEF SentOK, packet
<1>10. LET qs == [packets EXCEPT ![channel][sequence] = new]
       IN  PacketsOK(qs) /\ KeysOK(qs, store1, notes1, lost)
  <2>1. PacketsOK(packets) /\ KeysOK(packets, callbacks, told, lost)
    BY DEF IInv
  <2>2. \A k \in Keys : k # <<channel, sequence>> =>
          store1[k] = callbacks[k] /\ notes1[k] = told[k]
    BY <1>5, <1>8
  <2>3. /\ store1 \in [Keys -> Addresses \cup {NoCallback}]
        /\ notes1 \in [Keys -> Seq(Notification)]
    BY <1>5, <1>8
  <2>4. new \in Packet /\ PacketOK(new) /\ sequence \in 1 .. Len(packets[channel])
    BY <1>1, <1>3
  <2> QED
    BY <1>9, <2>1, <2>2, <2>3, <2>4, ReplaceOK
<1> QED
  BY <1>2, <1>10 DEF DeletePacketCallback, GetPacketKey, store1, notes1, note
----------------------------------------------------------------------------
(* One lemma per action.                                                   *)

\* At genesis no packet was sent, no callback is stored and no contract was told.
LEMMA InitOK ==
  ASSUME Init
  PROVE  IInv
<1>1. packets \in [Channels -> Seq(Packet)] /\ \A c \in Channels : Len(packets[c]) = 0
  BY DEF Init
<1>2. PacketsOK(packets)
  BY <1>1 DEF PacketsOK
<1>3. ASSUME NEW c \in Channels, NEW s \in 1 .. MaxPackets
      PROVE  /\ s \notin 1 .. Len(packets[c])
             /\ UnsentOK(callbacks[<<c, s>>], told[<<c, s>>], <<c, s>> \in lost)
  <2>1. <<c, s>> \in Keys
    BY DEF Keys
  <2> QED
    BY <1>1, <2>1 DEF Init, UnsentOK
<1>4. /\ callbacks \in [Keys -> Addresses \cup {NoCallback}]
      /\ told \in [Keys -> Seq(Notification)]
      /\ lost \subseteq Keys
  BY DEF Init
<1>5. KeysOK(packets, callbacks, told, lost)
  BY <1>3, <1>4 DEF KeysOK
<1> QED
  BY <1>2, <1>5 DEF IInv, Init

\* The counterparty's answer, or its absence, decides the outcome of an open packet.
LEMMA CounterpartyOK ==
  ASSUME IInv, NEW channel \in Channels, NEW sequence \in DOMAIN packets[channel],
         Counterparty(channel, sequence)
  PROVE  IInv'
<1> DEFINE key == <<channel, sequence>>
           packet == packets[channel][sequence]
<1>1. /\ sequence \in 1 .. Len(packets[channel]) /\ PacketOK(packet)
      /\ key \in Keys => SentOK(packet, callbacks[key], told[key], key \in lost)
  BY PacketFacts
<1>2. packet.outcome = "pending"
  BY DEF Counterparty
<1>3. packet.committed
  BY <1>1, <1>2 DEF PacketOK
<1>4. PICK outcome \in {"accepted", "rejected", "expired"}, ack \in AckErrors \cup {NoError} :
        /\ outcome = "rejected" <=> ack # NoError
        /\ packets' = [packets EXCEPT ![channel][sequence] =
                         [packet EXCEPT !.outcome = outcome, !.ack = ack]]
  <2>1. packet \in Packet /\ packet.ack = NoError
    BY <1>1, <1>2 DEF PacketOK
  <2>2. packet = [packet EXCEPT !.ack = NoError]
    BY <2>1 DEF Packet
  <2>3. CASE packets' = [packets EXCEPT ![channel][sequence].outcome = "accepted"]
    <3>1. [packet EXCEPT !.outcome = "accepted"]
          = [packet EXCEPT !.outcome = "accepted", !.ack = NoError]
      BY <2>1 DEF Packet
    <3>2. packets' = [packets EXCEPT ![channel][sequence] = [packet EXCEPT !.outcome = "accepted"]]
      BY <2>3
    <3> QED
      BY <3>1, <3>2
  <2>4. CASE packets' = [packets EXCEPT ![channel][sequence].outcome = "expired"]
    <3>1. [packet EXCEPT !.outcome = "expired"]
          = [packet EXCEPT !.outcome = "expired", !.ack = NoError]
      BY <2>1 DEF Packet
    <3>2. packets' = [packets EXCEPT ![channel][sequence] = [packet EXCEPT !.outcome = "expired"]]
      BY <2>4
    <3> QED
      BY <3>1, <3>2
  <2>5. ASSUME NEW error \in AckErrors,
               packets' = [packets EXCEPT ![channel][sequence].outcome = "rejected",
                                          ![channel][sequence].ack = error]
        PROVE  packets' = [packets EXCEPT ![channel][sequence] =
                            [packet EXCEPT !.outcome = "rejected", !.ack = error]]
    BY <1>1, <2>5 DEF IInv, PacketsOK
  <2>6. \A error \in AckErrors : error # NoError
    BY AckErrorsAssumption
  <2> QED
    BY <2>3, <2>4, <2>5, <2>6 DEF Counterparty
<1> DEFINE new == [packet EXCEPT !.outcome = outcome, !.ack = ack]
<1>5. /\ new \in Packet /\ PacketOK(new) /\ new.committed
      /\ new.callback = packet.callback
  BY <1>1, <1>2, <1>3, <1>4 DEF PacketOK, Packet, Outcomes
<1> HIDE DEF new
<1>6. key \in Keys => SentOK(new, callbacks[key], told[key], key \in lost)
  BY <1>1, <1>3, <1>5 DEF SentOK
<1>7. LET qs == [packets EXCEPT ![channel][sequence] = new]
      IN  PacketsOK(qs) /\ KeysOK(qs, callbacks, told, lost)
  <2>1. PacketsOK(packets) /\ KeysOK(packets, callbacks, told, lost)
    BY DEF IInv
  <2>2. /\ callbacks \in [Keys -> Addresses \cup {NoCallback}]
        /\ told \in [Keys -> Seq(Notification)]
    BY <2>1 DEF KeysOK
  <2> QED
    BY <1>1, <1>5, <1>6, <2>1, <2>2, ReplaceOK
<1> QED
  BY <1>4, <1>7 DEF IInv, Counterparty, new

\* The contract is told, may send a packet of its own, and its callback is deleted.
LEMMA TellAndReplyOK ==
  ASSUME IInv, NEW channel \in Channels, NEW sequence \in DOMAIN packets[channel],
         NEW reply \in Replies,
         packets[channel][sequence].committed,
         packets[channel][sequence].outcome # "pending",
         NEW contract \in Contracts, contract = callbacks[<<channel, sequence>>],
         NEW message \in {"success", "failure", "timeout"},
         message = "success" <=> packets[channel][sequence].outcome = "accepted",
         message = "timeout" <=> packets[channel][sequence].outcome = "expired",
         packets' = Sudo(Settled(channel, sequence), callbacks, contract, reply).packets,
         callbacks' = DeletePacketCallback(
                        Sudo(Settled(channel, sequence), callbacks, contract, reply).callbacks,
                        channel, sequence),
         Notify(contract, channel, sequence, message),
         UNCHANGED <<working, lost>>
  PROVE  IInv'
<1> DEFINE qs == Settled(channel, sequence)
<1>1. /\ PacketsOK(qs)
      /\ KeysOK(qs, DeletePacketCallback(callbacks, channel, sequence), told', lost)
  BY SettleAndTellOK DEF Notify
<1>2. sequence \in 1 .. Len(qs[channel])
  <2>1. sequence \in 1 .. Len(packets[channel]) /\ PacketsOK(packets)
    BY PacketFacts DEF IInv
  <2>2. /\ qs = [packets EXCEPT ![channel][sequence] = SettledPacket(packets[channel][sequence])]
        /\ SettledPacket(packets[channel][sequence]) \in Packet
    BY <2>1, SettledIs
  <2>3. packets \in [Channels -> Seq(Packet)]
    BY <2>1 DEF PacketsOK
  <2>4. Len(qs[channel]) = Len(packets[channel])
    BY <2>1, <2>2, <2>3, ReplacedPacket
  <2> QED
    BY <2>1, <2>4
<1>3. callbacks \in [Keys -> Addresses \cup {NoCallback}]
  BY DEF IInv, KeysOK
<1> HIDE DEF qs
<1>4. LET after == Sudo(qs, callbacks, contract, reply)
      IN  /\ PacketsOK(after.packets)
          /\ KeysOK(after.packets,
                    DeletePacketCallback(after.callbacks, channel, sequence), told', lost)
  BY <1>1, <1>2, <1>3, SudoOK
<1> QED
  BY <1>4 DEF IInv, qs

\* OnAcknowledgementPacketOverride: nothing is stored for the packet, or its contract
\* accepts the notification (an error of the contract leaves no step).
LEMMA AcknowledgementOK ==
  ASSUME IInv, NEW channel \in Channels, NEW sequence \in DOMAIN packets[channel],
         NEW reply \in Replies, OnAcknowledgementPacketOverride(channel, sequence, reply)
  PROVE  IInv'
<1> DEFINE key == <<channel, sequence>>
           packet == packets[channel][sequence]
           contract == callbacks[key]
<1>1. /\ packet.committed /\ packet.outcome \in {"accepted", "rejected"}
      /\ UNCHANGED <<working, lost>>
  BY DEF OnAcknowledgementPacketOverride
<1>2. CASE /\ contract = NoCallback
           /\ packets' = Settled(channel, sequence)
           /\ UNCHANGED <<callbacks, told>>
  <2>1. /\ PacketsOK(packets')
        /\ KeysOK(packets', DeletePacketCallback(callbacks, channel, sequence), told, lost)
    BY <1>1, <1>2, SettleSilentlyOK
  <2>2. DeletePacketCallback(callbacks, channel, sequence) = callbacks
    <3>1. callbacks \in [Keys -> Addresses \cup {NoCallback}]
      BY DEF IInv, KeysOK
    <3> QED
      BY <1>2, <3>1 DEF DeletePacketCallback, GetPacketKey
  <2> QED
    BY <1>1, <1>2, <2>1, <2>2 DEF IInv
<1>3. CASE /\ contract \in working
           /\ packets' = Sudo(Settled(channel, sequence), callbacks, contract, reply).packets
           /\ callbacks' = DeletePacketCallback(
                             Sudo(Settled(channel, sequence), callbacks, contract, reply).callbacks,
                             channel, sequence)
           /\ Notify(contract, channel, sequence, AckMessage(packet))
  <2>1. PacketOK(packet)
    BY PacketFacts
  <2>2. /\ AckMessage(packet) \in {"success", "failure", "timeout"}
        /\ AckMessage(packet) = "success" <=> packet.outcome = "accepted"
        /\ AckMessage(packet) = "timeout" <=> packet.outcome = "expired"
    BY <1>1, <2>1 DEF AckMessage, IsAckError, PacketOK
  <2>3. contract \in Contracts
    BY <1>3 DEF IInv
  <2> QED
    BY <1>1, <1>3, <2>2, <2>3, TellAndReplyOK
<1> QED
  BY <1>2, <1>3 DEF OnAcknowledgementPacketOverride, GetPacketCallback, GetPacketKey

\* OnTimeoutPacketOverride: the contract is told, or its error is only reported.
LEMMA TimeoutOK ==
  ASSUME IInv, NEW channel \in Channels, NEW sequence \in DOMAIN packets[channel],
         NEW reply \in Replies, OnTimeoutPacketOverride(channel, sequence, reply)
  PROVE  IInv'
<1> DEFINE contract == callbacks[<<channel, sequence>>]
<1>1. /\ packets[channel][sequence].committed
      /\ packets[channel][sequence].outcome = "expired"
      /\ UNCHANGED <<working, lost>>
  BY DEF OnTimeoutPacketOverride
<1>2. CASE /\ packets' = Settled(channel, sequence)
           /\ callbacks' = DeletePacketCallback(callbacks, channel, sequence)
           /\ UNCHANGED told
  BY <1>1, <1>2, SettleSilentlyOK DEF IInv
<1>3. CASE /\ contract \in working
           /\ packets' = Sudo(Settled(channel, sequence), callbacks, contract, reply).packets
           /\ callbacks' = DeletePacketCallback(
                             Sudo(Settled(channel, sequence), callbacks, contract, reply).callbacks,
                             channel, sequence)
           /\ Notify(contract, channel, sequence, "timeout")
  <2>1. contract \in Contracts
    BY <1>3 DEF IInv
  <2> QED
    BY <1>1, <1>3, <2>1, TellAndReplyOK
<1> QED
  BY <1>2, <1>3 DEF OnTimeoutPacketOverride, GetPacketCallback, GetPacketKey

\* A restart forgets every callback, and remembers whose it forgot.
LEMMA RestartOK ==
  ASSUME IInv, Restart
  PROVE  IInv'
<1>1. ASSUME NEW c \in Channels, NEW s \in 1 .. MaxPackets
      PROVE  IF s \in 1 .. Len(packets[c])
             THEN SentOK(packets[c][s], NoCallback, told[<<c, s>>], <<c, s>> \in lost')
             ELSE UnsentOK(NoCallback, told[<<c, s>>], <<c, s>> \in lost')
  <2>1. <<c, s>> \in Keys
    BY DEF Keys
  <2>2. IF s \in 1 .. Len(packets[c])
        THEN SentOK(packets[c][s], callbacks[<<c, s>>], told[<<c, s>>], <<c, s>> \in lost)
        ELSE UnsentOK(callbacks[<<c, s>>], told[<<c, s>>], <<c, s>> \in lost)
    BY DEF IInv, KeysOK
  <2>3. <<c, s>> \in lost' <=> <<c, s>> \in lost \/ callbacks[<<c, s>>] # NoCallback
    BY <2>1 DEF Restart
  <2>4. CASE s \in 1 .. Len(packets[c])
    <3>1. NoCallback \notin Addresses
      BY CallbackValuesAssumption DEF Addresses
    <3> QED
      BY <2>2, <2>3, <2>4, <3>1 DEF SentOK
  <2>5. CASE s \notin 1 .. Len(packets[c])
    BY <2>2, <2>3, <2>5 DEF UnsentOK
  <2> QED
    BY <2>4, <2>5
<1>2. ASSUME NEW c \in Channels, NEW s \in 1 .. MaxPackets
      PROVE  callbacks'[<<c, s>>] = NoCallback
  BY DEF Restart, Keys
<1>3. /\ callbacks' \in [Keys -> Addresses \cup {NoCallback}]
      /\ told \in [Keys -> Seq(Notification)]
      /\ lost' \subseteq Keys
  BY DEF Restart, IInv, KeysOK
<1>4. KeysOK(packets, callbacks', told, lost')
  BY <1>1, <1>2, <1>3 DEF KeysOK
<1> QED
  BY <1>4 DEF Restart, IInv

\* Every step keeps the invariant.
LEMMA NextOK ==
  ASSUME IInv, [Next]_vars
  PROVE  IInv'
<1>1. ASSUME NEW channel \in Channels, NEW callback \in Addresses \cup {Malformed, NoCallback},
             SendPacket(channel, callback)
      PROVE  IInv'
  BY <1>1, SendOK DEF IInv, SendPacket
<1>2. ASSUME NEW contract \in Contracts, ContractChanges(contract)
      PROVE  IInv'
  BY <1>2 DEF IInv, ContractChanges
<1>3. CASE UNCHANGED vars
  BY <1>3 DEF IInv, vars
<1> QED
  BY <1>1, <1>2, <1>3, CounterpartyOK, AcknowledgementOK, TimeoutOK, RestartOK DEF Next, Relay
----------------------------------------------------------------------------

\* The hooks store and the history of notifications are always well formed.
THEOREM TypeCorrect == Spec => []TypeOK
<1>1. Init => IInv
  BY InitOK
<1>2. IInv /\ [Next]_vars => IInv'
  BY NextOK
<1>3. IInv => TypeOK
  BY DEF IInv, PacketsOK, KeysOK, TypeOK
<1> QED
  BY <1>1, <1>2, <1>3, PTL DEF Spec

\* Whatever the contracts do in their sudo entry point, and however acknowledgements,
\* timeouts, failing callbacks and restarts interleave: a contract is told once, of a
\* packet that named it, and truly; a stored callback belongs to an open packet; and
\* no acknowledged packet is settled without telling the contract that asked for it,
\* unless a restart lost its callback.
THEOREM CallbackSafety ==
  Spec => [](ToldOnceAndTruly /\ CallbackOnlyInFlight /\ AcknowledgedIsTold)
<1>1. Init => IInv
  BY InitOK
<1>2. IInv /\ [Next]_vars => IInv'
  BY NextOK
<1>3. IInv => ToldOnceAndTruly /\ CallbackOnlyInFlight /\ AcknowledgedIsTold
  <2> SUFFICES ASSUME IInv, NEW key \in Keys
               PROVE  LET packet == packets[key[1]][key[2]]
                          sent == key[2] \in DOMAIN packets[key[1]]
                      IN /\ sent =>
                              /\ Len(told[key]) <= 1
                              /\ \A i \in DOMAIN told[key] :
                                   /\ told[key][i].contract = packet.callback
                                   /\ ~ packet.committed
                                   /\ told[key][i].message = "success" <=> ~ packet.refunded
                                   /\ told[key][i].message = "timeout" <=> packet.outcome = "expired"
                         /\ callbacks[key] # NoCallback =>
                              /\ sent /\ packet.committed
                              /\ packet.callback = callbacks[key]
                         /\ sent /\ ~ packet.committed
                              /\ packet.outcome \in {"accepted", "rejected"}
                              /\ packet.callback \in Addresses /\ key \notin lost
                              => told[key] # <<>>
    BY DEF ToldOnceAndTruly, CallbackOnlyInFlight, AcknowledgedIsTold, ForAllPackets
  <2>1. PICK c \in Channels, s \in 1 .. MaxPackets : key = <<c, s>>
    BY DEF Keys
  <2>2. packets[c] \in Seq(Packet)
    BY DEF IInv, PacketsOK
  <2>3. DOMAIN packets[c] = 1 .. Len(packets[c])
    BY <2>2
  <2>4. CASE s \in 1 .. Len(packets[c])
    <3> DEFINE packet == packets[c][s]
    <3>1. PacketOK(packet) /\ SentOK(packet, callbacks[key], told[key], key \in lost)
      BY <2>1, <2>4 DEF IInv, PacketsOK, KeysOK
    <3> HIDE DEF packet
    <3>2. told[key] # <<>> => \E note \in Notification :
             /\ told[key] = <<note>> /\ ~ packet.committed
             /\ note.contract = packet.callback
             /\ note.message = "success" <=> ~ packet.refunded
             /\ note.message = "timeout" <=> packet.outcome = "expired"
      BY <3>1 DEF SentOK, PacketOK
    <3>3. /\ Len(told[key]) <= 1
          /\ \A i \in DOMAIN told[key] :
               /\ told[key][i].contract = packet.callback
               /\ ~ packet.committed
               /\ told[key][i].message = "success" <=> ~ packet.refunded
               /\ told[key][i].message = "timeout" <=> packet.outcome = "expired"
      <4>1. CASE told[key] = <<>>
        <5>1. Len(told[key]) = 0 /\ DOMAIN told[key] = {}
          BY <4>1
        <5> QED
          BY <5>1
      <4>2. CASE told[key] # <<>>
        <5>1. PICK note \in Notification :
                /\ told[key] = <<note>> /\ ~ packet.committed
                /\ note.contract = packet.callback
                /\ note.message = "success" <=> ~ packet.refunded
                /\ note.message = "timeout" <=> packet.outcome = "expired"
          BY <3>2, <4>2
        <5>2. Len(told[key]) = 1 /\ DOMAIN told[key] = {1} /\ told[key][1] = note
          BY <5>1
        <5> QED
          BY <5>1, <5>2
      <4> QED
        BY <4>1, <4>2
    <3>4. /\ callbacks[key] # NoCallback => packet.committed /\ packet.callback = callbacks[key]
          /\ ~ packet.committed /\ packet.outcome \in {"accepted", "rejected"}
               /\ packet.callback \in Addresses /\ key \notin lost => told[key] # <<>>
      BY <3>1 DEF SentOK
    <3> QED
      BY <2>1, <2>3, <2>4, <3>3, <3>4 DEF packet
  <2>5. CASE s \notin 1 .. Len(packets[c])
    <3>1. callbacks[key] = NoCallback
      BY <2>1, <2>5 DEF IInv, KeysOK, UnsentOK
    <3> QED
      BY <2>1, <2>3, <2>5, <3>1
  <2> QED
    BY <2>4, <2>5
<1> QED
  BY <1>1, <1>2, <1>3, PTL DEF Spec

----------------------------------------------------------------------------
(* Contract calls of incoming transfers                                    *)

\* Every call belongs to an acknowledged packet for the hooks.
CallsOK ==
  \A call \in calls :
    LET packet == received[call.of].packet
    IN /\ IsWasmRouted(packet)
       /\ received[call.of].ack = "success"
       /\ call.contract = packet.receiver

\* A success acknowledgement of a packet for the hooks comes from a call.
SuccessesOK ==
  \A i \in DOMAIN received :
    IsWasmRouted(received[i].packet) /\ received[i].ack = "success" =>
      \E call \in calls : call.of = i

RoutingInv == RoutingTypeOK /\ CallsOK /\ SuccessesOK /\ NothingStranded

----------------------------------------------------------------------------

\* No account of this chain is a derived one.
LEMMA LocalsAndDerived ==
  /\ Locals \cap Derived = {}
  /\ \A a, b \in Accounts \cup CallContracts : Local(a) = Local(b) => a = b
BY DEF Locals, Derived, Local, DeriveIntermediateSender

\* Finitely many accounts receive transfers.
LEMMA LocalsFinite == IsFiniteSet(Locals)
<1> DEFINE local == [a \in Accounts \cup CallContracts |-> Local(a)]
<1>1. IsFiniteSet(Accounts \cup CallContracts)
  BY AddressesAssumption
<1>2. Locals = {Local(a) : a \in Accounts \cup CallContracts}
  BY DEF Locals
<1>3. local \in Surjection(Accounts \cup CallContracts, Locals)
  BY DEF Surjection, Locals
<1> QED
  BY <1>1, <1>3, FS_Surjection

\* The packets that were acknowledged with a success
Successes == {i \in DOMAIN received : received[i].ack = "success"}

\* One packet more
LEMMA Appended ==
  ASSUME RoutingTypeOK, NEW packet \in IncomingPacket, NEW ack \in Acks, Acknowledge(packet, ack)
  PROVE  LET n == Len(received) + 1
         IN  /\ Len(received) \in Nat
             /\ DOMAIN received = 1 .. Len(received)
             /\ DOMAIN received' = 1 .. n
             /\ received' \in Seq([packet : IncomingPacket, ack : Acks])
             /\ received'[n].packet = packet /\ received'[n].ack = ack
             /\ \A i \in DOMAIN received : received'[i] = received[i]
<1> DEFINE entry == [packet |-> packet, ack |-> ack]
<1>1. received \in Seq([packet : IncomingPacket, ack : Acks])
  BY DEF RoutingTypeOK
<1>2. entry \in [packet : IncomingPacket, ack : Acks] /\ entry.packet = packet /\ entry.ack = ack
  OBVIOUS
<1>3. received' = Append(received, entry)
  BY DEF Acknowledge
<1> HIDE DEF entry
<1> QED
  BY <1>1, <1>2, <1>3

\* How the set of successes changes
LEMMA SuccessesAppended ==
  ASSUME RoutingTypeOK, NEW packet \in IncomingPacket, NEW ack \in Acks, Acknowledge(packet, ack)
  PROVE  /\ IsFiniteSet(Successes)
         /\ ack # "success" => Successes' = Successes
         /\ ack = "success" => Cardinality(Successes') = Cardinality(Successes) + 1
<1> DEFINE n == Len(received) + 1
<1>1. /\ Len(received) \in Nat
      /\ DOMAIN received = 1 .. Len(received)
      /\ DOMAIN received' = 1 .. n
      /\ received'[n].ack = ack
      /\ \A i \in DOMAIN received : received'[i] = received[i]
  BY Appended
<1>2. IsFiniteSet(Successes)
  <2>1. IsFiniteSet(1 .. Len(received))
    BY <1>1, FS_Interval
  <2> QED
    BY <1>1, <2>1, FS_Subset DEF Successes
<1>3. n \notin Successes
  BY <1>1 DEF Successes
<1>4. Successes' = {i \in DOMAIN received' : received'[i].ack = "success"}
  BY DEF Successes
<1>5. ASSUME NEW i
      PROVE  i \in DOMAIN received' <=> i \in DOMAIN received \/ i = n
  BY <1>1
<1>6. Successes' = IF ack = "success" THEN Successes \cup {n} ELSE Successes
  <2> HIDE DEF n
  <2> QED
    BY <1>1, <1>4, <1>5 DEF Successes
<1>7. Cardinality(Successes \cup {n}) = Cardinality(Successes) + 1
  BY <1>2, <1>3, FS_AddElement
<1> QED
  BY <1>2, <1>6, <1>7

\* The tokens of a packet reach an account of this chain, and it is acknowledged.
LEMMA CreditedOK ==
  ASSUME RoutingTypeOK, NothingStranded, NEW packet \in IncomingPacket, Acknowledge(packet, "success"),
         NEW a \in Accounts \cup CallContracts, balance' = [balance EXCEPT ![Local(a)] = @ + 1]
  PROVE  NothingStranded' /\ balance' \in [Locals \cup Derived -> Nat]
<1>1. balance \in [Locals \cup Derived -> Nat] /\ Local(a) \in Locals
  BY DEF RoutingTypeOK, Locals
<1>2. /\ balance' \in [Locals \cup Derived -> Nat]
      /\ balance'[Local(a)] = balance[Local(a)] + 1
      /\ \A h \in Locals \cup Derived : h # Local(a) => balance'[h] = balance[h]
  BY <1>1
<1>3. SumFunctionOnSet(balance', Locals)
        = SumFunctionOnSet(balance, Locals) + balance'[Local(a)] - balance[Local(a)]
  <2> DEFINE old == balance
             new == balance'
             place == Local(a)
  <2>1. \A h \in Locals : old[h] \in Int
    BY <1>1
  <2>2. new[place] \in Int
    BY <1>1, <1>2
  <2>3. \A h \in Locals \ {place} : new[h] = old[h]
    BY <1>2
  <2>4. place \in Locals
    BY <1>1
  <2> HIDE DEF old, new, place
  <2>5. SumFunctionOnSet(new, Locals) = SumFunctionOnSet(old, Locals) + new[place] - old[place]
    BY <2>1, <2>2, <2>3, <2>4, LocalsFinite, SumUpdate
  <2> QED
    BY <2>5 DEF old, new, place
<1>4. SumFunctionOnSet(balance, Locals) = Cardinality(Successes)
  BY DEF NothingStranded, Successes
<1>5. IsFiniteSet(Successes) /\ Cardinality(Successes') = Cardinality(Successes) + 1
  BY SuccessesAppended DEF Acks
<1>6. Cardinality(Successes) \in Nat
  BY <1>5, FS_CardinalityType
<1>7. SumFunctionOnSet(balance', Locals) = Cardinality(Successes')
  <2>1. balance[Local(a)] \in Nat
    BY <1>1
  <2> QED
    BY <1>2, <1>3, <1>4, <1>5, <1>6, <2>1
<1>8. \A holder \in Derived : balance'[holder] = 0
  BY <1>1, <1>2, LocalsAndDerived DEF NothingStranded
<1> QED
  BY <1>2, <1>7, <1>8 DEF NothingStranded, Successes

\* Nothing is credited, and the packet is not acknowledged with a success.
LEMMA NotCreditedOK ==
  ASSUME RoutingTypeOK, NothingStranded, NEW packet \in IncomingPacket, NEW ack \in Acks,
         ack # "success", Acknowledge(packet, ack), UNCHANGED balance
  PROVE  NothingStranded' /\ balance' \in [Locals \cup Derived -> Nat]
BY SuccessesAppended DEF NothingStranded, Successes, RoutingTypeOK
----------------------------------------------------------------------------
(* One lemma per way OnRecvPacketOverride can end.                         *)

\* A packet without a call keeps the calls and their packets.
LEMMA NoCallOK ==
  ASSUME RoutingInv, NEW packet \in IncomingPacket, NEW ack \in Acks, Acknowledge(packet, ack),
         ~ (IsWasmRouted(packet) /\ ack = "success"), UNCHANGED calls,
         NothingStranded', balance' \in [Locals \cup Derived -> Nat]
  PROVE  RoutingInv'
<1>1. LET n == Len(received) + 1
      IN  /\ Len(received) \in Nat
          /\ DOMAIN received = 1 .. Len(received)
          /\ DOMAIN received' = 1 .. n
          /\ received' \in Seq([packet : IncomingPacket, ack : Acks])
          /\ received'[n].packet = packet /\ received'[n].ack = ack
          /\ \A i \in DOMAIN received : received'[i] = received[i]
  BY Appended DEF RoutingInv
<1>2. \A call \in calls : call.of \in DOMAIN received
  BY DEF RoutingInv, RoutingTypeOK
<1>3. \A i \in DOMAIN received : i \in DOMAIN received'
  BY <1>1
<1>4. RoutingTypeOK'
  BY <1>1, <1>2, <1>3 DEF RoutingInv, RoutingTypeOK
<1>5. CallsOK'
  BY <1>1, <1>2 DEF RoutingInv, CallsOK
<1>6. SuccessesOK'
  <2> SUFFICES ASSUME NEW i \in DOMAIN received', IsWasmRouted(received'[i].packet),
                      received'[i].ack = "success"
               PROVE  \E call \in calls : call.of = i
    BY DEF SuccessesOK, IsWasmRouted
  <2>1. i # Len(received) + 1
    BY <1>1
  <2>2. i \in DOMAIN received
    BY <1>1, <2>1
  <2> QED
    BY <1>1, <2>2 DEF RoutingInv, SuccessesOK
<1> QED
  BY <1>4, <1>5, <1>6 DEF RoutingInv

\* The contract was executed: the call is recorded with the packet.
LEMMA CallOK ==
  ASSUME RoutingInv, NEW packet \in IncomingPacket, IsWasmRouted(packet), ValidateAndParseMemo(packet),
         ExecWasmMsg(packet, DeriveIntermediateSender(packet.channel, packet.sender)),
         Acknowledge(packet, "success")
  PROVE  RoutingInv'
<1> DEFINE n == Len(received) + 1
           caller == DeriveIntermediateSender(packet.channel, packet.sender)
           contract == packet.memo.contract
           new == [contract |-> contract, caller |-> caller, of |-> n]
<1>1. /\ Len(received) \in Nat
      /\ DOMAIN received = 1 .. Len(received)
      /\ DOMAIN received' = 1 .. n
      /\ received' \in Seq([packet : IncomingPacket, ack : Acks])
      /\ received'[n].packet = packet /\ received'[n].ack = "success"
      /\ \A i \in DOMAIN received : received'[i] = received[i]
  BY Appended DEF RoutingInv, Acks
<1>2. caller \in Derived /\ contract \in CallContracts /\ contract = packet.receiver
  BY DEF Derived, IncomingPacket, ExecWasmMsg, ValidateAndParseMemo
<1>3. balance' = [balance EXCEPT ![Local(contract)] = @ + 1]
  <2>1. balance \in [Locals \cup Derived -> Nat] /\ Local(contract) \in Locals
    BY <1>2 DEF RoutingInv, RoutingTypeOK, Locals
  <2>2. Local(contract) # caller
    BY <1>2, <2>1, LocalsAndDerived
  <2>3. balance[caller] \in Nat
    BY <1>2, <2>1
  <2> HIDE DEF caller, contract
  <2>4. balance' = [Credited(caller) EXCEPT ![caller] = @ - 1, ![Local(contract)] = @ + 1]
    BY DEF ExecWasmMsg, caller, contract
  <2>5. \A h \in Locals \cup Derived :
          balance'[h] = IF h = Local(contract) THEN balance[h] + 1 ELSE balance[h]
    BY <1>2, <2>1, <2>2, <2>3, <2>4 DEF Credited
  <2>6. balance' = [h \in Locals \cup Derived |-> balance'[h]]
    BY <2>1, <2>4 DEF Credited
  <2> QED
    BY <2>1, <2>5, <2>6
<1>4. NothingStranded' /\ balance' \in [Locals \cup Derived -> Nat]
  BY <1>2, <1>3, CreditedOK DEF RoutingInv
<1>5. calls' = calls \cup {new} /\ \A call \in calls : call.of \in DOMAIN received
  BY DEF ExecWasmMsg, RoutingInv, RoutingTypeOK
<1>6. new.contract = contract /\ new.caller = caller /\ new.of = n
  OBVIOUS
<1> HIDE DEF new, caller, contract
<1>7. RoutingTypeOK'
  <2>1. \A i \in DOMAIN received : i \in DOMAIN received'
    BY <1>1
  <2>2. n \in DOMAIN received'
    BY <1>1
  <2> HIDE DEF n
  <2> QED
    BY <1>1, <1>2, <1>4, <1>5, <1>6, <2>1, <2>2 DEF RoutingInv, RoutingTypeOK
<1>8. CallsOK'
  <2> HIDE DEF n
  <2> QED
    BY <1>1, <1>2, <1>5, <1>6 DEF RoutingInv, CallsOK, caller
<1>9. SuccessesOK'
  <2> SUFFICES ASSUME NEW i \in DOMAIN received', IsWasmRouted(received'[i].packet),
                      received'[i].ack = "success"
               PROVE  \E call \in calls' : call.of = i
    BY DEF SuccessesOK, IsWasmRouted
  <2>1. CASE i = n
    BY <1>5, <1>6, <2>1
  <2>2. CASE i # n
    <3>1. i \in DOMAIN received
      BY <1>1, <2>2
    <3> QED
      BY <1>1, <1>5, <3>1 DEF RoutingInv, SuccessesOK
  <2> QED
    BY <2>1, <2>2
<1> QED
  BY <1>4, <1>7, <1>8, <1>9 DEF RoutingInv

\* Every step keeps the invariant.
LEMMA RoutingNextOK ==
  ASSUME RoutingInv, [RoutingNext]_routingVars
  PROVE  RoutingInv'
<1>1. ASSUME NEW packet \in IncomingPacket, ErrorAck(packet)
      PROVE  RoutingInv'
  <2>1. "error" \in Acks
    BY DEF Acks
  <2>2. NothingStranded' /\ balance' \in [Locals \cup Derived -> Nat]
    BY <1>1, <2>1, NotCreditedOK DEF RoutingInv, ErrorAck
  <2> QED
    BY <1>1, <2>1, <2>2, NoCallOK DEF ErrorAck
<1>2. ASSUME NEW packet \in IncomingPacket, PassOn(packet)
      PROVE  RoutingInv'
  <2>1. PICK ack \in AppAcks(packet) :
          /\ Acknowledge(packet, ack)
          /\ balance' = IF ack = "success" THEN Credited(Local(packet.receiver)) ELSE balance
          /\ UNCHANGED calls
    BY <1>2 DEF PassOn
  <2>2. ack \in Acks /\ (ack = "success" => packet.receiver \in Accounts \cup CallContracts)
    BY DEF AppAcks, Acks, IncomingPacket
  <2>3. NothingStranded' /\ balance' \in [Locals \cup Derived -> Nat]
    <3>1. CASE ack = "success"
      BY <2>1, <2>2, <3>1, CreditedOK DEF RoutingInv, Credited
    <3>2. CASE ack # "success"
      BY <2>1, <2>2, <3>2, NotCreditedOK DEF RoutingInv
    <3> QED
      BY <3>1, <3>2
  <2> QED
    BY <1>2, <2>1, <2>2, <2>3, NoCallOK DEF PassOn
<1>3. ASSUME NEW packet \in IncomingPacket, Execute(packet)
      PROVE  RoutingInv'
  BY <1>1, <1>3, CallOK DEF Execute
<1>4. CASE UNCHANGED routingVars
  BY <1>4 DEF routingVars, RoutingInv, RoutingTypeOK, CallsOK, SuccessesOK, NothingStranded
<1> QED
  BY <1>1, <1>2, <1>3, <1>4 DEF RoutingNext, OnRecvPacketOverride, RejectMemo

\* At genesis nothing was received.
LEMMA RoutingInitOK ==
  ASSUME RoutingInit
  PROVE  RoutingInv
<1>1. RoutingTypeOK /\ CallsOK /\ SuccessesOK
  BY DEF RoutingInit, RoutingTypeOK, CallsOK, SuccessesOK
<1>2. SumFunctionOnSet(balance, Locals) = 0
  BY LocalsFinite, SumZero DEF RoutingInit
<1>3. {i \in DOMAIN received : received[i].ack = "success"} = {}
  BY DEF RoutingInit
<1>4. Cardinality({i \in DOMAIN received : received[i].ack = "success"}) = 0
  BY <1>3, FS_EmptySet
<1>5. \A holder \in Derived : balance[holder] = 0
  BY DEF RoutingInit
<1> QED
  BY <1>1, <1>2, <1>4, <1>5 DEF RoutingInv, NothingStranded
----------------------------------------------------------------------------

\* Calls and acknowledgements are always well formed, and a call belongs to a packet.
THEOREM RoutingTypeCorrect == RoutingSpec => []RoutingTypeOK
<1>1. RoutingInit => RoutingInv
  BY RoutingInitOK
<1>2. RoutingInv /\ [RoutingNext]_routingVars => RoutingInv'
  BY RoutingNextOK
<1>3. RoutingInv => RoutingTypeOK
  BY DEF RoutingInv
<1> QED
  BY <1>1, <1>2, <1>3, PTL DEF RoutingSpec

\* For every set of memos and every order of packets: a packet for the hooks is
\* acknowledged with a success exactly if its contract ran with its tokens, every
\* token credited is with a receiver or a contract and none in a derived account.
THEOREM RoutingSafety == RoutingSpec => [](SuccessIffExecuted /\ NothingStranded)
<1>1. RoutingInit => RoutingInv
  BY RoutingInitOK
<1>2. RoutingInv /\ [RoutingNext]_routingVars => RoutingInv'
  BY RoutingNextOK
<1>3. RoutingInv => SuccessIffExecuted
  BY DEF RoutingInv, RoutingTypeOK, CallsOK, SuccessesOK, SuccessIffExecuted
<1>4. RoutingInv => NothingStranded
  BY DEF RoutingInv
<1> QED
  BY <1>1, <1>2, <1>3, <1>4, PTL DEF RoutingSpec
=============================================================================
