------------------------ MODULE TransferStackProofs ------------------------
(***************************************************************************)
(* The transfer stack for every set of channels, denoms, amounts, quotas   *)
(* and governance messages.                                                *)
(*                                                                         *)
(* The inductive invariant IInv has three parts, one per kind of state:    *)
(*   HistoryOK   a packet's event is the event of its send, no two packets *)
(*               share one, and only refunded packets are undone, once;    *)
(*   BankOK      the escrow accounts back what is abroad and in flight,    *)
(*               and a refund never mints above the bound;                 *)
(*   TrackersOK  the storage of the contract is correct (StoreOK, as in    *)
(*               RateLimitProofs) and every tracker has a period.          *)
(* For each action a lemma says what it does to the packets and the log    *)
(* (Sent, Moved, Logged), to the balances and to each single tracker       *)
(* (Applied, Lowered, KeptOrNew).  The theorems on undos, counters, cached *)
(* values and the refinement of RateLimiter need no more than these.       *)
(***************************************************************************)
EXTENDS TransferStack, RateLimitProofs, Sums, TLAPS

\* The contract was told of the send of a packet that has an event.
EventsOK ==
  \A k \in DOMAIN packets : packets[k].event # 0 =>
    /\ packets[k].event \in DOMAIN log
    /\ LET send == log[packets[k].event]
       IN /\ send.kind = "Out"
          /\ send.channel = packets[k].channel
          /\ send.denom = packets[k].denom
          /\ send.amount = packets[k].amount

EventsDistinct ==
  \A k, m \in DOMAIN packets :
    packets[k].event # 0 /\ packets[k].event = packets[m].event => k = m

\* The contract was told of the undo of refunded packets only, and once.
UndosOK ==
  \A j \in DOMAIN log : log[j].kind = "Undo" /\ log[j].of # 0 =>
    \E k \in DOMAIN packets : packets[k].event = log[j].of /\ packets[k].status = "refunded"

UndosOnce ==
  \A i, j \in DOMAIN log :
    log[i].kind = "Undo" /\ log[j].kind = "Undo" /\ log[i].of # 0 /\ log[i].of = log[j].of => i = j

HistoryOK ==
  /\ packets \in Seq(Packet) /\ log \in Seq(Event)
  /\ EventsOK /\ EventsDistinct /\ UndosOK /\ UndosOnce

----------------------------------------------------------------------------
(* How packets and the history change.                                     *)

\* Packet k moves on to status s.
Moved(k, s) ==
  /\ packets' \in Seq(Packet) /\ DOMAIN packets' = DOMAIN packets
  /\ \A m \in DOMAIN packets :
       /\ packets'[m].channel = packets[m].channel
       /\ packets'[m].denom = packets[m].denom
       /\ packets'[m].amount = packets[m].amount
       /\ packets'[m].event = packets[m].event
       /\ packets'[m].status = IF m = k THEN s ELSE packets[m].status

\* A packet is sent.
Sent(packet) ==
  /\ packets' \in Seq(Packet)
  /\ Len(packets) \in Nat
  /\ DOMAIN packets = 1 .. Len(packets)
  /\ DOMAIN packets' = DOMAIN packets \cup {Len(packets) + 1}
  /\ packets'[Len(packets) + 1] = packet
  /\ \A m \in DOMAIN packets : packets'[m] = packets[m]

\* The contract is told of an event.
Logged(event) ==
  /\ log' \in Seq(Event)
  /\ Len(log) \in Nat /\ Len(log') = Len(log) + 1
  /\ DOMAIN log = 1 .. Len(log)
  /\ DOMAIN log' = DOMAIN log \cup {Len(log) + 1}
  /\ log'[Len(log) + 1] = event
  /\ \A j \in DOMAIN log : log'[j] = log[j]

\* The ways the sequences are updated: a packet is replaced by one that differs in
\* status and acknowledgement only
LEMMA ReplacedBy ==
  ASSUME packets \in Seq(Packet), NEW k \in DOMAIN packets, NEW packet \in Packet,
         packet.channel = packets[k].channel, packet.denom = packets[k].denom,
         packet.amount = packets[k].amount, packet.event = packets[k].event,
         packets' = [packets EXCEPT ![k] = packet]
  PROVE  Moved(k, packet.status)
BY DEF Moved

\* its status changes
LEMMA MovedBy ==
  ASSUME packets \in Seq(Packet), NEW k \in DOMAIN packets, NEW s \in Status,
         packets' = [packets EXCEPT ![k].status = s]
  PROVE  Moved(k, s)
<1> DEFINE packet == [packets[k] EXCEPT !.status = s]
<1>1. packets' = [packets EXCEPT ![k] = packet]
  OBVIOUS
<1>2. packets[k] \in Packet
  OBVIOUS
<1>3. /\ packet \in Packet /\ packet.channel = packets[k].channel /\ packet.denom = packets[k].denom
      /\ packet.amount = packets[k].amount /\ packet.event = packets[k].event /\ packet.status = s
  BY <1>2 DEF Packet
<1> HIDE DEF packet
<1> QED
  BY <1>1, <1>3, ReplacedBy

\* it is rejected with an error
LEMMA RejectedBy ==
  ASSUME packets \in Seq(Packet), NEW k \in DOMAIN packets, NEW error \in AckErrors,
         packets' = [packets EXCEPT ![k].status = "rejected", ![k].ack = error]
  PROVE  Moved(k, "rejected")
<1> DEFINE packet == [packets[k] EXCEPT !.status = "rejected", !.ack = error]
<1>1. packets' = [packets EXCEPT ![k] = packet]
  OBVIOUS
<1>2. packets[k] \in Packet
  OBVIOUS
<1>3. /\ packet \in Packet /\ packet.channel = packets[k].channel /\ packet.denom = packets[k].denom
      /\ packet.amount = packets[k].amount /\ packet.event = packets[k].event
      /\ packet.status = "rejected"
  BY <1>2 DEF Packet, Status
<1> HIDE DEF packet
<1>4. Moved(k, packet.status)
  BY <1>1, <1>3, ReplacedBy
<1> QED
  BY <1>3, <1>4

\* a packet is sent
LEMMA SentBy ==
  ASSUME packets \in Seq(Packet), NEW packet \in Packet, packets' = Append(packets, packet)
  PROVE  Sent(packet)
BY DEF Sent

\* the contract is told of an event.
LEMMA LoggedBy ==
  ASSUME log \in Seq(Event), NEW event \in Event, log' = Append(log, event)
  PROVE  Logged(event)
BY DEF Logged

----------------------------------------------------------------------------
(* The history stays consistent.                                           *)

\* A packet that is sent with no contract in place has no event.
LEMMA HistorySendUntold ==
  ASSUME HistoryOK, NEW packet, Sent(packet), packet.event = 0, UNCHANGED log
  PROVE  HistoryOK'
<1>1. packets' \in Seq(Packet) /\ log' \in Seq(Event)
  BY DEF HistoryOK, Sent
<1>2. EventsOK'
  BY DEF HistoryOK, EventsOK, Sent
<1>3. EventsDistinct'
  BY DEF HistoryOK, EventsDistinct, Sent
<1>4. UndosOK'
  <2> SUFFICES ASSUME NEW j \in DOMAIN log, log[j].kind = "Undo", log[j].of # 0
               PROVE  \E k \in DOMAIN packets' :
                        packets'[k].event = log[j].of /\ packets'[k].status = "refunded"
    BY DEF UndosOK
  <2>1. PICK k \in DOMAIN packets : packets[k].event = log[j].of /\ packets[k].status = "refunded"
    BY DEF HistoryOK, UndosOK
  <2> QED
    BY <2>1 DEF Sent
<1>5. UndosOnce'
  BY DEF HistoryOK, UndosOnce
<1> QED
  BY <1>1, <1>2, <1>3, <1>4, <1>5 DEF HistoryOK

\* A send the contract is told of is a new event, and nothing has undone it.
LEMMA HistorySend ==
  ASSUME HistoryOK, NEW packet, Sent(packet), packet.event = Len(log) + 1,
         NEW event, Logged(event), event.kind = "Out",
         event.channel = packet.channel, event.denom = packet.denom,
         event.amount = packet.amount
  PROVE  HistoryOK'
<1>1. packets' \in Seq(Packet) /\ log' \in Seq(Event)
  BY DEF Logged, Sent
<1>2. EventsOK'
  <2> SUFFICES ASSUME NEW k \in DOMAIN packets', packets'[k].event # 0
               PROVE  /\ packets'[k].event \in DOMAIN log'
                      /\ log'[packets'[k].event].kind = "Out"
                      /\ log'[packets'[k].event].channel = packets'[k].channel
                      /\ log'[packets'[k].event].denom = packets'[k].denom
                      /\ log'[packets'[k].event].amount = packets'[k].amount
    BY DEF EventsOK
  <2>1. CASE k = Len(packets) + 1
    BY <2>1 DEF Sent, Logged
  <2>2. CASE k \in DOMAIN packets
    BY <2>2 DEF Sent, Logged, HistoryOK, EventsOK
  <2> QED
    BY <2>1, <2>2 DEF Sent
<1>3. EventsDistinct'
  <2>1. \A k \in DOMAIN packets : packets[k].event # Len(log) + 1
    BY DEF HistoryOK, EventsOK, Logged
  <2>2. Len(log) + 1 # 0
    BY DEF Logged
  <2> QED
    BY <2>1, <2>2 DEF HistoryOK, EventsDistinct, Sent
<1>4. UndosOK'
  <2> SUFFICES ASSUME NEW j \in DOMAIN log', log'[j].kind = "Undo", log'[j].of # 0
               PROVE  \E k \in DOMAIN packets' :
                        packets'[k].event = log'[j].of /\ packets'[k].status = "refunded"
    BY DEF UndosOK
  <2>1. j \in DOMAIN log /\ log'[j] = log[j]
    BY DEF Logged
  <2>2. PICK k \in DOMAIN packets : packets[k].event = log[j].of /\ packets[k].status = "refunded"
    BY <2>1 DEF HistoryOK, UndosOK
  <2> QED
    BY <2>1, <2>2 DEF Sent
<1>5. UndosOnce'
  BY DEF HistoryOK, UndosOnce, Logged
<1> QED
  BY <1>1, <1>2, <1>3, <1>4, <1>5 DEF HistoryOK

\* A reception leaves the packets alone.
LEMMA HistoryRecv ==
  ASSUME HistoryOK, UNCHANGED packets, NEW event, Logged(event), event.kind = "In"
  PROVE  HistoryOK'
<1>1. packets' \in Seq(Packet) /\ log' \in Seq(Event)
  BY DEF HistoryOK, Logged
<1>2. EventsOK' /\ EventsDistinct'
  BY DEF HistoryOK, EventsOK, EventsDistinct, Logged
<1>3. UndosOK' /\ UndosOnce'
  BY DEF HistoryOK, UndosOK, UndosOnce, Logged
<1> QED
  BY <1>1, <1>2, <1>3 DEF HistoryOK

\* A packet that has not been refunded moves on, and the contract is not told.
LEMMA HistoryMove ==
  ASSUME HistoryOK, NEW k \in DOMAIN packets, packets[k].status # "refunded",
         NEW s, Moved(k, s), UNCHANGED log
  PROVE  HistoryOK'
<1>1. packets' \in Seq(Packet) /\ log' \in Seq(Event)
  BY DEF HistoryOK, Moved
<1>2. EventsOK' /\ EventsDistinct'
  <2>1. ASSUME NEW m \in DOMAIN packets', packets'[m].event # 0
        PROVE  /\ packets'[m].event \in DOMAIN log'
               /\ log'[packets'[m].event].kind = "Out"
               /\ log'[packets'[m].event].channel = packets'[m].channel
               /\ log'[packets'[m].event].denom = packets'[m].denom
               /\ log'[packets'[m].event].amount = packets'[m].amount
    <3>1. m \in DOMAIN packets /\ packets'[m].event = packets[m].event
      BY DEF Moved
    <3>2. /\ packets[m].event \in DOMAIN log /\ log[packets[m].event].kind = "Out"
          /\ log[packets[m].event].channel = packets[m].channel
          /\ log[packets[m].event].denom = packets[m].denom
          /\ log[packets[m].event].amount = packets[m].amount
      BY <2>1, <3>1 DEF HistoryOK, EventsOK
    <3> QED
      BY <3>1, <3>2 DEF Moved
  <2>2. EventsDistinct'
    BY DEF HistoryOK, EventsDistinct, Moved
  <2> QED
    BY <2>1, <2>2 DEF EventsOK
<1>3. UndosOK'
  <2> SUFFICES ASSUME NEW j \in DOMAIN log, log[j].kind = "Undo", log[j].of # 0
               PROVE  \E m \in DOMAIN packets' :
                        packets'[m].event = log[j].of /\ packets'[m].status = "refunded"
    BY DEF UndosOK
  <2>1. PICK m \in DOMAIN packets : packets[m].event = log[j].of /\ packets[m].status = "refunded"
    BY DEF HistoryOK, UndosOK
  <2> QED
    BY <2>1 DEF Moved
<1>4. UndosOnce'
  BY DEF HistoryOK, UndosOnce
<1> QED
  BY <1>1, <1>2, <1>3, <1>4 DEF HistoryOK

\* A packet is refunded and its send undone: it was not undone before.
LEMMA HistoryUndo ==
  ASSUME HistoryOK, NEW k \in DOMAIN packets, packets[k].status # "refunded",
         Moved(k, "refunded"), NEW event, Logged(event),
         event.kind = "Undo", event.of = packets[k].event
  PROVE  HistoryOK'
<1>1. packets' \in Seq(Packet) /\ log' \in Seq(Event)
  BY DEF Logged, Moved
<1>2. EventsOK' /\ EventsDistinct'
  <2>1. ASSUME NEW m \in DOMAIN packets', packets'[m].event # 0
        PROVE  /\ packets'[m].event \in DOMAIN log'
               /\ log'[packets'[m].event].kind = "Out"
               /\ log'[packets'[m].event].channel = packets'[m].channel
               /\ log'[packets'[m].event].denom = packets'[m].denom
               /\ log'[packets'[m].event].amount = packets'[m].amount
    <3>1. m \in DOMAIN packets /\ packets'[m].event = packets[m].event
      BY DEF Moved
    <3>2. /\ packets[m].event \in DOMAIN log /\ log[packets[m].event].kind = "Out"
          /\ log[packets[m].event].channel = packets[m].channel
          /\ log[packets[m].event].denom = packets[m].denom
          /\ log[packets[m].event].amount = packets[m].amount
      BY <2>1, <3>1 DEF HistoryOK, EventsOK
    <3> QED
      BY <3>1, <3>2 DEF Moved, Logged
  <2>2. EventsDistinct'
    BY DEF HistoryOK, EventsDistinct, Moved
  <2> QED
    BY <2>1, <2>2 DEF EventsOK
<1>3. UndosOK'
  <2> SUFFICES ASSUME NEW j \in DOMAIN log', log'[j].kind = "Undo", log'[j].of # 0
               PROVE  \E m \in DOMAIN packets' :
                        packets'[m].event = log'[j].of /\ packets'[m].status = "refunded"
    BY DEF UndosOK
  <2>1. CASE j \in DOMAIN log
    <3>1. PICK m \in DOMAIN packets : packets[m].event = log[j].of /\ packets[m].status = "refunded"
      BY <2>1 DEF HistoryOK, UndosOK, Logged
    <3> QED
      BY <2>1, <3>1 DEF Moved, Logged
  <2>2. CASE j = Len(log) + 1
    BY <2>2 DEF Moved, Logged
  <2> QED
    BY <2>1, <2>2 DEF Logged
<1>4. UndosOnce'
  <2>1. \A j \in DOMAIN log :
          log[j].kind = "Undo" /\ log[j].of # 0 => log[j].of # packets[k].event
    BY DEF HistoryOK, UndosOK, EventsDistinct
  <2> QED
    BY <2>1 DEF HistoryOK, UndosOnce, Logged
<1> QED
  BY <1>1, <1>2, <1>3, <1>4 DEF HistoryOK

----------------------------------------------------------------------------
(* What is in flight.                                                      *)

\* The packets InFlight sums up, and what it sums
Unsettled(channel, denom) ==
  {k \in DOMAIN packets : /\ packets[k].channel = channel
                          /\ packets[k].denom = denom
                          /\ packets[k].status \in {"sent", "rejected"}}

AmountOf == [k \in DOMAIN packets |-> packets[k].amount]

\* InFlight in these terms
LEMMA InFlightIs ==
  ASSUME NEW c, NEW d
  PROVE  /\ InFlight(c, d) = SumFunctionOnSet(AmountOf, Unsettled(c, d))
         /\ InFlight(c, d)' = SumFunctionOnSet(AmountOf', Unsettled(c, d)')
BY DEF InFlight, AmountOf, Unsettled

\* A finite sum of natural numbers
LEMMA InFlightType ==
  ASSUME packets \in Seq(Packet), NEW c, NEW d
  PROVE  /\ IsFiniteSet(Unsettled(c, d))
         /\ \A k \in DOMAIN packets : AmountOf[k] = packets[k].amount /\ AmountOf[k] \in Nat
         /\ InFlight(c, d) \in Nat
<1>1. DOMAIN packets = 1 .. Len(packets) /\ Len(packets) \in Nat
  OBVIOUS
<1>2. IsFiniteSet(Unsettled(c, d))
  <2>1. IsFiniteSet(1 .. Len(packets))
    BY <1>1, FS_Interval
  <2>2. Unsettled(c, d) \subseteq 1 .. Len(packets)
    BY <1>1 DEF Unsettled
  <2> QED
    BY <2>1, <2>2, FS_Subset
<1>3. ASSUME NEW k \in DOMAIN packets
      PROVE  AmountOf[k] = packets[k].amount /\ AmountOf[k] \in Nat
  <2>1. packets[k] \in Packet
    OBVIOUS
  <2> QED
    BY <2>1 DEF AmountOf, Packet, Uint256
<1>4. \A k \in Unsettled(c, d) : AmountOf[k] \in Nat
  BY <1>3 DEF Unsettled
<1>5. InFlight(c, d) \in Nat
  BY <1>2, <1>4, SumNat, InFlightIs
<1> QED
  BY <1>2, <1>3, <1>5

\* A packet that is sent is in flight.
LEMMA InFlightSent ==
  ASSUME packets \in Seq(Packet), NEW packet \in Packet, Sent(packet), packet.status = "sent",
         NEW c, NEW d
  PROVE  InFlight(c, d)' =
           IF packet.channel = c /\ packet.denom = d
           THEN InFlight(c, d) + packet.amount ELSE InFlight(c, d)
<1> DEFINE n == Len(packets) + 1
           S == Unsettled(c, d)
           T == Unsettled(c, d)'
           f == AmountOf
           g == AmountOf'
<1>1. /\ IsFiniteSet(S) /\ \A k \in DOMAIN packets : f[k] \in Nat /\ g[k] = f[k]
  BY InFlightType DEF Sent, AmountOf
<1>2. packet.amount \in Nat /\ g[n] = packet.amount
  BY DEF Sent, AmountOf, Packet, Uint256
<1>3. n \notin S /\ S \subseteq DOMAIN packets
  BY DEF Sent, Unsettled
<1>4. IF packet.channel = c /\ packet.denom = d THEN T = S \cup {n} ELSE T = S
  BY DEF Sent, Unsettled
<1>5. /\ InFlight(c, d) = SumFunctionOnSet(f, S)
      /\ InFlight(c, d)' = SumFunctionOnSet(g, T)
  BY InFlightIs
<1> HIDE DEF n, S, T, f, g
<1>6. SumFunctionOnSet(g, S) = SumFunctionOnSet(f, S)
  BY <1>1, <1>3, SumEqual
<1>7. \A x \in S \cup {n} : g[x] \in Int
  BY <1>1, <1>2, <1>3
<1>8. SumFunctionOnSet(g, S \cup {n}) = SumFunctionOnSet(g, S) + g[n]
  BY <1>1, <1>3, <1>7, SumAddElement
<1> QED
  BY <1>2, <1>4, <1>5, <1>6, <1>8

\* A packet that leaves flight, delivered or refunded, takes its amount along.
LEMMA InFlightLeft ==
  ASSUME packets \in Seq(Packet), NEW k \in DOMAIN packets,
         packets[k].status \in {"sent", "rejected"}, NEW s, s \notin {"sent", "rejected"},
         Moved(k, s), NEW c, NEW d
  PROVE  InFlight(c, d)' =
           IF packets[k].channel = c /\ packets[k].denom = d
           THEN InFlight(c, d) - packets[k].amount ELSE InFlight(c, d)
<1> DEFINE S == Unsettled(c, d)
           T == Unsettled(c, d)'
           f == AmountOf
           g == AmountOf'
           amount == packets[k].amount
<1>1. /\ IsFiniteSet(S) /\ \A m \in DOMAIN packets : f[m] \in Nat /\ g[m] = f[m]
  BY InFlightType DEF Moved, AmountOf
<1>2. f[k] = amount /\ amount \in Nat
  BY InFlightType
<1>3. S \subseteq DOMAIN packets
  BY DEF Unsettled
<1>4. IF packets[k].channel = c /\ packets[k].denom = d THEN T = S \ {k} /\ k \in S ELSE T = S
  BY DEF Moved, Unsettled
<1>5. /\ InFlight(c, d) = SumFunctionOnSet(f, S)
      /\ InFlight(c, d)' = SumFunctionOnSet(g, T)
  BY InFlightIs
<1> HIDE DEF S, T, f, g
<1>6. IsFiniteSet(T) /\ T \subseteq DOMAIN packets
  BY <1>1, <1>3, <1>4, FS_Subset
<1>7. SumFunctionOnSet(g, T) = SumFunctionOnSet(f, T)
  BY <1>1, <1>6, SumEqual
<1>8. \A x \in S : f[x] \in Int
  BY <1>1, <1>3
<1>9. k \in S => SumFunctionOnSet(f, S) = f[k] + SumFunctionOnSet(f, S \ {k})
  BY <1>1, <1>8, SumRemove
<1>10. SumFunctionOnSet(f, T) \in Int
  BY <1>1, <1>6, SumInt
<1> HIDE DEF amount
<1>11. IF packets[k].channel = c /\ packets[k].denom = d
       THEN InFlight(c, d)' = InFlight(c, d) - amount ELSE InFlight(c, d)' = InFlight(c, d)
  <2>1. CASE packets[k].channel = c /\ packets[k].denom = d
    <3>1. SumFunctionOnSet(f, S) = amount + SumFunctionOnSet(f, T)
      BY <1>2, <1>4, <1>9, <2>1
    <3>2. SumFunctionOnSet(f, T) = SumFunctionOnSet(f, S) - amount
      BY <1>2, <1>10, <3>1
    <3> QED
      BY <1>5, <1>7, <2>1, <3>2
  <2>2. CASE ~ (packets[k].channel = c /\ packets[k].denom = d)
    BY <1>4, <1>5, <1>7, <2>2
  <2> QED
    BY <2>1, <2>2
<1> QED
  BY <1>11 DEF amount

\* A packet whose status stays in flight, or stays out of it, changes no sum.
LEMMA InFlightSame ==
  ASSUME packets \in Seq(Packet), NEW k \in DOMAIN packets, NEW s, Moved(k, s),
         packets[k].status \in {"sent", "rejected"} <=> s \in {"sent", "rejected"},
         NEW c, NEW d
  PROVE  InFlight(c, d)' = InFlight(c, d)
<1>1. Unsettled(c, d)' = Unsettled(c, d)
  BY DEF Moved, Unsettled
<1>2. /\ IsFiniteSet(Unsettled(c, d))
      /\ \A m \in Unsettled(c, d) : AmountOf[m] = AmountOf'[m]
  <2>1. \A m \in DOMAIN packets : AmountOf[m] = AmountOf'[m]
    BY DEF Moved, AmountOf
  <2>2. \A m \in Unsettled(c, d) : m \in DOMAIN packets
    BY DEF Unsettled
  <2>3. IsFiniteSet(Unsettled(c, d))
    BY InFlightType
  <2> QED
    BY <2>1, <2>2, <2>3
<1>3. SumFunctionOnSet(AmountOf, Unsettled(c, d)) = SumFunctionOnSet(AmountOf', Unsettled(c, d))
  BY <1>2, SumEqual
<1> QED
  BY <1>1, <1>3, InFlightIs

----------------------------------------------------------------------------
(* The bank and the escrow accounts.                                       *)

Balances == [Channels -> [Denoms -> Nat]]

BankTypes ==
  supply \in [Denoms -> 0 .. MaxSupply] /\ escrow \in Balances /\ abroad \in Balances

\* The tokens of a voucher that are in flight can be minted again.
VouchersBounded ==
  \A d \in Vouchers : supply[d] + InFlight(Origin[d], d) <= MaxSupply

BankOK == BankTypes /\ EscrowBacksPackets /\ VouchersBounded

\* A denom that is burned and minted on a channel is a voucher that came in through it.
LEMMA NotEscrowed ==
  ASSUME NEW c \in Channels, NEW d \in Denoms
  PROVE  ~ IsEscrowed(c, d) <=> d \in Vouchers /\ Origin[d] = c
BY VouchersAssumption DEF IsEscrowed, Denoms

\* Nobody can send more than the supply.
LEMMA SpendableIsSupplied ==
  ASSUME BankTypes, NEW d \in Denoms
  PROVE  Spendable(d) \in Int /\ Spendable(d) <= supply[d]
<1> DEFINE held == [c \in Channels |-> escrow[c][d]]
<1>1. \A c \in Channels : held[c] \in Nat
  BY DEF BankTypes, Balances
<1>2. Spendable(d) = supply[d] - SumFunctionOnSet(held, Channels)
  BY DEF Spendable
<1> HIDE DEF held
<1>3. SumFunctionOnSet(held, Channels) \in Nat
  BY <1>1, SumNat, StackBoundsAssumption
<1>4. supply[d] \in Int
  BY DEF BankTypes
<1> QED
  BY <1>2, <1>3, <1>4

\* The balances are natural numbers.
LEMMA BankFacts ==
  ASSUME BankOK
  PROVE  /\ BankTypes /\ MaxSupply \in Nat /\ \A y \in Denoms : supply[y] \in Nat
         /\ \A x \in Channels, y \in Denoms : abroad[x][y] \in Nat /\ escrow[x][y] \in Nat
BY StackBoundsAssumption DEF BankOK, BankTypes, Balances, Uint256

\* What SendTransfer does to the balances
LEMMA TakeIs ==
  ASSUME BankTypes, NEW c \in Channels, NEW d \in Denoms, NEW amount \in Nat, amount <= supply[d],
         supply' = Take(c, d, amount).supply, escrow' = Take(c, d, amount).escrow
  PROVE  /\ supply' \in [Denoms -> 0 .. MaxSupply] /\ escrow' \in Balances
         /\ \A y \in Denoms : supply'[y] =
              IF y = d /\ ~ IsEscrowed(c, d) THEN supply[y] - amount ELSE supply[y]
         /\ \A x \in Channels, y \in Denoms : escrow'[x][y] =
              IF x = c /\ y = d /\ IsEscrowed(c, d) THEN escrow[x][y] + amount ELSE escrow[x][y]
<1>0. supply[d] \in Nat /\ escrow[c][d] \in Nat
  BY DEF BankTypes, Balances
<1>1. CASE IsEscrowed(c, d)
  <2>1. supply' = supply /\ escrow' = [escrow EXCEPT ![c][d] = escrow[c][d] + amount]
    BY <1>1 DEF Take
  <2>2. escrow' \in Balances /\ \A x \in Channels, y \in Denoms :
          escrow'[x][y] = IF x = c /\ y = d THEN escrow[c][d] + amount ELSE escrow[x][y]
    BY <1>0, <2>1 DEF BankTypes, Balances
  <2> QED
    BY <1>1, <2>1, <2>2 DEF BankTypes
<1>2. CASE ~ IsEscrowed(c, d)
  <2>1. escrow' = escrow /\ supply' = [supply EXCEPT ![d] = supply[d] - amount]
    BY <1>2 DEF Take
  <2>2. supply[d] - amount \in 0 .. MaxSupply
    BY <1>0, StackBoundsAssumption DEF BankTypes, Uint256
  <2> QED
    BY <1>2, <2>1, <2>2 DEF BankTypes
<1> QED
  BY <1>1, <1>2

\* What a reception or a refund does to them
LEMMA GiveIs ==
  ASSUME BankTypes, NEW c \in Channels, NEW d \in Denoms, NEW amount \in Nat,
         IF IsEscrowed(c, d) THEN amount <= escrow[c][d] ELSE supply[d] + amount <= MaxSupply,
         supply' = Give(c, d, amount).supply, escrow' = Give(c, d, amount).escrow
  PROVE  /\ supply' \in [Denoms -> 0 .. MaxSupply] /\ escrow' \in Balances
         /\ \A y \in Denoms : supply'[y] =
              IF y = d /\ ~ IsEscrowed(c, d) THEN supply[y] + amount ELSE supply[y]
         /\ \A x \in Channels, y \in Denoms : escrow'[x][y] =
              IF x = c /\ y = d /\ IsEscrowed(c, d) THEN escrow[x][y] - amount ELSE escrow[x][y]
<1>0. supply[d] \in Nat /\ escrow[c][d] \in Nat
  BY DEF BankTypes, Balances
<1>1. CASE IsEscrowed(c, d)
  <2>1. supply' = supply /\ escrow' = [escrow EXCEPT ![c][d] = escrow[c][d] - amount]
    BY <1>1 DEF Give
  <2>2. escrow[c][d] - amount \in Nat
    BY <1>0, <1>1
  <2>3. escrow' \in Balances /\ \A x \in Channels, y \in Denoms :
          escrow'[x][y] = IF x = c /\ y = d THEN escrow[c][d] - amount ELSE escrow[x][y]
    BY <1>0, <2>1, <2>2 DEF BankTypes, Balances
  <2> QED
    BY <1>1, <2>1, <2>3 DEF BankTypes
<1>2. CASE ~ IsEscrowed(c, d)
  <2>1. escrow' = escrow /\ supply' = [supply EXCEPT ![d] = supply[d] + amount]
    BY <1>2 DEF Give
  <2>2. supply[d] + amount \in 0 .. MaxSupply
    BY <1>0, <1>2, StackBoundsAssumption DEF BankTypes, Uint256
  <2> QED
    BY <1>2, <2>1, <2>2 DEF BankTypes
<1> QED
  BY <1>1, <1>2

\* A send: what leaves the spendable tokens is in flight.
LEMMA BankSend ==
  ASSUME BankOK, packets \in Seq(Packet), NEW c \in Channels, NEW d \in Denoms, NEW amount \in Nat,
         amount <= Spendable(d),
         supply' = Take(c, d, amount).supply, escrow' = Take(c, d, amount).escrow,
         UNCHANGED abroad, NEW packet \in Packet, Sent(packet), packet.status = "sent",
         packet.channel = c, packet.denom = d, packet.amount = amount
  PROVE  BankOK'
<1>1. BankTypes /\ amount <= supply[d]
  <2>1. BankTypes /\ supply[d] \in Int
    BY DEF BankOK, BankTypes
  <2> QED
    BY <2>1, SpendableIsSupplied
<1>2. /\ supply' \in [Denoms -> 0 .. MaxSupply] /\ escrow' \in Balances
      /\ \A y \in Denoms : supply'[y] =
           IF y = d /\ ~ IsEscrowed(c, d) THEN supply[y] - amount ELSE supply[y]
      /\ \A x \in Channels, y \in Denoms : escrow'[x][y] =
           IF x = c /\ y = d /\ IsEscrowed(c, d) THEN escrow[x][y] + amount ELSE escrow[x][y]
  BY <1>1, TakeIs
<1>3. \A x, y : InFlight(x, y)' = IF c = x /\ d = y THEN InFlight(x, y) + amount ELSE InFlight(x, y)
  BY InFlightSent
<1>4. \A x, y : InFlight(x, y) \in Nat
  BY InFlightType
<1>5. ASSUME NEW x \in Channels, NEW y \in Denoms, IsEscrowed(x, y)
      PROVE  escrow'[x][y] = abroad'[x][y] + InFlight(x, y)'
  <2>1. escrow[x][y] = abroad[x][y] + InFlight(x, y)
    BY <1>5 DEF BankOK, EscrowBacksPackets
  <2>2. abroad[x][y] \in Nat
    BY DEF BankOK, BankTypes, Balances
  <2> QED
    BY <1>2, <1>3, <1>4, <1>5, <2>1, <2>2
<1>6. ASSUME NEW y \in Vouchers
      PROVE  supply'[y] + InFlight(Origin[y], y)' <= MaxSupply
  <2>1. supply[y] + InFlight(Origin[y], y) <= MaxSupply
    BY DEF BankOK, VouchersBounded
  <2>2. y \in Denoms /\ supply[y] \in Nat /\ Origin[y] \in Channels /\ MaxSupply \in Nat
    BY OriginAssumption, StackBoundsAssumption DEF Denoms, BankOK, BankTypes, Uint256
  <2>3. IF c = Origin[y] /\ d = y THEN ~ IsEscrowed(c, d) ELSE y = d => IsEscrowed(c, d)
    BY NotEscrowed
  <2> QED
    BY <1>2, <1>3, <1>4, <2>1, <2>2, <2>3
<1>7. \A x, y : IsEscrowed(x, y)' <=> IsEscrowed(x, y)
  BY DEF IsEscrowed
<1> QED
  BY <1>1, <1>2, <1>5, <1>6, <1>7 DEF BankOK, BankTypes, EscrowBacksPackets, VouchersBounded

\* A reception: tokens come back from abroad, or vouchers are minted.
LEMMA BankRecv ==
  ASSUME BankOK, packets \in Seq(Packet), NEW c \in Channels, NEW d \in Denoms, NEW amount \in Nat,
         supply' = Give(c, d, amount).supply, escrow' = Give(c, d, amount).escrow,
         UNCHANGED packets,
         IF IsEscrowed(c, d)
         THEN /\ amount <= abroad[c][d]
              /\ abroad' = [abroad EXCEPT ![c][d] = @ - amount]
         ELSE /\ supply[d] + InFlight(c, d) + amount <= MaxSupply
              /\ UNCHANGED abroad
  PROVE  BankOK'
<1>0. \A x, y : InFlight(x, y) \in Nat /\ InFlight(x, y)' = InFlight(x, y)
  <2>1. \A x, y : InFlight(x, y) \in Nat
    BY InFlightType
  <2>2. \A x, y : InFlight(x, y)' = InFlight(x, y)
    BY DEF InFlight
  <2> QED
    BY <2>1, <2>2
<1>1. /\ BankTypes /\ supply[d] \in Nat /\ MaxSupply \in Nat
      /\ \A x \in Channels, y \in Denoms : abroad[x][y] \in Nat /\ escrow[x][y] \in Nat
  BY StackBoundsAssumption DEF BankOK, BankTypes, Balances, Uint256
<1>2. IF IsEscrowed(c, d) THEN amount <= escrow[c][d] ELSE supply[d] + amount <= MaxSupply
  BY <1>0, <1>1 DEF BankOK, EscrowBacksPackets
<1>3. /\ supply' \in [Denoms -> 0 .. MaxSupply] /\ escrow' \in Balances
      /\ \A y \in Denoms : supply'[y] =
           IF y = d /\ ~ IsEscrowed(c, d) THEN supply[y] + amount ELSE supply[y]
      /\ \A x \in Channels, y \in Denoms : escrow'[x][y] =
           IF x = c /\ y = d /\ IsEscrowed(c, d) THEN escrow[x][y] - amount ELSE escrow[x][y]
  BY <1>1, <1>2, GiveIs
<1>4. /\ abroad' \in Balances
      /\ \A x \in Channels, y \in Denoms : abroad'[x][y] =
           IF x = c /\ y = d /\ IsEscrowed(c, d) THEN abroad[x][y] - amount ELSE abroad[x][y]
  <2>1. abroad \in Balances
    BY <1>1 DEF BankTypes
  <2>2. CASE IsEscrowed(c, d)
    <3>1. abroad[c][d] - amount \in Nat /\ abroad' = [abroad EXCEPT ![c][d] = abroad[c][d] - amount]
      BY <1>1, <2>2
    <3>2. abroad' \in Balances /\ \A x \in Channels, y \in Denoms :
            abroad'[x][y] = IF x = c /\ y = d THEN abroad[c][d] - amount ELSE abroad[x][y]
      BY <2>1, <3>1 DEF Balances
    <3> QED
      BY <2>2, <3>2
  <2>3. CASE ~ IsEscrowed(c, d)
    BY <2>1, <2>3
  <2> QED
    BY <2>2, <2>3
<1>5. ASSUME NEW x \in Channels, NEW y \in Denoms, IsEscrowed(x, y)
      PROVE  escrow'[x][y] = abroad'[x][y] + InFlight(x, y)'
  <2>1. escrow[x][y] = abroad[x][y] + InFlight(x, y)
    BY <1>5 DEF BankOK, EscrowBacksPackets
  <2> QED
    BY <1>0, <1>1, <1>3, <1>4, <1>5, <2>1, SMTT(30)
<1>6. ASSUME NEW y \in Vouchers
      PROVE  supply'[y] + InFlight(Origin[y], y)' <= MaxSupply
  <2>1. supply[y] + InFlight(Origin[y], y) <= MaxSupply
    BY DEF BankOK, VouchersBounded
  <2>2. y \in Denoms /\ supply[y] \in Nat /\ Origin[y] \in Channels
    BY OriginAssumption DEF Denoms, BankOK, BankTypes
  <2>3. y = d /\ ~ IsEscrowed(c, d) => c = Origin[y]
    BY NotEscrowed
  <2> QED
    BY <1>0, <1>1, <1>3, <2>1, <2>2, <2>3
<1>7. \A x, y : IsEscrowed(x, y)' <=> IsEscrowed(x, y)
  BY DEF IsEscrowed
<1> QED
  BY <1>3, <1>4, <1>5, <1>6, <1>7 DEF BankOK, BankTypes, EscrowBacksPackets, VouchersBounded

\* A delivered packet is no longer in flight, and what was escrowed for it is abroad.
LEMMA BankDeliver ==
  ASSUME BankOK, packets \in Seq(Packet), NEW k \in DOMAIN packets,
         packets[k].status \in {"sent", "rejected"}, Moved(k, "delivered"),
         UNCHANGED <<supply, escrow>>,
         abroad' = IF IsEscrowed(packets[k].channel, packets[k].denom)
                   THEN [abroad EXCEPT ![packets[k].channel][packets[k].denom] = @ + packets[k].amount]
                   ELSE abroad
  PROVE  BankOK'
<1>0. packets[k] \in Packet
  OBVIOUS
<1>1. PICK c \in Channels, d \in Denoms, amount \in Nat :
        c = packets[k].channel /\ d = packets[k].denom /\ amount = packets[k].amount
  BY <1>0 DEF Packet, Uint256
<1>2. \A x, y : InFlight(x, y)' = IF c = x /\ d = y THEN InFlight(x, y) - amount ELSE InFlight(x, y)
  BY <1>1, InFlightLeft
<1>3. \A x, y : InFlight(x, y) \in Nat
  BY InFlightType
<1>4. /\ BankTypes /\ MaxSupply \in Nat /\ \A y \in Denoms : supply[y] \in Nat
      /\ \A x \in Channels, y \in Denoms : abroad[x][y] \in Nat /\ escrow[x][y] \in Nat
  BY BankFacts
<1>5. /\ abroad' \in Balances
      /\ \A x \in Channels, y \in Denoms : abroad'[x][y] =
           IF x = c /\ y = d /\ IsEscrowed(c, d) THEN abroad[x][y] + amount ELSE abroad[x][y]
  <2>1. abroad \in Balances
    BY <1>4 DEF BankTypes
  <2>2. abroad' = IF IsEscrowed(c, d) THEN [abroad EXCEPT ![c][d] = abroad[c][d] + amount] ELSE abroad
    BY <1>1
  <2>3. CASE IsEscrowed(c, d)
    <3>1. abroad[c][d] + amount \in Nat
      BY <1>1, <1>4
    <3>2. abroad' \in Balances /\ \A x \in Channels, y \in Denoms :
            abroad'[x][y] = IF x = c /\ y = d THEN abroad[c][d] + amount ELSE abroad[x][y]
      BY <1>1, <2>1, <2>2, <2>3, <3>1 DEF Balances
    <3> QED
      BY <2>3, <3>2
  <2>4. CASE ~ IsEscrowed(c, d)
    BY <2>1, <2>2, <2>4
  <2> QED
    BY <2>3, <2>4
<1>6. ASSUME NEW x \in Channels, NEW y \in Denoms, IsEscrowed(x, y)
      PROVE  escrow'[x][y] = abroad'[x][y] + InFlight(x, y)'
  <2>1. escrow[x][y] = abroad[x][y] + InFlight(x, y) /\ escrow' = escrow
    BY <1>6 DEF BankOK, EscrowBacksPackets
  <2>2. abroad[x][y] \in Nat /\ escrow[x][y] \in Nat /\ InFlight(x, y) \in Nat
    BY <1>3, <1>4
  <2>3. CASE c = x /\ d = y
    <3>1. abroad'[x][y] = abroad[x][y] + amount /\ escrow'[x][y] = escrow[x][y]
      BY <1>5, <1>6, <2>1, <2>3
    <3>2. InFlight(x, y)' = InFlight(x, y) - amount
      BY <1>2, <2>3
    <3> QED
      BY <2>1, <2>2, <3>1, <3>2
  <2>4. CASE ~ (c = x /\ d = y)
    <3>1. abroad'[x][y] = abroad[x][y] /\ escrow'[x][y] = escrow[x][y]
      BY <1>5, <2>1, <2>4
    <3>2. InFlight(x, y)' = InFlight(x, y)
      BY <1>2, <2>4
    <3> QED
      BY <2>1, <3>1, <3>2
  <2> QED
    BY <2>3, <2>4
<1>7. ASSUME NEW y \in Vouchers
      PROVE  supply'[y] + InFlight(Origin[y], y)' <= MaxSupply
  <2>1. supply[y] + InFlight(Origin[y], y) <= MaxSupply /\ supply' = supply
    BY DEF BankOK, VouchersBounded
  <2>2. supply[y] \in Nat
    BY <1>4 DEF Denoms
  <2> QED
    BY <1>1, <1>2, <1>3, <1>4, <2>1, <2>2
<1>8. \A x, y : IsEscrowed(x, y)' <=> IsEscrowed(x, y)
  BY DEF IsEscrowed
<1> QED
  BY <1>4, <1>5, <1>6, <1>7, <1>8 DEF BankOK, BankTypes, EscrowBacksPackets, VouchersBounded

\* A refund: the escrow holds the tokens, or the voucher can be minted again.
LEMMA BankRefund ==
  ASSUME BankOK, packets \in Seq(Packet), NEW k \in DOMAIN packets,
         packets[k].status \in {"sent", "rejected"}, Moved(k, "refunded"),
         supply' = Give(packets[k].channel, packets[k].denom, packets[k].amount).supply,
         escrow' = Give(packets[k].channel, packets[k].denom, packets[k].amount).escrow,
         UNCHANGED abroad
  PROVE  BankOK'
<1>0. packets[k] \in Packet
  OBVIOUS
<1>1. PICK c \in Channels, d \in Denoms, amount \in Nat :
        c = packets[k].channel /\ d = packets[k].denom /\ amount = packets[k].amount
  BY <1>0 DEF Packet, Uint256
<1>2. \A x, y : InFlight(x, y)' = IF c = x /\ d = y THEN InFlight(x, y) - amount ELSE InFlight(x, y)
  BY <1>1, InFlightLeft
<1>3. \A x, y : InFlight(x, y) \in Nat /\ InFlight(x, y)' \in Nat
  <2>1. packets' \in Seq(Packet)
    BY DEF Moved
  <2>2. \A x, y : InFlight(x, y) \in Nat
    BY InFlightType
  <2>3. ASSUME NEW x, NEW y PROVE InFlight(x, y)' \in Nat
    <3>1. DOMAIN packets' = 1 .. Len(packets') /\ Len(packets') \in Nat
      BY <2>1
    <3>2. IsFiniteSet(Unsettled(x, y)')
      <4>1. IsFiniteSet(1 .. Len(packets'))
        BY <3>1, FS_Interval
      <4>2. Unsettled(x, y)' \subseteq 1 .. Len(packets')
        BY <3>1 DEF Unsettled
      <4> QED
        BY <4>1, <4>2, FS_Subset
    <3>3. \A m \in DOMAIN packets' : packets'[m] \in Packet
      BY <2>1
    <3>4. \A m \in Unsettled(x, y)' : AmountOf'[m] \in Nat
      BY <3>3 DEF Unsettled, AmountOf, Packet, Uint256
    <3> QED
      BY <3>2, <3>4, SumNat, InFlightIs
  <2> QED
    BY <2>2, <2>3
<1>4. /\ BankTypes /\ MaxSupply \in Nat /\ \A y \in Denoms : supply[y] \in Nat
      /\ \A x \in Channels, y \in Denoms : abroad[x][y] \in Nat /\ escrow[x][y] \in Nat
  BY BankFacts
<1>5. supply' = Give(c, d, amount).supply /\ escrow' = Give(c, d, amount).escrow
  BY <1>1
<1>6. amount <= InFlight(c, d)
  <2>1. InFlight(c, d)' = InFlight(c, d) - amount
    BY <1>2
  <2>2. InFlight(c, d) \in Nat /\ InFlight(c, d)' \in Nat
    BY <1>3
  <2> QED
    BY <1>1, <2>1, <2>2
<1>7. IF IsEscrowed(c, d) THEN amount <= escrow[c][d] ELSE supply[d] + amount <= MaxSupply
  <2>1. CASE IsEscrowed(c, d)
    <3>1. escrow[c][d] = abroad[c][d] + InFlight(c, d)
      BY <1>1, <2>1 DEF BankOK, EscrowBacksPackets
    <3> QED
      BY <1>1, <1>3, <1>4, <1>6, <2>1, <3>1
  <2>2. CASE ~ IsEscrowed(c, d)
    <3>1. supply[d] + InFlight(c, d) <= MaxSupply
      BY <1>1, <2>2, NotEscrowed DEF BankOK, VouchersBounded
    <3> QED
      BY <1>1, <1>3, <1>4, <1>6, <2>2, <3>1
  <2> QED
    BY <2>1, <2>2
<1>8. /\ supply' \in [Denoms -> 0 .. MaxSupply] /\ escrow' \in Balances
      /\ \A y \in Denoms : supply'[y] =
           IF y = d /\ ~ IsEscrowed(c, d) THEN supply[y] + amount ELSE supply[y]
      /\ \A x \in Channels, y \in Denoms : escrow'[x][y] =
           IF x = c /\ y = d /\ IsEscrowed(c, d) THEN escrow[x][y] - amount ELSE escrow[x][y]
  <2>1. BankTypes
    BY <1>4
  <2> QED
    BY <1>5, <1>7, <2>1, GiveIs, Zenon
<1>9. ASSUME NEW x \in Channels, NEW y \in Denoms, IsEscrowed(x, y)
      PROVE  escrow'[x][y] = abroad'[x][y] + InFlight(x, y)'
  <2>1. escrow[x][y] = abroad[x][y] + InFlight(x, y) /\ abroad' = abroad
    BY <1>9 DEF BankOK, EscrowBacksPackets
  <2>2. abroad[x][y] \in Nat /\ escrow[x][y] \in Nat /\ InFlight(x, y) \in Nat
    BY <1>3, <1>4
  <2>3. CASE c = x /\ d = y
    <3>1. escrow'[x][y] = escrow[x][y] - amount /\ abroad'[x][y] = abroad[x][y]
      BY <1>8, <1>9, <2>1, <2>3
    <3>2. InFlight(x, y)' = InFlight(x, y) - amount
      BY <1>2, <2>3
    <3> QED
      BY <2>1, <2>2, <3>1, <3>2
  <2>4. CASE ~ (c = x /\ d = y)
    <3>1. abroad'[x][y] = abroad[x][y] /\ escrow'[x][y] = escrow[x][y]
      BY <1>8, <2>1, <2>4
    <3>2. InFlight(x, y)' = InFlight(x, y)
      BY <1>2, <2>4
    <3> QED
      BY <2>1, <3>1, <3>2
  <2> QED
    BY <2>3, <2>4
<1>10. ASSUME NEW y \in Vouchers
       PROVE  supply'[y] + InFlight(Origin[y], y)' <= MaxSupply
  <2>1. supply[y] + InFlight(Origin[y], y) <= MaxSupply
    BY DEF BankOK, VouchersBounded
  <2>2. y \in Denoms
    BY DEF Denoms
  <2>3. IF c = Origin[y] /\ d = y THEN ~ IsEscrowed(c, d) ELSE y = d => IsEscrowed(c, d)
    BY <1>1, NotEscrowed
  <2>4. Origin[y] \in Channels
    BY OriginAssumption
  <2>5. supply[y] \in Nat /\ InFlight(Origin[y], y) \in Nat /\ MaxSupply \in Nat /\ amount \in Nat
    BY <1>3, <1>4, <2>2, <2>4
  <2>6. CASE c = Origin[y] /\ d = y
    <3>1. supply'[y] = supply[y] + amount
      BY <1>8, <2>2, <2>3, <2>6
    <3>2. InFlight(Origin[y], y)' = InFlight(Origin[y], y) - amount
      BY <1>2, <2>6
    <3> QED
      BY <2>1, <2>5, <3>1, <3>2
  <2>7. CASE ~ (c = Origin[y] /\ d = y)
    <3>1. supply'[y] = supply[y]
      BY <1>8, <2>2, <2>3, <2>7
    <3>2. InFlight(Origin[y], y)' = InFlight(Origin[y], y)
      BY <1>2, <2>7
    <3> QED
      BY <2>1, <3>1, <3>2
  <2> QED
    BY <2>6, <2>7
<1>11. \A x, y : IsEscrowed(x, y)' <=> IsEscrowed(x, y)
  BY DEF IsEscrowed
<1> QED
  BY <1>4, <1>8, <1>9, <1>10, <1>11 DEF BankOK, BankTypes, EscrowBacksPackets, VouchersBounded

\* Nothing in flight changes, nor any balance.
LEMMA BankSame ==
  ASSUME BankOK, UNCHANGED bank, \A x, y : InFlight(x, y)' = InFlight(x, y)
  PROVE  BankOK'
<1>1. \A x, y : IsEscrowed(x, y)' <=> IsEscrowed(x, y)
  BY DEF IsEscrowed
<1> QED
  BY <1>1 DEF BankOK, BankTypes, EscrowBacksPackets, VouchersBounded, bank

----------------------------------------------------------------------------
(* The steps of the stack, on packets, history and balances.               *)

\* The contract is told of an event if it is in place.
LEMMA RecordIs ==
  ASSUME log \in Seq(Event), NEW kind \in FlowType \cup {"Undo"}, NEW c \in Channels,
         NEW d \in Denoms, NEW amount \in Uint256, NEW of \in Nat,
         Record(kind, c, d, amount, of)
  PROVE  /\ contract # ContractAddr => UNCHANGED log
         /\ contract = ContractAddr => \E event \in Event :
              /\ Logged(event)
              /\ event.kind = kind /\ event.channel = c /\ event.denom = d
              /\ event.amount = amount /\ event.of = of
<1> DEFINE event == [kind |-> kind, channel |-> c, denom |-> d, amount |-> amount, of |-> of]
<1>1. /\ event \in Event /\ event.kind = kind /\ event.channel = c /\ event.denom = d
      /\ event.amount = amount /\ event.of = of
  BY DEF Event
<1>2. log' = IF contract = ContractAddr THEN Append(log, event) ELSE log
  BY DEF Record
<1> HIDE DEF event
<1> QED
  BY <1>1, <1>2, LoggedBy

\* A packet that was sent, and what the contract was told of it
LEMMA SendIs ==
  ASSUME HistoryOK, now \in Nat, NEW c \in Channels, NEW d \in Denoms,
         NEW amount \in Amounts, NEW lifetime \in Lifetimes, SendPacket(c, d, amount, lifetime)
  PROVE  \E packet \in Packet :
           /\ Sent(packet) /\ packet.status = "sent"
           /\ packet.channel = c /\ packet.denom = d /\ packet.amount = amount
           /\ packet.event = IF contract = ContractAddr THEN Len(log) + 1 ELSE 0
<1> DEFINE event == IF contract = ContractAddr THEN Len(log) + 1 ELSE 0
           packet == [channel |-> c, denom |-> d, amount |-> amount, timeout |-> now + lifetime,
                      status |-> "sent", ack |-> NoAckError, event |-> event]
<1>1. amount \in Uint256 /\ now + lifetime \in Nat
  BY StackAmountsAssumption, StackBoundsAssumption DEF Uint256
<1>2. event \in Nat /\ packets \in Seq(Packet)
  BY DEF HistoryOK
<1>3. packets' = Append(packets, packet)
  BY DEF SendPacket
<1> HIDE DEF event
<1>4. /\ packet \in Packet /\ packet.status = "sent" /\ packet.channel = c /\ packet.denom = d
      /\ packet.amount = amount /\ packet.event = event
  BY <1>1, <1>2 DEF Packet, Status
<1> HIDE DEF packet
<1>5. Sent(packet)
  BY <1>2, <1>3, <1>4, SentBy
<1> QED
  BY <1>4, <1>5 DEF event

\* A send
LEMMA SendAccounts ==
  ASSUME HistoryOK, BankOK, now \in Nat, NEW c \in Channels, NEW d \in Denoms,
         NEW amount \in Amounts, NEW lifetime \in Lifetimes, SendPacket(c, d, amount, lifetime)
  PROVE  HistoryOK' /\ BankOK'
<1>1. amount \in Uint256 /\ amount \in Nat
  BY StackAmountsAssumption DEF Uint256
<1>2. PICK packet \in Packet :
           /\ Sent(packet) /\ packet.status = "sent"
           /\ packet.channel = c /\ packet.denom = d /\ packet.amount = amount
           /\ packet.event = IF contract = ContractAddr THEN Len(log) + 1 ELSE 0
  BY SendIs
<1>3. log \in Seq(Event) /\ packets \in Seq(Packet)
  BY DEF HistoryOK
<1>4. Record("Out", c, d, amount, 0)
  BY DEF SendPacket
<1>5. ASSUME contract = ContractAddr PROVE HistoryOK'
  <2>1. PICK event \in Event : /\ Logged(event) /\ event.kind = "Out" /\ event.channel = c
                               /\ event.denom = d /\ event.amount = amount
    BY <1>1, <1>3, <1>4, <1>5, RecordIs DEF FlowType
  <2> QED
    BY <1>2, <1>5, <2>1, HistorySend
<1>6. ASSUME contract # ContractAddr PROVE HistoryOK'
  <2>1. UNCHANGED log
    BY <1>1, <1>3, <1>4, <1>6, RecordIs DEF FlowType
  <2> QED
    BY <1>2, <1>6, <2>1, HistorySendUntold
<1>7. /\ amount <= Spendable(d) /\ UNCHANGED abroad
      /\ supply' = Take(c, d, amount).supply /\ escrow' = Take(c, d, amount).escrow
  BY DEF SendPacket
<1>8. BankOK'
  BY <1>1, <1>2, <1>3, <1>7, BankSend
<1> QED
  BY <1>5, <1>6, <1>8

\* A reception
LEMMA RecvAccounts ==
  ASSUME HistoryOK, BankOK, NEW c \in Channels, NEW d \in Denoms,
         NEW amount \in Amounts, OnRecvPacket(c, d, amount)
  PROVE  HistoryOK' /\ BankOK'
<1>1. amount \in Uint256 /\ amount \in Nat
  BY StackAmountsAssumption DEF Uint256
<1>2. log \in Seq(Event) /\ packets \in Seq(Packet)
  BY DEF HistoryOK
<1>3. Record("In", c, d, amount, 0) /\ UNCHANGED packets
  BY DEF OnRecvPacket
<1>4. ASSUME contract = ContractAddr PROVE HistoryOK'
  <2>1. PICK event \in Event : Logged(event) /\ event.kind = "In"
    BY <1>1, <1>2, <1>3, <1>4, RecordIs DEF FlowType
  <2> QED
    BY <1>3, <2>1, HistoryRecv
<1>5. ASSUME contract # ContractAddr PROVE HistoryOK'
  <2>1. UNCHANGED log
    BY <1>1, <1>2, <1>3, <1>5, RecordIs DEF FlowType
  <2> QED
    BY <1>3, <2>1 DEF HistoryOK, EventsOK, EventsDistinct, UndosOK, UndosOnce
<1>6. /\ supply' = Give(c, d, amount).supply /\ escrow' = Give(c, d, amount).escrow
      /\ IF IsEscrowed(c, d)
         THEN /\ amount <= abroad[c][d]
              /\ abroad' = [abroad EXCEPT ![c][d] = @ - amount]
         ELSE /\ supply[d] + InFlight(c, d) + amount <= MaxSupply
              /\ UNCHANGED abroad
  BY DEF OnRecvPacket
<1>7. BankOK'
  BY <1>1, <1>2, <1>3, <1>6, BankRecv
<1> QED
  BY <1>4, <1>5, <1>7

\* A packet that is refunded with or without telling the contract
LEMMA RefundAccounts ==
  ASSUME HistoryOK, BankOK, NEW k \in DOMAIN packets,
         packets[k].status \in {"sent", "rejected"},
         RefundPacket(k), UNCHANGED abroad, Revert(k) \/ UNCHANGED log
  PROVE  /\ HistoryOK' /\ BankOK' /\ Moved(k, "refunded")
         /\ Revert(k) /\ contract = ContractAddr => \E event \in Event :
              /\ Logged(event) /\ event.kind = "Undo" /\ event.of = packets[k].event
              /\ event.channel = packets[k].channel /\ event.denom = packets[k].denom
              /\ event.amount = packets[k].amount
         /\ Revert(k) /\ contract # ContractAddr => UNCHANGED log
<1>1. log \in Seq(Event) /\ packets \in Seq(Packet)
  BY DEF HistoryOK
<1>2. packets[k] \in Packet
  BY <1>1
<1>3. Moved(k, "refunded")
  BY <1>1, MovedBy DEF RefundPacket, Status
<1>4. PICK c \in Channels, d \in Denoms, amount \in Uint256, of \in Nat :
        /\ c = packets[k].channel /\ d = packets[k].denom /\ amount = packets[k].amount
        /\ of = packets[k].event
  BY <1>2 DEF Packet
<1>5. ASSUME Revert(k), contract = ContractAddr
      PROVE  \E event \in Event :
              /\ Logged(event) /\ event.kind = "Undo" /\ event.of = packets[k].event
              /\ event.channel = packets[k].channel /\ event.denom = packets[k].denom
              /\ event.amount = packets[k].amount
  <2>1. Record("Undo", c, d, amount, of)
    BY <1>4, <1>5 DEF Revert
  <2>2. "Undo" \in FlowType \cup {"Undo"} /\ log \in Seq(Event)
    BY <1>1
  <2>3. \E event \in Event :
          /\ Logged(event)
          /\ event.kind = "Undo" /\ event.channel = c /\ event.denom = d
          /\ event.amount = amount /\ event.of = of
    <3>1. contract = ContractAddr
      BY <1>5
    <3>2. /\ contract # ContractAddr => UNCHANGED log
          /\ contract = ContractAddr => \E event \in Event :
               /\ Logged(event)
               /\ event.kind = "Undo" /\ event.channel = c /\ event.denom = d
               /\ event.amount = amount /\ event.of = of
      BY <2>1, <2>2, RecordIs
    <3> QED
      BY <3>1, <3>2
  <2> QED
    BY <1>4, <2>3
<1>6. ASSUME Revert(k), contract # ContractAddr
      PROVE  UNCHANGED log
  <2>1. Record("Undo", c, d, amount, of)
    BY <1>4, <1>6 DEF Revert
  <2> QED
    BY <1>1, <1>6, <2>1, RecordIs
<1>7. HistoryOK'
  <2>1. packets[k].status # "refunded"
    OBVIOUS
  <2>2. CASE UNCHANGED log
    BY <1>3, <2>1, <2>2, HistoryMove
  <2>3. CASE Revert(k) /\ contract = ContractAddr
    BY <1>3, <1>5, <2>1, <2>3, HistoryUndo
  <2> QED
    BY <1>6, <2>2, <2>3
<1>8. /\ supply' = Give(packets[k].channel, packets[k].denom, packets[k].amount).supply
      /\ escrow' = Give(packets[k].channel, packets[k].denom, packets[k].amount).escrow
  BY DEF RefundPacket
<1>9. BankOK'
  BY <1>1, <1>3, <1>8, BankRefund
<1> QED
  BY <1>3, <1>5, <1>6, <1>7, <1>9

\* The other steps of a packet's life
LEMMA RelayAccounts ==
  ASSUME HistoryOK, BankOK, NEW k \in DOMAIN packets,
         \/ CounterpartyAccepts(k)
         \/ \E error \in AckErrors : CounterpartyRejects(k, error)
         \/ OnAcknowledgementPacket(k)
         \/ OnTimeoutPacket(k)
  PROVE  HistoryOK' /\ BankOK'
<1>1. packets \in Seq(Packet)
  BY DEF HistoryOK
<1>2. CASE CounterpartyAccepts(k)
  <2>1. /\ packets[k].status = "sent" /\ UNCHANGED <<log, supply, escrow>>
        /\ packets' = [packets EXCEPT ![k].status = "delivered"]
        /\ abroad' = IF IsEscrowed(packets[k].channel, packets[k].denom)
                     THEN [abroad EXCEPT ![packets[k].channel][packets[k].denom] = @ + packets[k].amount]
                     ELSE abroad
    BY <1>2 DEF CounterpartyAccepts
  <2>2. Moved(k, "delivered")
    BY <1>1, <2>1, MovedBy DEF Status
  <2>3. HistoryOK'
    BY <2>1, <2>2, HistoryMove
  <2>4. BankOK'
    BY <1>1, <2>1, <2>2, BankDeliver
  <2> QED
    BY <2>3, <2>4
<1>3. ASSUME NEW error \in AckErrors, CounterpartyRejects(k, error)
      PROVE  HistoryOK' /\ BankOK'
  <2>1. /\ packets[k].status = "sent" /\ UNCHANGED <<log, bank>>
        /\ packets' = [packets EXCEPT ![k].status = "rejected", ![k].ack = error]
    BY <1>3 DEF CounterpartyRejects
  <2>2. Moved(k, "rejected")
    BY <1>1, <2>1, RejectedBy
  <2>3. HistoryOK'
    BY <2>1, <2>2, HistoryMove
  <2>4. \A x, y : InFlight(x, y)' = InFlight(x, y)
    BY <1>1, <2>1, <2>2, InFlightSame
  <2> QED
    BY <2>1, <2>3, <2>4, BankSame
<1>4. CASE OnAcknowledgementPacket(k)
  <2>1. CASE packets[k].status = "rejected"
    <3>1. RefundPacket(k) /\ UNCHANGED abroad /\ (Revert(k) \/ UNCHANGED log)
      BY <1>4, <2>1 DEF OnAcknowledgementPacket
    <3> QED
      BY <2>1, <3>1, RefundAccounts
  <2>2. CASE packets[k].status # "rejected"
    <3>1. /\ packets[k].status = "delivered" /\ UNCHANGED <<log, bank>>
          /\ packets' = [packets EXCEPT ![k].status = "acked"]
      BY <1>4, <2>2 DEF OnAcknowledgementPacket, bank
    <3>2. Moved(k, "acked")
      BY <1>1, <3>1, MovedBy DEF Status
    <3>3. HistoryOK'
      BY <3>1, <3>2, HistoryMove
    <3>4. \A x, y : InFlight(x, y)' = InFlight(x, y)
      BY <1>1, <3>1, <3>2, InFlightSame
    <3> QED
      BY <3>1, <3>3, <3>4, BankSame
  <2> QED
    BY <2>1, <2>2
<1>5. CASE OnTimeoutPacket(k)
  <2>1. packets[k].status = "sent" /\ RefundPacket(k) /\ UNCHANGED abroad /\ Revert(k)
    BY <1>5 DEF OnTimeoutPacket
  <2> QED
    BY <2>1, RefundAccounts
<1> QED
  BY <1>2, <1>3, <1>4, <1>5

----------------------------------------------------------------------------
(* The trackers and the start of their periods.                            *)

OpenedOK ==
  /\ opened \in [Paths -> Seq(Nat)]
  /\ \A p \in Paths :
       /\ Len(opened[p]) = Len(Load(trackers, p))
       /\ \A i \in 1 .. Len(opened[p]) : opened[p][i] <= Len(log)

TrackersOK == StoreOK(Paths, trackers) /\ OpenedOK

\* The trackers a transfer of denom on channel meets
Meets(p, channel, denom) == p.denom = denom /\ p.channel \in {channel, "any"}

\* They are those of two keys.
LEMMA MeetsIs ==
  ASSUME NEW c \in Channels, NEW d \in Denoms
  PROVE  /\ Path(c, d) \in Paths /\ Path("any", d) \in Paths
         /\ \A p \in Paths : Meets(p, c, d) <=> p \in {Path(c, d), Path("any", d)}
BY DEF Meets, Paths, Path

\* A key with trackers is loaded as it is.
LEMMA LoadIs ==
  ASSUME StoreOK(Paths, trackers), NEW p \in Paths
  PROVE  /\ Len(Load(trackers, p)) \in Nat
         /\ \A i \in 1 .. Len(Load(trackers, p)) :
              /\ Load(trackers, p) = trackers[p] /\ LimitOK(trackers[p][i])
              /\ trackers[p] # Absent
<1>1. LimitsOK(Load(trackers, p))
  BY LoadOK
<1>2. Len(Load(trackers, p)) \in Nat
  BY <1>1 DEF LimitsOK
<1>3. ASSUME NEW i \in 1 .. Len(Load(trackers, p))
      PROVE  Load(trackers, p) = trackers[p] /\ trackers[p] # Absent
  BY DEF Load
<1> QED
  BY <1>1, <1>2, <1>3 DEF LimitsOK

\* What an accepted transfer does to the trackers and their periods
Applied(direction, c, d, amount, value) ==
  \A p \in Paths :
    /\ Len(Load(trackers', p)) = Len(Load(trackers, p))
    /\ \A i \in 1 .. Len(Load(trackers, p)) :
         IF Meets(p, c, d)
         THEN /\ allow_transfer(trackers[p][i], d, direction, amount, value, now).ok
              /\ trackers'[p][i] =
                   allow_transfer(trackers[p][i], d, direction, amount, value, now).limit
              /\ opened'[p][i] = IF is_expired(trackers[p][i].flow, now)
                                 THEN Len(log) ELSE opened[p][i]
         ELSE trackers'[p][i] = trackers[p][i] /\ opened'[p][i] = opened[p][i]

\* What an undo does to the trackers
Lowered(c, d, amount) ==
  \A p \in Paths :
    /\ Len(Load(trackers', p)) = Len(Load(trackers, p))
    /\ \A i \in 1 .. Len(Load(trackers, p)) :
         trackers'[p][i] = IF Meets(p, c, d)
                           THEN [trackers[p][i] EXCEPT !.flow = undo_flow(@, amount)]
                           ELSE trackers[p][i]

\* A transfer the contract accepts: the trackers it meets apply allow_transfer, each of
\* which accepts, and start a period if theirs has expired.
LEMMA TransferTrackers ==
  ASSUME TrackersOK, now \in Nat, contract = ContractAddr, NEW direction \in FlowType,
         NEW c \in Channels, NEW d \in Denoms, NEW amount \in Uint256, NEW value \in Uint256,
         try_transfer(trackers, c, d, value, amount, direction, now).ok,
         trackers' = try_transfer(trackers, c, d, value, amount, direction, now).store,
         OpenExpired(c, d), Len(log) \in Nat, Len(log') \in Nat, Len(log) <= Len(log')
  PROVE  TrackersOK' /\ Applied(direction, c, d, amount, value)
<1>1. StoreOK(Paths, trackers) /\ OpenedOK
  BY DEF TrackersOK
<1>2. StoreOK(Paths, trackers')
  BY <1>1, MeetsIs, TryTransferOK
<1>3. \A p \in Paths :
        /\ Len(Load(trackers', p)) = Len(Load(trackers, p))
        /\ \A i \in 1 .. Len(Load(trackers, p)) :
             LET call == allow_transfer(Load(trackers, p)[i], d, direction, amount, value, now)
             IN IF p \in {Path(c, d), Path("any", d)}
                THEN call.ok /\ Load(trackers', p)[i] = call.limit
                ELSE Load(trackers', p)[i] = Load(trackers, p)[i]
  BY <1>1, MeetsIs, TryTransferIs
<1>4. ASSUME NEW p \in Paths, NEW i \in 1 .. Len(Load(trackers, p))
      PROVE  /\ Load(trackers, p) = trackers[p] /\ Load(trackers', p) = trackers'[p]
             /\ trackers[p] # Absent
  <2>1. i \in 1 .. Len(Load(trackers', p))
    BY <1>3
  <2> QED
    BY <2>1 DEF Load
<1> DEFINE calls(p, i) == allow_transfer(trackers[p][i], d, direction, amount, value, now)
<1>5. ASSUME NEW p \in Paths, NEW i \in 1 .. Len(Load(trackers, p))
      PROVE  IF Meets(p, c, d)
             THEN calls(p, i).ok /\ trackers'[p][i] = calls(p, i).limit
             ELSE trackers'[p][i] = trackers[p][i]
  <2>1. Meets(p, c, d) <=> p \in {Path(c, d), Path("any", d)}
    BY MeetsIs
  <2>2. Load(trackers, p) = trackers[p] /\ Load(trackers', p) = trackers'[p]
    BY <1>4
  <2> QED
    BY <1>3, <2>1, <2>2
<1> DEFINE start(p, i) == IF is_expired(trackers[p][i].flow, now) THEN Len(log) ELSE opened[p][i]
<1>6. opened' = [p \in Paths |-> IF Meets(p, c, d)
                                 THEN [i \in 1 .. Len(Load(trackers, p)) |-> start(p, i)]
                                 ELSE opened[p]]
  BY DEF OpenExpired, Meets
<1>7. ASSUME NEW p \in Paths
      PROVE  /\ opened[p] \in Seq(Nat) /\ Len(opened[p]) = Len(Load(trackers, p))
             /\ Len(opened[p]) \in Nat
             /\ \A i \in 1 .. Len(opened[p]) : opened[p][i] \in Nat /\ opened[p][i] <= Len(log)
  BY <1>1 DEF OpenedOK
<1>8. ASSUME NEW p \in Paths, NEW i \in 1 .. Len(Load(trackers, p))
      PROVE  start(p, i) \in Nat /\ start(p, i) <= Len(log)
  BY <1>7
<1> HIDE DEF calls, start
<1>9. ASSUME NEW p \in Paths
      PROVE  /\ opened'[p] \in Seq(Nat) /\ Len(opened'[p]) = Len(Load(trackers, p))
             /\ \A i \in 1 .. Len(Load(trackers, p)) :
                  /\ opened'[p][i] = IF Meets(p, c, d) THEN start(p, i) ELSE opened[p][i]
                  /\ opened'[p][i] <= Len(log)
  <2>1. CASE Meets(p, c, d)
    <3>1. opened'[p] = [i \in 1 .. Len(Load(trackers, p)) |-> start(p, i)]
      BY <1>6, <2>1
    <3>2. Len(Load(trackers, p)) \in Nat
      BY <1>7
    <3>3. opened'[p] \in Seq(Nat) /\ Len(opened'[p]) = Len(Load(trackers, p))
      BY <1>8, <3>1, <3>2
    <3> QED
      BY <1>8, <2>1, <3>1, <3>3
  <2>2. CASE ~ Meets(p, c, d)
    BY <1>6, <1>7, <2>2
  <2> QED
    BY <2>1, <2>2
<1>10. OpenedOK'
  <2>1. opened' \in [Paths -> Seq(Nat)]
    BY <1>6, <1>9
  <2>2. ASSUME NEW p \in Paths
        PROVE  /\ Len(opened'[p]) = Len(Load(trackers', p))
               /\ \A i \in 1 .. Len(opened'[p]) : opened'[p][i] <= Len(log')
    <3>1. Len(opened'[p]) = Len(Load(trackers', p))
      BY <1>3, <1>9
    <3>2. ASSUME NEW i \in 1 .. Len(opened'[p]) PROVE opened'[p][i] <= Len(log')
      <4>1. i \in 1 .. Len(Load(trackers, p)) /\ opened'[p][i] \in Nat
        BY <1>9
      <4>2. opened'[p][i] <= Len(log)
        BY <1>9, <4>1
      <4> QED
        BY <4>1, <4>2
    <3> QED
      BY <3>1, <3>2
  <2> QED
    BY <2>1, <2>2 DEF OpenedOK, Load
<1>11. TrackersOK'
  BY <1>2, <1>10 DEF TrackersOK, StoreOK
<1>12. ASSUME NEW p \in Paths, NEW i \in 1 .. Len(Load(trackers, p))
       PROVE  IF Meets(p, c, d)
              THEN calls(p, i).ok /\ trackers'[p][i] = calls(p, i).limit /\ opened'[p][i] = start(p, i)
              ELSE trackers'[p][i] = trackers[p][i] /\ opened'[p][i] = opened[p][i]
  BY <1>5, <1>9
<1> QED
  BY <1>3, <1>11, <1>12 DEF Applied, calls, start

\* An undo the contract applies: no period starts.
LEMMA UndoTrackers ==
  ASSUME TrackersOK, NEW c \in Channels, NEW d \in Denoms, NEW amount \in Uint256,
         trackers' = undo_send(trackers, c, d, amount), UNCHANGED opened,
         Len(log) \in Nat, Len(log') \in Nat, Len(log) <= Len(log')
  PROVE  TrackersOK' /\ Lowered(c, d, amount)
<1>1. StoreOK(Paths, trackers) /\ OpenedOK
  BY DEF TrackersOK
<1>2. StoreOK(Paths, trackers')
  BY <1>1, MeetsIs, UndoSendOK
<1>3. \A p \in Paths :
        /\ Len(Load(trackers', p)) = Len(Load(trackers, p))
        /\ \A i \in 1 .. Len(Load(trackers, p)) :
             Load(trackers', p)[i] = IF p \in {Path(c, d), Path("any", d)}
                                     THEN [Load(trackers, p)[i] EXCEPT !.flow = undo_flow(@, amount)]
                                     ELSE Load(trackers, p)[i]
  BY <1>1, MeetsIs, UndoSendIs
<1>4. ASSUME NEW p \in Paths, NEW i \in 1 .. Len(Load(trackers, p))
      PROVE  trackers'[p][i] = IF Meets(p, c, d)
                               THEN [trackers[p][i] EXCEPT !.flow = undo_flow(@, amount)]
                               ELSE trackers[p][i]
  <2>1. i \in 1 .. Len(Load(trackers', p))
    BY <1>3
  <2>2. Load(trackers, p) = trackers[p] /\ Load(trackers', p) = trackers'[p]
    BY <2>1 DEF Load
  <2>3. Meets(p, c, d) <=> p \in {Path(c, d), Path("any", d)}
    BY MeetsIs
  <2> QED
    BY <1>3, <2>2, <2>3
<1>5. OpenedOK'
  <2>1. ASSUME NEW p \in Paths
        PROVE  /\ Len(opened'[p]) = Len(Load(trackers', p))
               /\ \A i \in 1 .. Len(opened'[p]) : opened'[p][i] <= Len(log')
    <3>1. opened' = opened /\ opened[p] \in Seq(Nat) /\ Len(opened[p]) = Len(Load(trackers, p))
      BY <1>1 DEF OpenedOK
    <3>2. \A i \in 1 .. Len(opened[p]) : opened[p][i] \in Nat /\ opened[p][i] <= Len(log)
      BY <1>1, <3>1 DEF OpenedOK
    <3> QED
      BY <1>3, <3>1, <3>2
  <2> QED
    BY <1>1, <2>1 DEF OpenedOK, Load
<1> QED
  BY <1>2, <1>3, <1>4, <1>5 DEF TrackersOK, StoreOK, Lowered

\* Tracker i of key p stays as it is, or starts over with an empty flow and the channel
\* value it had, or none.
KeptOrNew(p, i) ==
  \/ /\ i \in 1 .. Len(Load(trackers, p))
     /\ trackers'[p][i] = trackers[p][i] /\ opened'[p][i] = opened[p][i]
  \/ /\ trackers'[p][i].flow.inflow = 0 /\ trackers'[p][i].flow.outflow = 0
     /\ trackers'[p][i].quota.channel_value \in {None, trackers[p][i].quota.channel_value}
     /\ opened'[p][i] = Len(log)

\* A message that changes the trackers of one key
LEMMA OneKeyTrackers ==
  ASSUME TrackersOK, UNCHANGED log, Len(log) \in Nat, NEW path \in Paths,
         StoreOK(Paths, trackers'),
         \A p \in Paths : p # path => trackers'[p] = trackers[p],
         NEW starts \in Seq(Nat), opened' = [opened EXCEPT ![path] = starts],
         Len(starts) = Len(Load(trackers', path)),
         \A i \in 1 .. Len(starts) : starts[i] <= Len(log),
         \A i \in 1 .. Len(Load(trackers', path)) : KeptOrNew(path, i)
  PROVE  TrackersOK' /\ \A p \in Paths : \A i \in 1 .. Len(Load(trackers', p)) : KeptOrNew(p, i)
<1>1. StoreOK(Paths, trackers) /\ OpenedOK
  BY DEF TrackersOK
<1>2. /\ opened' \in [Paths -> Seq(Nat)] /\ opened'[path] = starts
      /\ \A p \in Paths : p # path => opened'[p] = opened[p]
  BY <1>1 DEF OpenedOK
<1>3. ASSUME NEW p \in Paths
      PROVE  /\ Len(opened'[p]) = Len(Load(trackers', p))
             /\ \A i \in 1 .. Len(opened'[p]) : opened'[p][i] <= Len(log')
  <2>1. CASE p = path
    BY <1>2, <2>1
  <2>2. CASE p # path
    <3>1. Load(trackers', p) = Load(trackers, p) /\ opened'[p] = opened[p]
      BY <1>2, <2>2 DEF Load
    <3> QED
      BY <1>1, <3>1 DEF OpenedOK
  <2> QED
    BY <2>1, <2>2
<1>4. OpenedOK'
  BY <1>2, <1>3 DEF OpenedOK, Load
<1>5. ASSUME NEW p \in Paths, NEW i \in 1 .. Len(Load(trackers', p))
      PROVE  KeptOrNew(p, i)
  <2>1. CASE p # path
    BY <1>2, <2>1 DEF KeptOrNew, Load
  <2> QED
    BY <2>1
<1> QED
  BY <1>4, <1>5 DEF TrackersOK, StoreOK

\* AddPath: a new vector, whose periods start now
LEMMA AddPathTrackers ==
  ASSUME TrackersOK, now \in Nat, Len(log) \in Nat, NEW path \in Paths, NEW quotas \in QuotaLists,
         AddPath(path, quotas)
  PROVE  TrackersOK' /\ \A p \in Paths : \A i \in 1 .. Len(Load(trackers', p)) : KeptOrNew(p, i)
<1> DEFINE limits == NewLimits(quotas, now)
           starts == [i \in 1 .. Len(quotas) |-> Len(log)]
<1>1. /\ trackers' = [trackers EXCEPT ![path] = limits] /\ UNCHANGED log
      /\ opened' = [opened EXCEPT ![path] = starts]
  BY DEF AddPath, add_new_path
<1>2. StoreOK(Paths, trackers) /\ trackers \in [Paths -> Seq(RateLimits) \cup {Absent}]
  BY DEF TrackersOK, StoreOK
<1>3. quotas \in Seq(QuotaMsg) /\ Len(quotas) \in Nat
  BY StackQuotasAssumption
<1>4. LimitsOK(limits)
  BY <1>3, NewLimitsOK
<1>5. limits \in Seq(RateLimits) /\ limits # Absent
  BY <1>4, AbsentAssumption DEF LimitsOK
<1>6. Len(limits) = Len(quotas)
  BY <1>3, <1>5 DEF NewLimits
<1>7. \A i \in 1 .. Len(quotas) :
        limits[i].flow = ZeroFlow(now, quotas[i].duration) /\ limits[i].quota.channel_value = None
  BY DEF NewLimits, QuotaFrom
<1>8. starts \in Seq(Nat) /\ Len(starts) = Len(quotas) /\ \A i \in 1 .. Len(starts) : starts[i] = Len(log)
  BY <1>3
<1> HIDE DEF limits, starts
<1>9. trackers'[path] = limits /\ Load(trackers', path) = limits
  BY <1>1, <1>2, <1>5 DEF Load
<1>10. StoreOK(Paths, trackers')
  BY <1>1, <1>2, <1>4, SaveOK
<1>11. ASSUME NEW i \in 1 .. Len(Load(trackers', path))
       PROVE  KeptOrNew(path, i)
  <2>1. opened'[path] = starts
    BY <1>1 DEF TrackersOK, OpenedOK
  <2>2. trackers'[path][i].flow.inflow = 0 /\ trackers'[path][i].flow.outflow = 0
    <3>1. trackers'[path][i].flow = ZeroFlow(now, quotas[i].duration)
      BY <1>6, <1>7, <1>9
    <3> QED
      BY <3>1 DEF ZeroFlow
  <2>3. opened'[path][i] = Len(log)
    BY <1>6, <1>8, <1>9, <2>1
  <2>4. trackers'[path][i].quota.channel_value = None
    BY <1>6, <1>7, <1>9
  <2> QED
    BY <2>2, <2>3, <2>4 DEF KeptOrNew
<1>12. \A p \in Paths : p # path => trackers'[p] = trackers[p]
  BY <1>1, <1>2
<1>13. PICK s \in Seq(Nat) : s = starts
  BY <1>8
<1>14. /\ Len(s) = Len(Load(trackers', path)) /\ opened' = [opened EXCEPT ![path] = s]
       /\ \A i \in 1 .. Len(s) : s[i] <= Len(log)
  BY <1>1, <1>6, <1>8, <1>9, <1>13
<1> QED
  BY <1>1, <1>10, <1>11, <1>12, <1>14, OneKeyTrackers

\* RemovePath: no tracker is left under the key
LEMMA RemovePathTrackers ==
  ASSUME TrackersOK, Len(log) \in Nat, NEW path \in Paths, RemovePath(path)
  PROVE  TrackersOK' /\ \A p \in Paths : \A i \in 1 .. Len(Load(trackers', p)) : KeptOrNew(p, i)
<1>1. /\ trackers' = [trackers EXCEPT ![path] = Absent] /\ UNCHANGED log
      /\ opened' = [opened EXCEPT ![path] = <<>>]
  BY DEF RemovePath, remove_path
<1>2. /\ StoreOK(Paths, trackers') /\ trackers'[path] = Absent
      /\ \A p \in Paths : p # path => trackers'[p] = trackers[p]
  BY <1>1 DEF TrackersOK, StoreOK
<1>3. Load(trackers', path) = <<>>
  BY <1>2 DEF Load
<1>4. <<>> \in Seq(Nat) /\ Len(<<>>) = 0
  OBVIOUS
<1>5. \A i \in 1 .. Len(Load(trackers', path)) : KeptOrNew(path, i)
  BY <1>3, <1>4
<1>6. PICK starts \in Seq(Nat) : starts = <<>>
  BY <1>4
<1>7. /\ Len(starts) = Len(Load(trackers', path)) /\ opened' = [opened EXCEPT ![path] = starts]
      /\ \A i \in 1 .. Len(starts) : starts[i] <= Len(log)
  BY <1>1, <1>3, <1>4, <1>6
<1> QED
  BY <1>1, <1>2, <1>5, <1>7, OneKeyTrackers

\* ResetPathQuota: the trackers of that name start over
LEMMA ResetTrackers ==
  ASSUME TrackersOK, now \in Nat, Len(log) \in Nat, NEW path \in Paths, NEW id,
         ResetPathQuota(path, id)
  PROVE  TrackersOK' /\ \A p \in Paths : \A i \in 1 .. Len(Load(trackers', p)) : KeptOrNew(p, i)
<1> DEFINE old == Load(trackers, path)
           limits == ResetLimits(old, id, now)
           named(i) == trackers[path][i].quota.name = id
           starts == [i \in DOMAIN opened[path] |-> IF named(i) THEN Len(log) ELSE opened[path][i]]
<1>1. StoreOK(Paths, trackers) /\ OpenedOK
  BY DEF TrackersOK
<1>2. /\ trackers' = [trackers EXCEPT ![path] = limits] /\ trackers[path] # Absent /\ UNCHANGED log
      /\ opened' = [opened EXCEPT ![path] = starts]
  BY DEF ResetPathQuota, reset_path_quota
<1>3. StoreOK(Paths, trackers')
  BY <1>1, ResetPathQuotaOK DEF ResetPathQuota
<1>4. /\ old = trackers[path] /\ old \in Seq(RateLimits) /\ Len(old) \in Nat
      /\ opened[path] \in Seq(Nat) /\ Len(opened[path]) = Len(old)
  BY <1>1, <1>2, LoadOK DEF LimitsOK, Load, OpenedOK
<1>5. /\ DOMAIN limits = 1 .. Len(old)
      /\ \A i \in 1 .. Len(old) :
           limits[i] = IF named(i) THEN [old[i] EXCEPT !.flow = expire(now, old[i].quota.duration)]
                       ELSE old[i]
  BY <1>4 DEF ResetLimits
<1>6. trackers'[path] = limits /\ \A p \in Paths : p # path => trackers'[p] = trackers[p]
  BY <1>1, <1>2 DEF StoreOK
<1>7. \A i \in 1 .. Len(old) : opened[path][i] \in Nat /\ opened[path][i] <= Len(log)
  BY <1>1, <1>4 DEF OpenedOK
<1>8. DOMAIN opened[path] = 1 .. Len(old)
  BY <1>4
<1> HIDE DEF limits, named, old
<1>9. /\ starts = [i \in 1 .. Len(old) |-> IF named(i) THEN Len(log) ELSE opened[path][i]]
  BY <1>8
<1>10. /\ starts \in Seq(Nat) /\ Len(starts) = Len(old)
       /\ \A i \in 1 .. Len(old) : starts[i] = IF named(i) THEN Len(log) ELSE opened[path][i]
       /\ \A i \in 1 .. Len(starts) : starts[i] <= Len(log)
  <2> HIDE DEF starts
  <2>1. starts \in Seq(Nat)
    BY <1>4, <1>7, <1>9
  <2> QED
    BY <1>4, <1>7, <1>9, <2>1
<1> HIDE DEF starts
<1>11. CASE trackers'[path] = Absent
  <2>1. FALSE
    <3>1. limits \in Seq(RateLimits)
      <4>1. ASSUME NEW i \in 1 .. Len(old)
            PROVE  limits[i] \in RateLimits
        <5>1. LimitOK(old[i])
          BY <1>1, LoadOK DEF LimitsOK, old
        <5>2. LimitOK(limits[i])
          <6>1. \/ limits[i] = old[i]
                \/ limits[i] = [old[i] EXCEPT !.flow = expire(now, old[i].quota.duration)]
            BY <1>5
          <6> QED
            BY <5>1, <6>1, ExpireOK
        <5> QED
          BY <5>2 DEF LimitOK
      <4>2. limits = [i \in 1 .. Len(old) |-> limits[i]]
        BY <1>5 DEF limits, ResetLimits
      <4>3. Len(old) \in Nat
        BY <1>4
      <4> QED
        BY <4>1, <4>2, <4>3
    <3> QED
      BY <1>6, <1>11, <3>1, AbsentAssumption
  <2> QED
    BY <2>1
<1>12. CASE trackers'[path] # Absent
  <2>1. Load(trackers', path) = limits /\ limits \in Seq(RateLimits)
    BY <1>3, <1>6, <1>12 DEF Load, StoreOK
  <2>2. Len(limits) = Len(old)
    BY <1>4, <1>5, <2>1
  <2>3. ASSUME NEW i \in 1 .. Len(old)
        PROVE  KeptOrNew(path, i)
    <3>1. opened'[path][i] = starts[i]
      BY <1>1, <1>2 DEF OpenedOK
    <3>2. old[i] \in RateLimits
      BY <1>4
    <3>3. CASE named(i)
      <4>1. limits[i].flow = expire(now, old[i].quota.duration) /\ limits[i].quota = old[i].quota
        BY <1>5, <3>2, <3>3 DEF RateLimits
      <4>2. trackers'[path][i].quota = trackers[path][i].quota
        BY <1>4, <1>6, <4>1
      <4> QED
        BY <1>6, <1>10, <3>1, <3>3, <4>1, <4>2 DEF KeptOrNew, expire, ZeroFlow
    <3>4. CASE ~ named(i)
      <4>1. trackers'[path][i] = trackers[path][i] /\ opened'[path][i] = opened[path][i]
        BY <1>4, <1>5, <1>6, <1>10, <3>1, <3>4
      <4> QED
        BY <4>1 DEF KeptOrNew, old
    <3> QED
      BY <3>3, <3>4
  <2>4. PICK s \in Seq(Nat) : s = starts
    BY <1>10
  <2>5. /\ Len(s) = Len(Load(trackers', path)) /\ opened' = [opened EXCEPT ![path] = s]
        /\ \A i \in 1 .. Len(s) : s[i] <= Len(log)
    BY <1>2, <1>10, <2>1, <2>2, <2>4
  <2>6. \A i \in 1 .. Len(Load(trackers', path)) : KeptOrNew(path, i)
    BY <2>1, <2>2, <2>3
  <2> QED
    BY <1>2, <1>3, <1>6, <2>5, <2>6, OneKeyTrackers
<1> QED
  BY <1>11, <1>12

\* The contract is told of an event of this kind.
Told(kind, c, d, amount, of) ==
  \E event \in Event :
    /\ Logged(event)
    /\ event.kind = kind /\ event.channel = c /\ event.denom = d
    /\ event.amount = amount /\ event.of = of

\* Nothing the trackers depend on changes.
LEMMA SameTrackers ==
  ASSUME TrackersOK, UNCHANGED <<trackers, opened, log>>
  PROVE  TrackersOK'
BY DEF TrackersOK, OpenedOK, StoreOK, Load

\* A transfer, sent or received
LEMMA TransferIs ==
  ASSUME TrackersOK, log \in Seq(Event), now \in Nat, NEW direction \in FlowType,
         NEW c \in Channels, NEW d \in Denoms, NEW amount \in Uint256, NEW value \in Uint256,
         CheckAndUpdateRateLimits(direction, c, d, value, amount).ok,
         trackers' = CheckAndUpdateRateLimits(direction, c, d, value, amount).store,
         Record(direction, c, d, amount, 0), OpenExpired(c, d)
  PROVE  /\ TrackersOK'
         /\ contract # ContractAddr => UNCHANGED <<trackers, opened, log>>
         /\ contract = ContractAddr =>
              Applied(direction, c, d, amount, value) /\ Told(direction, c, d, amount, 0)
<1>1. CASE contract # ContractAddr
  <2>1. UNCHANGED <<trackers, opened, log>>
    BY <1>1 DEF CheckAndUpdateRateLimits, Record, OpenExpired
  <2> QED
    BY <1>1, <2>1, SameTrackers
<1>2. CASE contract = ContractAddr
  <2>1. /\ try_transfer(trackers, c, d, value, amount, direction, now).ok
        /\ trackers' = try_transfer(trackers, c, d, value, amount, direction, now).store
    BY <1>2 DEF CheckAndUpdateRateLimits
  <2>2. Told(direction, c, d, amount, 0)
    BY <1>2, RecordIs DEF Told
  <2>3. Len(log) \in Nat /\ Len(log') \in Nat /\ Len(log) <= Len(log')
    BY <2>2 DEF Told, Logged
  <2>4. TrackersOK' /\ Applied(direction, c, d, amount, value)
    BY <1>2, <2>1, <2>3, TransferTrackers
  <2> QED
    BY <1>2, <2>2, <2>4
<1> QED
  BY <1>1, <1>2

\* The supply the contract is told with a send
SentValue(c, d, amount) == Take(c, d, amount).supply[d]

\* A send
LEMMA SendTrackers ==
  ASSUME TrackersOK, HistoryOK, BankOK, now \in Nat, NEW c \in Channels, NEW d \in Denoms,
         NEW amount \in Amounts, NEW lifetime \in Lifetimes, SendPacket(c, d, amount, lifetime)
  PROVE  /\ TrackersOK' /\ amount \in Uint256 /\ SentValue(c, d, amount) \in 0 .. MaxSupply
         /\ contract # ContractAddr => UNCHANGED <<trackers, opened, log>>
         /\ contract = ContractAddr =>
              Applied("Out", c, d, amount, SentValue(c, d, amount)) /\ Told("Out", c, d, amount, 0)
<1>1. amount \in Uint256 /\ amount \in Nat /\ log \in Seq(Event)
  BY StackAmountsAssumption DEF Uint256, HistoryOK
<1>2. /\ amount <= Spendable(d)
      /\ CheckAndUpdateRateLimits("Out", c, d, SentValue(c, d, amount), amount).ok
      /\ trackers' = CheckAndUpdateRateLimits("Out", c, d, SentValue(c, d, amount), amount).store
      /\ Record("Out", c, d, amount, 0) /\ OpenExpired(c, d)
  BY DEF SendPacket, SentValue
<1>3. BankTypes /\ supply[d] \in 0 .. MaxSupply
  BY DEF BankOK, BankTypes
<1>4. Spendable(d) \in Int /\ Spendable(d) <= supply[d]
  BY <1>3, SpendableIsSupplied
<1>5. SentValue(c, d, amount) = IF IsEscrowed(c, d) THEN supply[d] ELSE supply[d] - amount
  BY <1>3 DEF SentValue, Take, BankTypes
<1>6. SentValue(c, d, amount) \in 0 .. MaxSupply
  BY <1>1, <1>2, <1>3, <1>4, <1>5, StackBoundsAssumption DEF Uint256
<1>7. PICK value \in Uint256 : value = SentValue(c, d, amount)
  BY <1>6, StackBoundsAssumption, MaxUintAssumption DEF Uint256
<1>8. /\ TrackersOK'
      /\ contract # ContractAddr => UNCHANGED <<trackers, opened, log>>
      /\ contract = ContractAddr => Applied("Out", c, d, amount, value) /\ Told("Out", c, d, amount, 0)
  BY <1>1, <1>2, <1>7, TransferIs DEF FlowType
<1> QED
  BY <1>1, <1>6, <1>7, <1>8

\* A reception
LEMMA RecvTrackers ==
  ASSUME TrackersOK, HistoryOK, BankOK, now \in Nat, NEW c \in Channels, NEW d \in Denoms,
         NEW amount \in Amounts, OnRecvPacket(c, d, amount)
  PROVE  /\ TrackersOK' /\ amount \in Uint256 /\ supply[d] \in 0 .. MaxSupply
         /\ contract # ContractAddr => UNCHANGED <<trackers, opened, log>>
         /\ contract = ContractAddr =>
              Applied("In", c, d, amount, supply[d]) /\ Told("In", c, d, amount, 0)
<1>1. amount \in Uint256 /\ log \in Seq(Event)
  BY StackAmountsAssumption DEF Uint256, HistoryOK
<1>2. /\ CheckAndUpdateRateLimits("In", c, d, supply[d], amount).ok
      /\ trackers' = CheckAndUpdateRateLimits("In", c, d, supply[d], amount).store
      /\ Record("In", c, d, amount, 0) /\ OpenExpired(c, d)
  BY DEF OnRecvPacket
<1>3. supply[d] \in 0 .. MaxSupply
  BY DEF BankOK, BankTypes
<1>4. PICK value \in Uint256 : value = supply[d]
  BY <1>3, StackBoundsAssumption, MaxUintAssumption DEF Uint256
<1>5. /\ TrackersOK'
      /\ contract # ContractAddr => UNCHANGED <<trackers, opened, log>>
      /\ contract = ContractAddr => Applied("In", c, d, amount, value) /\ Told("In", c, d, amount, 0)
  BY <1>1, <1>2, <1>4, TransferIs DEF FlowType
<1> QED
  BY <1>1, <1>3, <1>4, <1>5

\* The undo of a packet
LEMMA RevertTrackers ==
  ASSUME TrackersOK, HistoryOK, NEW k \in DOMAIN packets, Revert(k), UNCHANGED opened
  PROVE  /\ TrackersOK'
         /\ contract # ContractAddr => UNCHANGED <<trackers, log>>
         /\ contract = ContractAddr =>
              /\ Lowered(packets[k].channel, packets[k].denom, packets[k].amount)
              /\ Told("Undo", packets[k].channel, packets[k].denom, packets[k].amount, packets[k].event)
<1>1. log \in Seq(Event) /\ packets[k] \in Packet
  BY DEF HistoryOK
<1>2. PICK c \in Channels, d \in Denoms, amount \in Uint256, of \in Nat :
        /\ c = packets[k].channel /\ d = packets[k].denom /\ amount = packets[k].amount
        /\ of = packets[k].event
  BY <1>1 DEF Packet
<1>3. Record("Undo", c, d, amount, of)
  BY <1>2 DEF Revert
<1>4. CASE contract # ContractAddr
  <2>1. UNCHANGED <<trackers, opened, log>>
    BY <1>4 DEF Revert, RevertSentPacket, Record
  <2> QED
    BY <1>4, <2>1, SameTrackers
<1>5. CASE contract = ContractAddr
  <2>1. trackers' = undo_send(trackers, c, d, amount)
    BY <1>2, <1>5 DEF Revert, RevertSentPacket
  <2>2. Told("Undo", c, d, amount, of)
    <3>1. "Undo" \in FlowType \cup {"Undo"}
      OBVIOUS
    <3>2. contract = ContractAddr => \E event \in Event :
            /\ Logged(event)
            /\ event.kind = "Undo" /\ event.channel = c /\ event.denom = d
            /\ event.amount = amount /\ event.of = of
      BY <1>1, <1>3, <3>1, RecordIs
    <3> QED
      BY <1>5, <3>2 DEF Told
  <2>3. Len(log) \in Nat /\ Len(log') \in Nat /\ Len(log) <= Len(log')
    BY <2>2 DEF Told, Logged
  <2>4. TrackersOK' /\ Lowered(c, d, amount)
    BY <2>1, <2>3, UndoTrackers
  <2> QED
    BY <1>2, <1>5, <2>2, <2>4
<1> QED
  BY <1>4, <1>5

----------------------------------------------------------------------------
(* The inductive invariant.                                                *)

IInv ==
  /\ now \in 0 .. MaxNow /\ proposals \in 0 .. MaxProposals
  /\ contract \in Contracts \cup {NoContract}
  /\ HistoryOK /\ BankOK /\ TrackersOK

\* The first block: no packet, empty escrows, the trackers of the InstantiateMsg
LEMMA InitIInv == Init => IInv
<1> SUFFICES ASSUME Init PROVE IInv
  OBVIOUS
<1>1. /\ now \in 0 .. MaxNow /\ proposals \in 0 .. MaxProposals
      /\ contract \in Contracts \cup {NoContract}
  BY StackBoundsAssumption, ContractsAssumption DEF Init
<1>2. packets = <<>> /\ log = <<>> /\ DOMAIN packets = {} /\ DOMAIN log = {}
  BY DEF Init
<1>3. HistoryOK
  BY <1>2 DEF HistoryOK, EventsOK, EventsDistinct, UndosOK, UndosOnce
<1>4. \A c, d : InFlight(c, d) = 0
  <2>1. \A c, d : Unsettled(c, d) = {}
    BY <1>2 DEF Unsettled
  <2> QED
    BY <2>1, InFlightIs, SumEmpty
<1>5. BankOK
  <2>1. /\ supply = InitialSupply
        /\ escrow = [c \in Channels |-> [d \in Denoms |-> 0]]
        /\ abroad = [c \in Channels |-> [d \in Denoms |-> 0]]
    BY DEF Init
  <2>2. BankTypes /\ \A c \in Channels, d \in Denoms : escrow[c][d] = 0 /\ abroad[c][d] = 0
    BY <2>1, StackBoundsAssumption DEF BankTypes, Balances
  <2>3. EscrowBacksPackets
    BY <1>4, <2>2 DEF EscrowBacksPackets
  <2>4. VouchersBounded
    BY <1>4, <2>1, StackBoundsAssumption DEF VouchersBounded, Denoms, Uint256
  <2> QED
    BY <2>2, <2>3, <2>4 DEF BankOK
<1>6. StoreOK(Paths, trackers)
  <2>1. trackers = [p \in Paths |->
          IF InitialQuotas[p] = Absent THEN Absent ELSE NewLimits(InitialQuotas[p], 0)]
    BY DEF Init
  <2>2. ASSUME NEW p \in Paths, trackers[p] # Absent
        PROVE  LimitsOK(trackers[p])
    BY <2>1, <2>2, NewLimitsOK, StackQuotasAssumption
  <2>3. ASSUME NEW p \in Paths
        PROVE  trackers[p] \in Seq(RateLimits) \cup {Absent}
    BY <2>2 DEF LimitsOK
  <2> QED
    BY <2>1, <2>2, <2>3 DEF StoreOK
<1>7. OpenedOK
  <2>1. opened = [p \in Paths |-> [i \in 1 .. Len(Load(trackers, p)) |-> 0]]
    BY DEF Init
  <2>2. ASSUME NEW p \in Paths
        PROVE  /\ opened[p] \in Seq(Nat) /\ Len(opened[p]) = Len(Load(trackers, p))
               /\ \A i \in 1 .. Len(opened[p]) : opened[p][i] <= Len(log)
    <3>1. Len(Load(trackers, p)) \in Nat
      BY <1>6, LoadIs
    <3>2. opened[p] = [i \in 1 .. Len(Load(trackers, p)) |-> 0]
      BY <2>1
    <3>3. opened[p] \in Seq(Nat) /\ Len(opened[p]) = Len(Load(trackers, p))
      BY <3>1, <3>2
    <3>4. Len(log) = 0
      BY <1>2
    <3> QED
      BY <3>2, <3>3, <3>4
  <2> QED
    BY <2>1, <2>2 DEF OpenedOK
<1> QED
  BY <1>1, <1>3, <1>5, <1>6, <1>7 DEF IInv, TrackersOK

\* Nothing the packets, the history and the balances depend on changes.
LEMMA SameAccounts ==
  ASSUME HistoryOK, BankOK, UNCHANGED <<packets, log, bank>>
  PROVE  HistoryOK' /\ BankOK'
<1>1. HistoryOK'
  BY DEF HistoryOK, EventsOK, EventsDistinct, UndosOK, UndosOnce
<1>2. \A x, y : InFlight(x, y)' = InFlight(x, y)
  BY DEF InFlight
<1> QED
  BY <1>1, <1>2, BankSame

\* Every step of the stack keeps the invariant.
LEMMA NextIInv ==
  ASSUME IInv, [Next]_vars
  PROVE  IInv'
<1>0. /\ HistoryOK /\ BankOK /\ TrackersOK /\ now \in Nat /\ Len(log) \in Nat
      /\ now \in 0 .. MaxNow /\ proposals \in 0 .. MaxProposals
      /\ contract \in Contracts \cup {NoContract} /\ log \in Seq(Event)
      /\ MaxNow \in Nat /\ MaxProposals \in Nat
  BY StackBoundsAssumption DEF IInv, HistoryOK
<1>1. ASSUME NEW c \in Channels, NEW d \in Denoms, NEW amount \in Amounts,
             NEW lifetime \in Lifetimes, SendPacket(c, d, amount, lifetime)
      PROVE  IInv'
  <2>1. HistoryOK' /\ BankOK' /\ TrackersOK'
    BY <1>0, <1>1, SendAccounts, SendTrackers
  <2>2. UNCHANGED <<now, contract, proposals>>
    BY <1>1 DEF SendPacket
  <2> QED
    BY <1>0, <2>1, <2>2 DEF IInv
<1>2. ASSUME NEW c \in Channels, NEW d \in Denoms, NEW amount \in Amounts,
             OnRecvPacket(c, d, amount)
      PROVE  IInv'
  <2>1. HistoryOK' /\ BankOK' /\ TrackersOK'
    BY <1>0, <1>2, RecvAccounts, RecvTrackers
  <2>2. UNCHANGED <<now, contract, proposals>>
    BY <1>2 DEF OnRecvPacket
  <2> QED
    BY <1>0, <2>1, <2>2 DEF IInv
<1>3. ASSUME NEW k \in DOMAIN packets,
             \/ CounterpartyAccepts(k)
             \/ \E error \in AckErrors : CounterpartyRejects(k, error)
             \/ OnAcknowledgementPacket(k)
             \/ OnTimeoutPacket(k)
      PROVE  IInv'
  <2>1. HistoryOK' /\ BankOK'
    BY <1>0, <1>3, RelayAccounts
  <2>2. UNCHANGED <<now, contract, proposals, opened>> /\ (Revert(k) \/ UNCHANGED <<trackers, log>>)
    BY <1>3 DEF CounterpartyAccepts, CounterpartyRejects, OnAcknowledgementPacket, OnTimeoutPacket
  <2>3. TrackersOK'
    BY <1>0, <2>2, RevertTrackers, SameTrackers
  <2> QED
    BY <1>0, <2>1, <2>2, <2>3 DEF IInv
<1>4. CASE Govern
  <2>1. proposals' \in 0 .. MaxProposals
    BY <1>0, <1>4 DEF Govern
  <2>2. ASSUME NEW address \in Contracts \cup {NoContract}, SetParams(address)
        PROVE  IInv'
    <3>1. /\ UNCHANGED <<now, trackers, opened, packets, log, bank>>
          /\ contract' \in Contracts \cup {NoContract}
      BY <2>2 DEF SetParams
    <3> QED
      BY <1>0, <2>1, <3>1, SameAccounts, SameTrackers DEF IInv
  <2>3. ASSUME NEW path \in Paths,
               \/ \E quotas \in QuotaLists : AddPath(path, quotas)
               \/ RemovePath(path)
               \/ \E id \in QuotaIds : ResetPathQuota(path, id)
        PROVE  IInv'
    <3>1. TrackersOK'
      BY <1>0, <2>3, AddPathTrackers, RemovePathTrackers, ResetTrackers
    <3>2. UNCHANGED <<now, contract, packets, log, bank>>
      BY <2>3 DEF AddPath, RemovePath, ResetPathQuota
    <3> QED
      BY <1>0, <2>1, <3>1, <3>2, SameAccounts DEF IInv
  <2> QED
    BY <1>4, <2>2, <2>3 DEF Govern
<1>5. CASE NextBlock
  <2>1. /\ UNCHANGED <<contract, trackers, bank, packets, log, opened, proposals>>
        /\ now' \in 0 .. MaxNow
    BY <1>0, <1>5 DEF NextBlock
  <2> QED
    BY <1>0, <2>1, SameAccounts, SameTrackers DEF IInv
<1>6. CASE UNCHANGED vars
  <2>1. UNCHANGED <<now, contract, trackers, bank, packets, log, opened, proposals>>
    BY <1>6 DEF vars, bank
  <2> QED
    BY <1>0, <2>1, SameAccounts, SameTrackers DEF IInv
<1> QED
  BY <1>1, <1>2, <1>3, <1>4, <1>5, <1>6 DEF Next, Transfer, Relay

\* Every variable of the stack has its type: in particular no escrow account and no
\* supply goes below zero, and no refund mints more than the bank can hold.
THEOREM TypeCorrect == Spec => []TypeOK
<1>1. IInv => TypeOK
  BY DEF IInv, TypeOK, HistoryOK, BankOK, BankTypes, Balances, TrackersOK, StoreOK, OpenedOK
<1> QED
  BY <1>1, InitIInv, NextIInv, PTL DEF Spec

\* Whatever the rate limit decided, and whether or not its contract works, the escrow
\* of a channel holds exactly what is abroad and what may still be refunded.
THEOREM EscrowSafety == Spec => []EscrowBacksPackets
<1>1. IInv => EscrowBacksPackets
  BY DEF IInv, BankOK
<1> QED
  BY <1>1, InitIInv, NextIInv, PTL DEF Spec

----------------------------------------------------------------------------
(* Sends and their undos.                                                  *)

\* While the contract of the parameters stays: the contract is in place when it was
\* told of a send, and it was told of the refund too.
RefundsTold ==
  \A k \in DOMAIN packets : packets[k].event # 0 =>
    /\ contract = ContractAddr
    /\ packets[k].status = "refunded" =>
         \E j \in DOMAIN log : log[j].kind = "Undo" /\ log[j].of = packets[k].event

\* An acknowledgement that rejects a packet is recognised as an error.
RejectionsSeen ==
  \A k \in DOMAIN packets : packets[k].status = "rejected" => IsAckError(packets[k].ack)

UndoneInv == IInv /\ RefundsTold /\ RejectionsSeen

\* No undo is recorded of a packet that was not refunded, and one at most of any.
LEMMA UndoneFrom ==
  ASSUME HistoryOK, RefundsTold
  PROVE  UndoneExactlyIfRefunded
<1> SUFFICES ASSUME NEW k \in DOMAIN packets, packets[k].event # 0
             PROVE  Cardinality({j \in DOMAIN log : log[j].kind = "Undo" /\ log[j].of = packets[k].event})
                      = IF packets[k].status = "refunded" THEN 1 ELSE 0
  BY DEF UndoneExactlyIfRefunded
<1> DEFINE undos == {j \in DOMAIN log : log[j].kind = "Undo" /\ log[j].of = packets[k].event}
<1>1. CASE packets[k].status = "refunded"
  <2>1. PICK j \in DOMAIN log : log[j].kind = "Undo" /\ log[j].of = packets[k].event
    BY <1>1 DEF RefundsTold
  <2>2. undos = {j}
    BY <2>1 DEF HistoryOK, UndosOnce
  <2> HIDE DEF undos
  <2>3. Cardinality(undos) = 1
    BY <2>2, FS_Singleton
  <2> QED
    BY <1>1, <2>3 DEF undos
<1>2. CASE packets[k].status # "refunded"
  <2>1. undos = {}
    BY <1>2 DEF HistoryOK, UndosOK, EventsDistinct
  <2> HIDE DEF undos
  <2>2. Cardinality(undos) = 0
    BY <2>1, FS_EmptySet
  <2> QED
    BY <1>2, <2>2 DEF undos
<1> QED
  BY <1>1, <1>2

\* A packet moves on, other than by a rejection.
LEMMA RejectionsMove ==
  ASSUME packets \in Seq(Packet), RejectionsSeen, NEW k \in DOMAIN packets,
         NEW s \in Status, s # "rejected", packets' = [packets EXCEPT ![k].status = s]
  PROVE  RejectionsSeen'
<1>1. packets[k] \in Packet
  OBVIOUS
<1>2. \A m \in DOMAIN packets : m # k => packets'[m] = packets[m]
  OBVIOUS
<1>3. packets'[k].status = s
  BY <1>1 DEF Packet
<1>4. DOMAIN packets' = DOMAIN packets
  OBVIOUS
<1> QED
  BY <1>2, <1>3, <1>4 DEF RejectionsSeen, IsAckError

\* A packet moves on without a refund, and the contract is told nothing.
LEMMA RefundsMove ==
  ASSUME RefundsTold, NEW k \in DOMAIN packets, NEW s, s # "refunded", Moved(k, s),
         UNCHANGED <<log, contract>>
  PROVE  RefundsTold'
BY DEF RefundsTold, Moved

\* A packet is refunded and its send is undone.
LEMMA RefundsRevert ==
  ASSUME HistoryOK, BankOK, RefundsTold, NEW k \in DOMAIN packets,
         packets[k].status \in {"sent", "rejected"},
         RefundPacket(k), Revert(k), UNCHANGED <<abroad, contract>>
  PROVE  RefundsTold'
<1>1. /\ Moved(k, "refunded")
      /\ contract = ContractAddr => \E event \in Event :
           Logged(event) /\ event.kind = "Undo" /\ event.of = packets[k].event
      /\ contract # ContractAddr => UNCHANGED log
  BY RefundAccounts
<1>2. CASE contract # ContractAddr
  BY <1>1, <1>2 DEF RefundsTold, Moved
<1>3. CASE contract = ContractAddr
  <2>1. PICK event \in Event : Logged(event) /\ event.kind = "Undo" /\ event.of = packets[k].event
    BY <1>1, <1>3
  <2> SUFFICES ASSUME NEW m \in DOMAIN packets', packets'[m].event # 0,
                      packets'[m].status = "refunded"
               PROVE  \E j \in DOMAIN log' : log'[j].kind = "Undo" /\ log'[j].of = packets'[m].event
    BY <1>3 DEF RefundsTold
  <2>2. m \in DOMAIN packets /\ packets'[m].event = packets[m].event
    BY <1>1 DEF Moved
  <2>3. CASE m = k
    <3>1. Len(log) + 1 \in DOMAIN log' /\ log'[Len(log) + 1] = event
      BY <2>1 DEF Logged
    <3> QED
      BY <2>1, <2>2, <2>3, <3>1
  <2>4. CASE m # k
    <3>1. packets[m].status = "refunded"
      BY <1>1, <2>2, <2>4 DEF Moved
    <3>2. PICK j \in DOMAIN log : log[j].kind = "Undo" /\ log[j].of = packets[m].event
      BY <2>2, <3>1 DEF RefundsTold
    <3>3. j \in DOMAIN log' /\ log'[j] = log[j]
      BY <2>1, <3>2 DEF Logged
    <3> QED
      BY <2>2, <3>2, <3>3
  <2> QED
    BY <2>3, <2>4
<1> QED
  BY <1>2, <1>3

\* Every step keeps it, if governance never changes the parameters and no error
\* acknowledgement carries an empty text.
LEMMA NextUndone ==
  ASSUME "SetParams" \notin Governance, NoAckError \notin AckErrors, UndoneInv, [Next]_vars
  PROVE  RefundsTold' /\ RejectionsSeen'
<1>0. /\ IInv /\ HistoryOK /\ BankOK /\ TrackersOK /\ RefundsTold /\ RejectionsSeen
      /\ packets \in Seq(Packet) /\ log \in Seq(Event) /\ now \in Nat
  BY StackBoundsAssumption DEF UndoneInv, IInv, HistoryOK
<1>1. ASSUME NEW c \in Channels, NEW d \in Denoms, NEW amount \in Amounts,
             NEW lifetime \in Lifetimes, SendPacket(c, d, amount, lifetime)
      PROVE  RefundsTold' /\ RejectionsSeen'
  <2>1. PICK packet \in Packet :
           /\ Sent(packet) /\ packet.status = "sent"
           /\ packet.event = IF contract = ContractAddr THEN Len(log) + 1 ELSE 0
    BY <1>0, <1>1, SendIs
  <2>2. /\ UNCHANGED contract
        /\ \A j \in DOMAIN log : j \in DOMAIN log' /\ log'[j] = log[j]
    <3>1. UNCHANGED log \/ Told("Out", c, d, amount, 0)
      BY <1>0, <1>1, SendTrackers
    <3> QED
      BY <1>1, <3>1 DEF Told, Logged, SendPacket
  <2>3. RejectionsSeen'
    BY <1>0, <2>1 DEF RejectionsSeen, Sent, IsAckError
  <2>4. RefundsTold'
    BY <1>0, <2>1, <2>2 DEF RefundsTold, Sent
  <2> QED
    BY <2>3, <2>4
<1>2. ASSUME NEW c \in Channels, NEW d \in Denoms, NEW amount \in Amounts,
             OnRecvPacket(c, d, amount)
      PROVE  RefundsTold' /\ RejectionsSeen'
  <2>1. UNCHANGED <<contract, packets>>
    BY <1>2 DEF OnRecvPacket
  <2>2. \A j \in DOMAIN log : j \in DOMAIN log' /\ log'[j] = log[j]
    <3>1. UNCHANGED log \/ Told("In", c, d, amount, 0)
      BY <1>0, <1>2, RecvTrackers
    <3> QED
      BY <3>1 DEF Told, Logged
  <2> QED
    BY <1>0, <2>1, <2>2 DEF RefundsTold, RejectionsSeen, IsAckError
<1>3. ASSUME NEW k \in DOMAIN packets, CounterpartyAccepts(k)
      PROVE  RefundsTold' /\ RejectionsSeen'
  <2>1. packets' = [packets EXCEPT ![k].status = "delivered"] /\ UNCHANGED <<log, contract>>
    BY <1>3 DEF CounterpartyAccepts
  <2>2. Moved(k, "delivered") /\ "delivered" \in Status
    BY <1>0, <2>1, MovedBy DEF Status
  <2> QED
    BY <1>0, <2>1, <2>2, RefundsMove, RejectionsMove
<1>4. ASSUME NEW k \in DOMAIN packets, NEW error \in AckErrors, CounterpartyRejects(k, error)
      PROVE  RefundsTold' /\ RejectionsSeen'
  <2>1. /\ packets' = [packets EXCEPT ![k].status = "rejected", ![k].ack = error]
        /\ UNCHANGED <<log, contract>>
    BY <1>4 DEF CounterpartyRejects
  <2>2. Moved(k, "rejected")
    BY <1>0, <2>1, RejectedBy
  <2>3. packets[k] \in Packet
    BY <1>0
  <2>4. /\ packets'[k].ack = error /\ \A m \in DOMAIN packets : m # k => packets'[m] = packets[m]
        /\ DOMAIN packets' = DOMAIN packets
    BY <1>0, <2>1, <2>3 DEF Packet
  <2>5. RejectionsSeen'
    BY <1>0, <2>4 DEF RejectionsSeen, IsAckError
  <2> QED
    BY <1>0, <2>1, <2>2, <2>5, RefundsMove
<1>5. ASSUME NEW k \in DOMAIN packets, OnAcknowledgementPacket(k)
      PROVE  RefundsTold' /\ RejectionsSeen'
  <2>1. UNCHANGED <<contract, abroad>>
    BY <1>5 DEF OnAcknowledgementPacket
  <2>2. CASE packets[k].status = "rejected"
    <3>1. RefundPacket(k) /\ Revert(k)
      BY <1>0, <1>5, <2>2 DEF OnAcknowledgementPacket, RejectionsSeen
    <3>2. RefundsTold'
      BY <1>0, <2>1, <2>2, <3>1, RefundsRevert
    <3>3. packets' = [packets EXCEPT ![k].status = "refunded"] /\ "refunded" \in Status
      BY <3>1 DEF RefundPacket, Status
    <3> QED
      BY <1>0, <3>2, <3>3, RejectionsMove
  <2>3. CASE packets[k].status # "rejected"
    <3>1. packets' = [packets EXCEPT ![k].status = "acked"] /\ UNCHANGED log
      BY <1>5, <2>3 DEF OnAcknowledgementPacket
    <3>2. Moved(k, "acked") /\ "acked" \in Status
      BY <1>0, <3>1, MovedBy DEF Status
    <3> QED
      BY <1>0, <2>1, <3>1, <3>2, RefundsMove, RejectionsMove
  <2> QED
    BY <2>2, <2>3
<1>6. ASSUME NEW k \in DOMAIN packets, OnTimeoutPacket(k)
      PROVE  RefundsTold' /\ RejectionsSeen'
  <2>1. packets[k].status = "sent" /\ RefundPacket(k) /\ Revert(k) /\ UNCHANGED <<contract, abroad>>
    BY <1>6 DEF OnTimeoutPacket
  <2>2. RefundsTold'
    BY <1>0, <2>1, RefundsRevert
  <2>3. packets' = [packets EXCEPT ![k].status = "refunded"] /\ "refunded" \in Status
    BY <2>1 DEF RefundPacket, Status
  <2> QED
    BY <1>0, <2>2, <2>3, RejectionsMove
<1>7. ASSUME UNCHANGED <<packets, log, contract>>
      PROVE  RefundsTold' /\ RejectionsSeen'
  BY <1>0, <1>7 DEF RefundsTold, RejectionsSeen, IsAckError
<1>8. CASE Govern \/ NextBlock \/ UNCHANGED vars
  <2>1. UNCHANGED <<packets, log, contract>>
    BY <1>8 DEF Govern, SetParams, AddPath, RemovePath, ResetPathQuota, NextBlock, vars
  <2> QED
    BY <1>7, <2>1
<1> QED
  BY <1>1, <1>2, <1>3, <1>4, <1>5, <1>6, <1>8 DEF Next, Transfer, Relay

\* If the contract stays in place, a send is undone exactly if its tokens were given
\* back, and once: for every interleaving of acknowledgements, timeouts and resets.
\* Without the first hypothesis a refund may find another contract or none; without
\* the second an error acknowledgement would not be recognised.
THEOREM UndoSafety ==
  ASSUME "SetParams" \notin Governance, NoAckError \notin AckErrors
  PROVE  Spec => []UndoneExactlyIfRefunded
<1>1. Init => UndoneInv
  <2>1. Init => DOMAIN packets = {}
    BY DEF Init
  <2> QED
    BY <2>1, InitIInv DEF UndoneInv, RefundsTold, RejectionsSeen
<1>2. UndoneInv /\ [Next]_vars => UndoneInv'
  BY NextIInv, NextUndone DEF UndoneInv
<1>3. UndoneInv => UndoneExactlyIfRefunded
  BY UndoneFrom DEF UndoneInv, IInv
<1> QED
  BY <1>1, <1>2, <1>3, PTL DEF Spec
----------------------------------------------------------------------------
(* The counters of the trackers against the history.                       *)

\* The events Received, Gone and LateUndos sum up, and what they sum
AmountAt == [k \in DOMAIN log |-> log[k].amount]

ReceivedIn(p, i) == {k \in InPeriod(p, i) : log[k].kind = "In"}
GoneIn(p, i) == {k \in InPeriod(p, i) : log[k].kind = "Out" /\ ~ Undone(k)}
LateIn(p, i) == {k \in InPeriod(p, i) : log[k].kind = "Undo" /\ log[k].of <= opened[p][i]}

\* The three totals in these terms
LEMMA TotalsAre ==
  ASSUME NEW p, NEW i
  PROVE  /\ Received(p, i) = SumFunctionOnSet(AmountAt, ReceivedIn(p, i))
         /\ Gone(p, i) = SumFunctionOnSet(AmountAt, GoneIn(p, i))
         /\ LateUndos(p, i) = SumFunctionOnSet(AmountAt, LateIn(p, i))
         /\ Received(p, i)' = SumFunctionOnSet(AmountAt', ReceivedIn(p, i)')
         /\ Gone(p, i)' = SumFunctionOnSet(AmountAt', GoneIn(p, i)')
         /\ LateUndos(p, i)' = SumFunctionOnSet(AmountAt', LateIn(p, i)')
BY DEF Received, Gone, LateUndos, Total, AmountAt, ReceivedIn, GoneIn, LateIn

\* They are sums of events.
LEMMA PeriodEvents ==
  ASSUME NEW p, NEW i
  PROVE  /\ ReceivedIn(p, i) \subseteq DOMAIN log
         /\ GoneIn(p, i) \subseteq DOMAIN log
         /\ LateIn(p, i) \subseteq DOMAIN log
BY DEF ReceivedIn, GoneIn, LateIn, InPeriod

\* A sum of events is a natural number, at most the total of all.
LEMMA EventsBounded ==
  ASSUME log \in Seq(Event), NEW S \in SUBSET DOMAIN log
  PROVE  /\ IsFiniteSet(S) /\ SumFunctionOnSet(AmountAt, S) \in Nat
         /\ \A k \in DOMAIN log : AmountAt[k] = log[k].amount /\ AmountAt[k] \in Nat
         /\ Total(DOMAIN log) \in Nat
         /\ SumFunctionOnSet(AmountAt, S) <= Total(DOMAIN log)
<1>1. IsFiniteSet(DOMAIN log)
  <2>1. DOMAIN log = 1 .. Len(log) /\ Len(log) \in Nat
    OBVIOUS
  <2> QED
    BY <2>1, FS_Interval
<1>2. ASSUME NEW k \in DOMAIN log
      PROVE  AmountAt[k] = log[k].amount /\ AmountAt[k] \in Nat
  <2>1. log[k] \in Event
    OBVIOUS
  <2> QED
    BY <2>1 DEF AmountAt, Event, Uint256
<1>3. IsFiniteSet(S)
  BY <1>1, FS_Subset
<1>4. Total(DOMAIN log) = SumFunctionOnSet(AmountAt, DOMAIN log)
  BY DEF Total, AmountAt
<1>5. SumFunctionOnSet(AmountAt, S) \in Nat /\ SumFunctionOnSet(AmountAt, DOMAIN log) \in Nat
  BY <1>1, <1>2, <1>3, SumNat
<1>6. SumFunctionOnSet(AmountAt, S) <= SumFunctionOnSet(AmountAt, DOMAIN log)
  BY <1>1, <1>2, SumMonotone
<1> QED
  BY <1>2, <1>3, <1>4, <1>5, <1>6

\* How a sum changes when the contract is told of an event: by the event, by an
\* earlier one that no longer counts, or not at all.
LEMMA SumsLogged ==
  ASSUME log \in Seq(Event), NEW event \in Event, Logged(event), NEW S \in SUBSET DOMAIN log
  PROVE  /\ SumFunctionOnSet(AmountAt', S) = SumFunctionOnSet(AmountAt, S)
         /\ SumFunctionOnSet(AmountAt', S \cup {Len(log) + 1}) =
              SumFunctionOnSet(AmountAt, S) + event.amount
         /\ \A e \in S : SumFunctionOnSet(AmountAt', S \ {e}) =
                           SumFunctionOnSet(AmountAt, S) - log[e].amount
<1> DEFINE n == Len(log) + 1
           f == AmountAt
           g == AmountAt'
<1>1. /\ IsFiniteSet(S) /\ SumFunctionOnSet(f, S) \in Nat
      /\ \A k \in DOMAIN log : f[k] = log[k].amount /\ f[k] \in Nat
  BY EventsBounded
<1>2. \A k \in DOMAIN log : g[k] = f[k]
  BY DEF Logged, AmountAt
<1>3. g[n] = event.amount /\ event.amount \in Nat /\ n \notin S
  BY DEF Logged, AmountAt, Event, Uint256
<1> HIDE DEF n, f, g
<1>4. SumFunctionOnSet(g, S) = SumFunctionOnSet(f, S)
  BY <1>1, <1>2, SumEqual
<1>5. SumFunctionOnSet(g, S \cup {n}) = SumFunctionOnSet(g, S) + g[n]
  <2>1. \A x \in S \cup {n} : g[x] \in Int
    BY <1>1, <1>2, <1>3
  <2> QED
    BY <1>1, <1>3, <2>1, SumAddElement
<1>6. ASSUME NEW e \in S
      PROVE  SumFunctionOnSet(g, S \ {e}) = SumFunctionOnSet(f, S) - log[e].amount
  <2>1. \A x \in S : g[x] \in Int
    BY <1>1, <1>2
  <2>2. SumFunctionOnSet(g, S) = g[e] + SumFunctionOnSet(g, S \ {e})
    BY <1>1, <2>1, SumRemove, SMTT(30)
  <2>3. IsFiniteSet(S \ {e}) /\ \A x \in S \ {e} : g[x] \in Int
    BY <1>1, <2>1, FS_Subset
  <2>4. SumFunctionOnSet(g, S \ {e}) \in Int
    BY <2>3, SumInt
  <2>5. g[e] = log[e].amount /\ g[e] \in Nat
    BY <1>1, <1>2
  <2> QED
    BY <1>1, <1>4, <2>2, <2>4, <2>5
<1> QED
  BY <1>3, <1>4, <1>5, <1>6 DEF n, f, g

\* The totals of all events grow.
LEMMA TotalGrows ==
  ASSUME log \in Seq(Event), NEW event \in Event, Logged(event)
  PROVE  Total(DOMAIN log)' = Total(DOMAIN log) + event.amount /\ event.amount \in Nat
<1>1. DOMAIN log' = DOMAIN log \cup {Len(log) + 1}
  BY DEF Logged
<1>2. /\ Total(DOMAIN log)' = SumFunctionOnSet(AmountAt', DOMAIN log')
      /\ Total(DOMAIN log) = SumFunctionOnSet(AmountAt, DOMAIN log)
  BY DEF Total, AmountAt
<1>3. event.amount \in Nat
  BY DEF Event, Uint256
<1> QED
  BY <1>1, <1>2, <1>3, SumsLogged

\* An undo that names a send names one of the same channel, denom and amount, which
\* nothing has undone before.
UndoesSend(event) ==
  event.kind = "Undo" /\ event.of # 0 =>
    /\ event.of \in DOMAIN log
    /\ log[event.of].kind = "Out" /\ ~ Undone(event.of)
    /\ log[event.of].channel = event.channel
    /\ log[event.of].denom = event.denom
    /\ log[event.of].amount = event.amount

\* The events of a period that goes on: one that the tracker meets is added on its
\* side, and a send that is undone no longer counts.
LEMMA PeriodGoesOn ==
  ASSUME HistoryOK, NEW event \in Event, Logged(event), UndoesSend(event),
         NEW p \in Paths, NEW i, opened[p][i] \in Nat, opened[p][i] <= Len(log),
         opened'[p][i] = opened[p][i]
  PROVE  LET n == Len(log) + 1
             met == Meets(p, event.channel, event.denom)
         IN  /\ ReceivedIn(p, i)' = IF met /\ event.kind = "In" THEN ReceivedIn(p, i) \cup {n}
                                    ELSE ReceivedIn(p, i)
             /\ GoneIn(p, i)' = IF met /\ event.kind = "Out" THEN GoneIn(p, i) \cup {n}
                                ELSE IF event.kind = "Undo" THEN GoneIn(p, i) \ {event.of}
                                ELSE GoneIn(p, i)
             /\ LateIn(p, i)' = IF met /\ event.kind = "Undo" /\ event.of <= opened[p][i]
                                THEN LateIn(p, i) \cup {n} ELSE LateIn(p, i)
<1> DEFINE n == Len(log) + 1
           met == Meets(p, event.channel, event.denom)
<1>0. Len(log) \in Nat /\ n \in Nat /\ n > opened[p][i] /\ n \notin DOMAIN log /\ log'[n] = event
  BY DEF Logged
<1>1. InPeriod(p, i)' = IF met THEN InPeriod(p, i) \cup {n} ELSE InPeriod(p, i)
  BY <1>0 DEF InPeriod, Logged, Meets
<1>2. \A k \in InPeriod(p, i) : k \in DOMAIN log /\ log'[k] = log[k] /\ k # n
  BY <1>0 DEF InPeriod, Logged
<1>3. \A k : Undone(k)' <=> Undone(k) \/ (event.kind = "Undo" /\ event.of = k)
  BY <1>0 DEF Undone, Logged
<1>4. ~ Undone(n)
  <2> SUFFICES ASSUME NEW j \in DOMAIN log, log[j].kind = "Undo", log[j].of = n PROVE FALSE
    BY DEF Undone
  <2>1. PICK k \in DOMAIN packets : packets[k].event = n
    BY <1>0 DEF HistoryOK, UndosOK
  <2>2. n \in DOMAIN log
    BY <1>0, <2>1 DEF HistoryOK, EventsOK
  <2> QED
    BY <1>0, <2>2
<1> HIDE DEF n, met
<1>5. ReceivedIn(p, i)' = IF met /\ event.kind = "In" THEN ReceivedIn(p, i) \cup {n}
                          ELSE ReceivedIn(p, i)
  BY <1>0, <1>1, <1>2 DEF ReceivedIn
<1>6. GoneIn(p, i)' = IF met /\ event.kind = "Out" THEN GoneIn(p, i) \cup {n}
                      ELSE IF event.kind = "Undo" THEN GoneIn(p, i) \ {event.of}
                      ELSE GoneIn(p, i)
  BY <1>0, <1>1, <1>2, <1>3, <1>4 DEF GoneIn
<1>7. LateIn(p, i)' = IF met /\ event.kind = "Undo" /\ event.of <= opened[p][i]
                      THEN LateIn(p, i) \cup {n} ELSE LateIn(p, i)
  BY <1>0, <1>1, <1>2 DEF LateIn
<1> QED
  BY <1>5, <1>6, <1>7 DEF n, met

\* The events of a period that a transfer starts: this transfer.
LEMMA PeriodStarts ==
  ASSUME HistoryOK, NEW event \in Event, Logged(event), event.kind # "Undo",
         NEW p \in Paths, NEW i, opened'[p][i] = Len(log), Meets(p, event.channel, event.denom)
  PROVE  LET n == Len(log) + 1
         IN  /\ ReceivedIn(p, i)' = IF event.kind = "In" THEN {n} ELSE {}
             /\ GoneIn(p, i)' = IF event.kind = "Out" THEN {n} ELSE {}
             /\ LateIn(p, i)' = {}
<1>n. PICK n \in Nat : n = Len(log) + 1
  BY DEF Logged
<1>0. Len(log) \in Nat /\ n \notin DOMAIN log /\ log'[n] = event
  BY <1>n DEF Logged
<1>1. InPeriod(p, i)' = {n}
  BY <1>n, <1>0 DEF InPeriod, Logged, Meets
<1>2. ~ Undone(n)'
  <2> SUFFICES ASSUME NEW j \in DOMAIN log, log[j].kind = "Undo", log[j].of = n PROVE FALSE
    BY <1>n, <1>0 DEF Undone, Logged
  <2>1. PICK k \in DOMAIN packets : packets[k].event = n
    BY <1>n, <1>0 DEF HistoryOK, UndosOK
  <2>2. n \in DOMAIN log
    BY <1>n, <1>0, <2>1 DEF HistoryOK, EventsOK
  <2> QED
    BY <1>0, <2>2
<1>3. ReceivedIn(p, i)' = IF event.kind = "In" THEN {n} ELSE {}
  BY <1>0, <1>1 DEF ReceivedIn
<1>4. GoneIn(p, i)' = IF event.kind = "Out" THEN {n} ELSE {}
  BY <1>0, <1>1, <1>2 DEF GoneIn
<1>5. LateIn(p, i)' = {}
  BY <1>0, <1>1 DEF LateIn
<1> QED
  BY <1>n, <1>3, <1>4, <1>5

\* What FlowMatchesTransfers says of one tracker
Matches(p, i) ==
  /\ trackers[p][i].flow.inflow = Received(p, i)
  /\ trackers[p][i].flow.outflow <= Gone(p, i)
  /\ Gone(p, i) <= trackers[p][i].flow.outflow + LateUndos(p, i)

\* A tracker that does not meet the event is left alone, and its totals too.
LEMMA MatchesUnmet ==
  ASSUME HistoryOK, NEW event \in Event, Logged(event), UndoesSend(event),
         NEW p \in Paths, NEW i, opened[p][i] \in Nat, opened[p][i] <= Len(log),
         opened'[p][i] = opened[p][i], trackers'[p][i] = trackers[p][i],
         ~ Meets(p, event.channel, event.denom), Matches(p, i)
  PROVE  Matches(p, i)'
<1>1. /\ ReceivedIn(p, i)' = ReceivedIn(p, i) /\ LateIn(p, i)' = LateIn(p, i)
      /\ GoneIn(p, i)' = IF event.kind = "Undo" THEN GoneIn(p, i) \ {event.of} ELSE GoneIn(p, i)
  BY PeriodGoesOn
<1>2. event.kind = "Undo" => event.of \notin GoneIn(p, i)
  <2>1. SUFFICES ASSUME event.kind = "Undo", event.of \in GoneIn(p, i) PROVE FALSE
    OBVIOUS
  <2>2. /\ event.of \in DOMAIN log /\ event.of > opened[p][i]
        /\ log[event.of].denom = p.denom /\ p.channel \in {"any", log[event.of].channel}
    BY <2>1 DEF GoneIn, InPeriod
  <2>3. DOMAIN log = 1 .. Len(log) /\ event.of # 0
    BY <2>2 DEF Logged
  <2> QED
    BY <2>1, <2>2, <2>3 DEF UndoesSend, Meets
<1>3. GoneIn(p, i)' = GoneIn(p, i)
  BY <1>1, <1>2
<1>4. /\ Received(p, i)' = Received(p, i) /\ Gone(p, i)' = Gone(p, i)
      /\ LateUndos(p, i)' = LateUndos(p, i)
  <2>1. \A S \in SUBSET DOMAIN log : SumFunctionOnSet(AmountAt', S) = SumFunctionOnSet(AmountAt, S)
    BY SumsLogged DEF HistoryOK
  <2>2. /\ SumFunctionOnSet(AmountAt', ReceivedIn(p, i)) = SumFunctionOnSet(AmountAt, ReceivedIn(p, i))
        /\ SumFunctionOnSet(AmountAt', GoneIn(p, i)) = SumFunctionOnSet(AmountAt, GoneIn(p, i))
        /\ SumFunctionOnSet(AmountAt', LateIn(p, i)) = SumFunctionOnSet(AmountAt, LateIn(p, i))
    BY <2>1, PeriodEvents
  <2> QED
    BY <1>1, <1>3, <2>2, TotalsAre
<1> QED
  BY <1>4 DEF Matches

\* A tracker that starts over has an empty period.
LEMMA MatchesNew ==
  ASSUME log \in Seq(Event), UNCHANGED log, NEW p \in Paths, NEW i, opened'[p][i] = Len(log),
         trackers'[p][i].flow.inflow = 0, trackers'[p][i].flow.outflow = 0
  PROVE  Matches(p, i)'
<1>1. InPeriod(p, i)' = {}
  BY DEF InPeriod
<1>2. ReceivedIn(p, i)' = {} /\ GoneIn(p, i)' = {} /\ LateIn(p, i)' = {}
  BY <1>1 DEF ReceivedIn, GoneIn, LateIn
<1>3. Received(p, i)' = 0 /\ Gone(p, i)' = 0 /\ LateUndos(p, i)' = 0
  BY <1>2, TotalsAre, SumEmpty
<1> QED
  BY <1>3 DEF Matches

\* A tracker that is left alone while the contract is told nothing
LEMMA MatchesSame ==
  ASSUME UNCHANGED log, NEW p, NEW i, Matches(p, i),
         opened'[p][i] = opened[p][i], trackers'[p][i] = trackers[p][i]
  PROVE  Matches(p, i)'
<1>1. InPeriod(p, i)' = InPeriod(p, i)
  BY DEF InPeriod
<1>2. \A k : Undone(k)' <=> Undone(k)
  BY DEF Undone
<1>3. ReceivedIn(p, i)' = ReceivedIn(p, i) /\ GoneIn(p, i)' = GoneIn(p, i) /\ LateIn(p, i)' = LateIn(p, i)
  BY <1>1, <1>2 DEF ReceivedIn, GoneIn, LateIn
<1>4. AmountAt' = AmountAt
  BY DEF AmountAt
<1> QED
  BY <1>3, <1>4, TotalsAre DEF Matches

\* What becomes of the totals of a tracker, from what becomes of their events
LEMMA TotalsLogged ==
  ASSUME log \in Seq(Event), NEW event \in Event, Logged(event), NEW p, NEW i
  PROVE  LET n == Len(log) + 1
         IN  /\ Received(p, i) \in Nat /\ Gone(p, i) \in Nat /\ LateUndos(p, i) \in Nat
             /\ ReceivedIn(p, i)' = ReceivedIn(p, i) => Received(p, i)' = Received(p, i)
             /\ ReceivedIn(p, i)' = ReceivedIn(p, i) \cup {n} =>
                  Received(p, i)' = Received(p, i) + event.amount
             /\ GoneIn(p, i)' = GoneIn(p, i) => Gone(p, i)' = Gone(p, i)
             /\ GoneIn(p, i)' = GoneIn(p, i) \cup {n} => Gone(p, i)' = Gone(p, i) + event.amount
             /\ \A e \in GoneIn(p, i) : GoneIn(p, i)' = GoneIn(p, i) \ {e} =>
                  Gone(p, i)' = Gone(p, i) - log[e].amount /\ log[e].amount <= Gone(p, i)
             /\ LateIn(p, i)' = LateIn(p, i) => LateUndos(p, i)' = LateUndos(p, i)
             /\ LateIn(p, i)' = LateIn(p, i) \cup {n} =>
                  LateUndos(p, i)' = LateUndos(p, i) + event.amount
<1>n. PICK n \in Nat : n = Len(log) + 1
  BY DEF Logged
<1> DEFINE sum(S) == SumFunctionOnSet(AmountAt, S)
           next(S) == SumFunctionOnSet(AmountAt', S)
<1>1. ASSUME NEW S \in SUBSET DOMAIN log
      PROVE  /\ sum(S) \in Nat /\ next(S) = sum(S)
             /\ next(S \cup {n}) = sum(S) + event.amount
             /\ \A e \in S : next(S \ {e}) = sum(S) - log[e].amount
  BY <1>n, SumsLogged, EventsBounded
<1>2. ASSUME NEW S \in SUBSET DOMAIN log, NEW e \in S
      PROVE  log[e].amount <= sum(S)
  <2>1. S \ {e} \in SUBSET DOMAIN log
    OBVIOUS
  <2>2. sum(S \ {e}) \in Nat /\ next(S \ {e}) = sum(S \ {e})
    BY <1>1, <2>1
  <2>3. sum(S) \in Nat /\ next(S \ {e}) = sum(S) - log[e].amount
    BY <1>1
  <2>4. log[e].amount \in Nat
    BY EventsBounded
  <2> HIDE DEF sum, next
  <2> QED
    BY <2>2, <2>3, <2>4
<1>3. PICK R \in SUBSET DOMAIN log, G \in SUBSET DOMAIN log, L \in SUBSET DOMAIN log :
        R = ReceivedIn(p, i) /\ G = GoneIn(p, i) /\ L = LateIn(p, i)
  BY PeriodEvents
<1>4. /\ Received(p, i) = sum(R) /\ Gone(p, i) = sum(G) /\ LateUndos(p, i) = sum(L)
      /\ Received(p, i)' = next(ReceivedIn(p, i)') /\ Gone(p, i)' = next(GoneIn(p, i)')
      /\ LateUndos(p, i)' = next(LateIn(p, i)')
  BY <1>3, TotalsAre
<1>5. /\ sum(R) \in Nat /\ next(R) = sum(R) /\ next(R \cup {n}) = sum(R) + event.amount
      /\ sum(G) \in Nat /\ next(G) = sum(G) /\ next(G \cup {n}) = sum(G) + event.amount
      /\ sum(L) \in Nat /\ next(L) = sum(L) /\ next(L \cup {n}) = sum(L) + event.amount
      /\ \A e \in G : next(G \ {e}) = sum(G) - log[e].amount /\ log[e].amount <= sum(G)
  BY <1>1, <1>2
<1> HIDE DEF sum, next
<1> QED
  BY <1>n, <1>3, <1>4, <1>5

\* The same bound after a step
LEMMA EventsBoundedNext ==
  ASSUME log' \in Seq(Event), NEW S \in SUBSET DOMAIN log'
  PROVE  /\ Total(DOMAIN log)' \in Nat
         /\ SumFunctionOnSet(AmountAt', S) <= Total(DOMAIN log)'
<1>1. DOMAIN log' = 1 .. Len(log') /\ Len(log') \in Nat
  OBVIOUS
<1>2. IsFiniteSet(DOMAIN log')
  BY <1>1, FS_Interval
<1>3. ASSUME NEW k \in DOMAIN log'
      PROVE  AmountAt'[k] \in Nat
  <2>1. log'[k] \in Event
    OBVIOUS
  <2> QED
    BY <2>1 DEF AmountAt, Event, Uint256
<1>4. Total(DOMAIN log)' = SumFunctionOnSet(AmountAt', DOMAIN log')
  BY DEF Total, AmountAt
<1>5. SumFunctionOnSet(AmountAt', DOMAIN log') \in Nat
  BY <1>2, <1>3, SumNat
<1>6. SumFunctionOnSet(AmountAt', S) <= SumFunctionOnSet(AmountAt', DOMAIN log')
  BY <1>2, <1>3, SumMonotone
<1> QED
  BY <1>4, <1>5, <1>6

\* An accepted transfer that the tracker meets: the counter of its direction grows by
\* what the total of that direction grows, from nothing if the period had expired.
LEMMA MatchesApplied ==
  ASSUME HistoryOK, Total(DOMAIN log)' <= MaxUint, NEW event \in Event, Logged(event),
         event.kind \in FlowType, NEW p \in Paths, NEW i, LimitOK(trackers[p][i]),
         opened[p][i] \in Nat, opened[p][i] <= Len(log), Meets(p, event.channel, event.denom),
         NEW value, Matches(p, i),
         trackers'[p][i] = allow_transfer(trackers[p][i], event.denom, event.kind,
                                          event.amount, value, now).limit,
         opened'[p][i] = IF is_expired(trackers[p][i].flow, now) THEN Len(log) ELSE opened[p][i]
  PROVE  Matches(p, i)'
<1> DEFINE expired == is_expired(trackers[p][i].flow, now)
           amount == event.amount
           old == trackers[p][i].flow
           new == trackers'[p][i].flow
<1>0. log \in Seq(Event) /\ log' \in Seq(Event)
  BY DEF HistoryOK, Logged
<1>1. PICK in \in Nat, out \in Nat :
        /\ in = IF expired THEN 0 ELSE old.inflow
        /\ out = IF expired THEN 0 ELSE old.outflow
  BY MaxUintAssumption DEF LimitOK, RateLimits, Flow, Uint256
<1>2. /\ new.inflow = IF event.kind = "In" THEN saturating_add(in, amount) ELSE in
      /\ new.outflow = IF event.kind = "Out" THEN saturating_add(out, amount) ELSE out
  BY <1>1, AllowTransferCounts
<1>3. amount \in Nat
  BY DEF Event, Uint256
<1>4. PICK got \in Nat, gone \in Nat, late \in Nat :
        /\ in = got /\ out <= gone /\ gone <= out + late
        /\ Received(p, i)' = IF event.kind = "In" THEN got + amount ELSE got
        /\ Gone(p, i)' = IF event.kind = "Out" THEN gone + amount ELSE gone
        /\ LateUndos(p, i)' = late
  <2>1. CASE expired
    <3>1. /\ ReceivedIn(p, i)' = IF event.kind = "In" THEN {Len(log) + 1} ELSE {}
          /\ GoneIn(p, i)' = IF event.kind = "Out" THEN {Len(log) + 1} ELSE {}
          /\ LateIn(p, i)' = {}
      BY <2>1, PeriodStarts DEF FlowType
    <3>2. {} \in SUBSET DOMAIN log /\ {} \cup {Len(log) + 1} = {Len(log) + 1}
      OBVIOUS
    <3>3. /\ SumFunctionOnSet(AmountAt, {}) = 0 /\ SumFunctionOnSet(AmountAt', {}) = 0
      BY SumEmpty
    <3>4. SumFunctionOnSet(AmountAt', {Len(log) + 1}) = 0 + amount
      <4>1. SumFunctionOnSet(AmountAt', {} \cup {Len(log) + 1}) = SumFunctionOnSet(AmountAt, {}) + amount
        BY <1>0, <3>2, SumsLogged
      <4> QED
        BY <3>2, <3>3, <4>1
    <3>5. /\ Received(p, i)' = IF event.kind = "In" THEN 0 + amount ELSE 0
          /\ Gone(p, i)' = IF event.kind = "Out" THEN 0 + amount ELSE 0
          /\ LateUndos(p, i)' = 0
      BY <3>1, <3>3, <3>4, TotalsAre
    <3> QED
      BY <1>1, <2>1, <3>5
  <2>2. CASE ~ expired
    <3>1. UndoesSend(event)
      BY DEF UndoesSend, FlowType
    <3>2. /\ ReceivedIn(p, i)' = IF event.kind = "In" THEN ReceivedIn(p, i) \cup {Len(log) + 1}
                                 ELSE ReceivedIn(p, i)
          /\ GoneIn(p, i)' = IF event.kind = "Out" THEN GoneIn(p, i) \cup {Len(log) + 1}
                             ELSE GoneIn(p, i)
          /\ LateIn(p, i)' = LateIn(p, i)
      BY <2>2, <3>1, PeriodGoesOn DEF FlowType
    <3>4. /\ Received(p, i)' = IF event.kind = "In" THEN Received(p, i) + amount ELSE Received(p, i)
          /\ Gone(p, i)' = IF event.kind = "Out" THEN Gone(p, i) + amount ELSE Gone(p, i)
          /\ LateUndos(p, i)' = LateUndos(p, i)
          /\ Received(p, i) \in Nat /\ Gone(p, i) \in Nat /\ LateUndos(p, i) \in Nat
      BY <1>0, <3>2, TotalsLogged
    <3> QED
      BY <1>1, <2>2, <3>4 DEF Matches
  <2> QED
    BY <2>1, <2>2
<1>5. Received(p, i)' <= MaxUint /\ Gone(p, i)' <= MaxUint
  <2>1. ReceivedIn(p, i)' \subseteq DOMAIN log' /\ GoneIn(p, i)' \subseteq DOMAIN log'
    BY DEF ReceivedIn, GoneIn, InPeriod
  <2>2. /\ Received(p, i)' <= Total(DOMAIN log)' /\ Gone(p, i)' <= Total(DOMAIN log)'
        /\ Total(DOMAIN log)' \in Nat
    <3>1. \A S \in SUBSET DOMAIN log' :
             /\ SumFunctionOnSet(AmountAt', S) <= Total(DOMAIN log)'
             /\ Total(DOMAIN log)' \in Nat
      BY <1>0, EventsBoundedNext
    <3> QED
      BY <2>1, <3>1, TotalsAre
  <2> QED
    BY <1>3, <1>4, <2>2, MaxUintAssumption, SMTT(30)
<1> HIDE DEF expired, amount
<1>6. new.inflow = Received(p, i)'
  BY <1>2, <1>3, <1>4, <1>5, MaxUintAssumption DEF saturating_add
<1>7. new.outflow <= Gone(p, i)' /\ Gone(p, i)' <= new.outflow + LateUndos(p, i)'
  BY <1>2, <1>3, <1>4, <1>5, MaxUintAssumption DEF saturating_add
<1> QED
  BY <1>6, <1>7 DEF Matches

\* An undo that the tracker meets: a send of this period no longer counts, and the
\* undo of an earlier one is a late undo; the counter stops at zero.
LEMMA MatchesLowered ==
  ASSUME HistoryOK, NEW event \in Event, Logged(event), UndoesSend(event), event.kind = "Undo",
         NEW p \in Paths, NEW i, LimitOK(trackers[p][i]), opened[p][i] \in Nat,
         opened[p][i] <= Len(log), Meets(p, event.channel, event.denom), Matches(p, i),
         trackers'[p][i] = [trackers[p][i] EXCEPT !.flow = undo_flow(@, event.amount)],
         opened'[p][i] = opened[p][i]
  PROVE  Matches(p, i)'
<1> DEFINE amount == event.amount
           old == trackers[p][i].flow
           new == trackers'[p][i].flow
<1>0. log \in Seq(Event) /\ amount \in Nat /\ event.of \in Nat
  BY DEF HistoryOK, Event, Uint256
<1>1. /\ old.inflow \in Nat /\ old.outflow \in Nat
      /\ new.inflow = old.inflow /\ new.outflow = saturating_sub(old.outflow, amount)
  BY MaxUintAssumption DEF LimitOK, RateLimits, Flow, Uint256, undo_flow
<1>2. /\ ReceivedIn(p, i)' = ReceivedIn(p, i)
      /\ GoneIn(p, i)' = GoneIn(p, i) \ {event.of}
      /\ LateIn(p, i)' = IF event.of <= opened[p][i] THEN LateIn(p, i) \cup {Len(log) + 1}
                         ELSE LateIn(p, i)
  BY PeriodGoesOn
<1>3. IF event.of <= opened[p][i] THEN event.of \notin GoneIn(p, i)
      ELSE event.of \in GoneIn(p, i) /\ log[event.of].amount = amount
  <2>1. CASE event.of <= opened[p][i]
    BY <1>0, <2>1 DEF GoneIn, InPeriod
  <2>2. CASE event.of > opened[p][i]
    <3>1. event.of # 0
      BY <1>0, <2>2
    <3>2. event.of \in InPeriod(p, i)
      BY <2>2, <3>1 DEF UndoesSend, InPeriod, Meets
    <3> QED
      BY <1>0, <2>2, <3>1, <3>2 DEF UndoesSend, GoneIn
  <2> QED
    BY <1>0, <2>1, <2>2
<1>4. /\ Received(p, i) \in Nat /\ Gone(p, i) \in Nat /\ LateUndos(p, i) \in Nat
      /\ Received(p, i)' = Received(p, i)
  BY <1>0, <1>2, TotalsLogged
<1>5. PICK less \in Nat, more \in Nat :
        /\ Gone(p, i)' = Gone(p, i) - less /\ LateUndos(p, i)' = LateUndos(p, i) + more
        /\ less + more = amount /\ less \in {0, amount} /\ less <= Gone(p, i)
  <2>1. CASE event.of <= opened[p][i]
    <3>1. GoneIn(p, i)' = GoneIn(p, i) /\ LateIn(p, i)' = LateIn(p, i) \cup {Len(log) + 1}
      BY <1>2, <1>3, <2>1
    <3>2. Gone(p, i)' = Gone(p, i) /\ LateUndos(p, i)' = LateUndos(p, i) + amount
      BY <1>0, <3>1, TotalsLogged
    <3>3. Gone(p, i)' = Gone(p, i) - 0 /\ 0 + amount = amount /\ 0 <= Gone(p, i)
      BY <1>0, <1>4, <3>2
    <3> QED
      BY <1>0, <3>2, <3>3
  <2>2. CASE ~ (event.of <= opened[p][i])
    <3>1. /\ GoneIn(p, i)' = GoneIn(p, i) \ {event.of} /\ LateIn(p, i)' = LateIn(p, i)
          /\ event.of \in GoneIn(p, i) /\ log[event.of].amount = amount
      BY <1>2, <1>3, <2>2
    <3>2. /\ Gone(p, i)' = Gone(p, i) - amount /\ amount <= Gone(p, i)
          /\ LateUndos(p, i)' = LateUndos(p, i)
      BY <1>0, <3>1, TotalsLogged
    <3>3. LateUndos(p, i)' = LateUndos(p, i) + 0 /\ amount + 0 = amount
      BY <1>0, <1>4, <3>2
    <3> QED
      BY <1>0, <3>2, <3>3
  <2> QED
    BY <2>1, <2>2
<1>6. /\ old.inflow = Received(p, i) /\ old.outflow <= Gone(p, i)
      /\ Gone(p, i) <= old.outflow + LateUndos(p, i)
  BY DEF Matches
<1>7. new.outflow = IF old.outflow > amount THEN old.outflow - amount ELSE 0
  BY <1>1 DEF saturating_sub
<1> HIDE DEF old, new
<1>8. new.inflow = Received(p, i)'
  BY <1>1, <1>4, <1>6
<1>9. new.outflow <= Gone(p, i)' /\ Gone(p, i)' <= new.outflow + LateUndos(p, i)'
  <2>1. PICK out \in Nat, gone \in Nat, late \in Nat :
          out = old.outflow /\ gone = Gone(p, i) /\ late = LateUndos(p, i)
    BY <1>1, <1>4
  <2>2. /\ Gone(p, i)' = gone - less /\ LateUndos(p, i)' = late + more
        /\ new.outflow = IF out > amount THEN out - amount ELSE 0
        /\ out <= gone /\ gone <= out + late
    BY <1>5, <1>6, <1>7, <2>1
  <2>3. amount = less + more /\ (less = 0 \/ more = 0) /\ less <= gone
    BY <1>0, <1>5, <2>1
  <2> QED
    BY <1>0, <2>2, <2>3, SMTT(30)
<1> QED
  BY <1>8, <1>9 DEF Matches, new

AllMatch == \A p \in Paths : \A i \in 1 .. Len(Load(trackers, p)) : Matches(p, i)

\* What the invariant says of one tracker
LEMMA TrackerFacts ==
  ASSUME TrackersOK, NEW p \in Paths, NEW i \in 1 .. Len(Load(trackers, p))
  PROVE  LimitOK(trackers[p][i]) /\ opened[p][i] \in Nat /\ opened[p][i] <= Len(log)
<1>1. StoreOK(Paths, trackers) /\ OpenedOK
  BY DEF TrackersOK
<1>2. LimitOK(trackers[p][i])
  BY <1>1, LoadIs
<1>3. opened[p] \in Seq(Nat) /\ Len(opened[p]) = Len(Load(trackers, p))
  BY <1>1 DEF OpenedOK
<1>4. opened[p][i] \in Nat /\ opened[p][i] <= Len(log)
  BY <1>1, <1>3 DEF OpenedOK
<1> QED
  BY <1>2, <1>4

\* A transfer the contract accepts keeps every tracker in agreement with the history.
LEMMA MatchTransfer ==
  ASSUME HistoryOK, TrackersOK, AllMatch, Total(DOMAIN log)' <= MaxUint,
         NEW direction \in FlowType, NEW c, NEW d, NEW amount, NEW value,
         Applied(direction, c, d, amount, value), Told(direction, c, d, amount, 0)
  PROVE  AllMatch'
<1>1. PICK event \in Event :
        /\ Logged(event) /\ event.kind = direction /\ event.channel = c /\ event.denom = d
        /\ event.amount = amount
  BY DEF Told
<1>2. UndoesSend(event)
  BY <1>1 DEF UndoesSend, FlowType
<1>3. ASSUME NEW p \in Paths, NEW i \in 1 .. Len(Load(trackers', p))
      PROVE  Matches(p, i)'
  <2>1. i \in 1 .. Len(Load(trackers, p))
    BY DEF Applied
  <2>2. Matches(p, i)
    BY <2>1 DEF AllMatch
  <2>3. LimitOK(trackers[p][i]) /\ opened[p][i] \in Nat /\ opened[p][i] <= Len(log)
    BY <2>1, TrackerFacts
  <2>4. CASE Meets(p, c, d)
    <3>1. /\ trackers'[p][i] =
               allow_transfer(trackers[p][i], event.denom, event.kind, event.amount, value, now).limit
          /\ opened'[p][i] = IF is_expired(trackers[p][i].flow, now) THEN Len(log) ELSE opened[p][i]
      BY <1>1, <2>1, <2>4 DEF Applied
    <3> QED
      BY <1>1, <2>2, <2>3, <2>4, <3>1, MatchesApplied
  <2>5. CASE ~ Meets(p, c, d)
    <3>1. trackers'[p][i] = trackers[p][i] /\ opened'[p][i] = opened[p][i]
      BY <2>1, <2>5 DEF Applied
    <3> QED
      BY <1>1, <1>2, <2>2, <2>3, <2>5, <3>1, MatchesUnmet
  <2> QED
    BY <2>4, <2>5
<1> QED
  BY <1>3 DEF AllMatch, Load

\* So does an undo the contract applies.
LEMMA MatchUndo ==
  ASSUME HistoryOK, TrackersOK, AllMatch, NEW k \in DOMAIN packets, packets[k].status # "refunded",
         Lowered(packets[k].channel, packets[k].denom, packets[k].amount), UNCHANGED opened,
         Told("Undo", packets[k].channel, packets[k].denom, packets[k].amount, packets[k].event)
  PROVE  AllMatch'
<1>1. PICK event \in Event :
        /\ Logged(event) /\ event.kind = "Undo" /\ event.channel = packets[k].channel
        /\ event.denom = packets[k].denom /\ event.amount = packets[k].amount
        /\ event.of = packets[k].event
  BY DEF Told
<1>2. UndoesSend(event)
  <2> SUFFICES ASSUME event.of # 0
               PROVE  /\ event.of \in DOMAIN log
                      /\ log[event.of].kind = "Out" /\ ~ Undone(event.of)
                      /\ log[event.of].channel = event.channel
                      /\ log[event.of].denom = event.denom
                      /\ log[event.of].amount = event.amount
    BY DEF UndoesSend
  <2>1. ~ Undone(event.of)
    <3> SUFFICES ASSUME NEW j \in DOMAIN log, log[j].kind = "Undo", log[j].of = event.of PROVE FALSE
      BY DEF Undone
    <3>1. PICK m \in DOMAIN packets : packets[m].event = event.of /\ packets[m].status = "refunded"
      BY DEF HistoryOK, UndosOK
    <3> QED
      BY <1>1, <3>1 DEF HistoryOK, EventsDistinct
  <2> QED
    BY <1>1, <2>1 DEF HistoryOK, EventsOK
<1>3. ASSUME NEW p \in Paths, NEW i \in 1 .. Len(Load(trackers', p))
      PROVE  Matches(p, i)'
  <2>1. i \in 1 .. Len(Load(trackers, p))
    BY DEF Lowered
  <2>2. Matches(p, i)
    BY <2>1 DEF AllMatch
  <2>3. LimitOK(trackers[p][i]) /\ opened[p][i] \in Nat /\ opened[p][i] <= Len(log)
    BY <2>1, TrackerFacts
  <2>4. opened'[p][i] = opened[p][i]
    OBVIOUS
  <2>5. CASE Meets(p, event.channel, event.denom)
    <3>1. trackers'[p][i] = [trackers[p][i] EXCEPT !.flow = undo_flow(@, event.amount)]
      BY <1>1, <2>1, <2>5 DEF Lowered
    <3> QED
      BY <1>1, <1>2, <2>2, <2>3, <2>4, <2>5, <3>1, MatchesLowered
  <2>6. CASE ~ Meets(p, event.channel, event.denom)
    <3>1. trackers'[p][i] = trackers[p][i]
      BY <1>1, <2>1, <2>6 DEF Lowered
    <3> QED
      BY <1>1, <1>2, <2>2, <2>3, <2>4, <2>6, <3>1, MatchesUnmet
  <2> QED
    BY <2>5, <2>6
<1> QED
  BY <1>3 DEF AllMatch, Load

\* A step that tells the contract nothing leaves a tracker alone or starts it over.
LEMMA MatchKept ==
  ASSUME AllMatch, log \in Seq(Event), UNCHANGED log,
         \A p \in Paths : \A i \in 1 .. Len(Load(trackers', p)) : KeptOrNew(p, i)
  PROVE  AllMatch'
<1>1. ASSUME NEW p \in Paths, NEW i \in 1 .. Len(Load(trackers', p))
      PROVE  Matches(p, i)'
  <2>1. CASE /\ i \in 1 .. Len(Load(trackers, p))
             /\ trackers'[p][i] = trackers[p][i] /\ opened'[p][i] = opened[p][i]
    <3>1. Matches(p, i)
      BY <2>1 DEF AllMatch
    <3> QED
      BY <2>1, <3>1, MatchesSame
  <2>2. CASE /\ trackers'[p][i].flow.inflow = 0 /\ trackers'[p][i].flow.outflow = 0
             /\ opened'[p][i] = Len(log)
    BY <2>2, MatchesNew
  <2> QED
    BY <2>1, <2>2 DEF KeptOrNew
<1> QED
  BY <1>1 DEF AllMatch, Load

\* Nothing the counters and the totals depend on changes.
LEMMA MatchSame ==
  ASSUME AllMatch, UNCHANGED <<trackers, opened, log>>
  PROVE  AllMatch'
<1>1. ASSUME NEW p \in Paths, NEW i \in 1 .. Len(Load(trackers, p))
      PROVE  Matches(p, i)'
  <2>1. Matches(p, i)
    BY DEF AllMatch
  <2> QED
    BY <2>1, MatchesSame
<1> QED
  BY <1>1 DEF AllMatch, Load

\* Every step keeps the agreement as long as the counters cannot saturate.
LEMMA NextMatch ==
  ASSUME IInv, AllMatch, [Next]_vars, Total(DOMAIN log)' <= MaxUint
  PROVE  AllMatch'
<1>0. /\ HistoryOK /\ BankOK /\ TrackersOK /\ log \in Seq(Event) /\ now \in Nat
      /\ Len(log) \in Nat
  BY StackBoundsAssumption DEF IInv, HistoryOK
<1>1. ASSUME NEW c \in Channels, NEW d \in Denoms, NEW amount \in Amounts,
             NEW lifetime \in Lifetimes, SendPacket(c, d, amount, lifetime)
      PROVE  AllMatch'
  <2>1. \/ UNCHANGED <<trackers, opened, log>>
        \/ /\ Applied("Out", c, d, amount, SentValue(c, d, amount))
           /\ Told("Out", c, d, amount, 0)
    BY <1>0, <1>1, SendTrackers
  <2>2. PICK value : value = SentValue(c, d, amount)
    OBVIOUS
  <2>3. Applied("Out", c, d, amount, value) /\ Told("Out", c, d, amount, 0) => AllMatch'
    BY <1>0, MatchTransfer DEF FlowType
  <2> QED
    BY <2>1, <2>2, <2>3, MatchSame
<1>2. ASSUME NEW c \in Channels, NEW d \in Denoms, NEW amount \in Amounts,
             OnRecvPacket(c, d, amount)
      PROVE  AllMatch'
  <2>1. \/ UNCHANGED <<trackers, opened, log>>
        \/ Applied("In", c, d, amount, supply[d]) /\ Told("In", c, d, amount, 0)
    BY <1>0, <1>2, RecvTrackers
  <2>2. PICK value : value = supply[d]
    OBVIOUS
  <2>3. Applied("In", c, d, amount, value) /\ Told("In", c, d, amount, 0) => AllMatch'
    BY <1>0, MatchTransfer DEF FlowType
  <2> QED
    BY <2>1, <2>2, <2>3, MatchSame
<1>3. ASSUME NEW k \in DOMAIN packets,
             \/ CounterpartyAccepts(k)
             \/ \E error \in AckErrors : CounterpartyRejects(k, error)
             \/ OnAcknowledgementPacket(k)
             \/ OnTimeoutPacket(k)
      PROVE  AllMatch'
  <2>1. /\ UNCHANGED opened
        /\ UNCHANGED <<trackers, log>> \/ (Revert(k) /\ packets[k].status # "refunded")
    BY <1>3 DEF CounterpartyAccepts, CounterpartyRejects, OnAcknowledgementPacket, OnTimeoutPacket
  <2>2. CASE UNCHANGED <<trackers, log>>
    BY <2>1, <2>2, MatchSame
  <2>3. CASE Revert(k) /\ packets[k].status # "refunded"
    <3>1. \/ UNCHANGED <<trackers, log>>
          \/ /\ Lowered(packets[k].channel, packets[k].denom, packets[k].amount)
             /\ Told("Undo", packets[k].channel, packets[k].denom, packets[k].amount, packets[k].event)
      BY <1>0, <2>1, <2>3, RevertTrackers
    <3> QED
      BY <1>0, <2>1, <2>2, <2>3, <3>1, MatchUndo
  <2> QED
    BY <2>1, <2>2, <2>3
<1>4. ASSUME NEW path \in Paths,
             \/ \E quotas \in QuotaLists : AddPath(path, quotas)
             \/ RemovePath(path)
             \/ \E id \in QuotaIds : ResetPathQuota(path, id)
      PROVE  AllMatch'
  <2>1. \A p \in Paths : \A i \in 1 .. Len(Load(trackers', p)) : KeptOrNew(p, i)
    BY <1>0, <1>4, AddPathTrackers, RemovePathTrackers, ResetTrackers
  <2>2. UNCHANGED log
    BY <1>4 DEF AddPath, RemovePath, ResetPathQuota
  <2> QED
    BY <1>0, <2>1, <2>2, MatchKept
<1>5. ASSUME \/ \E address \in Contracts \cup {NoContract} : SetParams(address)
             \/ NextBlock
             \/ UNCHANGED vars
      PROVE  AllMatch'
  <2>1. UNCHANGED <<trackers, opened, log>>
    BY <1>5 DEF SetParams, NextBlock, vars
  <2> QED
    BY <2>1, MatchSame
<1> QED
  BY <1>1, <1>2, <1>3, <1>4, <1>5 DEF Next, Transfer, Relay, Govern

\* What has moved in all fits in 256 bits.
NoSaturation == Total(DOMAIN log) <= MaxUint

\* The contract is told of one event at most in a step.
LEMMA LogGrows ==
  ASSUME IInv, [Next]_vars
  PROVE  UNCHANGED log \/ \E event \in Event : Logged(event)
<1>1. log \in Seq(Event) /\ HistoryOK /\ BankOK /\ TrackersOK /\ now \in Nat
  BY StackBoundsAssumption DEF IInv, HistoryOK
<1>2. ASSUME NEW c \in Channels, NEW d \in Denoms, NEW amount \in Amounts,
             \/ \E lifetime \in Lifetimes : SendPacket(c, d, amount, lifetime)
             \/ OnRecvPacket(c, d, amount)
      PROVE  UNCHANGED log \/ \E event \in Event : Logged(event)
  BY <1>1, <1>2, SendTrackers, RecvTrackers DEF Told
<1>3. ASSUME NEW k \in DOMAIN packets,
             \/ CounterpartyAccepts(k)
             \/ \E error \in AckErrors : CounterpartyRejects(k, error)
             \/ OnAcknowledgementPacket(k)
             \/ OnTimeoutPacket(k)
      PROVE  UNCHANGED log \/ \E event \in Event : Logged(event)
  <2>1. UNCHANGED opened /\ (UNCHANGED log \/ Revert(k))
    BY <1>3 DEF CounterpartyAccepts, CounterpartyRejects, OnAcknowledgementPacket, OnTimeoutPacket
  <2> QED
    BY <1>1, <2>1, RevertTrackers DEF Told
<1>4. CASE Govern \/ NextBlock \/ UNCHANGED vars
  BY <1>4 DEF Govern, SetParams, AddPath, RemovePath, ResetPathQuota, NextBlock, vars
<1> QED
  BY <1>2, <1>3, <1>4 DEF Next, Transfer, Relay

FlowInv == IInv /\ (NoSaturation => AllMatch)

\* It is an invariant.
LEMMA FlowInvariant == Spec => []FlowInv
<1>1. Init => FlowInv
  <2> SUFFICES ASSUME Init PROVE AllMatch
    BY InitIInv DEF FlowInv
  <2>1. /\ log = <<>> /\ DOMAIN log = {}
        /\ trackers = [p \in Paths |->
             IF InitialQuotas[p] = Absent THEN Absent ELSE NewLimits(InitialQuotas[p], 0)]
    BY DEF Init
  <2>2. ASSUME NEW p \in Paths, NEW i \in 1 .. Len(Load(trackers, p))
        PROVE  Matches(p, i)
    <3>1. ReceivedIn(p, i) = {} /\ GoneIn(p, i) = {} /\ LateIn(p, i) = {}
      BY <2>1 DEF ReceivedIn, GoneIn, LateIn, InPeriod
    <3>2. Received(p, i) = 0 /\ Gone(p, i) = 0 /\ LateUndos(p, i) = 0
      BY <3>1, TotalsAre, SumEmpty
    <3>3. InitialQuotas[p] # Absent /\ trackers[p] = NewLimits(InitialQuotas[p], 0)
      BY <2>1 DEF Load
    <3>4. trackers[p][i].flow.inflow = 0 /\ trackers[p][i].flow.outflow = 0
      BY <3>3 DEF Load, NewLimits, ZeroFlow
    <3> QED
      BY <3>2, <3>4 DEF Matches
  <2> QED
    BY <2>2 DEF AllMatch
<1>2. ASSUME FlowInv, [Next]_vars PROVE FlowInv'
  <2>1. IInv'
    BY <1>2, NextIInv DEF FlowInv
  <2>2. ASSUME NoSaturation' PROVE AllMatch'
    <3>1. log \in Seq(Event)
      BY <1>2 DEF FlowInv, IInv, HistoryOK
    <3>2. NoSaturation
      <4>1. CASE UNCHANGED log
        BY <2>2, <4>1 DEF NoSaturation, Total
      <4>2. CASE \E event \in Event : Logged(event)
        <5>1. PICK event \in Event : Logged(event)
          BY <4>2
        <5>2. Total(DOMAIN log)' = Total(DOMAIN log) + event.amount /\ event.amount \in Nat
          BY <3>1, <5>1, TotalGrows
        <5>3. Total(DOMAIN log) \in Nat
          BY <3>1, EventsBounded
        <5> QED
          BY <2>2, <5>2, <5>3, MaxUintAssumption DEF NoSaturation
      <4> QED
        BY <1>2, <4>1, <4>2, LogGrows DEF FlowInv
    <3> QED
      BY <1>2, <2>2, <3>2, NextMatch DEF FlowInv, NoSaturation
  <2> QED
    BY <2>1, <2>2 DEF FlowInv
<1> QED
  BY <1>1, <1>2, PTL DEF Spec

\* As long as what has moved in all fits in 256 bits, so that no counter saturates, the
\* counters of every tracker agree with the transfers of its period: for every
\* interleaving of transfers, refunds, expirations, resets and changes of the contract.
THEOREM FlowMatches == Spec => [](NoSaturation => FlowMatchesTransfers)
<1>1. FlowInv => (NoSaturation => FlowMatchesTransfers)
  BY DEF FlowInv, AllMatch, Matches, FlowMatchesTransfers, ForAllTrackers
<1> QED
  BY <1>1, FlowInvariant, PTL

\* NetOutflowWithinQuota with what the undos of earlier sends take off: a period lets
\* out, net, at most the quota and what was refunded in it of sends from before it.
NetOutflowWithinQuotaAndUndos ==
  ForAllTrackers(LAMBDA p, i :
    Gone(p, i) - Received(p, i) <= capacity_out(trackers[p][i].quota) + LateUndos(p, i))

\* What a rate limit is for, on the chain: what has really left in a period, net of what
\* came in, exceeds the quota's share of the channel value by refunds of older sends at
\* most, which is exactly how NetOutflowWithinQuota fails.
THEOREM QuotaHolds == Spec => [](NoSaturation => NetOutflowWithinQuotaAndUndos)
<1>1. ASSUME FlowInv, NoSaturation, NEW p \in Paths, NEW i \in 1 .. Len(Load(trackers, p))
      PROVE  Gone(p, i) - Received(p, i) <= capacity_out(trackers[p][i].quota) + LateUndos(p, i)
  <2>1. TrackersOK /\ log \in Seq(Event) /\ Matches(p, i)
    BY <1>1 DEF FlowInv, AllMatch, IInv, HistoryOK
  <2>2. LimitOK(trackers[p][i])
    BY <2>1, TrackerFacts
  <2>3. PICK capacity \in Nat : capacity = capacity_out(trackers[p][i].quota)
    BY <2>2, CapacityOutType DEF LimitOK, RateLimits
  <2>4. PICK in \in Nat, out \in Nat :
          in = trackers[p][i].flow.inflow /\ out = trackers[p][i].flow.outflow
    BY <2>2, MaxUintAssumption DEF LimitOK, RateLimits, Flow, Uint256
  <2>5. out - in <= capacity
    BY <2>2, <2>3, <2>4, SMTT(30) DEF LimitOK, balance_out, saturating_sub
  <2>6. /\ ReceivedIn(p, i) \in SUBSET DOMAIN log /\ GoneIn(p, i) \in SUBSET DOMAIN log
        /\ LateIn(p, i) \in SUBSET DOMAIN log
    BY PeriodEvents
  <2>7. /\ SumFunctionOnSet(AmountAt, ReceivedIn(p, i)) \in Nat
        /\ SumFunctionOnSet(AmountAt, GoneIn(p, i)) \in Nat
        /\ SumFunctionOnSet(AmountAt, LateIn(p, i)) \in Nat
    BY <2>1, <2>6, EventsBounded
  <2>8. Received(p, i) \in Nat /\ Gone(p, i) \in Nat /\ LateUndos(p, i) \in Nat
    BY <2>7, TotalsAre
  <2>9. Received(p, i) = in /\ Gone(p, i) <= out + LateUndos(p, i)
    BY <2>1, <2>4 DEF Matches
  <2> QED
    BY <2>3, <2>5, <2>8, <2>9
<1>2. FlowInv => (NoSaturation => NetOutflowWithinQuotaAndUndos)
  BY <1>1 DEF NetOutflowWithinQuotaAndUndos, ForAllTrackers
<1> QED
  BY <1>2, FlowInvariant, PTL

----------------------------------------------------------------------------
(* The channel value a tracker caches.                                     *)

\* A voucher leaves by another channel than it came by: it is escrowed, while the
\* contract takes it for burned.
Detour ==
  \E c \in Channels, d \in Vouchers, amount \in Amounts, lifetime \in Lifetimes :
    IsEscrowed(c, d) /\ SendPacket(c, d, amount, lifetime)

\* The value of every tracker that stays is as it was, or none, or the supply.
ValuesFromSupply ==
  ForAllTrackerSteps(LAMBDA p, old, new :
    new.quota.channel_value \in {old.quota.channel_value, None, supply[p.denom]})

\* It is enough to look at the trackers by their place.
LEMMA ValuesByPlace ==
  ASSUME \A p \in Paths : \A i \in 1 .. Len(Load(trackers', p)) :
           i \in 1 .. Len(Load(trackers, p)) =>
             trackers'[p][i].quota.channel_value \in
               {trackers[p][i].quota.channel_value, None, supply[p.denom]},
         StoreOK(Paths, trackers), StoreOK(Paths, trackers')
  PROVE  ValuesFromSupply
<1> SUFFICES ASSUME NEW p \in Paths, trackers[p] # Absent, trackers'[p] # Absent,
                    NEW i \in 1 .. Len(trackers[p]), i <= Len(trackers'[p])
             PROVE  trackers'[p][i].quota.channel_value \in
                      {trackers[p][i].quota.channel_value, None, supply[p.denom]}
  BY DEF ValuesFromSupply, ForAllTrackerSteps
<1>1. Load(trackers, p) = trackers[p] /\ Load(trackers', p) = trackers'[p]
  BY DEF Load
<1>2. Len(trackers[p]) \in Nat /\ Len(trackers'[p]) \in Nat
  BY DEF StoreOK
<1> QED
  BY <1>1, <1>2

\* A transfer whose calculated value is the supply at its start
LEMMA ValuesOfTransfer ==
  ASSUME TrackersOK, TrackersOK', NEW direction, NEW c, NEW d, NEW amount, NEW value,
         Applied(direction, c, d, amount, value),
         calculate_channel_value(value, d, amount, direction) = supply[d]
  PROVE  ValuesFromSupply
<1>1. ASSUME NEW p \in Paths, NEW i \in 1 .. Len(Load(trackers, p))
      PROVE  trackers'[p][i].quota.channel_value \in
               {trackers[p][i].quota.channel_value, None, supply[p.denom]}
  <2>1. CASE Meets(p, c, d)
    <3>1. LimitOK(trackers[p][i])
      BY TrackerFacts
    <3>2. trackers'[p][i] = allow_transfer(trackers[p][i], d, direction, amount, value, now).limit
      BY <2>1 DEF Applied
    <3>3. trackers'[p][i].quota.channel_value \in {trackers[p][i].quota.channel_value, supply[d]}
      BY <3>1, <3>2, AllowTransferCaches
    <3> QED
      BY <2>1, <3>3 DEF Meets
  <2>2. CASE ~ Meets(p, c, d)
    BY <2>2 DEF Applied
  <2> QED
    BY <2>1, <2>2
<1>2. StoreOK(Paths, trackers) /\ StoreOK(Paths, trackers')
  BY DEF TrackersOK, StoreOK
<1> QED
  BY <1>1, <1>2, ValuesByPlace

\* Every step but a detour caches the supply its transaction began with.
LEMMA NextValues ==
  ASSUME Natives \cap IbcDenoms = {}, IInv, [Next]_vars, ~ Detour
  PROVE  ValuesFromSupply
<1>0. /\ HistoryOK /\ BankOK /\ TrackersOK /\ TrackersOK' /\ log \in Seq(Event) /\ now \in Nat
      /\ Len(log) \in Nat
  BY NextIInv, StackBoundsAssumption DEF IInv, HistoryOK
<1>1. StoreOK(Paths, trackers) /\ StoreOK(Paths, trackers')
  BY <1>0 DEF TrackersOK, StoreOK
<1>2. ASSUME UNCHANGED trackers PROVE ValuesFromSupply
  BY <1>1, <1>2, ValuesByPlace
<1>3. ASSUME NEW c \in Channels, NEW d \in Denoms, NEW amount \in Amounts,
             NEW lifetime \in Lifetimes, SendPacket(c, d, amount, lifetime)
      PROVE  ValuesFromSupply
  <2>1. d \in IbcDenoms <=> ~ IsEscrowed(c, d)
    <3>1. CASE d \in Natives
      BY <3>1 DEF IsEscrowed
    <3>2. CASE d \in Vouchers
      BY <1>3, <3>2, VouchersAssumption DEF Detour
    <3> QED
      BY <3>1, <3>2 DEF Denoms
  <2>2. /\ amount \in Nat /\ supply[d] \in Nat
        /\ supply \in [Denoms -> 0 .. MaxSupply]
    BY <1>0, StackAmountsAssumption, StackBoundsAssumption DEF BankOK, BankTypes
  <2>3. SentValue(c, d, amount) = IF IsEscrowed(c, d) THEN supply[d] ELSE supply[d] - amount
    BY <2>2 DEF SentValue, Take
  <2>4. PICK value : value = SentValue(c, d, amount)
    OBVIOUS
  <2>5. calculate_channel_value(value, d, amount, "Out") = supply[d]
    BY <2>1, <2>2, <2>3, <2>4 DEF calculate_channel_value
  <2>6. UNCHANGED trackers \/ Applied("Out", c, d, amount, value)
    BY <1>0, <1>3, <2>4, SendTrackers
  <2> QED
    BY <1>0, <1>2, <2>5, <2>6, ValuesOfTransfer
<1>4. ASSUME NEW c \in Channels, NEW d \in Denoms, NEW amount \in Amounts,
             OnRecvPacket(c, d, amount)
      PROVE  ValuesFromSupply
  <2>1. PICK value : value = supply[d]
    OBVIOUS
  <2>2. calculate_channel_value(value, d, amount, "In") = supply[d]
    BY <2>1 DEF calculate_channel_value
  <2>3. UNCHANGED trackers \/ Applied("In", c, d, amount, value)
    BY <1>0, <1>4, <2>1, RecvTrackers
  <2> QED
    BY <1>0, <1>2, <2>2, <2>3, ValuesOfTransfer
<1>5. ASSUME NEW k \in DOMAIN packets,
             \/ CounterpartyAccepts(k)
             \/ \E error \in AckErrors : CounterpartyRejects(k, error)
             \/ OnAcknowledgementPacket(k)
             \/ OnTimeoutPacket(k)
      PROVE  ValuesFromSupply
  <2>1. UNCHANGED opened /\ (UNCHANGED trackers \/ Revert(k))
    BY <1>5 DEF CounterpartyAccepts, CounterpartyRejects, OnAcknowledgementPacket, OnTimeoutPacket
  <2>2. \/ UNCHANGED trackers
        \/ Lowered(packets[k].channel, packets[k].denom, packets[k].amount)
    BY <1>0, <2>1, RevertTrackers
  <2>3. CASE Lowered(packets[k].channel, packets[k].denom, packets[k].amount)
    <3>1. ASSUME NEW p \in Paths, NEW i \in 1 .. Len(Load(trackers, p))
          PROVE  trackers'[p][i].quota = trackers[p][i].quota
      <4>1. trackers[p][i] \in RateLimits
        BY <1>0, TrackerFacts DEF LimitOK
      <4> QED
        BY <2>3, <4>1 DEF Lowered, RateLimits
    <3> QED
      BY <1>1, <3>1, ValuesByPlace
  <2> QED
    BY <1>2, <2>2, <2>3
<1>6. ASSUME NEW path \in Paths,
             \/ \E quotas \in QuotaLists : AddPath(path, quotas)
             \/ RemovePath(path)
             \/ \E id \in QuotaIds : ResetPathQuota(path, id)
      PROVE  ValuesFromSupply
  <2>1. \A p \in Paths : \A i \in 1 .. Len(Load(trackers', p)) : KeptOrNew(p, i)
    BY <1>0, <1>6, AddPathTrackers, RemovePathTrackers, ResetTrackers
  <2> QED
    BY <1>1, <2>1, ValuesByPlace DEF KeptOrNew
<1>7. ASSUME \/ \E address \in Contracts \cup {NoContract} : SetParams(address)
             \/ NextBlock
             \/ UNCHANGED vars
      PROVE  ValuesFromSupply
  BY <1>2, <1>7 DEF SetParams, NextBlock, vars
<1> QED
  BY <1>3, <1>4, <1>5, <1>6, <1>7 DEF Next, Transfer, Relay, Govern

\* If no denom of this chain looks like a voucher and vouchers only leave by the channel
\* they came by, the channel value a tracker caches is the supply when the transaction
\* began, though a send asks for it after the tokens were taken.  A detour counts its
\* amount twice.
THEOREM CachedValue ==
  ASSUME Natives \cap IbcDenoms = {}
  PROVE  Spec /\ [][~ Detour]_vars => CachedValueIsSupplyAtStart
<1>1. IInv /\ [Next]_vars /\ [~ Detour]_vars => [ValuesFromSupply]_vars
  BY NextValues
<1> QED
  BY <1>1, InitIInv, NextIInv, PTL DEF Spec, CachedValueIsSupplyAtStart, ValuesFromSupply

----------------------------------------------------------------------------
(* The stack implements the contract on its own.                           *)

\* Module RateLimiter has the operators of RateLimit for itself: they are these.
\* Counting and expiry of one flow
LEMMA SameFlow ==
  ASSUME NEW flow, NEW direction, NEW funds, NEW time, NEW duration, NEW a, NEW b
  PROVE  /\ Limiter!add_flow(flow, direction, funds) = add_flow(flow, direction, funds)
         /\ Limiter!undo_flow(flow, funds) = undo_flow(flow, funds)
         /\ Limiter!is_expired(flow, time) <=> is_expired(flow, time)
         /\ Limiter!expire(time, duration) = expire(time, duration)
         /\ Limiter!exceeds(flow, direction, a, b) <=> exceeds(flow, direction, a, b)
<1>1. /\ Limiter!add_flow(flow, direction, funds) = add_flow(flow, direction, funds)
      /\ Limiter!undo_flow(flow, funds) = undo_flow(flow, funds)
  BY DEF Limiter!add_flow, add_flow, Limiter!undo_flow, undo_flow,
         Limiter!saturating_add, saturating_add, Limiter!saturating_sub, saturating_sub
<1>2. /\ Limiter!is_expired(flow, time) <=> is_expired(flow, time)
      /\ Limiter!expire(time, duration) = expire(time, duration)
  BY DEF Limiter!is_expired, is_expired, Limiter!expire, expire, Limiter!ZeroFlow, ZeroFlow
<1>3. Limiter!exceeds(flow, direction, a, b) <=> exceeds(flow, direction, a, b)
  BY DEF Limiter!exceeds, exceeds, Limiter!balance_in, balance_in, Limiter!balance_out, balance_out,
         Limiter!saturating_sub, saturating_sub
<1> QED
  BY <1>1, <1>2, <1>3

\* One transfer on a flow
LEMMA SameApply ==
  ASSUME NEW flow, NEW direction, NEW funds, NEW time, NEW duration
  PROVE  Limiter!apply_transfer(flow, direction, funds, time, duration) =
           apply_transfer(flow, direction, funds, time, duration)
BY SameFlow DEF Limiter!apply_transfer, apply_transfer

\* The capacities of a quota
LEMMA SameQuota ==
  ASSUME NEW quota, NEW value, NEW denom, NEW funds, NEW direction
  PROVE  /\ Limiter!capacity_in(quota) = capacity_in(quota)
         /\ Limiter!capacity_out(quota) = capacity_out(quota)
         /\ Limiter!CapacityOverflows(quota) <=> CapacityOverflows(quota)
         /\ Limiter!calculate_channel_value(value, denom, funds, direction) =
              calculate_channel_value(value, denom, funds, direction)
BY DEF Limiter!capacity_in, capacity_in, Limiter!capacity_out, capacity_out,
       Limiter!PercentageOf, PercentageOf, Limiter!CapacityOverflows, CapacityOverflows,
       Limiter!calculate_channel_value, calculate_channel_value

\* A transfer on one tracker
LEMMA SameAllow ==
  ASSUME NEW limit, NEW denom, NEW direction, NEW funds, NEW value, NEW time
  PROVE  Limiter!allow_transfer(limit, denom, direction, funds, value, time) =
           allow_transfer(limit, denom, direction, funds, value, time)
<1> DEFINE flow == apply_transfer(limit.flow, direction, funds, time, limit.quota.duration)
           quota == IF limit.quota.channel_value = None \/ is_expired(limit.flow, time)
                    THEN [limit.quota EXCEPT !.channel_value =
                            calculate_channel_value(value, denom, funds, direction)]
                    ELSE limit.quota
           ok == /\ flow.period_end <= MaxTimestamp
                 /\ quota.channel_value <= MaxUint
                 /\ ~ CapacityOverflows(quota)
                 /\ ~ exceeds(flow, direction, capacity_in(quota), capacity_out(quota))
<1>1. allow_transfer(limit, denom, direction, funds, value, time) =
        [ok |-> ok, limit |-> [quota |-> quota, flow |-> flow]]
  BY Zenon DEF allow_transfer
<1>2. Limiter!allow_transfer(limit, denom, direction, funds, value, time) =
        [ok |-> ok, limit |-> [quota |-> quota, flow |-> flow]]
  <2>1. /\ \A f, d : Limiter!is_expired(f, d) <=> is_expired(f, d)
        /\ \A f, d, a, b : Limiter!exceeds(f, d, a, b) <=> exceeds(f, d, a, b)
    BY SameFlow
  <2>2. /\ \A q : Limiter!capacity_in(q) = capacity_in(q) /\ Limiter!capacity_out(q) = capacity_out(q)
        /\ \A q : Limiter!CapacityOverflows(q) <=> CapacityOverflows(q)
        /\ \A v, e, f, d : Limiter!calculate_channel_value(v, e, f, d) = calculate_channel_value(v, e, f, d)
    BY SameQuota
  <2> QED
    BY <2>1, <2>2, SameApply, Zenon DEF Limiter!allow_transfer
<1> QED
  BY <1>1, <1>2

\* Loading a key
LEMMA SameLoad ==
  ASSUME NEW store, NEW channel, NEW denom, NEW path
  PROVE  /\ Limiter!Load(store, path) = Load(store, path)
         /\ Limiter!Path(channel, denom) = Path(channel, denom)
         /\ Limiter!not_configured(store, channel, denom) <=> not_configured(store, channel, denom)
BY DEF Limiter!Load, Load, Limiter!Path, Path, Limiter!not_configured, not_configured

\* A transfer on all trackers it meets
LEMMA SameTransfer ==
  ASSUME NEW store, NEW channel, NEW denom, NEW value, NEW funds, NEW direction, NEW time
  PROVE  Limiter!try_transfer(store, channel, denom, value, funds, direction, time) =
           try_transfer(store, channel, denom, value, funds, direction, time)
<1>1. ASSUME NEW limits
      PROVE  Limiter!AllowAll(limits, denom, direction, funds, value, time) =
               AllowAll(limits, denom, direction, funds, value, time)
  BY SameAllow DEF Limiter!AllowAll, AllowAll
<1>2. ASSUME NEW results
      PROVE  /\ Limiter!AllAllowed(results) <=> AllAllowed(results)
             /\ Limiter!LimitsOf(results) = LimitsOf(results)
  BY DEF Limiter!AllAllowed, AllAllowed, Limiter!LimitsOf, LimitsOf
<1> QED
  BY <1>1, <1>2, SameLoad, ZenonT(60) DEF Limiter!try_transfer, try_transfer

\* An undo
LEMMA SameUndo ==
  ASSUME NEW store, NEW channel, NEW denom, NEW funds
  PROVE  Limiter!undo_send(store, channel, denom, funds) = undo_send(store, channel, denom, funds)
<1>1. ASSUME NEW limits
      PROVE  Limiter!UndoAll(limits, funds) = UndoAll(limits, funds)
  <2>1. \A flow : Limiter!undo_flow(flow, funds) = undo_flow(flow, funds)
    BY SameFlow
  <2> QED
    BY <2>1 DEF Limiter!UndoAll, UndoAll
<1> QED
  BY <1>1, SameLoad, Zenon DEF Limiter!undo_send, undo_send

\* The messages of governance
LEMMA SameExecute ==
  ASSUME NEW store, NEW path, NEW quotas, NEW quota_id, NEW time
  PROVE  /\ Limiter!NewLimits(quotas, time) = NewLimits(quotas, time)
         /\ Limiter!PeriodsFit(NewLimits(quotas, time)) <=> PeriodsFit(NewLimits(quotas, time))
         /\ Limiter!add_new_path(store, path, quotas, time) = add_new_path(store, path, quotas, time)
         /\ Limiter!remove_path(store, path) = remove_path(store, path)
         /\ Limiter!reset_path_quota(store, path, quota_id, time) =
              reset_path_quota(store, path, quota_id, time)
<1>1. Limiter!NewLimits(quotas, time) = NewLimits(quotas, time)
  BY DEF Limiter!NewLimits, NewLimits, Limiter!QuotaFrom, QuotaFrom, Limiter!ZeroFlow, ZeroFlow
<1>2. \A limits : Limiter!PeriodsFit(limits) <=> PeriodsFit(limits)
  BY DEF Limiter!PeriodsFit, PeriodsFit
<1>3. Limiter!add_new_path(store, path, quotas, time) = add_new_path(store, path, quotas, time)
  BY <1>1, <1>2, Zenon DEF Limiter!add_new_path, add_new_path
<1>4. Limiter!remove_path(store, path) = remove_path(store, path)
  BY DEF Limiter!remove_path, remove_path
<1>5. \A limits : Limiter!ResetLimits(limits, quota_id, time) = ResetLimits(limits, quota_id, time)
  BY DEF Limiter!ResetLimits, ResetLimits, Limiter!expire, expire, Limiter!ZeroFlow, ZeroFlow
<1>6. Limiter!reset_path_quota(store, path, quota_id, time) =
        reset_path_quota(store, path, quota_id, time)
  BY <1>2, <1>5, SameLoad, Zenon DEF Limiter!reset_path_quota, reset_path_quota
<1> QED
  BY <1>1, <1>2, <1>3, <1>4, <1>6

\* The amounts of the packets are those that users send.
PacketAmounts == \A k \in DOMAIN packets : packets[k].amount \in Amounts

\* Packets keep their amount.
LEMMA NextAmounts ==
  ASSUME IInv, PacketAmounts, [Next]_vars
  PROVE  PacketAmounts'
<1>0. /\ HistoryOK /\ BankOK /\ TrackersOK /\ packets \in Seq(Packet) /\ now \in Nat
  BY StackBoundsAssumption DEF IInv, HistoryOK
<1>1. ASSUME NEW c \in Channels, NEW d \in Denoms, NEW amount \in Amounts,
             NEW lifetime \in Lifetimes, SendPacket(c, d, amount, lifetime)
      PROVE  PacketAmounts'
  <2>1. PICK packet \in Packet : Sent(packet) /\ packet.amount = amount
    BY <1>0, <1>1, SendIs
  <2> QED
    BY <2>1 DEF PacketAmounts, Sent
<1>2. ASSUME NEW k \in DOMAIN packets,
             \/ CounterpartyAccepts(k)
             \/ \E error \in AckErrors : CounterpartyRejects(k, error)
             \/ OnAcknowledgementPacket(k)
             \/ OnTimeoutPacket(k)
      PROVE  PacketAmounts'
  <2>1. \E s : Moved(k, s)
    <3>1. ASSUME NEW error \in AckErrors, CounterpartyRejects(k, error)
          PROVE  Moved(k, "rejected")
      BY <1>0, <3>1, RejectedBy DEF CounterpartyRejects
    <3>2. ASSUME NEW s \in Status, packets' = [packets EXCEPT ![k].status = s]
          PROVE  Moved(k, s)
      BY <1>0, <3>2, MovedBy
    <3>3. CASE CounterpartyAccepts(k) \/ OnAcknowledgementPacket(k) \/ OnTimeoutPacket(k)
      <4>1. \E s \in Status : packets' = [packets EXCEPT ![k].status = s]
        <5>1. {"delivered", "acked", "refunded"} \subseteq Status
          BY DEF Status
        <5>2. \E s \in {"delivered", "acked", "refunded"} : packets' = [packets EXCEPT ![k].status = s]
          BY <3>3 DEF CounterpartyAccepts, OnAcknowledgementPacket, OnTimeoutPacket, RefundPacket
        <5> QED
          BY <5>1, <5>2
      <4> QED
        BY <3>2, <4>1
    <3> QED
      BY <1>2, <3>1, <3>3
  <2> QED
    BY <2>1 DEF PacketAmounts, Moved
<1>3. CASE UNCHANGED packets
  BY <1>3 DEF PacketAmounts
<1>4. ASSUME \/ \E c \in Channels, d \in Denoms, amount \in Amounts : OnRecvPacket(c, d, amount)
             \/ Govern \/ NextBlock \/ UNCHANGED vars
      PROVE  UNCHANGED packets
  BY <1>4 DEF OnRecvPacket, Govern, SetParams, AddPath, RemovePath, ResetPathQuota, NextBlock, vars
<1> QED
  BY <1>1, <1>2, <1>3, <1>4 DEF Next, Transfer, Relay

\* No flow is above the limit of the integers, which is the bound of the abstract contract.
LEMMA FlowsWithinUint ==
  ASSUME NEW store, StoreOK(Paths, store)
  PROVE  Limiter!FlowsBounded(store)
<1>1. Limiter!Paths = Paths
  BY DEF Limiter!Paths, Paths
<1>2. ASSUME NEW p \in Paths, NEW i \in 1 .. Len(Load(store, p))
      PROVE  store[p][i].flow.inflow <= MaxUint /\ store[p][i].flow.outflow <= MaxUint
  <2>1. LimitOK(store[p][i])
    BY DEF StoreOK, Load, LimitsOK
  <2> QED
    BY <2>1, MaxUintAssumption DEF LimitOK, RateLimits, Flow, Uint256
<1> QED
  BY <1>1, <1>2, SameLoad DEF Limiter!FlowsBounded

\* The contract starts with the paths of its InstantiateMsg.
LEMMA InitImplements == Init => Limiter!Init
<1> SUFFICES ASSUME Init PROVE Limiter!Init
  OBVIOUS
<1>1. Limiter!Paths = Paths
  BY DEF Limiter!Paths, Paths
<1>2. \A quotas : Limiter!NewLimits(quotas, 0) = NewLimits(quotas, 0)
  BY SameExecute
<1>3. \A quotas : Limiter!PeriodsFit(NewLimits(quotas, 0)) <=> PeriodsFit(NewLimits(quotas, 0))
  BY SameExecute
<1>4. PICK conf \in [Paths -> QuotaLists \cup {Absent}] : conf = InitialQuotas
  BY StackQuotasAssumption
<1>5. /\ \A p \in Paths : conf[p] # Absent => Limiter!PeriodsFit(Limiter!NewLimits(conf[p], 0))
      /\ trackers = [p \in Paths |->
           IF conf[p] = Absent THEN Absent ELSE Limiter!NewLimits(conf[p], 0)]
  BY <1>2, <1>3, <1>4, StackQuotasAssumption DEF Init
<1> QED
  BY <1>1, <1>5 DEF Limiter!Init, Init

\* Every step of the stack is a step of the contract, or leaves it alone.
LEMMA NextImplements ==
  ASSUME IInv, PacketAmounts, [Next]_vars
  PROVE  [Limiter!Next]_(Limiter!vars)
<1>0. /\ HistoryOK /\ BankOK /\ TrackersOK /\ TrackersOK' /\ now \in Nat
      /\ packets \in Seq(Packet)
  BY NextIInv, StackBoundsAssumption DEF IInv, HistoryOK
<1>1. Limiter!Paths = Paths
  BY DEF Limiter!Paths, Paths
<1>2. Limiter!FlowsBounded(trackers')
  <2>1. StoreOK(Paths, trackers')
    BY <1>0 DEF TrackersOK, StoreOK
  <2> QED
    BY <2>1, FlowsWithinUint
<1>3. ASSUME UNCHANGED <<trackers, now>>
      PROVE  [Limiter!Next]_(Limiter!vars)
  BY <1>3 DEF Limiter!vars
<1>4. ASSUME NEW c \in Channels, NEW d \in Denoms, NEW amount \in Amounts,
             NEW lifetime \in Lifetimes, SendPacket(c, d, amount, lifetime)
      PROVE  [Limiter!Next]_(Limiter!vars)
  <2>1. PICK value \in 0 .. MaxSupply : value = SentValue(c, d, amount)
    BY <1>0, <1>4, SendTrackers
  <2>2. /\ trackers' = CheckAndUpdateRateLimits("Out", c, d, value, amount).store /\ UNCHANGED now
    BY <1>4, <2>1 DEF SendPacket, SentValue
  <2>3. CASE contract # ContractAddr
    BY <1>3, <2>2, <2>3 DEF CheckAndUpdateRateLimits
  <2>4. CASE contract = ContractAddr
    <3>1. trackers' = try_transfer(trackers, c, d, value, amount, "Out", now).store
      BY <2>2, <2>4 DEF CheckAndUpdateRateLimits
    <3>2. Limiter!SendPacket(c, d, amount, value)
      BY <1>2, <2>2, <3>1, SameTransfer DEF Limiter!SendPacket
    <3> QED
      BY <3>2 DEF Limiter!Next, Limiter!Sudo
  <2> QED
    BY <2>3, <2>4
<1>5. ASSUME NEW c \in Channels, NEW d \in Denoms, NEW amount \in Amounts,
             OnRecvPacket(c, d, amount)
      PROVE  [Limiter!Next]_(Limiter!vars)
  <2>1. PICK value \in 0 .. MaxSupply : value = supply[d]
    BY <1>0, <1>5, RecvTrackers
  <2>2. /\ trackers' = CheckAndUpdateRateLimits("In", c, d, value, amount).store /\ UNCHANGED now
    BY <1>5, <2>1 DEF OnRecvPacket
  <2>3. CASE contract # ContractAddr
    BY <1>3, <2>2, <2>3 DEF CheckAndUpdateRateLimits
  <2>4. CASE contract = ContractAddr
    <3>1. trackers' = try_transfer(trackers, c, d, value, amount, "In", now).store
      BY <2>2, <2>4 DEF CheckAndUpdateRateLimits
    <3>2. Limiter!RecvPacket(c, d, amount, value)
      BY <1>2, <2>2, <3>1, SameTransfer DEF Limiter!RecvPacket
    <3> QED
      BY <3>2 DEF Limiter!Next, Limiter!Sudo
  <2> QED
    BY <2>3, <2>4
<1>6. ASSUME NEW k \in DOMAIN packets,
             \/ CounterpartyAccepts(k)
             \/ \E error \in AckErrors : CounterpartyRejects(k, error)
             \/ OnAcknowledgementPacket(k)
             \/ OnTimeoutPacket(k)
      PROVE  [Limiter!Next]_(Limiter!vars)
  <2>1. UNCHANGED now /\ (UNCHANGED trackers \/ trackers' = RevertSentPacket(packets[k]))
    BY <1>6 DEF CounterpartyAccepts, CounterpartyRejects, OnAcknowledgementPacket, OnTimeoutPacket,
                Revert
  <2>2. PICK c \in Channels, d \in Denoms, amount \in Amounts :
          c = packets[k].channel /\ d = packets[k].denom /\ amount = packets[k].amount
    <3>1. packets[k] \in Packet
      BY <1>0
    <3> QED
      BY <3>1 DEF Packet, PacketAmounts
  <2>3. CASE UNCHANGED trackers
    BY <1>3, <2>1, <2>3
  <2>4. CASE trackers' = undo_send(trackers, c, d, amount)
    <3>1. Limiter!UndoSend(c, d, amount)
      BY <2>1, <2>4, SameUndo DEF Limiter!UndoSend
    <3> QED
      BY <3>1 DEF Limiter!Next, Limiter!Sudo
  <2> QED
    BY <2>1, <2>2, <2>3, <2>4 DEF RevertSentPacket
<1>7. ASSUME NEW path \in Paths,
             \/ \E quotas \in QuotaLists : AddPath(path, quotas)
             \/ RemovePath(path)
             \/ \E id \in QuotaIds : ResetPathQuota(path, id)
      PROVE  [Limiter!Next]_(Limiter!vars)
  <2>1. ASSUME NEW quotas \in QuotaLists, AddPath(path, quotas)
        PROVE  Limiter!AddPath("gov", path, quotas)
    BY <2>1, SameExecute DEF AddPath, Limiter!AddPath
  <2>2. ASSUME RemovePath(path)
        PROVE  Limiter!RemovePath("gov", path)
    BY <2>2, SameExecute DEF RemovePath, Limiter!RemovePath
  <2>3. ASSUME NEW id \in QuotaIds, ResetPathQuota(path, id)
        PROVE  Limiter!ResetPathQuota("gov", path, id)
    BY <2>3, SameExecute DEF ResetPathQuota, Limiter!ResetPathQuota
  <2> QED
    BY <1>1, <1>7, <2>1, <2>2, <2>3 DEF Limiter!Next, Limiter!Execute
<1>8. ASSUME \/ \E address \in Contracts \cup {NoContract} : SetParams(address)
             \/ UNCHANGED vars
      PROVE  UNCHANGED <<trackers, now>>
  BY <1>8 DEF SetParams, vars
<1>9. ASSUME NextBlock
      PROVE  Limiter!Next
  BY <1>9 DEF NextBlock, Limiter!NextBlock, Limiter!Next
<1> QED
  BY <1>3, <1>4, <1>5, <1>6, <1>7, <1>8, <1>9 DEF Next, Transfer, Relay, Govern

\* The stack implements the contract on its own: the middleware only sends it messages
\* of its interface, with the time of the block, so what is proved of RateLimiter holds
\* of the trackers on the chain.
THEOREM Implementation == Spec => ImplementsRateLimiter
<1>1. Init => PacketAmounts
  BY DEF Init, PacketAmounts
<1> QED
  BY <1>1, InitIInv, NextIInv, NextAmounts, InitImplements, NextImplements, PTL
     DEF Spec, ImplementsRateLimiter, Limiter!Spec
=============================================================================
