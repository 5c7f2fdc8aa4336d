----------------------- MODULE CrosschainSwapsProofs -----------------------
(***************************************************************************)
(* Forwards and recoveries of crosschain-swaps, for every set of users,    *)
(* channels, calls and amounts.                                            *)
(*                                                                         *)
(* The inductive invariant Inv says of the stores                          *)
(*   PacketsOK     no two packets share a channel and a sequence;          *)
(*   TracksOK      exactly the recoverable forwards under way are tracked, *)
(*                 each with its own amount and recovery address;          *)
(*   RecoveryOK    what was paid and is kept for a user is what failed in  *)
(*                 the user's name;                                        *)
(*   HeldOK        the contract holds what is kept and what is unclaimed;  *)
(* and that no reply is outstanding between transactions.                  *)
(***************************************************************************)
EXTENDS CrosschainSwaps, Sums, TLAPS

Denoms == {Near, Far, Out}

Packet == [denom : Denoms, amount : Nat \ {0}, channel : Channels, callback : BOOLEAN,
           call : Call, sequence : Nat \ {0}, status : {"sent", "delivered", "failed"}]

\* Forwards carry what was bought, the others what is to be unwrapped.
PacketOK(p) ==
  /\ p \in Packet
  /\ p.denom = IF p.callback THEN Out ELSE Far
  /\ p.channel = p.call.channel

OnChannel(ps, c) == {i \in DOMAIN ps : ps[i].channel = c}

PacketsOK(ps) ==
  /\ ps \in Seq(Packet)
  /\ \A i \in DOMAIN ps : PacketOK(ps[i])
  /\ \A i \in DOMAIN ps : ps[i].sequence <= Cardinality(OnChannel(ps, ps[i].channel))
  /\ \A i, j \in DOMAIN ps : Key(ps[i]) = Key(ps[j]) => i = j

Tracked(ps) ==
  {i \in DOMAIN ps : ps[i].callback /\ ps[i].status = "sent" /\ ps[i].call.recovery # NoAddr}

\* What the contract keeps of a forward
TransferOf(p) ==
  [recovery |-> p.call.recovery, channel |-> p.channel, sequence |-> p.sequence,
   amount |-> p.amount, denom |-> Out, status |-> "Sent"]

TracksOK(ps, inflight) ==
  /\ DOMAIN inflight = {Key(ps[i]) : i \in Tracked(ps)}
  /\ \A i \in Tracked(ps) : inflight[Key(ps[i])] = TransferOf(ps[i])

Failed(ps, u) ==
  {i \in DOMAIN ps : ps[i].callback /\ ps[i].call.recovery = u /\ ps[i].status = "failed"}
Stuck(ps) == {i \in DOMAIN ps : ~ ps[i].callback /\ ps[i].status = "failed"}
Total(ps, is) == SumFunction([i \in is |-> ps[i].amount])

Kept(recovery, u) == IF u \in DOMAIN recovery THEN SumAmounts(recovery[u]) ELSE 0
Owed(recovery) == SumFunction([u \in DOMAIN recovery |-> SumAmounts(recovery[u])])

RecoveryOK(ps, recovery, paid) ==
  /\ DOMAIN recovery \subseteq Users /\ IsFiniteSet(DOMAIN recovery)
  /\ \A u \in DOMAIN recovery : recovery[u] \in Seq(IBCTransfer)
  /\ paid \in [Users -> Nat]
  /\ \A u \in Users : paid[u] + Kept(recovery, u) = Total(ps, Failed(ps, u))

HeldOK(ps, recovery, held) ==
  /\ held \in [Denoms -> Int]
  /\ held[Near] = 0
  /\ held[Far] = Total(ps, Stuck(ps))
  /\ held[Out] = Total(ps, Failed(ps, NoAddr)) + Owed(recovery)

IsState(x) ==
  DOMAIN x = {"config", "router", "swapReply", "forwardReply", "inflight", "recovery", "held",
              "paid", "packets"}

StoresOK(ps, inflight, recovery, paid, held) ==
  /\ PacketsOK(ps)
  /\ TracksOK(ps, inflight)
  /\ RecoveryOK(ps, recovery, paid)
  /\ HeldOK(ps, recovery, held)

Inv(x) ==
  /\ IsState(x)
  /\ x.swapReply = None /\ x.forwardReply = None
  /\ StoresOK(x.packets, x.inflight, x.recovery, x.paid, x.held)

----------------------------------------------------------------------------
(* Sums                                                                    *)

\* A total over a finite set of packets
LEMMA TotalFacts ==
  ASSUME NEW ps, NEW is, IsFiniteSet(is), \A i \in is : ps[i].amount \in Nat
  PROVE  Total(ps, is) \in Nat
<1> DEFINE f == [i \in is |-> ps[i].amount]
<1>1. Total(ps, is) = SumFunctionOnSet(f, is)
  BY DEF Total, SumFunction
<1>2. \A i \in is : f[i] \in Nat
  OBVIOUS
<1> HIDE DEF f
<1> QED
  BY <1>1, <1>2, SumNat

\* Packets with the same amounts have the same total.
LEMMA TotalEqual ==
  ASSUME NEW ps, NEW qs, NEW is, IsFiniteSet(is), \A i \in is : ps[i].amount = qs[i].amount
  PROVE  Total(ps, is) = Total(qs, is)
<1>1. [i \in is |-> ps[i].amount] = [i \in is |-> qs[i].amount]
  OBVIOUS
<1> QED
  BY <1>1 DEF Total

\* One packet more adds its amount.
LEMMA TotalAdd ==
  ASSUME NEW ps, NEW is, IsFiniteSet(is), NEW e, e \notin is,
         \A i \in is \cup {e} : ps[i].amount \in Nat
  PROVE  Total(ps, is \cup {e}) = Total(ps, is) + ps[e].amount
<1> DEFINE all == is \cup {e}
           f == [i \in all |-> ps[i].amount]
           g == [i \in is |-> ps[i].amount]
<1>1. Total(ps, all) = SumFunctionOnSet(f, all) /\ Total(ps, is) = SumFunctionOnSet(g, is)
  BY DEF Total, SumFunction
<1>2. /\ \A i \in all : f[i] \in Int
      /\ \A i \in is : f[i] = g[i]
      /\ f[e] = ps[e].amount
  OBVIOUS
<1> HIDE DEF f, g
<1>3. SumFunctionOnSet(f, all) = SumFunctionOnSet(f, is) + f[e]
  BY <1>2, SumAddElement
<1>4. SumFunctionOnSet(f, is) = SumFunctionOnSet(g, is)
  BY <1>2, SumEqual
<1> QED
  BY <1>1, <1>2, <1>3, <1>4

\* The amounts of transfers add up to a number, and one more adds its own.
LEMMA SumAmountsAppend ==
  ASSUME NEW ts \in Seq(IBCTransfer), NEW t \in IBCTransfer
  PROVE  /\ SumAmounts(ts) \in Nat
         /\ SumAmounts(Append(ts, t)) = SumAmounts(ts) + t.amount
         /\ SumAmounts(<<>>) = 0
<1> DEFINE n == Len(ts)
           us == Append(ts, t)
<1>1. /\ n \in Nat /\ DOMAIN ts = 1 .. n
      /\ DOMAIN us = (1 .. n) \cup {n + 1} /\ n + 1 \notin 1 .. n
      /\ us[n + 1] = t /\ \A i \in 1 .. n : us[i] = ts[i] /\ ts[i] \in IBCTransfer
  OBVIOUS
<1>2. IsFiniteSet(1 .. n)
  BY <1>1, FS_Interval
<1>3. \A r \in IBCTransfer : r.amount \in Nat
  BY DEF IBCTransfer
<1>4. \A qs : SumAmounts(qs) = Total(qs, DOMAIN qs)
  BY DEF SumAmounts, Total
<1> HIDE DEF n, us
<1>5. Total(us, (1 .. n) \cup {n + 1}) = Total(us, 1 .. n) + t.amount
  <2>1. \A i \in (1 .. n) \cup {n + 1} : us[i] \in IBCTransfer
    BY <1>1
  <2>2. \A i \in (1 .. n) \cup {n + 1} : us[i].amount \in Nat
    BY <2>1, <1>3
  <2>3. Total(us, (1 .. n) \cup {n + 1}) = Total(us, 1 .. n) + us[n + 1].amount
    BY <1>1, <1>2, <2>2, TotalAdd
  <2> QED
    BY <1>1, <2>3
<1>6. Total(us, 1 .. n) = Total(ts, 1 .. n)
  BY <1>1, <1>2, TotalEqual
<1>7. Total(ts, 1 .. n) \in Nat
  BY <1>1, <1>2, <1>3, TotalFacts
<1>8. SumAmounts(<<>>) = 0
  BY SumEmpty DEF SumAmounts, SumFunction
<1> QED
  BY <1>1, <1>4, <1>5, <1>6, <1>7, <1>8 DEF us

\* A map after save, and after remove
LEMMA MapFacts ==
  ASSUME NEW map, NEW key, NEW value
  PROVE  /\ DOMAIN Save(map, key, value) = DOMAIN map \cup {key}
         /\ Save(map, key, value)[key] = value
         /\ \A k \in DOMAIN map : k # key => Save(map, key, value)[k] = map[k]
         /\ DOMAIN Erase(map, key) = DOMAIN map \ {key}
         /\ \A k \in DOMAIN map : k # key => Erase(map, key)[k] = map[k]
BY DEF Save, Erase, Restrict

\* Stores of recoveries
Recoveries(recovery) ==
  /\ DOMAIN recovery \subseteq Users /\ IsFiniteSet(DOMAIN recovery)
  /\ \A u \in DOMAIN recovery : recovery[u] \in Seq(IBCTransfer)

\* What is kept and owed are numbers.
LEMMA RecoveriesFacts ==
  ASSUME NEW recovery, Recoveries(recovery)
  PROVE  /\ Owed(recovery) \in Nat
         /\ \A u \in DOMAIN recovery : SumAmounts(recovery[u]) \in Nat
         /\ \A u : Kept(recovery, u) \in Nat
<1>1. \A u \in DOMAIN recovery : SumAmounts(recovery[u]) \in Nat
  <2> SUFFICES ASSUME NEW u \in DOMAIN recovery PROVE SumAmounts(recovery[u]) \in Nat
    OBVIOUS
  <2>1. recovery[u] \in Seq(IBCTransfer)
    BY DEF Recoveries
  <2>2. CASE IBCTransfer = {}
    <3>1. recovery[u] = <<>>
      BY <2>1, <2>2
    <3> QED
      BY <3>1, SumEmpty DEF SumAmounts, SumFunction
  <2>3. CASE IBCTransfer # {}
    BY <2>1, <2>3, SumAmountsAppend
  <2> QED
    BY <2>2, <2>3
<1> DEFINE f == [u \in DOMAIN recovery |-> SumAmounts(recovery[u])]
<1>2. \A u \in DOMAIN recovery : f[u] \in Nat
  BY <1>1
<1>3. Owed(recovery) = SumFunctionOnSet(f, DOMAIN recovery)
  BY DEF Owed, SumFunction
<1>4. IsFiniteSet(DOMAIN recovery)
  BY DEF Recoveries
<1> HIDE DEF f
<1>5. Owed(recovery) \in Nat
  BY <1>2, <1>3, <1>4, SumNat
<1> QED
  BY <1>1, <1>5 DEF Kept

\* create_recovery: a user is kept what failed on top of what was kept before.
LEMMA RecoverySaved ==
  ASSUME NEW recovery, Recoveries(recovery), NEW a \in Users, NEW t \in IBCTransfer
  PROVE  LET before == IF a \in DOMAIN recovery THEN recovery[a] ELSE <<>>
             new == Save(recovery, a, Append(before, t))
         IN  /\ Recoveries(new)
             /\ Owed(new) = Owed(recovery) + t.amount
             /\ Kept(new, a) = Kept(recovery, a) + t.amount
             /\ \A u : u # a => Kept(new, u) = Kept(recovery, u)
<1> DEFINE before == IF a \in DOMAIN recovery THEN recovery[a] ELSE <<>>
           new == Save(recovery, a, Append(before, t))
<1>1. before \in Seq(IBCTransfer) /\ Append(before, t) \in Seq(IBCTransfer)
  BY DEF Recoveries
<1>2. /\ DOMAIN new = DOMAIN recovery \cup {a}
      /\ new[a] = Append(before, t)
      /\ \A u \in DOMAIN recovery : u # a => new[u] = recovery[u]
  <2> HIDE DEF before
  <2> QED
    BY DEF Save
<1>3. /\ SumAmounts(before) \in Nat
      /\ SumAmounts(Append(before, t)) = SumAmounts(before) + t.amount
      /\ SumAmounts(<<>>) = 0
  BY <1>1, SumAmountsAppend
<1>4. Kept(recovery, a) = SumAmounts(before)
  BY <1>3 DEF Kept
<1>t. t.amount \in Nat
  BY DEF IBCTransfer
<1> HIDE DEF before, new
<1>5. Recoveries(new)
  BY <1>1, <1>2, FS_AddElement DEF Recoveries
<1>6. \A u : u # a => Kept(new, u) = Kept(recovery, u)
  BY <1>2 DEF Kept
<1>7. Kept(new, a) = Kept(recovery, a) + t.amount
  BY <1>2, <1>3, <1>4 DEF Kept
<1> DEFINE f == [u \in DOMAIN recovery |-> SumAmounts(recovery[u])]
           g == [u \in DOMAIN new |-> SumAmounts(new[u])]
<1>8. Owed(recovery) = SumFunctionOnSet(f, DOMAIN recovery) /\ Owed(new) = SumFunctionOnSet(g, DOMAIN new)
  BY DEF Owed, SumFunction
<1>9. /\ \A u \in DOMAIN recovery : f[u] \in Int
      /\ \A u \in DOMAIN new : g[u] \in Int
      /\ \A u \in DOMAIN recovery \ {a} : g[u] = f[u]
      /\ g[a] = Kept(new, a)
      /\ a \in DOMAIN recovery => f[a] = Kept(recovery, a)
  <2>1. \A u \in DOMAIN recovery : SumAmounts(recovery[u]) \in Int
    BY RecoveriesFacts
  <2>2. \A u \in DOMAIN new : SumAmounts(new[u]) \in Int
    BY <1>5, RecoveriesFacts
  <2> QED
    BY <1>2, <2>1, <2>2 DEF Kept
<1>10. IsFiniteSet(DOMAIN recovery)
  BY DEF Recoveries
<1>11. Kept(recovery, a) \in Nat
  BY RecoveriesFacts
<1> HIDE DEF f, g
<1>12. CASE a \in DOMAIN recovery
  <2>1. DOMAIN new = DOMAIN recovery
    BY <1>2, <1>12
  <2>2. SumFunctionOnSet(g, DOMAIN recovery) = SumFunctionOnSet(f, DOMAIN recovery) + g[a] - f[a]
    BY <1>9, <1>10, <1>12, <2>1, SumUpdate
  <2>3. SumFunctionOnSet(f, DOMAIN recovery) \in Int
    BY <1>9, <1>10, SumInt
  <2>4. Owed(new) = Owed(recovery) + t.amount
    BY <1>7, <1>8, <1>9, <1>11, <1>12, <1>t, <2>1, <2>2, <2>3
  <2> QED
    BY <1>5, <1>6, <1>7, <2>4 DEF new, before
<1>13. CASE a \notin DOMAIN recovery
  <2>1. SumFunctionOnSet(g, DOMAIN recovery \cup {a}) = SumFunctionOnSet(g, DOMAIN recovery) + g[a]
    BY <1>2, <1>9, <1>10, <1>13, SumAddElement
  <2>2. SumFunctionOnSet(g, DOMAIN recovery) = SumFunctionOnSet(f, DOMAIN recovery)
    BY <1>9, <1>10, <1>13, SumEqual
  <2>3. SumFunctionOnSet(f, DOMAIN recovery) \in Int
    BY <1>9, <1>10, SumInt
  <2>4. Kept(recovery, a) = 0
    BY <1>13 DEF Kept
  <2>5. Owed(new) = Owed(recovery) + t.amount
    BY <1>2, <1>7, <1>8, <1>9, <1>t, <2>1, <2>2, <2>3, <2>4
  <2> QED
    BY <1>5, <1>6, <1>7, <2>5 DEF new, before
<1> QED
  BY <1>12, <1>13

\* recover: everything of the user is taken off.
LEMMA RecoveryErased ==
  ASSUME NEW recovery, Recoveries(recovery), NEW a \in DOMAIN recovery
  PROVE  LET new == Erase(recovery, a)
         IN  /\ Recoveries(new)
             /\ Owed(recovery) = Owed(new) + SumAmounts(recovery[a])
             /\ Kept(new, a) = 0
             /\ \A u : u # a => Kept(new, u) = Kept(recovery, u)
<1> DEFINE new == Erase(recovery, a)
<1>1. /\ DOMAIN new = DOMAIN recovery \ {a}
      /\ \A u \in DOMAIN recovery : u # a => new[u] = recovery[u]
  BY MapFacts, Zenon
<1> HIDE DEF new
<1>2. Recoveries(new)
  BY <1>1, FS_Subset DEF Recoveries
<1>3. Kept(new, a) = 0 /\ \A u : u # a => Kept(new, u) = Kept(recovery, u)
  BY <1>1 DEF Kept
<1> DEFINE f == [u \in DOMAIN recovery |-> SumAmounts(recovery[u])]
           g == [u \in DOMAIN new |-> SumAmounts(new[u])]
<1>4. Owed(recovery) = SumFunctionOnSet(f, DOMAIN recovery) /\ Owed(new) = SumFunctionOnSet(g, DOMAIN new)
  BY DEF Owed, SumFunction
<1>5. /\ \A u \in DOMAIN recovery : f[u] \in Int
      /\ \A u \in DOMAIN new : g[u] \in Int /\ f[u] = g[u]
      /\ f[a] = SumAmounts(recovery[a])
  BY <1>1, <1>2, RecoveriesFacts
<1>6. IsFiniteSet(DOMAIN recovery) /\ IsFiniteSet(DOMAIN new)
  BY <1>2 DEF Recoveries
<1> HIDE DEF f, g
<1>7. SumFunctionOnSet(f, DOMAIN recovery) = f[a] + SumFunctionOnSet(f, DOMAIN recovery \ {a})
  BY <1>5, <1>6, SumRemove
<1>8. SumFunctionOnSet(f, DOMAIN new) = SumFunctionOnSet(g, DOMAIN new)
  BY <1>5, <1>6, SumEqual
<1>9. SumFunctionOnSet(g, DOMAIN new) \in Int
  BY <1>5, <1>6, SumInt
<1>10. f[a] \in Int
  BY <1>5
<1> QED
  BY <1>1, <1>2, <1>3, <1>4, <1>5, <1>7, <1>8, <1>9, <1>10 DEF new

----------------------------------------------------------------------------
(* Packets and what is tracked of them                                     *)

\* The sets of packets are finite, and their totals numbers.
LEMMA PacketsFacts ==
  ASSUME NEW ps, PacketsOK(ps)
  PROVE  /\ Len(ps) \in Nat /\ DOMAIN ps = 1 .. Len(ps) /\ IsFiniteSet(DOMAIN ps)
         /\ \A i \in DOMAIN ps : ps[i] \in Packet /\ ps[i].amount \in Nat
         /\ \A is \in SUBSET DOMAIN ps : IsFiniteSet(is) /\ Total(ps, is) \in Nat
         /\ \A c : OnChannel(ps, c) \in SUBSET DOMAIN ps
         /\ \A u : Failed(ps, u) \in SUBSET DOMAIN ps
         /\ Stuck(ps) \in SUBSET DOMAIN ps
<1>1. ps \in Seq(Packet)
  BY DEF PacketsOK
<1>2. Len(ps) \in Nat /\ DOMAIN ps = 1 .. Len(ps) /\ \A i \in DOMAIN ps : ps[i] \in Packet
  BY <1>1
<1>3. IsFiniteSet(DOMAIN ps)
  BY <1>2, FS_Interval
<1>4. \A i \in DOMAIN ps : ps[i].amount \in Nat
  BY <1>2 DEF Packet
<1>5. ASSUME NEW is \in SUBSET DOMAIN ps
      PROVE  IsFiniteSet(is) /\ Total(ps, is) \in Nat
  <2>1. IsFiniteSet(is)
    BY <1>3, FS_Subset
  <2>2. \A i \in is : ps[i].amount \in Nat
    BY <1>4
  <2> QED
    BY <2>1, <2>2, TotalFacts
<1> QED
  BY <1>2, <1>3, <1>4, <1>5 DEF OnChannel, Failed, Stuck

\* Transfer: the new packet has a key of its own and nothing has failed with it.
LEMMA PacketSent ==
  ASSUME NEW ps, PacketsOK(ps), NEW p, PacketOK(p), p.status = "sent",
         p.sequence = Cardinality(OnChannel(ps, p.channel)) + 1
  PROVE  LET qs == Append(ps, p)
             n == Len(ps) + 1
         IN  /\ PacketsOK(qs)
             /\ DOMAIN qs = DOMAIN ps \cup {n} /\ n \notin DOMAIN ps /\ qs[n] = p
             /\ \A i \in DOMAIN ps : qs[i] = ps[i] /\ Key(ps[i]) # Key(p)
             /\ \A u : Failed(qs, u) = Failed(ps, u)
             /\ Stuck(qs) = Stuck(ps)
             /\ \A is \in SUBSET DOMAIN ps : Total(qs, is) = Total(ps, is)
<1> DEFINE qs == Append(ps, p)
           n == Len(ps) + 1
<1>1. /\ Len(ps) \in Nat /\ DOMAIN ps = 1 .. Len(ps) /\ ps \in Seq(Packet)
      /\ p \in Packet
  BY PacketsFacts DEF PacketsOK, PacketOK
<1>2. /\ qs \in Seq(Packet) /\ DOMAIN qs = DOMAIN ps \cup {n} /\ n \notin DOMAIN ps
      /\ qs[n] = p /\ \A i \in DOMAIN ps : qs[i] = ps[i]
  BY <1>1
<1> HIDE DEF qs
<1>3. /\ \A u : Failed(qs, u) = Failed(ps, u)
      /\ Stuck(qs) = Stuck(ps)
  BY <1>2 DEF Failed, Stuck
<1>4. ASSUME NEW is \in SUBSET DOMAIN ps
      PROVE  Total(qs, is) = Total(ps, is)
  <2>1. IsFiniteSet(is)
    BY PacketsFacts
  <2>2. \A i \in is : qs[i].amount = ps[i].amount
    BY <1>2
  <2> QED
    BY <2>1, <2>2, TotalEqual
<1>5. ASSUME NEW c
      PROVE  /\ Cardinality(OnChannel(ps, c)) \in Nat
             /\ Cardinality(OnChannel(qs, c)) =
                  Cardinality(OnChannel(ps, c)) + (IF c = p.channel THEN 1 ELSE 0)
  <2>1. IsFiniteSet(OnChannel(ps, c))
    BY PacketsFacts
  <2>2. OnChannel(qs, c) = IF c = p.channel THEN OnChannel(ps, c) \cup {n} ELSE OnChannel(ps, c)
    BY <1>2 DEF OnChannel
  <2>3. n \notin OnChannel(ps, c)
    BY <1>2 DEF OnChannel
  <2>4. Cardinality(OnChannel(ps, c)) \in Nat
    BY <2>1, FS_CardinalityType
  <2>5. Cardinality(OnChannel(ps, c) \cup {n}) = Cardinality(OnChannel(ps, c)) + 1
    BY <2>1, <2>3, FS_AddElement
  <2> QED
    BY <2>2, <2>4, <2>5
<1>6. \A i \in DOMAIN ps : /\ ps[i].sequence \in Nat
                           /\ ps[i].sequence <= Cardinality(OnChannel(ps, ps[i].channel))
  BY PacketsFacts DEF PacketsOK, Packet
<1>7. ASSUME NEW i \in DOMAIN ps
      PROVE  Key(ps[i]) # Key(p)
  <2>1. CASE ps[i].channel = p.channel
    <3>1. ps[i].sequence # p.sequence
      BY <1>5, <1>6, <2>1
    <3> QED
      BY <3>1 DEF Key
  <2>2. CASE ps[i].channel # p.channel
    BY <2>2 DEF Key
  <2> QED
    BY <2>1, <2>2
<1>8. ASSUME NEW i \in DOMAIN qs
      PROVE  qs[i].sequence <= Cardinality(OnChannel(qs, qs[i].channel))
  <2>1. CASE i \in DOMAIN ps
    BY <1>2, <1>5, <1>6, <2>1
  <2>2. CASE i = n
    BY <1>2, <1>5, <2>2
  <2> QED
    BY <1>2, <2>1, <2>2
<1>9. \A i \in DOMAIN qs : PacketOK(qs[i])
  BY <1>2 DEF PacketsOK
<1>10. \A i, j \in DOMAIN qs : Key(qs[i]) = Key(qs[j]) => i = j
  <2>1. \A i, j \in DOMAIN ps : Key(ps[i]) = Key(ps[j]) => i = j
    BY DEF PacketsOK
  <2> HIDE DEF n
  <2> QED
    BY <1>2, <1>7, <2>1
<1>11. PacketsOK(qs)
  BY <1>2, <1>8, <1>9, <1>10 DEF PacketsOK
<1> QED
  BY <1>2, <1>3, <1>4, <1>7, <1>11 DEF qs

\* How the packets qs differ from ps after packet k got a status
Settles(ps, qs, k, status) ==
  /\ PacketsOK(qs) /\ DOMAIN qs = DOMAIN ps
  /\ \A i \in DOMAIN ps : Key(qs[i]) = Key(ps[i]) /\ TransferOf(qs[i]) = TransferOf(ps[i])
  /\ Tracked(qs) = Tracked(ps) \ {k}
  /\ \A u : Failed(qs, u) = IF status = "failed" /\ ps[k].callback /\ u = ps[k].call.recovery
                            THEN Failed(ps, u) \cup {k} ELSE Failed(ps, u)
  /\ Stuck(qs) = IF status = "failed" /\ ~ ps[k].callback THEN Stuck(ps) \cup {k} ELSE Stuck(ps)
  /\ \A u : k \notin Failed(ps, u)
  /\ k \notin Stuck(ps)
  /\ \A is \in SUBSET DOMAIN ps : Total(qs, is) = Total(ps, is)

\* An acknowledgement or a timeout: only the status of the packet changes.
LEMMA PacketSettled ==
  ASSUME NEW ps, PacketsOK(ps), NEW k \in DOMAIN ps, ps[k].status = "sent",
         NEW status \in {"delivered", "failed"}
  PROVE  Settles(ps, [ps EXCEPT ![k].status = status], k, status)
<1> DEFINE qs == [ps EXCEPT ![k].status = status]
<1>1. ps \in Seq(Packet) /\ \A i \in DOMAIN ps : ps[i] \in Packet
  BY PacketsFacts DEF PacketsOK
<1>2. [ps[k] EXCEPT !.status = status] \in Packet
  BY <1>1 DEF Packet
<1>3. /\ qs \in Seq(Packet) /\ DOMAIN qs = DOMAIN ps
      /\ qs[k] = [ps[k] EXCEPT !.status = status]
      /\ \A i \in DOMAIN ps : i # k => qs[i] = ps[i]
  BY <1>1, <1>2
<1>4. /\ qs[k].status = status
      /\ qs[k].denom = ps[k].denom /\ qs[k].amount = ps[k].amount /\ qs[k].channel = ps[k].channel
      /\ qs[k].callback = ps[k].callback /\ qs[k].call = ps[k].call
      /\ qs[k].sequence = ps[k].sequence
  BY <1>1, <1>3 DEF Packet
<1> HIDE DEF qs
<1>5. \A i \in DOMAIN ps :
        /\ qs[i].denom = ps[i].denom /\ qs[i].amount = ps[i].amount /\ qs[i].channel = ps[i].channel
        /\ qs[i].callback = ps[i].callback /\ qs[i].call = ps[i].call
        /\ qs[i].sequence = ps[i].sequence
        /\ qs[i].status = IF i = k THEN status ELSE ps[i].status
  BY <1>3, <1>4
<1>6. \A i \in DOMAIN ps : Key(qs[i]) = Key(ps[i]) /\ TransferOf(qs[i]) = TransferOf(ps[i])
  BY <1>5 DEF Key, TransferOf
<1>7. \A c : OnChannel(qs, c) = OnChannel(ps, c)
  BY <1>3, <1>5 DEF OnChannel
<1>8. PacketsOK(qs)
  <2>1. ASSUME NEW i \in DOMAIN qs
        PROVE  /\ PacketOK(qs[i])
               /\ qs[i].sequence <= Cardinality(OnChannel(qs, qs[i].channel))
    <3>1. /\ PacketOK(ps[i])
          /\ ps[i].sequence <= Cardinality(OnChannel(ps, ps[i].channel))
      BY <1>3 DEF PacketsOK
    <3>2. qs[i] \in Packet
      BY <1>3
    <3> QED
      BY <1>3, <1>5, <1>7, <3>1, <3>2 DEF PacketOK
  <2>2. \A i, j \in DOMAIN qs : Key(qs[i]) = Key(qs[j]) => i = j
    <3>1. \A i, j \in DOMAIN ps : Key(ps[i]) = Key(ps[j]) => i = j
      BY DEF PacketsOK
    <3> QED
      BY <1>3, <1>6, <3>1
  <2> QED
    BY <1>3, <2>1, <2>2 DEF PacketsOK
<1>9. Tracked(qs) = Tracked(ps) \ {k}
  BY <1>3, <1>5 DEF Tracked
<1>10. ASSUME NEW u
       PROVE  /\ k \notin Failed(ps, u)
              /\ Failed(qs, u) = IF status = "failed" /\ ps[k].callback /\ u = ps[k].call.recovery
                                 THEN Failed(ps, u) \cup {k} ELSE Failed(ps, u)
  BY <1>3, <1>5 DEF Failed
<1>11. /\ k \notin Stuck(ps)
       /\ Stuck(qs) = IF status = "failed" /\ ~ ps[k].callback THEN Stuck(ps) \cup {k} ELSE Stuck(ps)
  BY <1>3, <1>5 DEF Stuck
<1>12. ASSUME NEW is \in SUBSET DOMAIN ps
       PROVE  Total(qs, is) = Total(ps, is)
  <2>1. IsFiniteSet(is)
    BY PacketsFacts
  <2>2. \A i \in is : qs[i].amount = ps[i].amount
    BY <1>5
  <2> QED
    BY <2>1, <2>2, TotalEqual
<1> QED
  BY <1>3, <1>6, <1>8, <1>9, <1>10, <1>11, <1>12 DEF Settles, qs

\* The keys tracked are those of tracked packets, and no others.
LEMMA TrackedKey ==
  ASSUME NEW ps, PacketsOK(ps), NEW inflight, TracksOK(ps, inflight), NEW k \in DOMAIN ps
  PROVE  /\ Key(ps[k]) \in DOMAIN inflight <=> k \in Tracked(ps)
         /\ k \in Tracked(ps) => inflight[Key(ps[k])] = TransferOf(ps[k])
<1>1. Tracked(ps) \subseteq DOMAIN ps
  BY DEF Tracked
<1>2. \A i, j \in DOMAIN ps : Key(ps[i]) = Key(ps[j]) => i = j
  BY DEF PacketsOK
<1> QED
  BY <1>1, <1>2 DEF TracksOK

----------------------------------------------------------------------------
(* What each kind of step does to the stores                               *)

\* A packet is sent, with money that came in the same transaction.
LEMMA StoresSent ==
  ASSUME NEW ps, NEW inflight, NEW recovery, NEW paid, NEW held, NEW p,
         StoresOK(ps, inflight, recovery, paid, held),
         PacketOK(p), p.status = "sent",
         p.sequence = Cardinality(OnChannel(ps, p.channel)) + 1
  PROVE  LET new == IF p.callback /\ p.call.recovery # NoAddr
                    THEN Save(inflight, Key(p), TransferOf(p)) ELSE inflight
         IN  StoresOK(Append(ps, p), new, recovery, paid, held)
<1> DEFINE qs == Append(ps, p)
           n == Len(ps) + 1
           tracked == p.callback /\ p.call.recovery # NoAddr
           new == IF tracked THEN Save(inflight, Key(p), TransferOf(p)) ELSE inflight
<1>1. PacketsOK(ps) /\ TracksOK(ps, inflight) /\ RecoveryOK(ps, recovery, paid) /\ HeldOK(ps, recovery, held)
  BY DEF StoresOK
<1>2. /\ PacketsOK(qs)
      /\ DOMAIN qs = DOMAIN ps \cup {n} /\ n \notin DOMAIN ps /\ qs[n] = p
      /\ \A i \in DOMAIN ps : qs[i] = ps[i] /\ Key(ps[i]) # Key(p)
      /\ \A u : Failed(qs, u) = Failed(ps, u)
      /\ Stuck(qs) = Stuck(ps)
      /\ \A is \in SUBSET DOMAIN ps : Total(qs, is) = Total(ps, is)
  BY <1>1, PacketSent
<1> HIDE DEF qs, n
<1>3. (\A u : Total(qs, Failed(qs, u)) = Total(ps, Failed(ps, u))) /\ Total(qs, Stuck(qs)) = Total(ps, Stuck(ps))
  BY <1>1, <1>2, PacketsFacts
<1>4. RecoveryOK(qs, recovery, paid) /\ HeldOK(qs, recovery, held)
  BY <1>1, <1>3 DEF RecoveryOK, HeldOK
<1>5. Tracked(qs) = IF tracked THEN Tracked(ps) \cup {n} ELSE Tracked(ps)
  BY <1>2 DEF Tracked
<1>6. Tracked(ps) \subseteq DOMAIN ps
  BY DEF Tracked
<1>7. TracksOK(qs, new)
  <2>1. CASE tracked
    <3>1. /\ DOMAIN new = DOMAIN inflight \cup {Key(p)} /\ new[Key(p)] = TransferOf(p)
          /\ \A key \in DOMAIN inflight : key # Key(p) => new[key] = inflight[key]
      <4>1. new = Save(inflight, Key(p), TransferOf(p))
        BY <2>1
      <4> QED
        BY <4>1 DEF Save
    <3> HIDE DEF new, tracked
    <3>2. DOMAIN new = {Key(qs[i]) : i \in Tracked(qs)}
      BY <1>1, <1>2, <1>5, <1>6, <2>1, <3>1 DEF TracksOK
    <3>3. \A i \in Tracked(qs) : new[Key(qs[i])] = TransferOf(qs[i])
      <4>1. \A i \in Tracked(ps) : Key(ps[i]) \in DOMAIN inflight /\ inflight[Key(ps[i])] = TransferOf(ps[i])
        BY <1>1 DEF TracksOK
      <4> QED
        BY <1>2, <1>5, <1>6, <2>1, <3>1, <4>1
    <3> QED
      BY <3>2, <3>3 DEF TracksOK
  <2>2. CASE ~ tracked
    <3>1. Tracked(qs) = Tracked(ps) /\ new = inflight
      BY <1>5, <2>2
    <3>2. \A i \in Tracked(ps) : qs[i] = ps[i]
      BY <1>2, <1>6
    <3> HIDE DEF new, tracked
    <3> QED
      BY <1>1, <3>1, <3>2 DEF TracksOK
  <2> QED
    BY <2>1, <2>2
<1> QED
  BY <1>2, <1>4, <1>7 DEF StoresOK, qs

\* A packet is settled: it is tracked no more.
LEMMA TracksSettled ==
  ASSUME NEW ps, PacketsOK(ps), NEW inflight, TracksOK(ps, inflight),
         NEW k \in DOMAIN ps, ps[k].status = "sent", NEW status \in {"delivered", "failed"}
  PROVE  LET qs == [ps EXCEPT ![k].status = status]
         IN  IF k \in Tracked(ps) THEN TracksOK(qs, Erase(inflight, Key(ps[k]))) ELSE TracksOK(qs, inflight)
<1> DEFINE qs == [ps EXCEPT ![k].status = status]
           key == Key(ps[k])
           new == Erase(inflight, key)
<1>1. /\ DOMAIN qs = DOMAIN ps
      /\ \A i \in DOMAIN ps : Key(qs[i]) = Key(ps[i]) /\ TransferOf(qs[i]) = TransferOf(ps[i])
      /\ Tracked(qs) = Tracked(ps) \ {k}
  BY PacketSettled DEF Settles
<1>2. Tracked(ps) \subseteq DOMAIN ps
  BY DEF Tracked
<1>3. DOMAIN new = DOMAIN inflight \ {key} /\ \A j \in DOMAIN new : new[j] = inflight[j]
  BY DEF Erase, Restrict
<1>4. \A i \in Tracked(ps) : i # k => Key(ps[i]) # key
  BY <1>2 DEF PacketsOK
<1>5. /\ DOMAIN inflight = {Key(ps[i]) : i \in Tracked(ps)}
      /\ \A i \in Tracked(ps) : inflight[Key(ps[i])] = TransferOf(ps[i])
  BY DEF TracksOK
<1> HIDE DEF qs, key, new
<1>6. CASE k \in Tracked(ps)
  <2>1. DOMAIN new = {Key(qs[i]) : i \in Tracked(qs)}
    BY <1>1, <1>2, <1>3, <1>4, <1>5, <1>6 DEF key
  <2>2. \A i \in Tracked(qs) : new[Key(qs[i])] = TransferOf(qs[i])
    BY <1>1, <1>2, <1>3, <1>4, <1>5, <1>6
  <2> QED
    BY <1>6, <2>1, <2>2 DEF TracksOK, qs, new, key
<1>7. CASE k \notin Tracked(ps)
  <2>1. Tracked(qs) = Tracked(ps)
    BY <1>1, <1>7
  <2>2. TracksOK(qs, inflight)
    BY <1>1, <1>2, <1>5, <2>1 DEF TracksOK
  <2> QED
    BY <1>7, <2>2 DEF qs
<1> QED
  BY <1>6, <1>7

\* A packet is delivered.
LEMMA StoresDelivered ==
  ASSUME NEW ps, NEW inflight, NEW recovery, NEW paid, NEW held,
         StoresOK(ps, inflight, recovery, paid, held),
         NEW k \in DOMAIN ps, ps[k].status = "sent"
  PROVE  LET qs == [ps EXCEPT ![k].status = "delivered"]
             new == IF k \in Tracked(ps) THEN Erase(inflight, Key(ps[k])) ELSE inflight
         IN  StoresOK(qs, new, recovery, paid, held)
<1> DEFINE qs == [ps EXCEPT ![k].status = "delivered"]
           new == IF k \in Tracked(ps) THEN Erase(inflight, Key(ps[k])) ELSE inflight
<1>1. PacketsOK(ps) /\ TracksOK(ps, inflight) /\ RecoveryOK(ps, recovery, paid) /\ HeldOK(ps, recovery, held)
  BY DEF StoresOK
<1>2. /\ PacketsOK(qs)
      /\ \A u : Failed(qs, u) = Failed(ps, u)
      /\ Stuck(qs) = Stuck(ps)
      /\ \A is \in SUBSET DOMAIN ps : Total(qs, is) = Total(ps, is)
  <2>1. Settles(ps, qs, k, "delivered")
    BY <1>1, PacketSettled
  <2> QED
    BY <2>1 DEF Settles
<1>3. TracksOK(qs, new)
  BY <1>1, TracksSettled
<1> HIDE DEF qs, new
<1>4. (\A u : Total(qs, Failed(qs, u)) = Total(ps, Failed(ps, u))) /\ Total(qs, Stuck(qs)) = Total(ps, Stuck(ps))
  BY <1>1, <1>2, PacketsFacts
<1>5. RecoveryOK(qs, recovery, paid) /\ HeldOK(qs, recovery, held)
  BY <1>1, <1>4 DEF RecoveryOK, HeldOK
<1> QED
  BY <1>2, <1>3, <1>5 DEF StoresOK, qs, new

\* A packet fails and is refunded: what it carried is kept for the user it names, if it
\* is a forward and names one, and is with the contract in any case.
LEMMA StoresFailed ==
  ASSUME NEW ps, NEW inflight, NEW recovery, NEW paid, NEW held,
         StoresOK(ps, inflight, recovery, paid, held),
         NEW k \in DOMAIN ps, ps[k].status = "sent",
         NEW reason \in {"AckFailure", "TimedOut"}
  PROVE  LET qs == [ps EXCEPT ![k].status = "failed"]
             a == ps[k].call.recovery
             before == IF a \in DOMAIN recovery THEN recovery[a] ELSE <<>>
             kept == [TransferOf(ps[k]) EXCEPT !.status = reason]
             refunded == [held EXCEPT ![ps[k].denom] = @ + ps[k].amount]
         IN  IF k \in Tracked(ps)
             THEN StoresOK(qs, Erase(inflight, Key(ps[k])), Save(recovery, a, Append(before, kept)), paid, refunded)
             ELSE StoresOK(qs, inflight, recovery, paid, refunded)
<1> DEFINE qs == [ps EXCEPT ![k].status = "failed"]
           before == IF ps[k].call.recovery \in DOMAIN recovery THEN recovery[ps[k].call.recovery] ELSE <<>>
           kept == [TransferOf(ps[k]) EXCEPT !.status = reason]
           refunded == [held EXCEPT ![ps[k].denom] = @ + ps[k].amount]
           saved == Save(recovery, ps[k].call.recovery, Append(before, kept))
           new == IF k \in Tracked(ps) THEN Erase(inflight, Key(ps[k])) ELSE inflight
<1>1. PacketsOK(ps) /\ TracksOK(ps, inflight) /\ RecoveryOK(ps, recovery, paid) /\ HeldOK(ps, recovery, held)
  BY DEF StoresOK
<1>2. /\ PacketsOK(qs)
      /\ \A u : Failed(qs, u) = IF ps[k].callback /\ u = ps[k].call.recovery
                                THEN Failed(ps, u) \cup {k} ELSE Failed(ps, u)
      /\ Stuck(qs) = IF ~ ps[k].callback THEN Stuck(ps) \cup {k} ELSE Stuck(ps)
      /\ \A u : k \notin Failed(ps, u)
      /\ k \notin Stuck(ps)
      /\ \A is \in SUBSET DOMAIN ps : Total(qs, is) = Total(ps, is)
  <2>1. Settles(ps, qs, k, "failed")
    BY <1>1, PacketSettled
  <2> QED
    BY <2>1 DEF Settles
<1>3. TracksOK(qs, new)
  BY <1>1, TracksSettled
<1>4. PICK amount \in Nat \ {0}, a \in Users \cup {NoAddr} :
        amount = ps[k].amount /\ a = ps[k].call.recovery
  BY <1>1, PacketsFacts DEF Packet, Call
<1>5. PacketOK(ps[k]) /\ ps[k].callback \in BOOLEAN /\ ps[k] \in Packet
  BY <1>1, PacketsFacts DEF PacketsOK, Packet
<1>6. /\ held \in [Denoms -> Int]
      /\ refunded \in [Denoms -> Int]
      /\ refunded[Near] = held[Near]
      /\ refunded[Far] = held[Far] + (IF ps[k].callback THEN 0 ELSE amount)
      /\ refunded[Out] = held[Out] + (IF ps[k].callback THEN amount ELSE 0)
  <2>1. held \in [Denoms -> Int]
    BY <1>1 DEF HeldOK
  <2>2. ps[k].denom = (IF ps[k].callback THEN Out ELSE Far) /\ ps[k].denom \in Denoms
    BY <1>5 DEF PacketOK, Packet
  <2>3. refunded = [held EXCEPT ![ps[k].denom] = held[ps[k].denom] + amount]
    BY <1>4
  <2> HIDE DEF refunded
  <2> QED
    BY <1>5, <2>1, <2>2, <2>3 DEF Denoms, Near, Far, Out
<1>7. ASSUME NEW is \in SUBSET DOMAIN ps
      PROVE  /\ Total(ps, is) \in Nat
             /\ k \notin is => Total(ps, is \cup {k}) = Total(ps, is) + amount
  <2>1. IsFiniteSet(is) /\ Total(ps, is) \in Nat
    BY <1>1, PacketsFacts
  <2>2. \A i \in is \cup {k} : ps[i].amount \in Nat
    BY <1>1, PacketsFacts
  <2>3. k \notin is => Total(ps, is \cup {k}) = Total(ps, is) + ps[k].amount
    BY <2>1, <2>2, TotalAdd
  <2> QED
    BY <1>4, <2>1, <2>3
<1> HIDE DEF qs, new, refunded
<1>8. ASSUME NEW u
      PROVE  /\ Total(ps, Failed(ps, u)) \in Nat
             /\ Total(qs, Failed(qs, u)) =
                  Total(ps, Failed(ps, u)) + (IF ps[k].callback /\ u = a THEN amount ELSE 0)
  <2>1. Failed(ps, u) \in SUBSET DOMAIN ps /\ Failed(ps, u) \cup {k} \in SUBSET DOMAIN ps
    BY <1>1, PacketsFacts
  <2>2. Total(qs, Failed(qs, u)) = Total(ps, Failed(qs, u))
    BY <1>2, <2>1
  <2>3. /\ Total(ps, Failed(ps, u)) \in Nat
        /\ Total(ps, Failed(ps, u) \cup {k}) = Total(ps, Failed(ps, u)) + amount
    BY <1>2, <1>7, <2>1
  <2> QED
    BY <1>2, <1>4, <2>2, <2>3
<1>9. /\ Total(ps, Stuck(ps)) \in Nat
      /\ Total(qs, Stuck(qs)) = Total(ps, Stuck(ps)) + (IF ps[k].callback THEN 0 ELSE amount)
  <2>1. Stuck(ps) \in SUBSET DOMAIN ps /\ Stuck(ps) \cup {k} \in SUBSET DOMAIN ps
    BY <1>1, PacketsFacts
  <2>2. Total(qs, Stuck(qs)) = Total(ps, Stuck(qs))
    BY <1>2, <2>1
  <2>3. /\ Total(ps, Stuck(ps)) \in Nat
        /\ Total(ps, Stuck(ps) \cup {k}) = Total(ps, Stuck(ps)) + amount
    BY <1>2, <1>7, <2>1
  <2> QED
    BY <1>2, <2>2, <2>3
<1>10. Recoveries(recovery)
  BY <1>1 DEF RecoveryOK, Recoveries
<1>11. /\ paid \in [Users -> Nat] /\ held[Near] = 0 /\ held[Far] = Total(ps, Stuck(ps))
       /\ held[Out] = Total(ps, Failed(ps, NoAddr)) + Owed(recovery)
       /\ \A u \in Users : paid[u] + Kept(recovery, u) = Total(ps, Failed(ps, u))
  BY <1>1 DEF RecoveryOK, HeldOK
<1>12. Owed(recovery) \in Nat /\ \A u : Kept(recovery, u) \in Nat
  BY <1>10, RecoveriesFacts
<1>13. refunded[Near] = 0 /\ refunded[Far] = Total(qs, Stuck(qs))
  BY <1>6, <1>9, <1>11
<1>14. CASE k \in Tracked(ps)
  <2>1. ps[k].callback /\ a # NoAddr /\ a \in Users
    BY <1>4, <1>14 DEF Tracked
  <2>2. kept \in IBCTransfer /\ kept.amount = amount
    BY <1>4, <1>5, <2>1 DEF TransferOf, IBCTransfer, Packet
  <2>3. /\ Recoveries(saved)
        /\ Owed(saved) = Owed(recovery) + amount
        /\ Kept(saved, a) = Kept(recovery, a) + amount
        /\ \A u : u # a => Kept(saved, u) = Kept(recovery, u)
    <3> HIDE DEF kept
    <3> QED
      BY <1>4, <1>10, <2>1, <2>2, RecoverySaved
  <2> HIDE DEF saved
  <2>4. ASSUME NEW u \in Users
        PROVE  paid[u] + Kept(saved, u) = Total(qs, Failed(qs, u))
    <3>1. paid[u] \in Nat /\ Kept(recovery, u) \in Nat /\ paid[u] + Kept(recovery, u) = Total(ps, Failed(ps, u))
      BY <1>11, <1>12
    <3>2. Total(qs, Failed(qs, u)) = Total(ps, Failed(ps, u)) + (IF u = a THEN amount ELSE 0)
      BY <1>8, <2>1
    <3>3. Kept(saved, u) = Kept(recovery, u) + (IF u = a THEN amount ELSE 0)
      BY <2>3, <3>1
    <3> QED
      BY <3>1, <3>2, <3>3
  <2>5. RecoveryOK(qs, saved, paid)
    BY <1>11, <2>3, <2>4 DEF RecoveryOK, Recoveries
  <2>6. refunded[Out] = Total(qs, Failed(qs, NoAddr)) + Owed(saved)
    <3>1. Total(qs, Failed(qs, NoAddr)) = Total(ps, Failed(ps, NoAddr)) /\ Total(ps, Failed(ps, NoAddr)) \in Nat
      BY <1>8, <2>1
    <3>2. refunded[Out] = held[Out] + amount
      BY <1>6, <2>1
    <3> QED
      BY <1>11, <1>12, <2>3, <3>1, <3>2
  <2>7. HeldOK(qs, saved, refunded)
    BY <1>6, <1>13, <2>6 DEF HeldOK
  <2> QED
    BY <1>2, <1>3, <1>14, <2>5, <2>7 DEF StoresOK, qs, new, refunded, saved
<1>15. CASE k \notin Tracked(ps)
  <2>1. ps[k].callback => a = NoAddr
    BY <1>4, <1>15 DEF Tracked
  <2>2. \A u \in Users : paid[u] + Kept(recovery, u) = Total(qs, Failed(qs, u))
    BY <1>8, <1>11, <2>1, NoAddrAssumption
  <2>3. RecoveryOK(qs, recovery, paid)
    BY <1>10, <1>11, <2>2 DEF RecoveryOK, Recoveries
  <2>4. refunded[Out] = Total(qs, Failed(qs, NoAddr)) + Owed(recovery)
    <3>1. /\ Total(ps, Failed(ps, NoAddr)) \in Nat
          /\ Total(qs, Failed(qs, NoAddr)) = Total(ps, Failed(ps, NoAddr)) + (IF ps[k].callback THEN amount ELSE 0)
      BY <1>8, <2>1
    <3> QED
      BY <1>6, <1>11, <1>12, <3>1
  <2>5. HeldOK(qs, recovery, refunded)
    BY <1>6, <1>13, <2>4 DEF HeldOK
  <2> QED
    BY <1>2, <1>3, <1>15, <2>3, <2>5 DEF StoresOK, qs, new, refunded
<1> QED
  BY <1>14, <1>15

\* A user is paid all that was kept.
LEMMA StoresRecovered ==
  ASSUME NEW ps, NEW inflight, NEW recovery, NEW paid, NEW held,
         StoresOK(ps, inflight, recovery, paid, held), NEW a \in DOMAIN recovery
  PROVE  StoresOK(ps, inflight, Erase(recovery, a),
                  [paid EXCEPT ![a] = @ + SumAmounts(recovery[a])],
                  [held EXCEPT ![Out] = @ - SumAmounts(recovery[a])])
<1> DEFINE new == Erase(recovery, a)
           more == [paid EXCEPT ![a] = @ + SumAmounts(recovery[a])]
           less == [held EXCEPT ![Out] = @ - SumAmounts(recovery[a])]
<1>1. PacketsOK(ps) /\ TracksOK(ps, inflight) /\ RecoveryOK(ps, recovery, paid) /\ HeldOK(ps, recovery, held)
  BY DEF StoresOK
<1>2. Recoveries(recovery) /\ a \in Users
  BY <1>1 DEF RecoveryOK, Recoveries
<1>3. /\ Recoveries(new)
      /\ Owed(recovery) = Owed(new) + SumAmounts(recovery[a])
      /\ Kept(new, a) = 0
      /\ \A u : u # a => Kept(new, u) = Kept(recovery, u)
  BY <1>2, RecoveryErased
<1> HIDE DEF new
<1>4. PICK sum \in Nat : sum = SumAmounts(recovery[a]) /\ sum = Kept(recovery, a)
  BY <1>2, RecoveriesFacts DEF Kept
<1>5. Owed(new) \in Nat /\ Owed(recovery) \in Nat
  BY <1>2, <1>3, RecoveriesFacts
<1>6. paid \in [Users -> Nat] /\ held \in [Denoms -> Int] /\ Out \in Denoms
  BY <1>1 DEF RecoveryOK, HeldOK, Denoms
<1>7. /\ more \in [Users -> Nat]
      /\ \A u \in Users : more[u] = IF u = a THEN paid[u] + sum ELSE paid[u]
      /\ less \in [Denoms -> Int]
      /\ less[Out] = held[Out] - sum /\ less[Near] = held[Near] /\ less[Far] = held[Far]
  <2>1. more = [paid EXCEPT ![a] = paid[a] + sum] /\ less = [held EXCEPT ![Out] = held[Out] - sum]
    BY <1>4
  <2> HIDE DEF more, less
  <2> QED
    BY <1>2, <1>6, <2>1 DEF Denoms, Near, Far, Out
<1> HIDE DEF more, less
<1>8. ASSUME NEW u \in Users
      PROVE  more[u] + Kept(new, u) = Total(ps, Failed(ps, u))
  <2>1. paid[u] + Kept(recovery, u) = Total(ps, Failed(ps, u)) /\ paid[u] \in Nat
    BY <1>1, <1>6 DEF RecoveryOK
  <2> QED
    BY <1>3, <1>4, <1>7, <2>1
<1>9. RecoveryOK(ps, new, more)
  BY <1>3, <1>7, <1>8 DEF RecoveryOK, Recoveries
<1>10. HeldOK(ps, new, less)
  <2>1. Failed(ps, NoAddr) \in SUBSET DOMAIN ps
    BY <1>1, PacketsFacts
  <2>2. Total(ps, Failed(ps, NoAddr)) \in Nat
    BY <1>1, <2>1, PacketsFacts
  <2>3. /\ held[Near] = 0 /\ held[Far] = Total(ps, Stuck(ps))
        /\ held[Out] = Total(ps, Failed(ps, NoAddr)) + Owed(recovery)
    BY <1>1 DEF HeldOK
  <2>4. less[Out] = Total(ps, Failed(ps, NoAddr)) + Owed(new)
    <3>1. PICK total \in Nat, owed \in Nat : total = Total(ps, Failed(ps, NoAddr)) /\ owed = Owed(new)
      BY <1>5, <2>2
    <3>2. held[Out] = total + (owed + sum) /\ less[Out] = held[Out] - sum
      BY <1>3, <1>4, <1>7, <2>3, <3>1
    <3>3. less[Out] = total + owed
      BY <3>2
    <3> QED
      BY <3>1, <3>3
  <2> QED
    BY <1>7, <2>3, <2>4 DEF HeldOK
<1> QED
  BY <1>1, <1>9, <1>10 DEF StoresOK, new, more, less

----------------------------------------------------------------------------
(* The operators of the contract, field by field                           *)

\* y is x after amount was forwarded for a call: held is left, and the reply as given.
Forwarded(x, y, call, amount, held, reply) ==
  LET p == NewPacket(x, Out, amount, call, TRUE)
  IN  /\ IsState(y)
      /\ y.held = held
      /\ y.packets = Append(x.packets, p)
      /\ y.inflight = IF call.recovery # NoAddr THEN Save(x.inflight, Key(p), TransferOf(p))
                      ELSE x.inflight
      /\ y.swapReply = reply /\ y.forwardReply = None
      /\ y.recovery = x.recovery /\ y.paid = x.paid

\* Forward, with the reply that tracks the transfer
LEMMA ForwardIs ==
  ASSUME NEW x, IsState(x), x.forwardReply = None, DOMAIN x.packets = 1 .. Len(x.packets),
         Len(x.packets) \in Nat, NEW call, NEW amount, Forward(x, call, amount).ok
  PROVE  Forwarded(x, Forward(x, call, amount).s, call, amount,
                   [x.held EXCEPT ![Out] = @ - amount], x.swapReply)
<1> DEFINE fwd == [channel |-> call.channel, amount |-> amount, denom |-> Out, recovery |-> call.recovery]
           x1 == [x EXCEPT !.forwardReply = fwd]
           p == NewPacket(x, Out, amount, call, TRUE)
           x2 == Transfer(x1, Out, amount, call, TRUE)
           x3 == [x2 EXCEPT !.forwardReply = None]
           y == Forward(x, call, amount).s
<1>1. y = handle_forward_reply(x2)
  BY DEF Forward, Fail, Success
<1>2. /\ IsState(x1) /\ x1.forwardReply = fwd /\ x1.swapReply = x.swapReply
      /\ x1.inflight = x.inflight /\ x1.recovery = x.recovery /\ x1.held = x.held
      /\ x1.paid = x.paid /\ x1.packets = x.packets
  BY DEF IsState
<1> HIDE DEF x1
<1>3. NewPacket(x1, Out, amount, call, TRUE) = p
  BY <1>2 DEF NewPacket, Sequence
<1>4. /\ IsState(x2) /\ x2.held = [x.held EXCEPT ![Out] = @ - amount]
      /\ x2.packets = Append(x.packets, p)
      /\ x2.swapReply = x.swapReply /\ x2.forwardReply = fwd /\ x2.inflight = x.inflight
      /\ x2.recovery = x.recovery /\ x2.paid = x.paid
  <2> HIDE DEF p, fwd
  <2>1. /\ IsState(x2) /\ x2.held = [x1.held EXCEPT ![Out] = @ - amount]
        /\ x2.packets = Append(x1.packets, NewPacket(x1, Out, amount, call, TRUE))
        /\ x2.swapReply = x1.swapReply /\ x2.forwardReply = x1.forwardReply
        /\ x2.inflight = x1.inflight /\ x2.recovery = x1.recovery /\ x2.paid = x1.paid
    BY <1>2 DEF Transfer, IsState
  <2> QED
    BY <1>2, <1>3, <2>1
<1> HIDE DEF x2
<1>5. /\ IsState(x3) /\ x3.held = x2.held /\ x3.packets = x2.packets
      /\ x3.swapReply = x2.swapReply /\ x3.forwardReply = None /\ x3.inflight = x2.inflight
      /\ x3.recovery = x2.recovery /\ x3.paid = x2.paid
  BY <1>4 DEF IsState
<1>6. Last(x2.packets) = p
  <2> HIDE DEF p
  <2> QED
    BY <1>4 DEF Last
<1>7. x2.forwardReply.recovery = call.recovery
  BY <1>4
<1>8. y = IF call.recovery = NoAddr THEN x3 ELSE Track(x3, fwd, p.sequence)
  BY <1>1, <1>4, <1>6, <1>7 DEF handle_forward_reply
<1> HIDE DEF x3, y
<1>9. CASE call.recovery = NoAddr
  BY <1>4, <1>5, <1>8, <1>9 DEF Forwarded, y
<1>10. CASE call.recovery # NoAddr
  <2> DEFINE transfer == [recovery |-> fwd.recovery, channel |-> fwd.channel, sequence |-> p.sequence,
                          amount |-> fwd.amount, denom |-> fwd.denom, status |-> "Sent"]
  <2>1. Key(p) = <<fwd.channel, p.sequence>> /\ TransferOf(p) = transfer
    BY DEF Key, TransferOf, NewPacket
  <2>2. y = [x3 EXCEPT !.inflight = Save(x3.inflight, Key(p), TransferOf(p))]
    BY <1>8, <1>10, <2>1 DEF Track
  <2> HIDE DEF p, fwd
  <2>3. /\ IsState(y) /\ y.held = x3.held /\ y.packets = x3.packets
        /\ y.swapReply = x3.swapReply /\ y.forwardReply = x3.forwardReply
        /\ y.inflight = Save(x3.inflight, Key(p), TransferOf(p))
        /\ y.recovery = x3.recovery /\ y.paid = x3.paid
    BY <1>5, <2>2 DEF IsState
  <2> QED
    BY <1>4, <1>5, <1>10, <2>3 DEF Forwarded, y, p
<1> QED
  BY <1>9, <1>10

\* The swap and the forward of what it gave
LEMMA SwapIs ==
  ASSUME NEW x, IsState(x), x.forwardReply = None, DOMAIN x.packets = 1 .. Len(x.packets),
         Len(x.packets) \in Nat, x.held \in [Denoms -> Int],
         NEW call \in Call, NEW out \in Nat, swap_and_forward(x, call, out).ok
  PROVE  Forwarded(x, swap_and_forward(x, call, out).s, call, out,
                   [x.held EXCEPT ![Near] = @ - call.amount], None)
<1> DEFINE x1 == [x EXCEPT !.swapReply = call]
           swapped == Swap(x1, call, out)
           x2 == [x1 EXCEPT !.held[Near] = @ - call.amount, !.held[Out] = @ + out]
           x3 == [x2 EXCEPT !.swapReply = None]
           forwarded == Forward(x3, call, out)
<1>1. /\ swapped.ok
      /\ swap_and_forward(x, call, out) = handle_swap_reply(swapped.s, out)
  <2>1. ~ Fail(x).ok
    BY DEF Fail
  <2> QED
    BY <2>1 DEF swap_and_forward
<1>2. swapped.s = x2
  <2> HIDE DEF x2
  <2> QED
    BY <1>1 DEF Swap, trade_with_slippage_limit, other_swap_contract, Swapped, Fail, Success, x2
<1>3. /\ IsState(x1) /\ x1.held = x.held /\ x1.packets = x.packets /\ x1.swapReply = call
      /\ x1.forwardReply = None /\ x1.inflight = x.inflight /\ x1.recovery = x.recovery
      /\ x1.paid = x.paid
  BY DEF IsState
<1> HIDE DEF x1, swapped
<1>4. /\ IsState(x2) /\ x2.packets = x.packets /\ x2.swapReply = call
      /\ x2.held = [x.held EXCEPT ![Near] = @ - call.amount, ![Out] = @ + out]
      /\ x2.forwardReply = None /\ x2.inflight = x.inflight /\ x2.recovery = x.recovery
      /\ x2.paid = x.paid
  BY <1>3 DEF IsState, Near, Out
<1> HIDE DEF x2
<1>5. /\ IsState(x3) /\ x3.packets = x.packets /\ x3.swapReply = None
      /\ x3.held = x2.held
      /\ x3.forwardReply = None /\ x3.inflight = x.inflight /\ x3.recovery = x.recovery
      /\ x3.paid = x.paid
  BY <1>4 DEF IsState
<1>6. swap_and_forward(x, call, out) = forwarded
  BY <1>1, <1>2, <1>4 DEF handle_swap_reply
<1> HIDE DEF x3
<1>7. NewPacket(x3, Out, out, call, TRUE) = NewPacket(x, Out, out, call, TRUE)
  BY <1>5 DEF NewPacket, Sequence
<1>8. Forwarded(x3, forwarded.s, call, out, [x3.held EXCEPT ![Out] = @ - out], x3.swapReply)
  BY <1>5, <1>6, ForwardIs
<1>9. [x3.held EXCEPT ![Out] = @ - out] = [x.held EXCEPT ![Near] = @ - call.amount]
  <2>1. PICK amount \in Nat : amount = call.amount
    BY DEF Call
  <2>2. x3.held = [x.held EXCEPT ![Near] = @ - amount, ![Out] = @ + out]
    BY <1>4, <1>5, <2>1
  <2>3. [x3.held EXCEPT ![Out] = @ - out] = [x.held EXCEPT ![Near] = @ - amount]
    BY <2>2 DEF Denoms, Near, Far, Out
  <2> QED
    BY <2>1, <2>3
<1> HIDE DEF forwarded
<1> QED
  BY <1>5, <1>6, <1>7, <1>8, <1>9 DEF Forwarded

\* A call that runs to its end keeps the invariant: the money it came with has left
\* with a packet, and a forward is tracked if somebody may recover it.
LEMMA CallKeepsInv ==
  ASSUME NEW z, Inv(z), NEW call \in Call, NEW out \in Outputs,
         unwrap_or_swap_and_forward(Receive(z, call), call, out).ok
  PROVE  Inv(unwrap_or_swap_and_forward(Receive(z, call), call, out).s)
<1> DEFINE x == Receive(z, call)
           y == unwrap_or_swap_and_forward(x, call, out).s
<1>1. /\ IsState(z) /\ z.swapReply = None /\ z.forwardReply = None
      /\ StoresOK(z.packets, z.inflight, z.recovery, z.paid, z.held)
  BY DEF Inv
<1>2. z.held \in [Denoms -> Int] /\ PacketsOK(z.packets)
  BY <1>1 DEF StoresOK, HeldOK
<1>3. PICK amount \in Nat \ {0}, coin \in {Near, Far} : amount = call.amount /\ coin = call.coin
  BY DEF Call
<1>4. /\ IsState(x) /\ x.held = [z.held EXCEPT ![coin] = @ + amount]
      /\ x.packets = z.packets /\ x.inflight = z.inflight /\ x.recovery = z.recovery
      /\ x.paid = z.paid /\ x.swapReply = None /\ x.forwardReply = None
  BY <1>1, <1>3 DEF Receive, IsState
<1>5. x.held \in [Denoms -> Int] /\ Len(x.packets) \in Nat /\ DOMAIN x.packets = 1 .. Len(x.packets)
  <2>1. Len(z.packets) \in Nat /\ DOMAIN z.packets = 1 .. Len(z.packets)
    BY <1>2, PacketsFacts
  <2> HIDE DEF x
  <2>2. x.held \in [Denoms -> Int]
    BY <1>2, <1>3, <1>4 DEF Denoms
  <2> QED
    BY <1>4, <2>1, <2>2
<1>6. out \in Nat \ {0}
  BY OutputsAssumption
<1> HIDE DEF x
<1>7. ASSUME NEW denom \in {Far, Out}, NEW sent \in Nat \ {0}, NEW callback \in BOOLEAN,
             denom = IF callback THEN Out ELSE Far
      PROVE  LET p == NewPacket(x, denom, sent, call, callback)
                 new == IF callback /\ call.recovery # NoAddr
                        THEN Save(x.inflight, Key(p), TransferOf(p)) ELSE x.inflight
             IN  StoresOK(Append(x.packets, p), new, x.recovery, x.paid, z.held)
  <2> DEFINE p == NewPacket(x, denom, sent, call, callback)
  <2>1. Cardinality(OnChannel(z.packets, call.channel)) \in Nat
    BY <1>2, PacketsFacts, FS_CardinalityType
  <2>2. /\ PacketOK(p) /\ p.status = "sent" /\ p.callback = callback
        /\ p.call = call /\ p.channel = call.channel
    BY <1>4, <1>7, <2>1 DEF PacketOK, Packet, NewPacket, Sequence, OnChannel, Denoms, Call
  <2>3. p.sequence = Cardinality(OnChannel(z.packets, p.channel)) + 1
    BY <1>4 DEF NewPacket, Sequence, OnChannel
  <2> HIDE DEF p
  <2> QED
    BY <1>1, <1>4, <2>2, <2>3, StoresSent DEF p
<1>8. CASE coin = Near
  <2>1. y = swap_and_forward(x, call, out).s /\ swap_and_forward(x, call, out).ok
    BY <1>3, <1>8 DEF unwrap_or_swap_and_forward, Near, Far, x
  <2>2. [x.held EXCEPT ![Near] = @ - amount] = z.held
    BY <1>2, <1>4, <1>8 DEF Denoms, Near, Far, Out
  <2> DEFINE p == NewPacket(x, Out, out, call, TRUE)
  <2>3. /\ IsState(y) /\ y.held = z.held
        /\ y.packets = Append(x.packets, p)
        /\ y.inflight = IF call.recovery # NoAddr THEN Save(x.inflight, Key(p), TransferOf(p))
                        ELSE x.inflight
        /\ y.swapReply = None /\ y.forwardReply = None
        /\ y.recovery = x.recovery /\ y.paid = x.paid
    <3> HIDE DEF y, p
    <3>1. [x.held EXCEPT ![Near] = @ - call.amount] = z.held
      BY <1>3, <2>2
    <3>2. Forwarded(x, y, call, out, [x.held EXCEPT ![Near] = @ - call.amount], None)
      BY <1>4, <1>5, <1>6, <2>1, SwapIs
    <3> QED
      BY <3>1, <3>2 DEF Forwarded, p
  <2> HIDE DEF y
  <2>4. StoresOK(y.packets, y.inflight, y.recovery, y.paid, y.held)
    BY <1>6, <1>7, <2>3
  <2> QED
    BY <2>3, <2>4 DEF Inv, y, x
<1>9. CASE coin = Far
  <2>1. y = Transfer(x, Far, call.amount, call, FALSE)
    BY <1>3, <1>9 DEF unwrap_or_swap_and_forward, unwrap, Success, x
  <2>2. [x.held EXCEPT ![Far] = @ - amount] = z.held
    BY <1>2, <1>4, <1>9 DEF Denoms, Near, Far, Out
  <2> DEFINE p == NewPacket(x, Far, amount, call, FALSE)
  <2> HIDE DEF y
  <2>3. /\ IsState(y) /\ y.held = [x.held EXCEPT ![Far] = @ - amount]
        /\ y.packets = Append(x.packets, p)
        /\ y.inflight = x.inflight /\ y.swapReply = x.swapReply /\ y.forwardReply = x.forwardReply
        /\ y.recovery = x.recovery /\ y.paid = x.paid
    BY <1>3, <1>4, <2>1 DEF Transfer, IsState
  <2>4. StoresOK(y.packets, y.inflight, y.recovery, y.paid, y.held)
    BY <1>7, <2>2, <2>3
  <2> QED
    BY <1>4, <2>3, <2>4 DEF Inv, y, x
<1> QED
  BY <1>3, <1>8, <1>9

\* receive_ack for a packet that was delivered
LEMMA DeliveredKeepsInv ==
  ASSUME NEW x, Inv(x), NEW k \in DOMAIN x.packets, x.packets[k].status = "sent"
  PROVE  /\ Inv(receive_ack(Settled(x, k, "delivered"), Key(x.packets[k]), TRUE))
         /\ ~ x.packets[k].callback => Inv(Settled(x, k, "delivered"))
<1> DEFINE y == Settled(x, k, "delivered")
           key == Key(x.packets[k])
           z == receive_ack(y, key, TRUE)
           new == IF k \in Tracked(x.packets) THEN Erase(x.inflight, key) ELSE x.inflight
<1>1. /\ IsState(x) /\ x.swapReply = None /\ x.forwardReply = None
      /\ StoresOK(x.packets, x.inflight, x.recovery, x.paid, x.held)
  BY DEF Inv
<1>2. /\ IsState(y) /\ y.packets = [x.packets EXCEPT ![k].status = "delivered"]
      /\ y.held = x.held /\ y.inflight = x.inflight /\ y.recovery = x.recovery
      /\ y.paid = x.paid /\ y.swapReply = x.swapReply /\ y.forwardReply = x.forwardReply
  BY <1>1 DEF Settled, IsState
<1>3. StoresOK(y.packets, new, x.recovery, x.paid, x.held)
  BY <1>1, <1>2, StoresDelivered
<1>4. key \in DOMAIN x.inflight <=> k \in Tracked(x.packets)
  BY <1>1, TrackedKey DEF StoresOK
<1> HIDE DEF y, key
<1>5. /\ IsState(z) /\ z.inflight = new /\ z.packets = y.packets
      /\ z.held = y.held /\ z.recovery = y.recovery
      /\ z.paid = y.paid /\ z.swapReply = y.swapReply /\ z.forwardReply = y.forwardReply
  <2>1. CASE k \in Tracked(x.packets)
    <3>1. z = [y EXCEPT !.inflight = Erase(x.inflight, key)]
      BY <1>2, <1>4, <2>1 DEF receive_ack, Forget
    <3> HIDE DEF z
    <3> QED
      BY <1>2, <2>1, <3>1 DEF IsState
  <2>2. CASE k \notin Tracked(x.packets)
    BY <1>2, <1>4, <2>2 DEF receive_ack
  <2> QED
    BY <2>1, <2>2
<1> HIDE DEF z
<1>6. Inv(z)
  BY <1>1, <1>2, <1>3, <1>5 DEF Inv
<1>7. ASSUME ~ x.packets[k].callback PROVE Inv(y)
  <2>1. k \notin Tracked(x.packets)
    BY <1>7 DEF Tracked
  <2> QED
    BY <1>1, <1>2, <1>3, <2>1 DEF Inv
<1> QED
  BY <1>6, <1>7 DEF z, y, key

\* A packet fails: the callback, if there is one, keeps it for its recovery address.
LEMMA FailedKeepsInv ==
  ASSUME NEW x, Inv(x), NEW k \in DOMAIN x.packets, x.packets[k].status = "sent",
         NEW z, NEW reason \in {"AckFailure", "TimedOut"},
         z = IF x.packets[k].callback /\ Key(x.packets[k]) \in DOMAIN x.inflight
             THEN create_recovery(Forget(Refunded(x, k), Key(x.packets[k])), x.inflight[Key(x.packets[k])], reason)
             ELSE Refunded(x, k)
  PROVE  Inv(z)
<1> DEFINE y == Refunded(x, k)
           key == Key(x.packets[k])
           refunded == [x.held EXCEPT ![x.packets[k].denom] = @ + x.packets[k].amount]
           qs == [x.packets EXCEPT ![k].status = "failed"]
           a == x.packets[k].call.recovery
           before == IF a \in DOMAIN x.recovery THEN x.recovery[a] ELSE <<>>
           kept == [TransferOf(x.packets[k]) EXCEPT !.status = reason]
<1>1. /\ IsState(x) /\ x.swapReply = None /\ x.forwardReply = None
      /\ StoresOK(x.packets, x.inflight, x.recovery, x.paid, x.held)
  BY DEF Inv
<1>2. /\ IsState(y) /\ y.packets = qs /\ y.held = refunded
      /\ y.inflight = x.inflight /\ y.recovery = x.recovery
      /\ y.paid = x.paid /\ y.swapReply = None /\ y.forwardReply = None
  BY <1>1 DEF Refunded, Settled, IsState
<1>3. IF k \in Tracked(x.packets)
      THEN StoresOK(qs, Erase(x.inflight, key), Save(x.recovery, a, Append(before, kept)), x.paid, refunded)
      ELSE StoresOK(qs, x.inflight, x.recovery, x.paid, refunded)
  BY <1>1, StoresFailed, Zenon
<1>4. /\ key \in DOMAIN x.inflight <=> k \in Tracked(x.packets)
      /\ k \in Tracked(x.packets) => x.inflight[key] = TransferOf(x.packets[k])
      /\ k \in Tracked(x.packets) => x.packets[k].callback
  BY <1>1, TrackedKey DEF StoresOK, Tracked
<1>5. CASE k \in Tracked(x.packets)
  <2> DEFINE y1 == Forget(y, key)
             t == TransferOf(x.packets[k])
  <2>1. z = create_recovery(y1, t, reason)
    BY <1>4, <1>5
  <2> HIDE DEF y, qs, refunded
  <2>2. /\ IsState(y1) /\ y1.packets = qs /\ y1.held = refunded
        /\ y1.inflight = Erase(x.inflight, key) /\ y1.recovery = x.recovery
        /\ y1.paid = x.paid /\ y1.swapReply = None /\ y1.forwardReply = None
    BY <1>2 DEF Forget, IsState
  <2> HIDE DEF y1
  <2>3. t.recovery = a
    BY DEF TransferOf
  <2>4. z = [y1 EXCEPT !.recovery = Save(x.recovery, a, Append(before, kept))]
    BY <2>1, <2>2, <2>3 DEF create_recovery
  <2> HIDE DEF before, kept, a
  <2>5. /\ IsState(z) /\ z.packets = qs /\ z.held = refunded
        /\ z.inflight = Erase(x.inflight, key)
        /\ z.recovery = Save(x.recovery, a, Append(before, kept))
        /\ z.paid = x.paid /\ z.swapReply = None /\ z.forwardReply = None
    BY <2>2, <2>4 DEF IsState
  <2>6. StoresOK(z.packets, z.inflight, z.recovery, z.paid, z.held)
    BY <1>3, <1>5, <2>5, SMTT(30)
  <2> QED
    BY <2>5, <2>6 DEF Inv
<1>6. CASE k \notin Tracked(x.packets)
  <2>1. z = y
    BY <1>4, <1>6
  <2> HIDE DEF y, qs, refunded
  <2>2. StoresOK(z.packets, z.inflight, z.recovery, z.paid, z.held)
    BY <1>2, <1>3, <1>6, <2>1
  <2> QED
    BY <1>2, <2>1, <2>2 DEF Inv
<1> QED
  BY <1>5, <1>6

----------------------------------------------------------------------------
(* The invariant and what follows from it                                  *)

IInv == Inv(s)

\* Nothing is sent, tracked, kept or held when the contracts are instantiated.
LEMMA InitIInv == Init => IInv
<1> SUFFICES ASSUME Init PROVE IInv
  OBVIOUS
<1>1. PICK g, o \in Governors :
       s = [config |-> [governor |-> g, swapContract |-> Swaprouter],
            router |-> [owner |-> o, route |-> FALSE],
            swapReply |-> None, forwardReply |-> None,
            inflight |-> <<>>, recovery |-> <<>>,
            held |-> [d \in {Near, Far, Out} |-> 0],
            paid |-> [u \in Users |-> 0],
            packets |-> <<>>]
  BY DEF Init
<1>2. /\ IsState(s) /\ s.swapReply = None /\ s.forwardReply = None
      /\ s.inflight = <<>> /\ s.recovery = <<>> /\ s.packets = <<>>
      /\ s.held = [d \in Denoms |-> 0] /\ s.paid = [u \in Users |-> 0]
  BY <1>1 DEF IsState, Denoms
<1>3. PICK ps : ps = <<>>
  OBVIOUS
<1>4. DOMAIN ps = {} /\ ps \in Seq(Packet)
  BY <1>3
<1>5. PacketsOK(ps) /\ Tracked(ps) = {} /\ Stuck(ps) = {} /\ \A u : Failed(ps, u) = {}
  BY <1>4 DEF PacketsOK, Tracked, Stuck, Failed
<1>6. TracksOK(ps, ps)
  BY <1>4, <1>5 DEF TracksOK
<1>7. Total(ps, {}) = 0
  BY SumEmpty DEF Total, SumFunction
<1>8. Owed(ps) = 0
  BY <1>4, SumEmpty DEF Owed, SumFunction
<1>9. RecoveryOK(ps, ps, s.paid)
  <2>1. \A u : Kept(ps, u) = 0 /\ Total(ps, Failed(ps, u)) = 0
    BY <1>4, <1>5, <1>7 DEF Kept
  <2>2. s.paid \in [Users -> Nat] /\ \A u \in Users : s.paid[u] = 0
    BY <1>2
  <2>3. IsFiniteSet(DOMAIN ps) /\ DOMAIN ps \subseteq Users
    BY <1>4, FS_EmptySet
  <2> QED
    BY <1>4, <2>1, <2>2, <2>3 DEF RecoveryOK
<1>10. HeldOK(ps, ps, s.held)
  <2>1. Total(ps, Stuck(ps)) = 0 /\ Total(ps, Failed(ps, NoAddr)) = 0
    BY <1>5, <1>7
  <2>2. s.held \in [Denoms -> Int] /\ s.held[Near] = 0 /\ s.held[Far] = 0 /\ s.held[Out] = 0
    BY <1>2 DEF Denoms
  <2> QED
    BY <1>8, <2>1, <2>2 DEF HeldOK
<1> QED
  BY <1>2, <1>3, <1>5, <1>6, <1>9, <1>10 DEF IInv, Inv, StoresOK

\* An acknowledgement or a timeout keeps the invariant.
LEMMA OutcomeKeepsInv ==
  ASSUME IInv, NEW i, AckSuccess(i) \/ AckFailure(i) \/ Timeout(i)
  PROVE  IInv'
<1>1. i \in DOMAIN s.packets /\ s.packets[i].status = "sent" /\ Inv(s)
  BY DEF IInv, AckSuccess, AckFailure, Timeout, InFlight
<1>2. IsState(s) /\ Refunded(s, i).inflight = s.inflight
  BY <1>1 DEF Inv, IsState, Refunded, Settled
<1>3. CASE AckSuccess(i)
  <2>1. s' = receive_ack(Settled(s, i, "delivered"), Key(s.packets[i]), TRUE)
    BY <1>3 DEF AckSuccess
  <2>2. Inv(s')
    BY <1>1, <2>1, DeliveredKeepsInv
  <2> QED
    BY <2>2 DEF IInv
<1>4. CASE AckFailure(i)
  <2>1. s' = IF s.packets[i].callback /\ Key(s.packets[i]) \in DOMAIN s.inflight
             THEN create_recovery(Forget(Refunded(s, i), Key(s.packets[i])), s.inflight[Key(s.packets[i])], "AckFailure")
             ELSE Refunded(s, i)
    BY <1>2, <1>4 DEF AckFailure, receive_ack
  <2>2. Inv(s')
    BY <1>1, <2>1, FailedKeepsInv
  <2> QED
    BY <2>2 DEF IInv
<1>5. CASE Timeout(i)
  <2>1. s' = IF s.packets[i].callback /\ Key(s.packets[i]) \in DOMAIN s.inflight
             THEN create_recovery(Forget(Refunded(s, i), Key(s.packets[i])), s.inflight[Key(s.packets[i])], "TimedOut")
             ELSE Refunded(s, i)
    BY <1>2, <1>5 DEF Timeout, receive_timeout
  <2>2. Inv(s')
    BY <1>1, <2>1, FailedKeepsInv
  <2> QED
    BY <2>2 DEF IInv
<1> QED
  BY <1>3, <1>4, <1>5

\* recover keeps the invariant.
LEMMA RecoverKeepsInv ==
  ASSUME IInv, NEW u \in Users, recover(u)
  PROVE  IInv'
<1> DEFINE sum == SumAmounts(s.recovery[u])
           more == [s.paid EXCEPT ![u] = @ + sum]
           less == [s.held EXCEPT ![Out] = @ - sum]
<1>1. /\ IsState(s) /\ s.swapReply = None /\ s.forwardReply = None
      /\ StoresOK(s.packets, s.inflight, s.recovery, s.paid, s.held)
  BY DEF IInv, Inv
<1>2. u \in DOMAIN s.recovery
  BY DEF recover
<1>3. s' = [s EXCEPT !.recovery = Erase(s.recovery, u), !.held = less, !.paid = more]
  BY <1>1 DEF recover, IsState
<1>4. StoresOK(s.packets, s.inflight, Erase(s.recovery, u), more, less)
  BY <1>1, <1>2, StoresRecovered
<1> HIDE DEF more, less
<1>5. /\ IsState(s') /\ s'.swapReply = None /\ s'.forwardReply = None
      /\ s'.packets = s.packets /\ s'.inflight = s.inflight /\ s'.recovery = Erase(s.recovery, u)
      /\ s'.paid = more /\ s'.held = less
  BY <1>1, <1>3 DEF IsState
<1>6. Inv(s')
  BY <1>4, <1>5 DEF Inv
<1> QED
  BY <1>6 DEF IInv

\* Every message, callback and governance step keeps the invariant.
LEMMA NextIInv == IInv /\ [Next]_vars => IInv'
<1> SUFFICES ASSUME IInv, [Next]_vars PROVE IInv'
  OBVIOUS
<1>1. Inv(s)
  BY DEF IInv
<1>2. ASSUME NEW call \in Calls, NEW out \in Outputs, OsmosisSwap(call, out)
      PROVE  IInv'
  <2>1. call \in Call
    BY CallsAssumption
  <2>2. /\ unwrap_or_swap_and_forward(Receive(s, call), call, out).ok
        /\ s' = unwrap_or_swap_and_forward(Receive(s, call), call, out).s
    BY <1>2 DEF OsmosisSwap
  <2>3. Inv(s')
    BY <1>1, <2>1, <2>2, CallKeepsInv
  <2> QED
    BY <2>3 DEF IInv
<1>3. ASSUME NEW i \in 1 .. MaxPackets, AckSuccess(i) \/ AckFailure(i) \/ Timeout(i)
      PROVE  IInv'
  BY <1>3, OutcomeKeepsInv
<1>4. ASSUME NEW i \in 1 .. MaxPackets, NEW out \in Outputs, UnwrapReturns(i, out)
      PROVE  IInv'
  <2> DEFINE z == Settled(s, i, "delivered")
             call == [s.packets[i].call EXCEPT !.coin = Near]
  <2>1. i \in DOMAIN s.packets /\ s.packets[i].status = "sent" /\ ~ s.packets[i].callback
    BY <1>4 DEF UnwrapReturns, InFlight
  <2>2. Inv(z)
    BY <1>1, <2>1, DeliveredKeepsInv
  <2>3. s.packets[i] \in Packet
    BY <1>1, <2>1, PacketsFacts DEF Inv, StoresOK
  <2>4. call \in Call
    BY <2>3 DEF Packet, Call
  <2>5. /\ unwrap_or_swap_and_forward(Receive(z, call), call, out).ok
        /\ s' = unwrap_or_swap_and_forward(Receive(z, call), call, out).s
    BY <1>4 DEF UnwrapReturns
  <2> HIDE DEF z, call
  <2>6. Inv(s')
    BY <2>2, <2>4, <2>5, CallKeepsInv
  <2> QED
    BY <2>6 DEF IInv
<1>5. ASSUME NEW u \in Users, recover(u)
      PROVE  IInv'
  BY <1>5, RecoverKeepsInv
<1>6. ASSUME NEW v, s' = [s EXCEPT !.config = v] \/ s' = [s EXCEPT !.router = v]
      PROVE  IInv'
  <2>1. /\ IsState(s') /\ s'.swapReply = s.swapReply /\ s'.forwardReply = s.forwardReply
        /\ s'.packets = s.packets /\ s'.inflight = s.inflight /\ s'.recovery = s.recovery
        /\ s'.paid = s.paid /\ s'.held = s.held
    BY <1>1, <1>6 DEF Inv, IsState
  <2>2. Inv(s')
    BY <1>1, <2>1 DEF Inv
  <2> QED
    BY <2>2 DEF IInv
<1>7. ASSUME NEW g, NEW new,
             \/ transfer_ownership(g, new) \/ router_transfer_ownership(g, new)
             \/ set_swap_contract(g, new) \/ set_route(g)
      PROVE  IInv'
  <2>1. \E v : s' = [s EXCEPT !.config = v] \/ s' = [s EXCEPT !.router = v]
    BY <1>7 DEF transfer_ownership, router_transfer_ownership, set_swap_contract, set_route
  <2> QED
    BY <1>6, <2>1
<1>8. CASE UNCHANGED vars
  BY <1>1, <1>8 DEF vars, IInv
<1> QED
  BY <1>2, <1>3, <1>4, <1>5, <1>7, <1>8 DEF Next

\* The invariant holds of all reachable states.
LEMMA Invariance == Spec => []IInv
BY InitIInv, NextIInv, PTL DEF Spec

\* The stores keep their shape, and no account of the contract goes below zero.
THEOREM TypeCorrect == Spec => []TypeOK
<1>1. ASSUME IInv PROVE TypeOK
  <2> DEFINE ps == s.packets
  <2>1. StoresOK(ps, s.inflight, s.recovery, s.paid, s.held)
    BY <1>1 DEF IInv, Inv
  <2>2. PacketsOK(ps) /\ TracksOK(ps, s.inflight) /\ HeldOK(ps, s.recovery, s.held)
    BY <2>1 DEF StoresOK
  <2>3. Recoveries(s.recovery)
    BY <2>1 DEF StoresOK, RecoveryOK, Recoveries
  <2> HIDE DEF ps
  <2>4. Stuck(ps) \in SUBSET DOMAIN ps /\ Failed(ps, NoAddr) \in SUBSET DOMAIN ps
    BY <2>2, PacketsFacts
  <2>5. Total(ps, Stuck(ps)) \in Nat /\ Total(ps, Failed(ps, NoAddr)) \in Nat
    BY <2>2, <2>4, PacketsFacts
  <2>6. Owed(s.recovery) \in Nat
    BY <2>3, RecoveriesFacts
  <2>7. s.held[Near] \in Nat /\ s.held[Far] \in Nat /\ s.held[Out] \in Nat
    BY <2>2, <2>5, <2>6 DEF HeldOK
  <2>8. s.held \in [{Near, Far, Out} -> Nat]
    BY <2>2, <2>7 DEF HeldOK, Denoms
  <2>9. ASSUME NEW k \in DOMAIN s.inflight PROVE s.inflight[k] \in IBCTransfer
    <3>1. PICK i \in Tracked(ps) : k = Key(ps[i]) /\ s.inflight[k] = TransferOf(ps[i])
      BY <2>2 DEF TracksOK
    <3>2. i \in DOMAIN ps /\ ps[i].call.recovery # NoAddr
      BY DEF Tracked
    <3>3. ps[i] \in Packet
      BY <2>2, <3>2, PacketsFacts
    <3> QED
      BY <3>1, <3>2, <3>3 DEF Packet, Call, TransferOf, IBCTransfer
  <2>10. \A u \in DOMAIN s.recovery : \A i \in DOMAIN s.recovery[u] : s.recovery[u][i] \in IBCTransfer
    BY <2>3 DEF Recoveries
  <2> QED
    BY <2>8, <2>9, <2>10 DEF TypeOK
<1> QED
  BY <1>1, Invariance, PTL

\* The contract tracks exactly the forwards in flight that can be recovered, whatever
\* order acknowledgements and timeouts come in.
THEOREM Tracking == Spec => []TracksForwardsInFlight
<1>1. ASSUME IInv PROVE TracksForwardsInFlight
  <2>1. DOMAIN s.inflight = {Key(s.packets[i]) : i \in Tracked(s.packets)}
    BY <1>1 DEF IInv, Inv, StoresOK, TracksOK
  <2>2. Tracked(s.packets) =
          {j \in Forwards : s.packets[j].status = "sent" /\ s.packets[j].call.recovery # NoAddr}
    BY DEF Tracked, Forwards
  <2> QED
    BY <2>1, <2>2 DEF TracksForwardsInFlight
<1> QED
  BY <1>1, Invariance, PTL

\* Failures and recoveries add up for every user: none is lost, none paid twice.
THEOREM RecoveriesSafety == Spec => []RecoveriesAddUp
<1>1. ASSUME IInv PROVE RecoveriesAddUp
  <2>1. RecoveryOK(s.packets, s.recovery, s.paid)
    BY <1>1 DEF IInv, Inv, StoresOK
  <2>2. \A u : Recoverable(u) = Failed(s.packets, u)
    BY DEF Recoverable, Forwards, Failed
  <2>3. \A u : SumPackets(Recoverable(u)) = Total(s.packets, Failed(s.packets, u))
    BY <2>2 DEF SumPackets, Total
  <2> QED
    BY <2>1, <2>3 DEF RecoveriesAddUp, RecoveryOK, Kept
<1> QED
  BY <1>1, Invariance, PTL

\* The contract holds exactly what it keeps for users and what nobody can claim.
THEOREM HoldingsSafety == Spec => []HeldIsAccounted
<1>1. ASSUME IInv PROVE HeldIsAccounted
  <2>1. HeldOK(s.packets, s.recovery, s.held)
    BY <1>1 DEF IInv, Inv, StoresOK
  <2>2. SumPackets(Recoverable(NoAddr)) = Total(s.packets, Failed(s.packets, NoAddr))
    <3>1. Recoverable(NoAddr) = Failed(s.packets, NoAddr)
      BY DEF Recoverable, Forwards, Failed
    <3> QED
      BY <3>1 DEF SumPackets, Total
  <2>3. SumPackets({i \in DOMAIN s.packets \ Forwards : s.packets[i].status = "failed"})
          = Total(s.packets, Stuck(s.packets))
    <3>1. {i \in DOMAIN s.packets \ Forwards : s.packets[i].status = "failed"} = Stuck(s.packets)
      BY DEF Forwards, Stuck
    <3> QED
      BY <3>1 DEF SumPackets, Total
  <2> QED
    BY <2>1, <2>2, <2>3 DEF HeldIsAccounted, HeldOK, Owed
<1> QED
  BY <1>1, Invariance, PTL

\* What is kept for a user is covered by what the contract holds.
RecoveryIsCovered ==
  \A u \in DOMAIN s.recovery : s.held[Out] >= SumAmounts(s.recovery[u])

\* recover is never refused for want of tokens: the guard of its bank transfer holds
\* whenever something is kept for the user, whoever recovered before.
THEOREM RecoverySucceeds == Spec => []RecoveryIsCovered
<1>1. ASSUME IInv, NEW u \in DOMAIN s.recovery
      PROVE  s.held[Out] >= SumAmounts(s.recovery[u])
  <2>1. PacketsOK(s.packets) /\ HeldOK(s.packets, s.recovery, s.held)
    BY <1>1 DEF IInv, Inv, StoresOK
  <2>2. Recoveries(s.recovery)
    BY <1>1 DEF IInv, Inv, StoresOK, RecoveryOK, Recoveries
  <2>3. PICK new : Recoveries(new) /\ Owed(s.recovery) = Owed(new) + SumAmounts(s.recovery[u])
    BY <1>1, <2>2, RecoveryErased
  <2>4. Owed(new) \in Nat /\ SumAmounts(s.recovery[u]) \in Nat
    BY <1>1, <2>2, <2>3, RecoveriesFacts
  <2>5. Failed(s.packets, NoAddr) \in SUBSET DOMAIN s.packets
    BY <2>1, PacketsFacts
  <2>6. Total(s.packets, Failed(s.packets, NoAddr)) \in Nat
    BY <2>1, <2>5, PacketsFacts
  <2>7. s.held[Out] = Total(s.packets, Failed(s.packets, NoAddr)) + Owed(s.recovery)
    BY <2>1 DEF HeldOK
  <2> QED
    BY <2>3, <2>4, <2>6, <2>7
<1>2. IInv => RecoveryIsCovered
  BY <1>1 DEF RecoveryIsCovered
<1> QED
  BY <1>2, Invariance, PTL
=============================================================================
