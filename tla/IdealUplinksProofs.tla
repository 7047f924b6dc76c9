------------------------- MODULE IdealUplinksProofs -------------------------
(***************************************************************************)
(* Proofs about ideal runs of Uplinks, for any number of clusters, packets *)
(* and measurements: heads proceed measurement by measurement, and what    *)
(* they have sent of the newest one is at the sink or on its way.          *)
(***************************************************************************)
EXTENDS SinkProofs, FiniteSetTheorems

OnAir == UNION {ToSet(air[c]) : c \in Clusters}

(* What the sink has buffered of the newest of K measurements.             *)
Got(K) == {pkt \in ToSet(inBuf) : pkt.meas = K - 1}

(* K measurements have begun, and no head is more than one behind.         *)
HeadsInStep(K) ==
  /\ \A c \in Clusters : Len(info[c]) \in {K - 1, K}
  /\ K > 0 => \E c \in Clusters : Len(info[c]) = K

NoneLost(K) ==
  /\ K > 0 => made # {}
  /\ \A pkt \in made : pkt.meas = K - 1
  /\ made = Got(K) \cup OnAir

(* The sink is at the newest measurement or the one before it, and has     *)
(* stored a count for every sequence that ended.                           *)
SinkInStep(K) ==
  /\ rxStored = seqCount
  /\ \/ seqCount \in {K - 2, K - 1}
     \/ K = 0 /\ seqCount = 0 /\ inBuf = <<>>

InStep(K) == HeadsInStep(K) /\ NoneLost(K) /\ SinkInStep(K)

NoRowsNoRec == inBuf = <<>> => rec = Nothing

(* The inductive invariant.                                                *)
IdealInv ==
  /\ LinkTypeOK
  /\ SinkInv
  /\ NoRowsNoRec
  /\ ideal => \E K \in 0..MaxBatches : InStep(K)

LEMMA IdealInvTypes ==
  ASSUME IdealInv
  PROVE  /\ ideal \in BOOLEAN
         /\ info \in [Clusters -> Seq(Batches)]
         /\ air \in [Clusters -> Seq(Packets)]
         /\ made \subseteq Packets
         /\ inBuf \in Seq(Packets)
         /\ seqCount \in Nat /\ rxStored \in Nat /\ rxPacketsSeq \in Nat
         /\ MaxBatches \in Nat
<1>1. seqCount \in Nat
  BY SinkNumbersAssumption DEF IdealInv, SinkInv, SinkTypeOK, SeqNos
<1>2. ideal \in BOOLEAN /\ info \in [Clusters -> Seq(Batches)]
  BY DEF IdealInv, LinkTypeOK
<1>3. air \in [Clusters -> Seq(Packets)] /\ made \subseteq Packets
  BY DEF IdealInv, LinkTypeOK
<1>4. inBuf \in Seq(Packets) /\ rxStored \in Nat /\ rxPacketsSeq \in Nat
  BY DEF IdealInv, SinkInv, SinkTypeOK
<1> QED BY <1>1, <1>2, <1>3, <1>4, SinkNumbersAssumption

(* Without wrap-around the sink buffers packets of one measurement, the    *)
(* one it is at.                                                           *)
LEMMA BufferedMeas ==
  ASSUME MaxBatches <= SeqSpace, IdealInv
  PROVE  \A pkt \in ToSet(inBuf) : pkt.meas = seqCount
<1> SUFFICES ASSUME NEW i \in 1..Len(inBuf) PROVE inBuf[i].meas = seqCount
  BY DEF ToSet
<1>1. inBuf[i].meas \in Meas
  <2>1. inBuf[i] \in Packets
    BY IdealInvTypes
  <2>2. QED  BY <2>1 DEF Packets
<1>2. SeqNo(inBuf[i].meas) = seqCount
  BY DEF IdealInv, SinkInv, BufferFresh
<1>3. QED  BY <1>1, <1>2, NoWrapSeqNo

LEMMA AppendedRows ==
  ASSUME NEW s \in Seq(Packets), NEW pkt \in Packets, NEW t, t = Append(s, pkt)
  PROVE  ToSet(t) = ToSet(s) \cup {pkt}
<1>1. /\ Len(t) = Len(s) + 1 /\ Len(s) \in Nat /\ t[Len(s) + 1] = pkt
      /\ \A i \in 1..Len(s) : t[i] = s[i]
  BY AppendIsSeq
<1>2. QED  BY <1>1 DEF ToSet

LEMMA JoinedRows ==
  ASSUME NEW s \in Seq(Packets), NEW u \in Seq(Packets), NEW t, t = s \o u
  PROVE  ToSet(t) = ToSet(s) \cup ToSet(u)
<1>1. /\ t \in Seq(Packets)
      /\ Len(t) = Len(s) + Len(u) /\ Len(s) \in Nat /\ Len(u) \in Nat
      /\ \A i \in 1..Len(s) : t[i] = s[i]
      /\ \A i \in 1..Len(u) : t[Len(s) + i] = u[i]
  OBVIOUS
<1>2. ASSUME NEW x \in ToSet(t) PROVE x \in ToSet(s) \cup ToSet(u)
  <2>1. PICK i \in 1..Len(t) : x = t[i]
    BY DEF ToSet
  <2>2. CASE i \in 1..Len(s)
    BY <1>1, <2>1, <2>2 DEF ToSet
  <2>3. CASE i \notin 1..Len(s)
    <3>1. i - Len(s) \in 1..Len(u) /\ t[Len(s) + (i - Len(s))] = u[i - Len(s)]
      BY <1>1, <2>3
    <3>2. x = u[i - Len(s)]
      BY <1>1, <2>1, <3>1
    <3>3. QED  BY <3>1, <3>2 DEF ToSet
  <2>4. QED  BY <2>2, <2>3
<1>3. ToSet(s) \subseteq ToSet(t)
  BY <1>1 DEF ToSet
<1>4. ASSUME NEW i \in 1..Len(u) PROVE u[i] \in ToSet(t)
  <2>1. Len(s) + i \in DOMAIN t /\ t[Len(s) + i] = u[i]
    BY <1>1
  <2>2. QED  BY <2>1 DEF ToSet
<1>5. ToSet(u) \subseteq ToSet(t)
  <2>1. DOMAIN u = 1..Len(u)
    OBVIOUS
  <2>2. \A x \in ToSet(u) : \E i \in 1..Len(u) : x = u[i]
    BY <2>1 DEF ToSet
  <2>3. QED  BY <1>4, <2>2
<1>6. QED  BY <1>2, <1>3, <1>5

(* No more different packets are buffered than are counted.                *)
LEMMA FewerThanRows ==
  ASSUME NEW s \in Seq(Packets)
  PROVE  /\ Cardinality(ToSet(s)) \in Nat
         /\ Cardinality(ToSet(s)) <= Len(s)
<1>1. DOMAIN s = 1..Len(s) /\ Len(s) \in Nat
  OBVIOUS
<1>2. IsFiniteSet(1..Len(s)) /\ Cardinality(1..Len(s)) = Len(s)
  BY <1>1, FS_Interval
<1>3. s \in Surjection(1..Len(s), ToSet(s))
  <2>1. s \in [1..Len(s) -> ToSet(s)]
    BY <1>1 DEF ToSet
  <2>2. QED  BY <1>1, <2>1 DEF Surjection, ToSet
<1>4. IsFiniteSet(ToSet(s)) /\ Cardinality(ToSet(s)) <= Cardinality(1..Len(s))
  BY <1>2, <1>3, FS_Surjection
<1>5. Cardinality(ToSet(s)) \in Nat
  BY <1>4, FS_CardinalityType
<1>6. QED  BY <1>2, <1>4, <1>5

LEMMA FirstAndRest ==
  ASSUME NEW s \in Seq(Packets), s # <<>>
  PROVE  ToSet(s) = ToSet(Tail(s)) \cup {Head(s)}
<1> DEFINE t == Tail(s)
<1>1. /\ Len(t) = Len(s) - 1 /\ Len(s) \in Nat \ {0} /\ Head(s) = s[1]
      /\ \A i \in 1..Len(t) : t[i] = s[i + 1]
  OBVIOUS
<1> HIDE DEF t
<1>2. ASSUME NEW i \in 1..Len(s) PROVE s[i] \in ToSet(t) \cup {Head(s)}
  <2>1. CASE i = 1
    BY <1>1, <2>1
  <2>2. CASE i # 1
    <3>1. i - 1 \in 1..Len(t) /\ t[i - 1] = s[(i - 1) + 1]
      BY <1>1, <2>2
    <3>2. s[(i - 1) + 1] = s[i]
      OBVIOUS
    <3>3. QED  BY <3>1, <3>2 DEF ToSet
  <2>3. QED  BY <2>1, <2>2
<1>3. ASSUME NEW i \in 1..Len(t) PROVE t[i] \in ToSet(s)
  <2>1. i + 1 \in 1..Len(s)
    BY <1>1
  <2>2. QED  BY <1>1, <2>1 DEF ToSet
<1>4. ToSet(t) \cup {Head(s)} \subseteq ToSet(s)
  BY <1>1, <1>3 DEF ToSet
<1>5. ToSet(s) \subseteq ToSet(t) \cup {Head(s)}
  BY <1>2 DEF ToSet
<1>6. QED  BY <1>4, <1>5 DEF t

-----------------------------------------------------------------------------
LEMMA SentOnAir ==
  ASSUME air \in [Clusters -> Seq(Packets)], NEW c \in Clusters,
         NEW pkts \in Seq(Packets), air' = [air EXCEPT ![c] = @ \o pkts]
  PROVE  OnAir' = OnAir \cup ToSet(pkts)
<1>1. ToSet(air'[c]) = ToSet(air[c]) \cup ToSet(pkts)
  <2>1. air[c] \in Seq(Packets) /\ air'[c] = air[c] \o pkts
    OBVIOUS
  <2>2. QED  BY <2>1, JoinedRows
<1>2. \A d \in Clusters : d # c => ToSet(air'[d]) = ToSet(air[d])
  OBVIOUS
<1>3. QED  BY <1>1, <1>2, Zenon DEF OnAir

LEMMA TakenFromAir ==
  ASSUME air \in [Clusters -> Seq(Packets)], NEW c \in Clusters, Arrives(c)
  PROVE  OnAir = OnAir' \cup {Head(air[c])}
<1>1. /\ air[c] \in Seq(Packets) /\ air[c] # <<>>
      /\ air' = [air EXCEPT ![c] = Tail(@)]
  BY DEF Arrives
<1>2. ToSet(air[c]) = ToSet(air'[c]) \cup {Head(air[c])}
  <2>1. air'[c] = Tail(air[c])
    BY <1>1
  <2>2. QED  BY <1>1, <2>1, FirstAndRest
<1>3. \A d \in Clusters : d # c => ToSet(air'[d]) = ToSet(air[d])
  BY <1>1
<1>4. QED  BY <1>2, <1>3, Zenon DEF OnAir

LEMMA NothingOnAir == AirEmpty => OnAir = {}
<1> SUFFICES ASSUME AirEmpty PROVE OnAir = {}
  OBVIOUS
<1>1. \A c \in Clusters : ToSet(air[c]) = {}
  BY DEF AirEmpty, ToSet
<1>2. QED  BY <1>1, Zenon DEF OnAir

(* When nothing is on its way the sink has all of the newest measurement,  *)
(* and is at it.                                                           *)
LEMMA AllArrived ==
  ASSUME MaxBatches <= SeqSpace, IdealInv, NEW K \in Nat, InStep(K), AirEmpty
  PROVE  /\ K > 0 => seqCount = K - 1 /\ inBuf # <<>>
         /\ K = 0 => seqCount = 0 /\ inBuf = <<>>
         /\ made = ToSet(inBuf)
<1>1. made = Got(K)
  BY NothingOnAir DEF InStep, NoneLost
<1>2. \A pkt \in ToSet(inBuf) : pkt.meas = seqCount
  BY BufferedMeas
<1>3. seqCount \in Nat
  BY IdealInvTypes
<1>4. CASE K > 0
  <2>1. PICK pkt \in ToSet(inBuf) : pkt.meas = K - 1
    BY <1>1, <1>4, Zenon DEF InStep, NoneLost, Got
  <2>2. seqCount = K - 1
    BY <1>2, <2>1
  <2>3. Got(K) = ToSet(inBuf)
    BY <1>2, <2>2 DEF Got
  <2>4. inBuf # <<>>
    BY <2>1 DEF ToSet
  <2>5. QED  BY <1>1, <1>4, <2>2, <2>3, <2>4
<1>5. CASE K = 0
  <2>1. seqCount = 0 /\ inBuf = <<>>
    BY <1>3, <1>5 DEF InStep, SinkInStep
  <2>2. ToSet(inBuf) = {}
    BY <2>1 DEF ToSet
  <2>3. QED  BY <1>1, <1>5, <2>1, <2>2 DEF Got
<1>6. QED  BY <1>4, <1>5

(* A head sends packets of the newest measurement, or begins the next one. *)
LEMMA HeadSendInStep ==
  ASSUME MaxBatches <= SeqSpace, IdealInv, ideal, NEW K \in 0..MaxBatches, InStep(K),
         NEW c \in Clusters, HeadSend(c)
  PROVE  \E N \in 0..MaxBatches : InStep(N)'
<1>1. PICK k \in Meas, nodes \in SUBSET Nodes, n \in 1..MaxPerBatch, parts \in Parts :
        Sends(c, k, nodes, n, parts)
  BY HeadSendIsSends DEF IdealInv
<1> DEFINE pkts == SendPkts(c, parts, k, n)
<1>2. /\ info \in [Clusters -> Seq(Batches)] /\ air \in [Clusters -> Seq(Packets)]
      /\ made \subseteq Packets /\ inBuf \in Seq(Packets)
      /\ seqCount \in Nat /\ MaxBatches \in Nat /\ K \in Nat
  BY IdealInvTypes
<1>3. /\ k = Len(info[c]) /\ k \in Nat /\ k < MaxBatches
      /\ \A d \in Clusters : Len(info[d]) \in Nat
      /\ n \in Nat /\ n >= 1
  BY <1>1, <1>2, SinkNumbersAssumption DEF Sends
<1>4. /\ \A d \in Clusters : Len(info[d]) >= k
      /\ (\E d \in Clusters : Len(info[d]) > k) \/ AirEmpty
  BY <1>1 DEF Sends, Turn
<1>5. /\ Len(info'[c]) = k + 1
      /\ \A d \in Clusters : d # c => info'[d] = info[d]
  <2>1. info' = [info EXCEPT ![c] = Append(@, [meas |-> k, nodes |-> nodes])]
    BY <1>1 DEF Sends
  <2>2. QED  BY <1>2, <1>3, <2>1
<1>6. pkts \in Seq(Packets) /\ Len(pkts) = n /\ \A i \in 1..n : pkts[i].meas = k
  <2>1. pkts \in Seq(Packets)
    BY <1>1, SendPktsType DEF IdealInv, Sends
  <2>2. Len(pkts) = n /\ \A i \in 1..n : pkts[i].meas = k
    BY <1>3 DEF SendPkts
  <2>3. QED  BY <2>1, <2>2
<1>7. made' = {pkt \in made : pkt.meas >= k} \cup ToSet(pkts)
  <2>1. ToSet(pkts) = {pkts[i] : i \in 1..n}
    <3> HIDE DEF pkts
    <3>1. DOMAIN pkts = 1..n
      BY <1>6
    <3>2. QED  BY <3>1 DEF ToSet
  <2>2. made' = {pkt \in made : pkt.meas >= k} \cup {pkts[i] : i \in 1..n}
    BY <1>1 DEF Sends
  <2>3. QED  BY <2>1, <2>2
<1>8. OnAir' = OnAir \cup ToSet(pkts)
  <2>1. air' = [air EXCEPT ![c] = @ \o pkts]
    BY <1>1 DEF Sends
  <2>2. QED  BY <1>2, <1>6, <2>1, SentOnAir
<1>9. /\ \A pkt \in ToSet(pkts) : pkt.meas = k
      /\ ToSet(pkts) # {}
  <2> HIDE DEF pkts
  <2>1. DOMAIN pkts = 1..n /\ 1 \in 1..n
    BY <1>3, <1>6
  <2>2. \A pkt \in ToSet(pkts) : pkt.meas = k
    BY <1>6, <2>1 DEF ToSet
  <2>3. pkts[1] \in ToSet(pkts)
    BY <2>1 DEF ToSet
  <2>4. QED  BY <2>2, <2>3
<1>10. inBuf' = inBuf /\ seqCount' = seqCount /\ rxStored' = rxStored
  BY <1>1 DEF Sends, sinkVars
<1> HIDE DEF pkts
<1>11. CASE k = K - 1
  <2>1. HeadsInStep(K)'
    <3>1. Len(info'[c]) = K
      BY <1>2, <1>5, <1>11
    <3>2. \A d \in Clusters : Len(info'[d]) \in {K - 1, K}
      BY <1>5, <3>1 DEF InStep, HeadsInStep
    <3>3. QED  BY <3>1, <3>2 DEF HeadsInStep
  <2>2. NoneLost(K)'
    <3>1. made' = made \cup ToSet(pkts)
      <4>1. \A pkt \in made : pkt.meas >= k
        BY <1>3, <1>11 DEF InStep, NoneLost
      <4>2. QED  BY <1>7, <4>1
    <3>2. Got(K)' = Got(K)
      BY <1>10 DEF Got
    <3>3. made' = Got(K)' \cup OnAir'
      BY <1>8, <3>1, <3>2 DEF InStep, NoneLost
    <3>4. \A pkt \in made' : pkt.meas = K - 1
      BY <1>9, <1>11, <3>1 DEF InStep, NoneLost
    <3>5. made' # {}
      BY <1>9, <3>1
    <3>6. QED  BY <3>3, <3>4, <3>5 DEF NoneLost
  <2>3. SinkInStep(K)'
    BY <1>10 DEF InStep, SinkInStep
  <2>4. QED  BY <2>1, <2>2, <2>3 DEF InStep
<1>12. CASE k = K
  <2>1. \A d \in Clusters : Len(info[d]) = K
    BY <1>2, <1>3, <1>4, <1>12 DEF InStep, HeadsInStep
  <2>2. AirEmpty
    BY <1>2, <1>4, <1>12, <2>1
  <2>3. /\ K > 0 => seqCount = K - 1
        /\ K = 0 => seqCount = 0 /\ inBuf = <<>>
    BY <1>2, <2>2, AllArrived
  <2>4. HeadsInStep(K + 1)'
    <3>1. Len(info'[c]) = K + 1
      BY <1>5, <1>12
    <3>2. \A d \in Clusters : d # c => Len(info'[d]) = K
      BY <1>5, <2>1
    <3>3. K = (K + 1) - 1
      BY <1>2
    <3>4. \A d \in Clusters : Len(info'[d]) \in {(K + 1) - 1, K + 1}
      BY <3>1, <3>2, <3>3
    <3>5. QED  BY <3>1, <3>4 DEF HeadsInStep
  <2>5. made' = ToSet(pkts)
    <3>1. \A pkt \in made : ~(pkt.meas >= k)
      BY <1>2, <1>12 DEF InStep, NoneLost
    <3>2. QED  BY <1>7, <3>1
  <2>6. Got(K + 1)' = {}
    <3>1. \A pkt \in ToSet(inBuf) : pkt.meas # (K + 1) - 1
      <4>1. CASE K = 0
        BY <2>3, <4>1 DEF ToSet
      <4>2. CASE K > 0
        BY <1>2, <2>3, <4>2, BufferedMeas
      <4>3. QED  BY <1>2, <4>1, <4>2
    <3>2. QED  BY <1>10, <3>1 DEF Got
  <2>7. OnAir' = ToSet(pkts)
    BY <1>8, <2>2, NothingOnAir
  <2>8. NoneLost(K + 1)'
    <3>1. \A pkt \in made' : pkt.meas = (K + 1) - 1
      BY <1>2, <1>9, <1>12, <2>5
    <3>2. made' # {} /\ made' = Got(K + 1)' \cup OnAir'
      BY <1>9, <2>5, <2>6, <2>7
    <3>3. QED  BY <3>1, <3>2 DEF NoneLost
  <2>9. SinkInStep(K + 1)'
    <3>1. seqCount' \in {(K + 1) - 2, (K + 1) - 1}
      BY <1>2, <1>10, <2>3
    <3>2. QED  BY <1>10, <3>1 DEF InStep, SinkInStep
  <2>10. K + 1 \in 0..MaxBatches
    BY <1>2, <1>3, <1>12
  <2>11. QED  BY <2>4, <2>8, <2>9, <2>10 DEF InStep
<1>13. QED  BY <1>3, <1>11, <1>12 DEF InStep, HeadsInStep

(* A packet of the newest measurement is accepted.                         *)
LEMMA DeliverInStep ==
  ASSUME MaxBatches <= SeqSpace, IdealInv, NEW K \in 0..MaxBatches, InStep(K),
         NEW c \in Clusters, Deliver(c)
  PROVE  InStep(K)'
<1> DEFINE pkt == Head(air[c])
<1>1. /\ air \in [Clusters -> Seq(Packets)] /\ inBuf \in Seq(Packets)
      /\ seqCount \in Nat /\ MaxBatches \in Nat /\ K \in Nat /\ rxStored \in Nat
  BY IdealInvTypes
<1>2. Arrives(c) /\ Receive(pkt) /\ info' = info /\ made' = made
  BY DEF Deliver, Arrives
<1>3. pkt \in Packets
  BY <1>2, ArrivesLinks DEF IdealInv
<1>4. OnAir = OnAir' \cup {pkt}
  BY <1>1, <1>2, TakenFromAir
<1> HIDE DEF pkt
<1>5. made = Got(K) \cup OnAir /\ pkt \in made /\ pkt.meas = K - 1
  BY <1>4 DEF InStep, NoneLost
<1>6. K - 1 \in Meas /\ K > 0 /\ SeqNo(pkt.meas) = K - 1
  <2>1. pkt.meas \in Meas
    BY <1>3 DEF Packets
  <2>2. K - 1 \in Meas
    BY <1>5, <2>1
  <2>3. SeqNo(K - 1) = K - 1
    BY <2>2, NoWrapSeqNo
  <2>4. K > 0
    BY <1>1, <2>2 DEF Meas
  <2>5. QED  BY <1>5, <2>2, <2>3, <2>4
<1>7. seqCount \in {K - 2, K - 1} /\ rxStored = seqCount
  BY <1>6 DEF InStep, SinkInStep
<1>8. HeadsInStep(K)'
  BY <1>2 DEF InStep, HeadsInStep
<1>9. ASSUME NEW rows \in Seq(Packets), inBuf' = Append(rows, pkt),
             {p \in ToSet(rows) : p.meas = K - 1} = Got(K)
      PROVE  NoneLost(K)'
  <2>1. ToSet(inBuf') = ToSet(rows) \cup {pkt}
    BY <1>3, <1>9, AppendedRows
  <2>2. Got(K)' = Got(K) \cup {pkt}
    BY <1>5, <1>9, <2>1 DEF Got
  <2>3. made' = Got(K)' \cup OnAir'
    BY <1>2, <1>4, <1>5, <2>2
  <2>4. QED  BY <1>2, <2>3 DEF InStep, NoneLost
<1>10. CASE ReceiveNewer(pkt)
  <2>1. seqCount = K - 2
    BY <1>1, <1>6, <1>7, <1>10 DEF ReceiveNewer
  <2>2. /\ inBuf' = Append(<<>>, pkt) /\ seqCount' = K - 1
        /\ rxStored' = K - 1
    BY <1>1, <1>6, <1>7, <1>10, <2>1 DEF ReceiveNewer, KeptOnReset, CountStored, Accept
  <2>3. Got(K) = {}
    BY <1>1, <2>1, BufferedMeas DEF Got
  <2>4. {p \in ToSet(<<>>) : p.meas = K - 1} = Got(K)
    BY <2>3 DEF ToSet
  <2>5. <<>> \in Seq(Packets)
    OBVIOUS
  <2>6. NoneLost(K)'
    BY <1>9, <2>2, <2>4, <2>5
  <2>7. QED  BY <1>8, <2>2, <2>6 DEF InStep, SinkInStep
<1>11. CASE ReceiveCurrent(pkt)
  <2>1. /\ inBuf' = Append(inBuf, pkt) /\ seqCount' = seqCount /\ rxStored' = rxStored
        /\ seqCount = K - 1
    BY <1>6, <1>11 DEF ReceiveCurrent, Accept
  <2>2. NoneLost(K)'
    BY <1>1, <1>9, <2>1 DEF Got
  <2>3. QED  BY <1>7, <1>8, <2>1, <2>2 DEF InStep, SinkInStep
<1>12. CASE ReceiveExpired(pkt)
  BY <1>1, <1>6, <1>7, <1>12 DEF ReceiveExpired
<1>13. QED  BY <1>2, <1>10, <1>11, <1>12 DEF Receive

LEMMA RowsBeforeRec ==
  ASSUME SinkInv, NoRowsNoRec, [SinkNext]_sinkVars
  PROVE  NoRowsNoRec'
<1>1. ASSUME NEW pkt \in Packets, NEW rows \in Seq(Packets), inBuf' = Append(rows, pkt)
      PROVE  NoRowsNoRec'
  <2>1. inBuf' # <<>>
    BY <1>1, AppendIsSeq
  <2>2. QED  BY <2>1 DEF NoRowsNoRec
<1>2. ASSUME NEW pkt \in Packets, Receive(pkt)
      PROVE  NoRowsNoRec'
  <2>1. CASE ReceiveNewer(pkt)
    <3>1. inBuf' = Append(<<>>, pkt) /\ <<>> \in Seq(Packets)
      BY <2>1 DEF ReceiveNewer, KeptOnReset, Accept
    <3>2. QED  BY <1>1, <3>1
  <2>2. CASE ReceiveCurrent(pkt)
    <3>1. inBuf' = Append(inBuf, pkt) /\ inBuf \in Seq(Packets)
      BY <2>2 DEF ReceiveCurrent, Accept, SinkInv, SinkTypeOK
    <3>2. QED  BY <1>1, <3>1
  <2>3. CASE ReceiveExpired(pkt)
    BY <2>3 DEF ReceiveExpired, NoRowsNoRec
  <2>4. QED  BY <1>2, <2>1, <2>2, <2>3 DEF Receive
<1>3. CASE WaitTimeOut
  BY <1>3 DEF WaitTimeOut, SinkInv, TimerHasRows, NoRowsNoRec
<1>4. CASE UNCHANGED sinkVars
  BY <1>4 DEF sinkVars, NoRowsNoRec
<1>5. QED  BY <1>2, <1>3, <1>4 DEF SinkNext

LEMMA InitIdealInv == Init => IdealInv
<1> SUFFICES ASSUME Init PROVE IdealInv
  OBVIOUS
<1>1. LinkTypeOK /\ SinkInv
  BY InitLinks, InitSinkInv DEF Init
<1>2. /\ info = [c \in Clusters |-> <<>>] /\ AirEmpty /\ made = {}
      /\ inBuf = <<>> /\ seqCount = 0 /\ rxStored = 0 /\ rec = Nothing
  BY DEF Init, SinkInit, AirEmpty
<1>3. HeadsInStep(0)
  BY <1>2 DEF HeadsInStep
<1>4. NoneLost(0)
  <2>1. Got(0) = {} /\ OnAir = {}
    BY <1>2, NothingOnAir DEF Got, ToSet
  <2>2. QED  BY <1>2, <2>1 DEF NoneLost
<1>5. SinkInStep(0)
  BY <1>2 DEF SinkInStep
<1>6. 0 \in 0..MaxBatches
  BY SinkNumbersAssumption
<1>7. NoRowsNoRec
  BY <1>2 DEF NoRowsNoRec
<1>8. QED  BY <1>1, <1>3, <1>4, <1>5, <1>6, <1>7 DEF IdealInv, InStep

LEMMA NextIdealInv ==
  ASSUME MaxBatches <= SeqSpace, IdealInv, [Next]_vars
  PROVE  IdealInv'
<1>1. LinkTypeOK' /\ SinkInv'
  BY NextLinks, NextIsSinkNext, NextSinkInv DEF IdealInv
<1>2. NoRowsNoRec'
  BY NextIsSinkNext, RowsBeforeRec DEF IdealInv
<1>3. ideal' = ideal
  BY DEF Next, HeadSend, Deliver, Lose, Arrives, SinkTimeOut, vars, linkVars
<1>4. ASSUME ideal PROVE \E N \in 0..MaxBatches : InStep(N)'
  <2>1. PICK K \in 0..MaxBatches : InStep(K)
    BY <1>4 DEF IdealInv
  <2>2. ASSUME NEW c \in Clusters, HeadSend(c)
        PROVE  \E N \in 0..MaxBatches : InStep(N)'
    BY <1>4, <2>1, <2>2, HeadSendInStep
  <2>3. ASSUME NEW c \in Clusters, Deliver(c)
        PROVE  InStep(K)'
    BY <2>1, <2>3, DeliverInStep
  <2>4. ASSUME NEW c \in Clusters, Lose(c)
        PROVE  FALSE
    BY <1>4, <2>4 DEF Lose
  <2>5. ASSUME SinkTimeOut \/ UNCHANGED vars
        PROVE  InStep(K)'
    <3>1. /\ info' = info /\ air' = air /\ made' = made /\ inBuf' = inBuf
          /\ seqCount' = seqCount /\ rxStored' = rxStored
      BY <2>5 DEF SinkTimeOut, WaitTimeOut, vars, linkVars, sinkVars
    <3>2. OnAir' = OnAir /\ Got(K)' = Got(K)
      BY <3>1 DEF OnAir, Got
    <3>3. QED  BY <2>1, <3>1, <3>2 DEF InStep, HeadsInStep, NoneLost, SinkInStep
  <2>6. QED  BY <2>2, <2>3, <2>4, <2>5 DEF Next
<1>5. QED  BY <1>1, <1>2, <1>3, <1>4 DEF IdealInv

LEMMA SpecIdealInv == ASSUME MaxBatches <= SeqSpace PROVE Spec => []IdealInv
<1>1. IdealInv /\ [Next]_vars => IdealInv'
  BY NextIdealInv
<1>2. QED  BY <1>1, InitIdealInv, PTL DEF Spec

(* In an ideal run the stream of packet counts has one entry per sequence  *)
(* that ended, for any number of clusters, although a reset stores one     *)
(* count however far the sequence number jumps: without loss it never      *)
(* jumps.                                                                  *)
THEOREM CountsInStep ==
  ASSUME MaxBatches <= SeqSpace
  PROVE  Spec => []IdealCountPerSeq
<1>1. IdealInv => IdealCountPerSeq
  BY DEF IdealInv, InStep, SinkInStep, IdealCountPerSeq, CountPerSeq
<1>2. QED  BY <1>1, SpecIdealInv, PTL

(* In an ideal run everything the heads sent of a measurement has been     *)
(* decoded, and together, when the links and the timeout come to rest, for *)
(* any number of clusters and packets, whatever they combine and in which  *)
(* order they arrive.                                                      *)
THEOREM IdealDecodesAll ==
  ASSUME MaxBatches <= SeqSpace
  PROVE  Spec => []AllDecoded
<1>1. IdealInv => AllDecoded
  <2> SUFFICES ASSUME IdealInv, ideal, AirEmpty, ~timer,
                      waitForAll \/ Cardinality(made) >= MinPackets
               PROVE  rec.rows = made
    BY DEF AllDecoded, Quiet
  <2>1. PICK K \in 0..MaxBatches : InStep(K)
    BY DEF IdealInv
  <2>2. made = ToSet(inBuf)
    BY <2>1, AllArrived
  <2>3. CASE inBuf = <<>>
    <3>1. rec.rows = {} /\ ToSet(inBuf) = {}
      BY <2>3 DEF IdealInv, NoRowsNoRec, Nothing, ToSet
    <3>2. QED  BY <2>2, <3>1
  <2>4. CASE inBuf # <<>>
    <3>1. UpToDate
      <4>1. CASE waitForAll
        BY <2>4, <4>1 DEF IdealInv, SinkInv, DecodedOrPending
      <4>2. CASE ~waitForAll
        <5>1. Cardinality(made) <= Len(inBuf)
          BY <2>2, IdealInvTypes, FewerThanRows
        <5>2. rxPacketsSeq = Len(inBuf)
          BY DEF IdealInv, SinkInv, BufferFresh
        <5>3. Cardinality(made) \in Nat
          BY <2>2, IdealInvTypes, FewerThanRows
        <5>4. rxPacketsSeq >= MinPackets
          BY <4>2, <5>1, <5>2, <5>3, IdealInvTypes, SinkNumbersAssumption
        <5>5. QED  BY <2>4, <4>2, <5>4 DEF IdealInv, SinkInv, DecodedAtOnce
      <4>3. QED  BY <4>1, <4>2
    <3>2. QED  BY <2>2, <3>1 DEF UpToDate, Reconstruction
  <2>5. QED  BY <2>3, <2>4
<1>2. QED  BY <1>1, SpecIdealInv, PTL
=============================================================================
