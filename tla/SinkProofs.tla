----------------------------- MODULE SinkProofs -----------------------------
(***************************************************************************)
(* Proofs about Sink, for every set of clusters, every number of packets   *)
(* and measurements, every range of sequence numbers and any packets at    *)
(* all, and about Uplinks, where the packets come from cluster heads.      *)
(***************************************************************************)
EXTENDS Uplinks, TLAPS

LEMMA SeqNoType == ASSUME NEW k \in Nat PROVE SeqNo(k) \in SeqNos
  BY SinkNumbersAssumption DEF SeqNo, SeqNos

LEMMA AppendIsSeq ==
  ASSUME NEW S, NEW s \in Seq(S), NEW x \in S
  PROVE  /\ Append(s, x) \in Seq(S)
         /\ Append(s, x) # <<>>
         /\ Len(Append(s, x)) = Len(s) + 1
         /\ \A i \in 1..Len(s) : Append(s, x)[i] = s[i]
         /\ Append(s, x)[Len(s) + 1] = x
  OBVIOUS

(* A reconstruction of buffered packets has rows, and a sequence number.   *)
LEMMA ReconstructionType ==
  ASSUME NEW rows \in Seq(Packets), rows # <<>>, NEW seq \in SeqNos
  PROVE  Reconstruction(seq, rows) \in Reconstructions
<1>1. ToSet(rows) \subseteq Packets
  BY DEF ToSet
<1>2. rows[1] \in ToSet(rows)
  BY DEF ToSet
<1> QED BY <1>1, <1>2 DEF Reconstruction, Reconstructions

LEMMA PrecodeType ==
  ASSUME NEW pkt \in Packets, precode \in [Clusters -> SUBSET Nodes]
  PROVE  Precode(pkt) \in [Clusters -> SUBSET Nodes]
  BY DEF Packets, Parts, Precode

-----------------------------------------------------------------------------
(* The inductive invariant: the properties of the buffers, and that a      *)
(* timeout event is only pending when there is something to reconstruct.   *)
TimerHasRows == timer => inBuf # <<>>

SinkInv ==
  /\ SinkTypeOK
  /\ BufferFresh
  /\ DecodedAtOnce
  /\ DecodedOrPending
  /\ TimerHasRows

LEMMA InitSinkInv == SinkInit => SinkInv
<1> SUFFICES ASSUME SinkInit PROVE SinkInv
  OBVIOUS
<1>1. SinkTypeOK
  <2>1. waitForAll \in BOOLEAN
    BY WaitAssumption DEF SinkInit
  <2>2. seqCount \in SeqNos
    BY SinkNumbersAssumption DEF SinkInit, SeqNos
  <2>3. precode \in [Clusters -> SUBSET Nodes] /\ inBuf \in Seq(Packets)
    BY DEF SinkInit
  <2>4. timer \in BOOLEAN /\ rec \in Reconstructions \cup {Nothing}
    BY DEF SinkInit
  <2>5. rxPacketsSeq \in Nat /\ rxStored \in Nat
    BY DEF SinkInit
  <2> QED BY <2>1, <2>2, <2>3, <2>4, <2>5, Zenon DEF SinkTypeOK
<1> QED BY <1>1 DEF SinkInit, SinkInv, BufferFresh, DecodedAtOnce, DecodedOrPending, TimerHasRows

(* Buffering a packet of sequence seq behind rows of that sequence.        *)
LEMMA AcceptSinkInv ==
  ASSUME SinkInv, NEW pkt \in Packets, NEW rows \in Seq(Packets), NEW seq \in SeqNos,
         SeqNo(pkt.meas) = seq,
         \A i \in 1..Len(rows) : SeqNo(rows[i].meas) = seq,
         Accept(pkt, rows, Len(rows), seq),
         rxStored' \in Nat, waitForAll' = waitForAll
  PROVE  SinkInv'
<1> DEFINE buf == Append(rows, pkt)
<1>1. /\ buf \in Seq(Packets)
      /\ buf # <<>>
      /\ Len(buf) = Len(rows) + 1
      /\ \A i \in 1..Len(rows) : buf[i] = rows[i]
      /\ buf[Len(rows) + 1] = pkt
  BY AppendIsSeq
<1>2. inBuf' = buf /\ seqCount' = seq /\ rxPacketsSeq' = Len(rows) + 1
  BY DEF Accept
<1>3. Reconstruction(seq, buf) \in Reconstructions
  BY <1>1, ReconstructionType
<1>4. Decode(buf, Len(rows) + 1, seq)
  BY DEF Accept
<1> HIDE DEF buf
<1>5. SinkTypeOK'
  <2>1. precode' \in [Clusters -> SUBSET Nodes]
    BY PrecodeType DEF Accept, SinkInv, SinkTypeOK
  <2>2. timer' \in BOOLEAN /\ rec' \in Reconstructions \cup {Nothing}
    BY <1>3, <1>4 DEF Decode, SinkInv, SinkTypeOK
  <2> QED BY <1>1, <1>2, <2>1, <2>2 DEF SinkInv, SinkTypeOK
<1>6. BufferFresh'
  BY <1>1, <1>2 DEF BufferFresh
<1>7. DecodedAtOnce'
  BY <1>2, <1>4 DEF DecodedAtOnce, Decode, UpToDate, Reconstruction
<1>8. DecodedOrPending'
  BY <1>4 DEF DecodedOrPending, Decode
<1>9. TimerHasRows'
  BY <1>1, <1>2 DEF TimerHasRows
<1> QED BY <1>5, <1>6, <1>7, <1>8, <1>9 DEF SinkInv

LEMMA NextSinkInv == SinkInv /\ [SinkNext]_sinkVars => SinkInv'
<1> SUFFICES ASSUME SinkInv, [SinkNext]_sinkVars PROVE SinkInv'
  OBVIOUS
<1> USE DEF SinkInv
<1>1. ASSUME NEW pkt \in Packets, Receive(pkt) PROVE SinkInv'
  <2>1. SeqNo(pkt.meas) \in SeqNos
    BY SeqNoType DEF Packets, Meas
  <2>2. waitForAll' = waitForAll
    BY <1>1 DEF Receive
  <2>3. CASE ReceiveNewer(pkt)
    <3>1. rxStored' \in Nat
      BY <2>3 DEF ReceiveNewer, CountStored, SinkTypeOK
    <3>2. Accept(pkt, <<>>, Len(<<>>), SeqNo(pkt.meas))
      BY <2>3 DEF ReceiveNewer, KeptOnReset
    <3>3. <<>> \in Seq(Packets) /\ \A i \in 1..Len(<<>>) : SeqNo(<<>>[i].meas) = SeqNo(pkt.meas)
      OBVIOUS
    <3> HIDE DEF SinkInv
    <3> QED BY <2>1, <2>2, <3>1, <3>2, <3>3, AcceptSinkInv DEF SinkInv
  <2>4. CASE ReceiveCurrent(pkt)
    <3>1. rxStored' \in Nat
      BY <2>4 DEF ReceiveCurrent, SinkTypeOK
    <3>2. Accept(pkt, inBuf, Len(inBuf), seqCount) /\ SeqNo(pkt.meas) = seqCount
      BY <2>4 DEF ReceiveCurrent, BufferFresh
    <3> QED BY <2>2, <3>1, <3>2, AcceptSinkInv DEF SinkTypeOK, BufferFresh
  <2>5. CASE ReceiveExpired(pkt)
    BY <2>2, <2>5 DEF ReceiveExpired, SinkTypeOK, BufferFresh, DecodedAtOnce,
       DecodedOrPending, TimerHasRows, UpToDate
  <2> QED BY <1>1, <2>3, <2>4, <2>5 DEF Receive
<1>2. CASE WaitTimeOut
  <2>1. Reconstruction(seqCount, inBuf) \in Reconstructions
    BY <1>2, ReconstructionType DEF WaitTimeOut, SinkTypeOK, TimerHasRows
  <2>2. SinkTypeOK'
    BY <1>2, <2>1 DEF WaitTimeOut, SinkTypeOK
  <2> QED BY <1>2, <2>2 DEF WaitTimeOut, BufferFresh, DecodedAtOnce, DecodedOrPending,
                            TimerHasRows, UpToDate, Reconstruction
<1>3. CASE UNCHANGED sinkVars
  BY <1>3 DEF sinkVars, SinkTypeOK, BufferFresh, DecodedAtOnce, DecodedOrPending,
              TimerHasRows, UpToDate
<1> QED BY <1>1, <1>2, <1>3 DEF SinkNext

(* Whatever packets a sink receives, its variables keep their types.       *)
THEOREM SinkTypeCorrect == SinkSpec => []SinkTypeOK
<1>1. SinkSpec => []SinkInv
  BY InitSinkInv, NextSinkInv, PTL DEF SinkSpec
<1>2. SinkInv => SinkTypeOK
  BY DEF SinkInv
<1> QED BY <1>1, <1>2, PTL

(* The reconstructor's buffers hold exactly the packets the application    *)
(* counted, all of one sequence.                                           *)
THEOREM SinkBufferFresh == SinkSpec => []BufferFresh
<1>1. SinkSpec => []SinkInv
  BY InitSinkInv, NextSinkInv, PTL DEF SinkSpec
<1>2. SinkInv => BufferFresh
  BY DEF SinkInv
<1> QED BY <1>1, <1>2, PTL

(* Without WaitAllPackets no accepted packet is left behind: what is       *)
(* buffered has been decoded when Receive returns.                         *)
THEOREM SinkDecodes == SinkSpec => []DecodedAtOnce
<1>1. SinkSpec => []SinkInv
  BY InitSinkInv, NextSinkInv, PTL DEF SinkSpec
<1>2. SinkInv => DecodedAtOnce
  BY DEF SinkInv
<1> QED BY <1>1, <1>2, PTL

(* With WaitAllPackets it is decoded, or a timeout event is pending that   *)
(* will decode it.                                                         *)
THEOREM SinkDecodesLater == SinkSpec => []DecodedOrPending
<1>1. SinkSpec => []SinkInv
  BY InitSinkInv, NextSinkInv, PTL DEF SinkSpec
<1>2. SinkInv => DecodedOrPending
  BY DEF SinkInv
<1> QED BY <1>1, <1>2, PTL

(* Why attempts improve: the last reconstruction is of the sequence the    *)
(* sink is at, and then all it used is still buffered, or of an older one. *)
RecBehind ==
  /\ rec.seq <= seqCount
  /\ rec.seq = seqCount => rec.rows \subseteq ToSet(inBuf)

Improves ==
  \/ rec.seq < rec'.seq
  \/ rec.seq = rec'.seq /\ rec.rows \subseteq rec'.rows

LEMMA NextImproves ==
  ASSUME SinkInv, RecBehind, [SinkNext]_sinkVars
  PROVE  RecBehind' /\ (UNCHANGED rec \/ Improves)
<1>1. seqCount \in Nat /\ rec.seq \in Nat /\ inBuf \in Seq(Packets)
  BY SinkNumbersAssumption
    DEF SinkInv, SinkTypeOK, SeqNos, Reconstructions, Nothing
(* A packet is accepted behind rows that hold what was used so far.        *)
<1>2. ASSUME NEW pkt \in Packets, NEW rows \in Seq(Packets), NEW cnt, NEW seq \in Nat,
             Accept(pkt, rows, cnt, seq), rec.seq <= seq,
             rec.seq = seq => rec.rows \subseteq ToSet(rows)
      PROVE  RecBehind' /\ (UNCHANGED rec \/ Improves)
  <2> DEFINE buf == Append(rows, pkt)
  <2>1. ToSet(rows) \subseteq ToSet(buf)
    <3>1. /\ Len(buf) = Len(rows) + 1 /\ Len(rows) \in Nat
          /\ \A i \in 1..Len(rows) : buf[i] = rows[i]
      BY AppendIsSeq
    <3> HIDE DEF buf
    <3>2. QED  BY <3>1 DEF ToSet
  <2>2. seqCount' = seq /\ inBuf' = buf /\ (rec' = rec \/ rec' = Reconstruction(seq, buf))
    BY <1>2 DEF Accept, Decode
  <2> HIDE DEF buf
  <2>3. CASE rec' = rec
    BY <1>2, <2>1, <2>2, <2>3 DEF RecBehind
  <2>4. CASE rec' = Reconstruction(seq, buf)
    <3>1. rec'.seq = seq /\ rec'.rows = ToSet(buf)
      BY <2>4 DEF Reconstruction
    <3>2. RecBehind'
      BY <2>2, <3>1 DEF RecBehind
    <3>3. Improves
      BY <1>1, <1>2, <2>1, <3>1 DEF Improves
    <3>4. QED  BY <3>2, <3>3
  <2>5. QED  BY <2>2, <2>3, <2>4
<1>3. ASSUME NEW pkt \in Packets, ReceiveNewer(pkt)
      PROVE  RecBehind' /\ (UNCHANGED rec \/ Improves)
  <2>1. SeqNo(pkt.meas) \in Nat
    BY SeqNoType, SinkNumbersAssumption DEF Packets, Meas, SeqNos
  <2>2. Accept(pkt, <<>>, 0, SeqNo(pkt.meas)) /\ SeqNo(pkt.meas) > seqCount
    BY <1>3 DEF ReceiveNewer, KeptOnReset
  <2>3. rec.seq < SeqNo(pkt.meas)
    BY <1>1, <2>1, <2>2 DEF RecBehind
  <2>4. rec.seq <= SeqNo(pkt.meas) /\ rec.seq # SeqNo(pkt.meas)
    BY <1>1, <2>1, <2>3
  <2>5. <<>> \in Seq(Packets)
    OBVIOUS
  <2>6. QED  BY <1>2, <2>1, <2>2, <2>4, <2>5
<1>4. ASSUME NEW pkt \in Packets, ReceiveCurrent(pkt)
      PROVE  RecBehind' /\ (UNCHANGED rec \/ Improves)
  BY <1>1, <1>2, <1>4 DEF ReceiveCurrent, RecBehind
<1>5. ASSUME WaitTimeOut
      PROVE  RecBehind' /\ (UNCHANGED rec \/ Improves)
  BY <1>1, <1>5 DEF WaitTimeOut, Reconstruction, RecBehind, Improves
<1>6. ASSUME UNCHANGED <<seqCount, inBuf, rec>>
      PROVE  RecBehind' /\ (UNCHANGED rec \/ Improves)
  BY <1>6 DEF RecBehind
<1>7. QED
  BY <1>3, <1>4, <1>5, <1>6 DEF SinkNext, Receive, ReceiveExpired, sinkVars

(* A sequence is never reconstructed again after a later one, and a later  *)
(* attempt at a sequence uses all the rows that an earlier one used.       *)
THEOREM AttemptsOnlyImprove == SinkSpec => AttemptsImprove
<1>1. SinkInit => RecBehind
  BY SinkNumbersAssumption DEF SinkInit, RecBehind, Nothing
<1>2. SinkInv /\ RecBehind /\ [SinkNext]_sinkVars => RecBehind'
  BY NextImproves
<1>3. SinkInv /\ RecBehind /\ [SinkNext]_sinkVars =>
        [\/ rec.seq < rec'.seq
         \/ rec.seq = rec'.seq /\ rec.rows \subseteq rec'.rows]_sinkVars
  <2>1. SUFFICES ASSUME SinkInv, RecBehind, [SinkNext]_sinkVars
                 PROVE  \/ rec.seq < rec'.seq
                        \/ rec.seq = rec'.seq /\ rec.rows \subseteq rec'.rows
    OBVIOUS
  <2>2. QED  BY <2>1, NextImproves DEF Improves
<1>4. QED
  BY <1>1, <1>2, <1>3, InitSinkInv, NextSinkInv, PTL DEF SinkSpec, AttemptsImprove

-----------------------------------------------------------------------------
(* The links.                                                              *)
Batches == [meas : Meas, nodes : SUBSET Nodes]

LinkTypeOK ==
  /\ ideal \in BOOLEAN
  /\ info \in [Clusters -> Seq(Batches)]
  /\ air \in [Clusters -> Seq(Packets)]
  /\ made \subseteq Packets

LEMMA SendPktsType ==
  ASSUME LinkTypeOK, NEW c \in Clusters, Len(info[c]) < MaxBatches, NEW parts \in Parts,
         NEW k \in Meas, NEW n \in 1..MaxPerBatch
  PROVE  SendPkts(c, parts, k, n) \in Seq(Packets) /\ Len(SendPkts(c, parts, k, n)) = n
<1>1. n \in Nat /\ Len(info[c]) + 1 \in 1..MaxBatches
  BY SinkNumbersAssumption DEF LinkTypeOK
<1>2. ASSUME NEW i \in 1..n
      PROVE  [head |-> c, batch |-> Len(info[c]) + 1, idx |-> i, meas |-> k, parts |-> parts]
               \in Packets
  <2>1. i \in 1..MaxPerBatch
    BY SinkNumbersAssumption
  <2> QED BY <1>1, <2>1 DEF Packets
<1> QED BY <1>1, <1>2 DEF SendPkts

(* What a head that sends a batch does to the links.                       *)
Sends(c, k, nodes, n, parts) ==
  LET pkts == SendPkts(c, parts, k, n) IN
  /\ Len(info[c]) < MaxBatches
  /\ ideal => k = Len(info[c]) /\ Turn(k)
  /\ info' = [info EXCEPT ![c] = Append(@, [meas |-> k, nodes |-> nodes])]
  /\ air' = [air EXCEPT ![c] = @ \o pkts]
  /\ made' = IF ideal
             THEN {pkt \in made : pkt.meas >= k} \cup {pkts[i] : i \in 1..n}
             ELSE made
  /\ UNCHANGED <<ideal, sinkVars>>

LEMMA HeadSendIsSends ==
  ASSUME LinkTypeOK, NEW c \in Clusters, HeadSend(c)
  PROVE  \E k \in Meas, nodes \in SUBSET Nodes, n \in 1..MaxPerBatch, parts \in Parts :
           Sends(c, k, nodes, n, parts) /\ parts \in Combined(c, nodes, k)
<1>1. Len(info[c]) < MaxBatches
  <2>1. Len(info[c]) \in Nat /\ MaxSends[c] \in 0..MaxBatches /\ MaxBatches \in Nat
    BY MaxSendsAssumption, SinkNumbersAssumption DEF LinkTypeOK
  <2>2. Len(info[c]) < IF ideal THEN MaxBatches ELSE MaxSends[c]
    BY DEF HeadSend
  <2> QED BY <2>1, <2>2
<1>2. PICK k \in Meas, nodes \in NodeSets[c], n \in 1..MaxPerBatch :
        /\ ideal => k = Len(info[c]) /\ Turn(k)
        /\ info' = [info EXCEPT ![c] = Append(@, [meas |-> k, nodes |-> nodes])]
        /\ \E parts \in Combined(c, nodes, k) :
             LET pkts == SendPkts(c, parts, k, n) IN
             /\ air' = [air EXCEPT ![c] = @ \o pkts]
             /\ made' = IF ideal
                        THEN {pkt \in made : pkt.meas >= k} \cup {pkts[i] : i \in 1..n}
                        ELSE made
  BY DEF HeadSend
<1>3. PICK parts \in Combined(c, nodes, k) :
        LET pkts == SendPkts(c, parts, k, n) IN
        /\ air' = [air EXCEPT ![c] = @ \o pkts]
        /\ made' = IF ideal
                   THEN {pkt \in made : pkt.meas >= k} \cup {pkts[i] : i \in 1..n}
                   ELSE made
  BY <1>2
<1>4. nodes \in SUBSET Nodes /\ parts \in Parts
  BY NodeSetsAssumption DEF Combined
<1>5. UNCHANGED <<ideal, sinkVars>>
  BY DEF HeadSend
<1>6. Sends(c, k, nodes, n, parts)
  BY <1>1, <1>2, <1>3, <1>5 DEF Sends
<1> QED BY <1>4, <1>6

LEMMA HeadSendLinks ==
  ASSUME LinkTypeOK, NEW c \in Clusters, HeadSend(c)
  PROVE  LinkTypeOK'
<1>1. PICK k \in Meas, nodes \in SUBSET Nodes, n \in 1..MaxPerBatch, parts \in Parts :
        Sends(c, k, nodes, n, parts)
  BY HeadSendIsSends
<1> DEFINE pkts == SendPkts(c, parts, k, n)
<1>2. pkts \in Seq(Packets) /\ Len(pkts) = n
  BY <1>1, SendPktsType DEF Sends
<1>3. /\ air' = [air EXCEPT ![c] = @ \o pkts]
      /\ info' = [info EXCEPT ![c] = Append(@, [meas |-> k, nodes |-> nodes])]
      /\ ideal' = ideal
      /\ made' \subseteq made \cup {pkts[i] : i \in 1..n}
  BY <1>1 DEF Sends
<1>4. \A i \in 1..n : pkts[i] \in Packets
  BY <1>2
<1> HIDE DEF pkts
<1>5. air' \in [Clusters -> Seq(Packets)]
  <2>1. air[c] \o pkts \in Seq(Packets)
    BY <1>2 DEF LinkTypeOK
  <2> QED BY <1>3, <2>1 DEF LinkTypeOK
<1>6. info' \in [Clusters -> Seq(Batches)]
  <2>1. Append(info[c], [meas |-> k, nodes |-> nodes]) \in Seq(Batches)
    <3>1. info[c] \in Seq(Batches) /\ [meas |-> k, nodes |-> nodes] \in Batches
      BY DEF LinkTypeOK, Batches
    <3> QED BY <3>1
  <2> QED BY <1>3, <2>1 DEF LinkTypeOK
<1>7. made' \subseteq Packets /\ ideal' \in BOOLEAN
  BY <1>3, <1>4 DEF LinkTypeOK
<1> QED BY <1>5, <1>6, <1>7, Zenon DEF LinkTypeOK

LEMMA ArrivesLinks ==
  ASSUME LinkTypeOK, NEW c \in Clusters, Arrives(c)
  PROVE  LinkTypeOK' /\ Head(air[c]) \in Packets
<1>1. air[c] \in Seq(Packets) /\ air[c] # <<>>
  BY DEF Arrives, LinkTypeOK
<1>2. Tail(air[c]) \in Seq(Packets) /\ Head(air[c]) \in Packets
  BY <1>1
<1>3. air' \in [Clusters -> Seq(Packets)]
  BY <1>2 DEF Arrives, LinkTypeOK
<1>4. ideal' \in BOOLEAN /\ made' \subseteq Packets /\ info' \in [Clusters -> Seq(Batches)]
  BY DEF Arrives, LinkTypeOK
<1> QED BY <1>2, <1>3, <1>4, Zenon DEF LinkTypeOK

LEMMA InitLinks == Init => LinkTypeOK
<1> SUFFICES ASSUME Init PROVE LinkTypeOK
  OBVIOUS
<1>1. ideal \in BOOLEAN
  BY IdealsAssumption DEF Init
<1>2. /\ info \in [Clusters -> Seq(Batches)]
      /\ air \in [Clusters -> Seq(Packets)]
      /\ made \subseteq Packets
  BY DEF Init
<1> QED BY <1>1, <1>2, Zenon DEF LinkTypeOK

LEMMA NextLinks == LinkTypeOK /\ [Next]_vars => LinkTypeOK'
<1> SUFFICES ASSUME LinkTypeOK, [Next]_vars PROVE LinkTypeOK'
  OBVIOUS
<1>1. ASSUME NEW c \in Clusters, HeadSend(c) PROVE LinkTypeOK'
  BY <1>1, HeadSendLinks
<1>2. ASSUME NEW c \in Clusters, Deliver(c) \/ Lose(c) PROVE LinkTypeOK'
  BY <1>2, ArrivesLinks DEF Deliver, Lose
<1>3. CASE SinkTimeOut
  <2>1. ideal' = ideal /\ info' = info /\ air' = air /\ made' = made
    BY <1>3 DEF SinkTimeOut, linkVars
  <2> QED BY <2>1 DEF LinkTypeOK
<1>4. CASE UNCHANGED vars
  <2>1. ideal' = ideal /\ info' = info /\ air' = air /\ made' = made
    BY <1>4 DEF vars, linkVars
  <2> QED BY <2>1 DEF LinkTypeOK
<1> QED BY <1>1, <1>2, <1>3, <1>4 DEF Next

(* Every step of the network is a step of the sink, or leaves it alone.    *)
LEMMA NextIsSinkNext == LinkTypeOK /\ [Next]_vars => [SinkNext]_sinkVars
<1> SUFFICES ASSUME LinkTypeOK, [Next]_vars PROVE [SinkNext]_sinkVars
  OBVIOUS
<1>1. ASSUME NEW c \in Clusters, HeadSend(c) \/ Lose(c) PROVE UNCHANGED sinkVars
  BY <1>1 DEF HeadSend, Lose
<1>2. ASSUME NEW c \in Clusters, Deliver(c) PROVE SinkNext
  BY <1>2, ArrivesLinks DEF Deliver, SinkNext
<1>3. CASE SinkTimeOut
  BY <1>3 DEF SinkTimeOut, SinkNext
<1>4. CASE UNCHANGED vars
  BY <1>4 DEF vars
<1> QED BY <1>1, <1>2, <1>3, <1>4 DEF Next

(* The network's sink behaves like a sink on its own, so that what is      *)
(* proved of that holds in the network.                                    *)
THEOREM UplinksHasSink == Spec => SinkSpec
<1>1. Init => SinkInit
  BY DEF Init
<1>2. Spec => []LinkTypeOK
  BY InitLinks, NextLinks, PTL DEF Spec
<1> QED BY <1>1, <1>2, NextIsSinkNext, PTL DEF Spec, SinkSpec

(* Every variable of the network has its type.                             *)
THEOREM UplinksTypeCorrect == Spec => []TypeOK
<1>1. Spec => []LinkTypeOK
  BY InitLinks, NextLinks, PTL DEF Spec
<1>2. LinkTypeOK /\ SinkTypeOK => TypeOK
  BY DEF LinkTypeOK, Batches, TypeOK
<1> QED BY <1>1, <1>2, UplinksHasSink, SinkTypeCorrect, PTL
-----------------------------------------------------------------------------
(* Head d has sent a batch with number k of these nodes.                   *)
Named(d, k, nodes, inf) ==
  \E j \in 1..Len(inf[d]) : inf[d][j].meas = k /\ inf[d][j].nodes = nodes

(* What a packet says of a cluster is what the cluster's head did.         *)
Truthful(pkt, inf) ==
  \A d \in Clusters : IsSrcInfoSet(pkt, d) => Named(d, pkt.meas, pkt.parts[d], inf)

AllTruthful ==
  /\ \A c \in Clusters : \A i \in 1..Len(air[c]) : Truthful(air[c][i], info)
  /\ \A i \in 1..Len(inBuf) : Truthful(inBuf[i], info)

(* The precoding of a cluster with data in a buffered row is that of a     *)
(* batch with the row's number, not of another measurement.                *)
PrecodeNamed ==
  \A i \in 1..Len(inBuf) : \A c \in Clusters :
    IsSrcInfoSet(inBuf[i], c) => Named(c, inBuf[i].meas, precode[c], info)

UInv == LinkTypeOK /\ SinkInv /\ AllTruthful /\ PrecodeNamed

(* A cluster that used a number once has one precoding of that number.     *)
LEMMA NamedMatches ==
  ASSUME AllTruthful, PrecodeNamed
  PROVE  PrecodeMatches
<1> SUFFICES ASSUME NEW i \in 1..Len(inBuf), NEW c \in Clusters, IsSrcInfoSet(inBuf[i], c),
                    ~UsedTwice(c, inBuf[i].meas)
             PROVE  precode[c] = inBuf[i].parts[c]
  BY DEF PrecodeMatches
<1>1. PICK j \in 1..Len(info[c]) :
        info[c][j].meas = inBuf[i].meas /\ info[c][j].nodes = inBuf[i].parts[c]
  BY DEF AllTruthful, Truthful, Named
<1>2. PICK l \in 1..Len(info[c]) :
        info[c][l].meas = inBuf[i].meas /\ info[c][l].nodes = precode[c]
  BY DEF PrecodeNamed, Named
<1>3. j = l
  BY <1>1, <1>2 DEF UsedTwice
<1> QED BY <1>1, <1>2, <1>3

(* Sequence numbers that do not wrap around tell measurements apart.       *)
LEMMA NoWrapSeqNo ==
  ASSUME MaxBatches <= SeqSpace, NEW k \in Meas
  PROVE  SeqNo(k) = k
<1>1. k \in Nat /\ k < SeqSpace /\ SeqSpace \in Nat
  BY SinkNumbersAssumption DEF Meas
<1> QED BY <1>1 DEF SeqNo

(* What a head did stays so while heads go on.                             *)
Grows(inf, more) ==
  \A d \in Clusters : /\ Len(more[d]) >= Len(inf[d])
                      /\ Len(more[d]) \in Nat
                      /\ \A k \in 1..Len(inf[d]) : more[d][k] = inf[d][k]

LEMMA NamedStays ==
  ASSUME LinkTypeOK, Grows(info, info'), NEW d \in Clusters, NEW k, NEW nodes,
         Named(d, k, nodes, info)
  PROVE  Named(d, k, nodes, info')
<1>1. PICK j \in 1..Len(info[d]) : info[d][j].meas = k /\ info[d][j].nodes = nodes
  BY DEF Named
<1>2. Len(info[d]) \in Nat
  BY DEF LinkTypeOK
<1>3. j \in 1..Len(info'[d]) /\ info'[d][j] = info[d][j]
  BY <1>2 DEF Grows
<1> QED BY <1>1, <1>3 DEF Named

LEMMA TruthfulStays ==
  ASSUME LinkTypeOK, Grows(info, info'), NEW pkt \in Packets, Truthful(pkt, info)
  PROVE  Truthful(pkt, info')
<1> SUFFICES ASSUME NEW d \in Clusters, IsSrcInfoSet(pkt, d)
             PROVE  Named(d, pkt.meas, pkt.parts[d], info')
  BY DEF Truthful
<1>1. Named(d, pkt.meas, pkt.parts[d], info)
  BY DEF Truthful
<1> QED BY <1>1, NamedStays

(* A batch that was sent is named by its head from then on.                *)
LEMMA SentGrows ==
  ASSUME LinkTypeOK, NEW c \in Clusters, NEW k \in Meas, NEW nodes \in SUBSET Nodes,
         info' = [info EXCEPT ![c] = Append(@, [meas |-> k, nodes |-> nodes])]
  PROVE  Grows(info, info') /\ Named(c, k, nodes, info')
<1> DEFINE b == [meas |-> k, nodes |-> nodes]
<1>1. b.meas = k /\ b.nodes = nodes /\ b \in Batches
  BY DEF Batches
<1>2. info \in [Clusters -> Seq(Batches)] /\ info' = [info EXCEPT ![c] = Append(@, b)]
  BY DEF LinkTypeOK
<1> HIDE DEF b
<1>3. /\ Len(info'[c]) = Len(info[c]) + 1 /\ Len(info[c]) \in Nat
      /\ info'[c][Len(info[c]) + 1] = b
      /\ \A j \in 1..Len(info[c]) : info'[c][j] = info[c][j]
  <2>1. info[c] \in Seq(Batches) /\ info'[c] = Append(info[c], b)
    BY <1>2
  <2> QED BY <1>1, <2>1, AppendIsSeq
<1>4. \A d \in Clusters : d # c => info'[d] = info[d] /\ Len(info[d]) \in Nat
  BY <1>2
<1>5. Grows(info, info')
  BY <1>3, <1>4 DEF Grows
<1>6. Named(c, k, nodes, info')
  <2>1. Len(info[c]) + 1 \in 1..Len(info'[c])
    BY <1>3
  <2> QED BY <1>1, <1>3, <2>1 DEF Named
<1> QED BY <1>5, <1>6

(* What a head puts together of the batches with a number is truthful.     *)
LEMMA CombinedTruthful ==
  ASSUME LinkTypeOK, Grows(info, info'), NEW c \in Clusters, NEW k \in Meas,
         NEW nodes \in SUBSET Nodes, NEW parts \in Combined(c, nodes, k),
         Named(c, k, nodes, info'), NEW d \in Clusters, parts[d] # {}
  PROVE  Named(d, k, parts[d], info')
<1>1. parts[d] \in NodesOf(d, k) \/ (d = c /\ parts[d] = nodes)
  BY DEF Combined
<1>2. CASE parts[d] \in NodesOf(d, k)
  <2>1. Named(d, k, parts[d], info)
    BY <1>2 DEF NodesOf, Named
  <2> QED BY <2>1, NamedStays
<1>3. CASE d = c /\ parts[d] = nodes
  BY <1>3
<1> QED BY <1>1, <1>2, <1>3

LEMMA HeadSendTruthful ==
  ASSUME UInv, NEW c \in Clusters, HeadSend(c)
  PROVE  AllTruthful' /\ PrecodeNamed'
<1>1. PICK k \in Meas, nodes \in SUBSET Nodes, n \in 1..MaxPerBatch, parts \in Parts :
        Sends(c, k, nodes, n, parts) /\ parts \in Combined(c, nodes, k)
  BY HeadSendIsSends DEF UInv
<1> DEFINE pkts == SendPkts(c, parts, k, n)
<1>2. /\ air' = [air EXCEPT ![c] = @ \o pkts]
      /\ info' = [info EXCEPT ![c] = Append(@, [meas |-> k, nodes |-> nodes])]
      /\ inBuf' = inBuf /\ precode' = precode
      /\ air \in [Clusters -> Seq(Packets)]
  BY <1>1 DEF Sends, sinkVars, UInv, LinkTypeOK
<1>3. Grows(info, info') /\ Named(c, k, nodes, info')
  BY <1>2, SentGrows DEF UInv
<1>4. n \in Nat
  BY SinkNumbersAssumption
<1>5. pkts \in Seq(Packets) /\ Len(pkts) = n
  BY <1>1, SendPktsType DEF Sends, UInv
<1>6. ASSUME NEW i \in 1..n PROVE Truthful(pkts[i], info')
  <2>1. pkts[i].meas = k /\ pkts[i].parts = parts
    BY DEF SendPkts
  <2> HIDE DEF pkts
  <2>2. ASSUME NEW d \in Clusters, IsSrcInfoSet(pkts[i], d)
        PROVE  Named(d, pkts[i].meas, pkts[i].parts[d], info')
    BY <1>1, <1>3, <2>1, <2>2, CombinedTruthful DEF IsSrcInfoSet, UInv
  <2> QED BY <2>2 DEF Truthful
<1>7. ASSUME NEW d \in Clusters, NEW i \in 1..Len(air'[d]) PROVE Truthful(air'[d][i], info')
  <2> HIDE DEF pkts
  <2>1. CASE d = c /\ i > Len(air[c])
    <3>1. air'[d] = air[c] \o pkts /\ air[c] \in Seq(Packets)
      BY <1>2, <2>1 DEF pkts
    <3>2. i - Len(air[c]) \in 1..n /\ air'[d][i] = pkts[i - Len(air[c])]
      BY <1>5, <2>1, <3>1
    <3> QED BY <1>6, <3>2
  <2>2. CASE ~(d = c /\ i > Len(air[c]))
    <3>1. i \in 1..Len(air[d]) /\ air'[d][i] = air[d][i] /\ air[d] \in Seq(Packets)
      BY <1>2, <1>5, <2>2 DEF pkts
    <3>2. air[d][i] \in Packets /\ Truthful(air[d][i], info)
      BY <3>1 DEF UInv, AllTruthful
    <3>3. Truthful(air[d][i], info')
      BY <1>3, <3>2, TruthfulStays DEF UInv
    <3> QED BY <3>1, <3>3
  <2> QED BY <2>1, <2>2
<1>8. ASSUME NEW i \in 1..Len(inBuf), NEW d \in Clusters, IsSrcInfoSet(inBuf[i], d)
      PROVE  Named(d, inBuf[i].meas, precode[d], info')
  BY <1>3, <1>8, NamedStays DEF UInv, PrecodeNamed
<1>9. ASSUME NEW i \in 1..Len(inBuf') PROVE Truthful(inBuf'[i], info')
  <2>1. inBuf[i] \in Packets /\ Truthful(inBuf[i], info)
    BY <1>2, <1>9 DEF UInv, AllTruthful, SinkInv, SinkTypeOK
  <2>2. Truthful(inBuf[i], info')
    BY <1>3, <2>1, TruthfulStays DEF UInv
  <2> QED BY <1>2, <2>2
<1> QED BY <1>2, <1>7, <1>8, <1>9 DEF AllTruthful, PrecodeNamed

(* A truthful packet that is buffered behind truthful rows of the same     *)
(* measurement leaves precodings of batches of that measurement.           *)
LEMMA AcceptPrecode ==
  ASSUME MaxBatches <= SeqSpace, UInv,
         NEW pkt \in Packets, Truthful(pkt, info),
         NEW rows \in Seq(Packets), NEW seq, NEW cnt,
         \A i \in 1..Len(rows) :
           /\ Truthful(rows[i], info)
           /\ SeqNo(rows[i].meas) = SeqNo(pkt.meas)
           /\ \A c \in Clusters : IsSrcInfoSet(rows[i], c) =>
                Named(c, rows[i].meas, precode[c], info),
         Accept(pkt, rows, cnt, seq), info' = info
  PROVE  /\ PrecodeNamed'
         /\ \A i \in 1..Len(inBuf') : Truthful(inBuf'[i], info')
<1>1. /\ inBuf' \in Seq(Packets) /\ Len(inBuf') = Len(rows) + 1
      /\ \A i \in 1..Len(rows) : inBuf'[i] = rows[i]
      /\ inBuf'[Len(rows) + 1] = pkt
      /\ precode' = Precode(pkt)
  BY AppendIsSeq DEF Accept
<1>2. ASSUME NEW c \in Clusters, IsSrcInfoSet(pkt, c)
      PROVE  Named(c, pkt.meas, precode'[c], info)
  <2>1. precode'[c] = pkt.parts[c]
    BY <1>1, <1>2 DEF Precode
  <2> QED BY <1>2, <2>1 DEF Truthful
<1>3. ASSUME NEW i \in 1..Len(rows), NEW c \in Clusters, IsSrcInfoSet(rows[i], c)
      PROVE  Named(c, rows[i].meas, precode'[c], info)
  <2>1. rows[i].meas \in Meas /\ pkt.meas \in Meas
    <3>1. rows[i] \in Packets
      OBVIOUS
    <3> QED BY <3>1 DEF Packets
  <2>2. rows[i].meas = pkt.meas
    BY <2>1, NoWrapSeqNo
  <2>3. CASE IsSrcInfoSet(pkt, c)
    BY <1>2, <2>2, <2>3
  <2>4. CASE ~IsSrcInfoSet(pkt, c)
    <3>1. precode'[c] = precode[c]
      BY <1>1, <2>4 DEF Precode
    <3> QED BY <1>3, <3>1
  <2> QED BY <2>3, <2>4
<1>4. ASSUME NEW i \in 1..Len(inBuf')
      PROVE  /\ Truthful(inBuf'[i], info')
             /\ \A c \in Clusters : IsSrcInfoSet(inBuf'[i], c) =>
                  Named(c, inBuf'[i].meas, precode'[c], info')
  <2>1. CASE i = Len(rows) + 1
    BY <1>1, <1>2, <2>1
  <2>2. CASE i # Len(rows) + 1
    <3>1. i \in 1..Len(rows)
      BY <1>1, <2>2
    <3> QED BY <1>1, <1>3, <3>1
  <2> QED BY <2>1, <2>2
<1> QED BY <1>4 DEF PrecodeNamed

LEMMA DeliverUInv ==
  ASSUME MaxBatches <= SeqSpace, UInv, NEW c \in Clusters, Deliver(c)
  PROVE  AllTruthful' /\ PrecodeNamed'
<1> DEFINE pkt == Head(air[c])
<1>1. /\ air[c] \in Seq(Packets) /\ air[c] # <<>>
      /\ air' = [air EXCEPT ![c] = Tail(@)] /\ info' = info
      /\ air \in [Clusters -> Seq(Packets)]
      /\ Receive(pkt)
  BY DEF Deliver, Arrives, UInv, LinkTypeOK
<1>2. pkt \in Packets /\ Truthful(pkt, info)
  <2>1. 1 \in 1..Len(air[c]) /\ pkt = air[c][1] /\ pkt \in Packets
    BY <1>1
  <2> HIDE DEF pkt
  <2> QED BY <2>1 DEF UInv, AllTruthful
<1> HIDE DEF pkt
<1>3. ASSUME NEW d \in Clusters, NEW i \in 1..Len(air'[d]) PROVE Truthful(air'[d][i], info')
  <2>1. CASE d = c
    <3>1. i + 1 \in 1..Len(air[c]) /\ air'[c][i] = air[c][i + 1]
      BY <1>1, <2>1
    <3> QED BY <1>1, <2>1, <3>1 DEF UInv, AllTruthful
  <2>2. CASE d # c
    <3>1. air'[d] = air[d]
      BY <1>1, <2>2
    <3> QED BY <1>1, <3>1 DEF UInv, AllTruthful
  <2> QED BY <2>1, <2>2
<1>4. /\ inBuf \in Seq(Packets)
      /\ \A i \in 1..Len(inBuf) :
           /\ Truthful(inBuf[i], info)
           /\ SeqNo(inBuf[i].meas) = seqCount
           /\ \A d \in Clusters : IsSrcInfoSet(inBuf[i], d) =>
                Named(d, inBuf[i].meas, precode[d], info)
  BY DEF UInv, SinkInv, SinkTypeOK, BufferFresh, AllTruthful, PrecodeNamed
<1>5. /\ PrecodeNamed'
      /\ \A i \in 1..Len(inBuf') : Truthful(inBuf'[i], info')
  <2>1. CASE ReceiveNewer(pkt)
    <3>1. Accept(pkt, <<>>, 0, SeqNo(pkt.meas))
      BY <2>1 DEF ReceiveNewer, KeptOnReset
    <3>2. <<>> \in Seq(Packets) /\ 1..Len(<<>>) = {}
      OBVIOUS
    <3> QED BY <1>1, <1>2, <3>1, <3>2, AcceptPrecode
  <2>2. CASE ReceiveCurrent(pkt)
    <3>1. Accept(pkt, inBuf, rxPacketsSeq, seqCount) /\ SeqNo(pkt.meas) = seqCount
      BY <2>2 DEF ReceiveCurrent
    <3> QED BY <1>1, <1>2, <1>4, <3>1, AcceptPrecode
  <2>3. CASE ReceiveExpired(pkt)
    BY <1>1, <1>4, <2>3 DEF ReceiveExpired, PrecodeNamed
  <2> QED BY <1>1, <2>1, <2>2, <2>3 DEF Receive
<1> QED BY <1>3, <1>5 DEF AllTruthful

(* A step that leaves packets where they are, or drops one.                *)
LEMMA QuietUInv ==
  ASSUME UInv, inBuf' = inBuf, precode' = precode, info' = info,
         air' \in [Clusters -> Seq(Packets)],
         \A d \in Clusters : air'[d] = air[d] \/ (air[d] # <<>> /\ air'[d] = Tail(air[d]))
  PROVE  AllTruthful' /\ PrecodeNamed'
<1>1. ASSUME NEW d \in Clusters, NEW i \in 1..Len(air'[d]) PROVE Truthful(air'[d][i], info')
  <2>1. air[d] \in Seq(Packets)
    BY DEF UInv, LinkTypeOK
  <2>2. PICK j \in 1..Len(air[d]) : air'[d][i] = air[d][j]
    <3>1. CASE air'[d] = air[d]
      BY <3>1
    <3>2. CASE air[d] # <<>> /\ air'[d] = Tail(air[d])
      <4>1. i + 1 \in 1..Len(air[d]) /\ air'[d][i] = air[d][i + 1]
        BY <2>1, <3>2
      <4> QED BY <4>1
    <3> QED BY <3>1, <3>2
  <2> QED BY <2>2 DEF UInv, AllTruthful
<1> QED BY <1>1 DEF UInv, AllTruthful, PrecodeNamed

LEMMA InitUInv == Init => UInv
<1> SUFFICES ASSUME Init PROVE UInv
  OBVIOUS
<1>1. LinkTypeOK /\ SinkInv
  BY InitLinks, InitSinkInv DEF Init
<1>2. inBuf = <<>> /\ \A c \in Clusters : air[c] = <<>>
  BY DEF Init, SinkInit
<1> QED BY <1>1, <1>2 DEF UInv, AllTruthful, PrecodeNamed

LEMMA NextUInv == MaxBatches <= SeqSpace /\ UInv /\ [Next]_vars => UInv'
<1> SUFFICES ASSUME MaxBatches <= SeqSpace, UInv, [Next]_vars PROVE UInv'
  OBVIOUS
<1>1. LinkTypeOK' /\ SinkInv'
  BY NextLinks, NextIsSinkNext, NextSinkInv DEF UInv
<1>2. ASSUME NEW c \in Clusters, HeadSend(c) PROVE AllTruthful' /\ PrecodeNamed'
  BY <1>2, HeadSendTruthful
<1>3. ASSUME NEW c \in Clusters, Deliver(c) PROVE AllTruthful' /\ PrecodeNamed'
  BY <1>3, DeliverUInv
<1>4. ASSUME NEW c \in Clusters, Lose(c) PROVE AllTruthful' /\ PrecodeNamed'
  <2>1. /\ inBuf' = inBuf /\ precode' = precode /\ info' = info
        /\ air[c] # <<>> /\ air' = [air EXCEPT ![c] = Tail(@)]
    BY <1>4 DEF Lose, Arrives, sinkVars
  <2>2. air' \in [Clusters -> Seq(Packets)] /\ air \in [Clusters -> Seq(Packets)]
    BY <1>1 DEF LinkTypeOK, UInv
  <2>3. \A d \in Clusters : air'[d] = air[d] \/ (air[d] # <<>> /\ air'[d] = Tail(air[d]))
    BY <2>1, <2>2
  <2> QED BY <2>1, <2>2, <2>3, QuietUInv
<1>5. ASSUME SinkTimeOut \/ UNCHANGED vars PROVE AllTruthful' /\ PrecodeNamed'
  <2>1. inBuf' = inBuf /\ precode' = precode /\ info' = info /\ air' = air
    BY <1>5 DEF SinkTimeOut, WaitTimeOut, vars, sinkVars, linkVars
  <2> QED BY <1>1, <2>1, QuietUInv DEF LinkTypeOK
<1>6. AllTruthful' /\ PrecodeNamed'
  BY <1>2, <1>3, <1>4, <1>5 DEF Next
<1> QED BY <1>1, <1>6 DEF UInv

(* As long as sequence numbers do not wrap around, the precoding matrices  *)
(* the sink reconstructs with are those of the rows it reconstructs from,  *)
(* although they are never cleared and every packet overwrites some,       *)
(* whatever is lost and however heads leave numbers out and go back.  The  *)
(* exception is a cluster whose head used the number of the row twice:     *)
(* the sink may have the precoding of its other batch with that number.    *)
THEOREM PrecodeCorrect ==
  ASSUME MaxBatches <= SeqSpace
  PROVE  Spec => []PrecodeMatches
<1>1. UInv /\ [Next]_vars => UInv'
  BY NextUInv
<1>2. Spec => []UInv
  BY <1>1, InitUInv, PTL DEF Spec
<1>3. UInv => PrecodeMatches
  BY NamedMatches DEF UInv
<1> QED BY <1>2, <1>3, PTL
=============================================================================
