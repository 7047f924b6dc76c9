------------------------ MODULE SensorClusterProofs ------------------------
(***************************************************************************)
(* Proofs about a cluster: for every set of sources, number of             *)
(* measurements and timing.  The head of a cluster is a head as            *)
(* ClusterHead describes it, so what ClusterHeadProofs shows of a head     *)
(* that may receive anything holds of it too.                              *)
(***************************************************************************)
EXTENDS SensorCluster, ClusterHeadProofs, FiniteSetTheorems

(* The types hold at the start and are kept by every step.                 *)
LEMMA InitTypeOK == Init => TypeOK
  BY HeadInitHInv, NumbersAssumption DEF Init, TypeOK, HInv, Meas

(* A step of the cluster is a step of the head, or leaves the head alone.  *)
LEMMA StepOfHead == TypeOK /\ [Next]_vars => [HeadNext]_headVars
<1> SUFFICES ASSUME TypeOK, [Next]_vars
             PROVE  [HeadNext]_headVars
  OBVIOUS
<1>1. ASSUME HeadMeasure
      PROVE  HeadNext
  BY <1>1 DEF HeadMeasure, HeadNext
<1>2. ASSUME NEW n \in Sources, SrcMeasure(n) \/ Lose(n)
      PROVE  UNCHANGED headVars
  BY <1>2 DEF SrcMeasure, Lose
<1>3. ASSUME NEW n \in Sources, Deliver(n)
      PROVE  HeadNext
  <2>1. link[n] \in Seq(Meas) /\ link[n] # <<>>
    BY <1>3 DEF TypeOK, Deliver, Arrives
  <2>2. [node |-> n, meas |-> Head(link[n])] \in Packets
    BY <2>1, HeadTailProperties DEF Packets
  <2>3. QED  BY <1>3, <2>2 DEF Deliver, HeadNext
<1>4. ASSUME HeadTimeOut
      PROVE  HeadNext
  BY <1>4 DEF HeadTimeOut, HeadNext
<1>5. ASSUME HeadStop
      PROVE  HeadNext
  BY <1>5 DEF HeadStop, HeadNext
<1>6. ASSUME UNCHANGED vars
      PROVE  UNCHANGED headVars
  BY <1>6 DEF vars
<1>7. QED
  BY <1>1, <1>2, <1>3, <1>4, <1>5, <1>6 DEF Next

LEMMA NextTypeOK == TypeOK /\ HInv /\ [Next]_vars => TypeOK'
<1> SUFFICES ASSUME TypeOK, HInv, [Next]_vars
             PROVE  TypeOK'
  OBVIOUS
<1>0. HeadTypeOK' /\ setting' \in Settings
  <2>1. HeadTypeOK'
    BY StepOfHead, HeadNextHInv DEF HInv
  <2>2. setting' \in Settings
    BY DEF TypeOK, Next, HeadMeasure, SrcMeasure, Deliver, Lose, Arrives, HeadTimeOut,
           HeadStop, vars, airVars
  <2>3. QED  BY <2>1, <2>2
<1>1. ASSUME NEW n \in Sources, SrcMeasure(n)
      PROVE  TypeOK'
  <2>1. measured[n] \in Meas /\ measured[n] + 1 \in Meas /\ link[n] \in Seq(Meas)
    BY <1>1, NumbersAssumption DEF TypeOK, SrcMeasure, Meas
  <2>2. Append(link[n], measured[n]) \in Seq(Meas)
    BY <2>1, AppendProperties
  <2>3. QED  BY <1>0, <1>1, <2>1, <2>2 DEF TypeOK, SrcMeasure
<1>2. ASSUME NEW n \in Sources, Deliver(n) \/ Lose(n)
      PROVE  TypeOK'
  <2>1. Arrives(n) /\ Tail(link[n]) \in Seq(Meas) /\ Head(link[n]) \in Meas
    BY <1>2, HeadTailProperties DEF TypeOK, Arrives, Deliver, Lose
  <2>2. started' \in [Sources -> Meas] /\ heard' \in Meas \cup {Empty}
    BY <1>2, <2>1 DEF TypeOK, Deliver, Lose
  <2>3. QED  BY <1>0, <2>1, <2>2 DEF TypeOK, Arrives
<1>3. ASSUME UNCHANGED airVars
      PROVE  TypeOK'
  BY <1>0, <1>3 DEF TypeOK, airVars
<1>4. QED
  BY <1>1, <1>2, <1>3 DEF Next, HeadMeasure, HeadTimeOut, HeadStop, vars

LEMMA TypesHold == Spec => [](TypeOK /\ HInv)
<1>1. Init => TypeOK /\ HInv
  BY InitTypeOK, HeadInitHInv DEF Init
<1>2. (TypeOK /\ HInv) /\ [Next]_vars => (TypeOK /\ HInv)'
  BY NextTypeOK, StepOfHead, HeadNextHInv
<1>3. QED  BY <1>1, <1>2, PTL DEF Spec
-----------------------------------------------------------------------------
(* Every variable of a cluster keeps its type.                             *)
THEOREM ClusterTypeCorrect == Spec => []TypeOK
  BY TypesHold, PTL

(* The head inside a cluster implements the head on its own.               *)
THEOREM ClusterHasHead == Spec => HeadSpec
<1>1. Init => HeadInit
  BY DEF Init
<1>2. QED
  BY <1>1, StepOfHead, TypesHold, PTL DEF Spec, HeadSpec

(* In a cluster too the head's buffer never mixes sequences, its batches   *)
(* carry the number of their source rows, the numbers follow, and          *)
(* collected rows are not forgotten: with any loss, and whatever the       *)
(* timing.                                                                 *)
THEOREM ClusterBuffer ==
  Spec => [](SrcBufFresh /\ SourceRowsMatch /\ NumbersFollow /\ RowsHaveTimer)
  BY ClusterHasHead, BufferFresh, SourceRowsMatchSeq, NumbersFollowAlways,
     CollectedRowsHaveTimer, PTL
-----------------------------------------------------------------------------
(* Measurements travel on a link in the order in which they were taken, so *)
(* that what has arrived is older than all that follows it from the same   *)
(* node: it is behind the link.  This holds however often the sequence     *)
(* numbers wrap around.                                                    *)
Ordered ==
  \A n \in Sources : \A j \in 1..Len(link[n]) :
    /\ link[n][j] < measured[n]
    /\ \A i \in 1..Len(link[n]) : i < j => link[n][i] < link[n][j]

Behind(n, k) == k < measured[n] /\ \A j \in 1..Len(link[n]) : k < link[n][j]

RowsOlder == \A i \in 1..Len(srcBuf) : Behind(srcBuf[i].node, srcBuf[i].meas)

FInv == TypeOK /\ HInv /\ Ordered /\ RowsOlder

LEMMA FlowTypes ==
  ASSUME FInv
  PROVE  /\ measured \in [Sources -> Meas] /\ link \in [Sources -> Seq(Meas)]
         /\ \A k \in Meas : k \in Nat /\ k <= MaxMeas
         /\ \A n \in Sources : \A j \in 1..Len(link[n]) : link[n][j] \in Nat
         /\ srcBuf \in Seq(Rows)
         /\ \A i \in 1..Len(srcBuf) : srcBuf[i].node \in Sources /\ srcBuf[i].meas \in Nat
<1>1. \A k \in Meas : k \in Nat /\ k <= MaxMeas
  BY NumbersAssumption DEF Meas
<1>2. \A n \in Sources : \A j \in 1..Len(link[n]) : link[n][j] \in Meas
  BY ElementOfSeq DEF FInv, TypeOK
<1>3. \A i \in 1..Len(srcBuf) : srcBuf[i] \in Rows
  BY ElementOfSeq DEF FInv, HInv, HeadTypeOK
<1>4. \A i \in 1..Len(srcBuf) : srcBuf[i].node \in Sources /\ srcBuf[i].meas \in Nat
  BY <1>1, <1>3 DEF Rows, FInv, HInv, SrcBufFresh
<1>5. QED  BY <1>1, <1>2, <1>4 DEF FInv, TypeOK, HInv, HeadTypeOK

(* What is left on the link is younger than the packet that arrives.       *)
LEMMA ArrivesFlow ==
  ASSUME FInv, NEW n \in Sources, Arrives(n)
  PROVE  /\ Head(link[n]) \in Meas
         /\ \A k \in Nat : k = Head(link[n]) => Behind(n, k)'
         /\ \A m \in Sources, k \in Nat : Behind(m, k) => Behind(m, k)'
         /\ \A k \in Nat : Behind(n, k) => k < Head(link[n])
         /\ Ordered'
<1>1. /\ link[n] \in Seq(Meas) /\ link[n] # <<>> /\ link \in [Sources -> Seq(Meas)]
      /\ link' = [link EXCEPT ![n] = Tail(@)] /\ measured' = measured
  BY FlowTypes DEF Arrives
<1>2. /\ Head(link[n]) = link[n][1] /\ 1 \in 1..Len(link[n]) /\ Head(link[n]) \in Meas
      /\ Len(link'[n]) = Len(link[n]) - 1
      /\ \A j \in 1..Len(link'[n]) : link'[n][j] = link[n][j + 1] /\ j + 1 \in 1..Len(link[n])
  BY <1>1
<1>3. \A m \in Sources : m # n => link'[m] = link[m]
  BY <1>1
<1>4. ASSUME NEW k \in Nat, k = Head(link[n])
      PROVE  Behind(n, k)'
  <2>1. k = link[n][1] /\ k < measured'[n]
    BY <1>1, <1>2, <1>4 DEF FInv, Ordered
  <2>2. ASSUME NEW j \in 1..Len(link'[n])
        PROVE  k < link'[n][j]
    <3>1. link'[n][j] = link[n][j + 1] /\ j + 1 \in 1..Len(link[n]) /\ 1 < j + 1
      BY <1>2
    <3>2. QED  BY <1>2, <2>1, <3>1 DEF FInv, Ordered
  <2>3. QED  BY <2>1, <2>2 DEF Behind
<1>5. ASSUME NEW m \in Sources, NEW k \in Nat, Behind(m, k)
      PROVE  Behind(m, k)'
  <2>1. CASE m = n
    BY <1>1, <1>2, <1>5, <2>1 DEF Behind
  <2>2. CASE m # n
    BY <1>1, <1>3, <1>5, <2>2 DEF Behind
  <2>3. QED  BY <2>1, <2>2
<1>6. \A k \in Nat : Behind(n, k) => k < Head(link[n])
  BY <1>2 DEF Behind
<1>7. Ordered'
  <2>1. ASSUME NEW m \in Sources, NEW j \in 1..Len(link'[m])
        PROVE  /\ link'[m][j] < measured'[m]
               /\ \A i \in 1..Len(link'[m]) : i < j => link'[m][i] < link'[m][j]
    <3>1. CASE m = n
      <4>1. ASSUME NEW i \in 1..Len(link'[n]), i < j
            PROVE  link'[n][i] < link'[n][j]
        <5>1. j \in 1..Len(link'[n]) /\ i \in 1..Len(link'[n])
          BY <3>1
        <5>2. /\ i + 1 \in 1..Len(link[n]) /\ link'[n][i] = link[n][i + 1]
              /\ j + 1 \in 1..Len(link[n]) /\ link'[n][j] = link[n][j + 1]
          BY <1>2, <5>1
        <5>3. i + 1 < j + 1
          BY <4>1, <5>1
        <5>4. QED  BY <5>2, <5>3 DEF FInv, Ordered
      <4>2. link'[n][j] < measured'[n]
        BY <1>1, <1>2, <3>1 DEF FInv, Ordered
      <4>3. QED  BY <3>1, <4>1, <4>2
    <3>2. CASE m # n
      BY <1>1, <1>3, <3>2 DEF FInv, Ordered
    <3>3. QED  BY <3>1, <3>2
  <2>2. QED  BY <2>1 DEF Ordered
<1>8. QED  BY <1>2, <1>4, <1>5, <1>6, <1>7

(* A source's measurement goes to the end of its link.                     *)
LEMMA MeasureFlow ==
  ASSUME FInv, NEW n \in Sources, SrcMeasure(n)
  PROVE  /\ \A m \in Sources, k \in Nat : Behind(m, k) => Behind(m, k)'
         /\ Ordered'
<1>1. /\ measured \in [Sources -> Meas] /\ link \in [Sources -> Seq(Meas)]
      /\ measured' = [measured EXCEPT ![n] = @ + 1]
      /\ link' = [link EXCEPT ![n] = Append(@, measured[n])]
  BY FlowTypes DEF SrcMeasure
<1>2. /\ Len(link[n]) \in Nat /\ Len(link'[n]) = Len(link[n]) + 1
      /\ \A j \in 1..Len(link[n]) : link'[n][j] = link[n][j] /\ link[n][j] \in Nat
      /\ link'[n][Len(link[n]) + 1] = measured[n]
      /\ measured[n] \in Nat /\ measured'[n] = measured[n] + 1
  <2>1. link[n] \in Seq(Meas) /\ measured[n] \in Meas /\ measured[n] \in Nat
    BY <1>1, FlowTypes
  <2>2. \A j \in 1..Len(link[n]) : link[n][j] \in Nat
    BY FlowTypes
  <2>3. link'[n] = Append(link[n], measured[n]) /\ measured'[n] = measured[n] + 1
    BY <1>1
  <2>4. /\ Len(link'[n]) = Len(link[n]) + 1 /\ Len(link[n]) \in Nat
        /\ \A j \in 1..Len(link[n]) : link'[n][j] = link[n][j]
        /\ link'[n][Len(link[n]) + 1] = measured[n]
    BY <2>1, <2>3, AppendProperties
  <2>5. QED  BY <2>1, <2>2, <2>3, <2>4
<1>3. \A m \in Sources : m # n => link'[m] = link[m] /\ measured'[m] = measured[m]
  BY <1>1
<1>4. \A j \in 1..Len(link'[n]) : j \in 1..Len(link[n]) \/ j = Len(link[n]) + 1
  BY <1>2
<1>5. ASSUME NEW m \in Sources, NEW k \in Nat, Behind(m, k)
      PROVE  Behind(m, k)'
  <2>1. CASE m = n
    <3>1. k < measured[n] /\ \A j \in 1..Len(link[n]) : k < link[n][j]
      BY <1>5, <2>1 DEF Behind
    <3>2. k < measured'[n]
      BY <1>2, <3>1
    <3>3. \A j \in 1..Len(link'[n]) : k < link'[n][j]
      BY <1>2, <1>4, <3>1
    <3>4. QED  BY <2>1, <3>2, <3>3 DEF Behind
  <2>2. CASE m # n
    BY <1>3, <1>5, <2>2 DEF Behind
  <2>3. QED  BY <2>1, <2>2
<1>6. ASSUME NEW j \in 1..Len(link'[n])
      PROVE  /\ link'[n][j] < measured'[n]
             /\ \A i \in 1..Len(link'[n]) : i < j => link'[n][i] < link'[n][j]
  <2>1. \A i \in 1..Len(link[n]) : link[n][i] < measured[n]
    BY DEF FInv, Ordered
  <2>2. \A i \in 1..Len(link'[n]) : i < j => i \in 1..Len(link[n])
    BY <1>2
  <2>3. CASE j = Len(link[n]) + 1
    BY <1>2, <2>1, <2>2, <2>3
  <2>4. CASE j \in 1..Len(link[n])
    <3>1. \A i \in 1..Len(link[n]) : i < j => link[n][i] < link[n][j]
      BY <2>4 DEF FInv, Ordered
    <3>2. link'[n][j] = link[n][j] /\ link[n][j] < measured'[n]
      BY <1>2, <2>1, <2>4
    <3>3. QED  BY <1>2, <2>2, <3>1, <3>2
  <2>5. QED  BY <1>4, <2>3, <2>4
<1>7. Ordered'
  BY <1>3, <1>6 DEF FInv, Ordered
<1>8. QED  BY <1>5, <1>7

(* What a packet does to the head's rows: it is buffered or dropped, or    *)
(* the buffer is sent before it is.                                        *)
Sends ==
  /\ yTemp' = Empty
  /\ \E cnt : batches' = Append(batches, BatchOf(nextSeq, CompressNextSpat, cnt))

Takes(pkt) ==
  \/ srcBuf' \in {srcBuf, Append(srcBuf, pkt)} /\ UNCHANGED <<batches, yTemp>>
  \/ srcBuf' \in {<<>>, <<pkt>>} /\ Sends

LEMMA ReceiveTakes == ASSUME NEW pkt, ReceiveSrc(pkt) PROVE Takes(pkt)
<1>1. CASE ReceiveNewer(pkt)
  <2>1. PICK buf, cnt, seq :
          /\ buf \in {<<>>, <<pkt>>}
          /\ Closed(BatchOf(nextSeq, CompressNextSpat, cnt), seq, buf)
    BY <1>1 DEF ReceiveNewer, StartNewSeq
  <2>2. QED  BY <2>1 DEF Closed, Takes, Sends
<1>2. CASE ReceiveCurrent(pkt)
  BY <1>2 DEF ReceiveCurrent, WriteRow, Takes
<1>3. CASE ReceiveExpired(pkt)
  BY <1>3 DEF ReceiveExpired, Takes
<1>4. QED  BY <1>1, <1>2, <1>3 DEF ReceiveSrc

LEMMA TimeOutSends ==
  ASSUME TimeOut
  PROVE  UNCHANGED <<srcBuf, batches, yTemp>> \/ (srcBuf' = <<>> /\ Sends)
<1>1. PICK cnt, seq : Closed(BatchOf(nextSeq, CompressNextSpat, cnt), seq, <<>>)
  BY DEF TimeOut, StartNewSeq
<1>2. QED  BY <1>1 DEF Closed, Sends

(* A buffer that is extended has the rows it had and the new one.          *)
LEMMA BufferAfter ==
  ASSUME FInv, NEW pkt \in Rows, Takes(pkt), NEW i \in 1..Len(srcBuf')
  PROVE  srcBuf'[i] = pkt \/ \E j \in 1..Len(srcBuf) : srcBuf'[i] = srcBuf[j]
<1>1. srcBuf \in Seq(Rows)
  BY FlowTypes
<1>2. CASE srcBuf' = Append(srcBuf, pkt)
  <2>1. /\ Len(srcBuf') = Len(srcBuf) + 1 /\ Len(srcBuf) \in Nat
        /\ \A j \in 1..Len(srcBuf) : srcBuf'[j] = srcBuf[j]
        /\ srcBuf'[Len(srcBuf) + 1] = pkt
    BY <1>1, <1>2, AppendProperties
  <2>2. i \in 1..Len(srcBuf) \/ i = Len(srcBuf) + 1
    BY <2>1
  <2>3. QED  BY <2>1, <2>2
<1>3. CASE srcBuf' = srcBuf
  BY <1>3
<1>4. CASE srcBuf' = <<>>
  BY <1>4
<1>5. CASE srcBuf' = <<pkt>>
  <2>1. i = 1
    BY <1>5
  <2>2. QED  BY <1>5, <2>1
<1>6. QED  BY <1>2, <1>3, <1>4, <1>5 DEF Takes

LEMMA NextFInv == FInv /\ [Next]_vars => FInv'
<1> SUFFICES ASSUME FInv, [Next]_vars
             PROVE  FInv'
  OBVIOUS
<1>1. TypeOK' /\ HInv'
  BY NextTypeOK, StepOfHead, HeadNextHInv DEF FInv
(* What is behind stays behind, and the buffer gets nothing else.          *)
<1>2. ASSUME \A m \in Sources, k \in Nat : Behind(m, k) => Behind(m, k)', Ordered',
             \A i \in 1..Len(srcBuf') :
               \/ Behind(srcBuf[i].node, srcBuf[i].meas)'
               \/ \E j \in 1..Len(srcBuf) : srcBuf'[i] = srcBuf[j]
      PROVE  FInv'
  <2>1. \A j \in 1..Len(srcBuf) : Behind(srcBuf[j].node, srcBuf[j].meas)
    BY DEF FInv, RowsOlder
  <2>2. ASSUME NEW i \in 1..Len(srcBuf'), NEW j \in 1..Len(srcBuf), srcBuf'[i] = srcBuf[j]
        PROVE  Behind(srcBuf[i].node, srcBuf[i].meas)'
    <3>1. PICK m \in Sources, k \in Nat : m = srcBuf[j].node /\ k = srcBuf[j].meas
      BY FlowTypes
    <3>2. Behind(m, k)'
      BY <1>2, <2>1, <3>1
    <3>3. QED  BY <2>2, <3>1, <3>2 DEF Behind
  <2>3. RowsOlder'
    BY <1>2, <2>2 DEF RowsOlder
  <2>4. QED  BY <1>1, <1>2, <2>3 DEF FInv
<1>3. ASSUME NEW n \in Sources, Deliver(n)
      PROVE  FInv'
  <2> DEFINE m   == Head(link[n])
             pkt == [node |-> n, meas |-> m]
  <2>1. Arrives(n) /\ Takes(pkt)
    BY <1>3, ReceiveTakes DEF Deliver
  <2>2. /\ m \in Nat /\ pkt \in Rows /\ pkt.node = n /\ pkt.meas = m
    BY <2>1, ArrivesFlow, FlowTypes DEF Rows
  <2> HIDE DEF pkt, m
  <2>3. \A i \in 1..Len(srcBuf') :
          srcBuf'[i] = pkt \/ \E j \in 1..Len(srcBuf) : srcBuf'[i] = srcBuf[j]
    BY <2>1, <2>2, BufferAfter
  <2>4. /\ \A s \in Sources, k \in Nat : Behind(s, k) => Behind(s, k)'
        /\ Ordered'
        /\ \A k \in Nat : k = m => Behind(n, k)'
    BY <2>1, ArrivesFlow DEF m
  <2>5. ASSUME NEW i \in 1..Len(srcBuf'), srcBuf'[i] = pkt
        PROVE  Behind(srcBuf[i].node, srcBuf[i].meas)'
    BY <2>2, <2>4, <2>5 DEF Behind
  <2>6. QED  BY <1>2, <2>3, <2>4, <2>5
<1>4. ASSUME NEW n \in Sources, Lose(n)
      PROVE  FInv'
  <2>1. Arrives(n) /\ srcBuf' = srcBuf
    BY <1>4 DEF Lose, headVars
  <2>2. QED  BY <1>2, <2>1, ArrivesFlow
<1>5. ASSUME NEW n \in Sources, SrcMeasure(n)
      PROVE  FInv'
  <2>1. srcBuf' = srcBuf
    BY <1>5 DEF SrcMeasure, headVars
  <2>2. QED  BY <1>2, <1>5, <2>1, MeasureFlow
<1>6. ASSUME UNCHANGED <<measured, link>>, srcBuf' \in {srcBuf, <<>>}
      PROVE  FInv'
  BY <1>1, <1>6 DEF FInv, Ordered, RowsOlder, Behind
<1>7. ASSUME HeadTimeOut
      PROVE  FInv'
  BY <1>6, <1>7, TimeOutSends DEF HeadTimeOut, airVars
<1>8. ASSUME HeadMeasure \/ HeadStop \/ UNCHANGED vars
      PROVE  FInv'
  BY <1>6, <1>8
     DEF HeadMeasure, Measure, HeadStop, StopApplication, vars, headVars, airVars
<1>9. QED
  BY <1>3, <1>4, <1>5, <1>7, <1>8 DEF Next

LEMMA InitFInv == Init => FInv
<1> SUFFICES ASSUME Init PROVE FInv
  OBVIOUS
<1>1. TypeOK /\ HInv
  BY InitTypeOK, HeadInitHInv DEF Init
<1>2. srcBuf = <<>> /\ \A n \in Sources : link[n] = <<>>
  BY DEF Init, HeadInit
<1>3. QED  BY <1>1, <1>2 DEF FInv, Ordered, RowsOlder
-----------------------------------------------------------------------------
(* Why no row is compressed twice: what was compressed is behind the link  *)
(* of its node, or older than the measurement the head holds, so that      *)
(* neither the next packet nor the head's own row can be in a batch.       *)
Sent(r) == IF r.node = HeadNode THEN r.meas < own /\ (yTemp # Empty => r.meas < yTemp)
                                ELSE Behind(r.node, r.meas)

BatchesOlder == \A i \in 1..Len(batches) : \A r \in batches[i].rows : Sent(r)

OwnTaken == yTemp # Empty => yTemp < own

BInv == FInv /\ BatchesOlder /\ OwnTaken /\ CompressedOnce

LEMMA BatchTypes ==
  ASSUME FInv
  PROVE  /\ batches \in Seq(Batches) /\ Len(batches) \in Nat
         /\ \A i \in 1..Len(batches) : \A r \in batches[i].rows :
              r \in Rows /\ r.meas \in Nat /\ (r.node = HeadNode \/ r.node \in Sources)
         /\ own \in Nat /\ (yTemp # Empty => yTemp \in Nat)
<1>1. \A i \in 1..Len(batches) : batches[i] \in Batches
  BY ElementOfSeq DEF FInv, HInv, HeadTypeOK
<1>2. \A k \in Meas : k \in Nat
  BY NumbersAssumption DEF Meas
<1>3. \A r \in Rows : r.meas \in Nat /\ (r.node = HeadNode \/ r.node \in Sources)
  BY <1>2 DEF Rows
<1>4. QED  BY <1>1, <1>2, <1>3 DEF Batches, FInv, HInv, HeadTypeOK

(* A batch holds the buffered rows and perhaps the head's own.             *)
LEMMA RowsOfBatch ==
  ASSUME FInv, NEW r \in ToSet(CompressNextSpat)
  PROVE  \/ r \in ToSet(srcBuf) /\ r.node \in Sources /\ r.meas \in Nat /\ Behind(r.node, r.meas)
         \/ r = OwnRow /\ yTemp # Empty
<1>1. srcBuf \in Seq(Rows)
  BY FlowTypes
<1>2. ASSUME NEW i \in 1..Len(srcBuf), r = srcBuf[i]
      PROVE  r \in ToSet(srcBuf) /\ r.node \in Sources /\ r.meas \in Nat /\ Behind(r.node, r.meas)
  BY <1>2, FlowTypes DEF ToSet, FInv, RowsOlder
<1>3. CASE yTemp = Empty
  <2>1. PICK i \in 1..Len(srcBuf) : r = srcBuf[i]
    BY <1>3 DEF CompressNextSpat, ToSet
  <2>2. QED  BY <1>2, <2>1
<1>4. CASE yTemp # Empty
  <2>1. OwnRow \in Rows
    BY <1>4 DEF FInv, HInv, HeadTypeOK, OwnRow, Rows
  <2> DEFINE s == Append(srcBuf, OwnRow)
  <2>2. /\ Len(s) = Len(srcBuf) + 1 /\ Len(srcBuf) \in Nat
        /\ \A i \in 1..Len(srcBuf) : s[i] = srcBuf[i]
        /\ s[Len(srcBuf) + 1] = OwnRow
    BY <1>1, <2>1, AppendProperties
  <2>3. s = CompressNextSpat
    BY <1>4 DEF CompressNextSpat
  <2> HIDE DEF s
  <2>4. PICK i \in 1..Len(s) : r = s[i]
    BY <2>3 DEF ToSet
  <2>5. i \in 1..Len(srcBuf) \/ i = Len(srcBuf) + 1
    BY <2>2
  <2>6. QED  BY <1>2, <1>4, <2>2, <2>4, <2>5
<1>5. QED  BY <1>3, <1>4

(* A step that sends nothing keeps the invariant, if what it adds to the   *)
(* buffer is not in a batch.                                               *)
LEMMA NoBatchBInv ==
  ASSUME BInv, FInv', OwnTaken', batches' = batches,
         own <= own', own' \in Nat, yTemp' \in {yTemp, own},
         \A m \in Sources, k \in Nat : Behind(m, k) => Behind(m, k)',
         \A x \in ToSet(srcBuf') : x \in ToSet(srcBuf)
           \/ \A i \in 1..Len(batches) : x \notin batches[i].rows
  PROVE  BInv'
<1>1. ASSUME NEW i \in 1..Len(batches), NEW r \in batches[i].rows
      PROVE  Sent(r)'
  <2>1. /\ Sent(r) /\ r.meas \in Nat /\ own \in Nat /\ (r.node = HeadNode \/ r.node \in Sources)
    BY <1>1, BatchTypes DEF BInv, BatchesOlder
  <2>2. CASE r.node = HeadNode
    BY <2>1, <2>2, BatchTypes DEF Sent, BInv, OwnTaken
  <2>3. CASE r.node # HeadNode
    BY <2>1, <2>3 DEF Sent
  <2>4. QED  BY <2>2, <2>3
<1>2. BatchesOlder'
  BY <1>1 DEF BatchesOlder
<1>3. CompressedOnce'
  BY DEF BInv, CompressedOnce
<1>4. QED  BY <1>2, <1>3 DEF BInv

(* So does a step that sends a batch, if what is left in the buffer is not *)
(* in it or an older one.                                                  *)
LEMMA BatchBInv ==
  ASSUME BInv, FInv', Sends, own' = own,
         \A m \in Sources, k \in Nat : Behind(m, k) => Behind(m, k)',
         \A x \in ToSet(srcBuf') :
           /\ x.node # HeadNode /\ x \notin ToSet(srcBuf)
           /\ \A i \in 1..Len(batches) : x \notin batches[i].rows
  PROVE  BInv'
<1>1. PICK cnt : batches' = Append(batches, BatchOf(nextSeq, CompressNextSpat, cnt))
  BY DEF Sends
<1> DEFINE b == BatchOf(nextSeq, CompressNextSpat, cnt)
<1>2. b.rows = ToSet(CompressNextSpat)
  BY DEF BatchOf
<1> HIDE DEF b
<1>3. /\ Len(batches') = Len(batches) + 1 /\ Len(batches) \in Nat
      /\ \A i \in 1..Len(batches) : batches'[i] = batches[i]
      /\ batches'[Len(batches) + 1] = b
      /\ \A i \in 1..Len(batches') : i \in 1..Len(batches) \/ i = Len(batches) + 1
  BY <1>1, BatchTypes DEF BInv, b
<1>4. ASSUME NEW i \in 1..Len(batches), NEW r \in batches[i].rows
      PROVE  Sent(r)' /\ r \notin b.rows
  <2>1. /\ Sent(r) /\ r.meas \in Nat /\ own \in Nat /\ (r.node = HeadNode \/ r.node \in Sources)
        /\ (yTemp # Empty => yTemp \in Nat)
    BY <1>4, BatchTypes DEF BInv, BatchesOlder
  <2>2. Sent(r)'
    BY <2>1 DEF Sent, Sends
  <2>3. r \notin ToSet(srcBuf)
    BY <1>4 DEF BInv, CompressedOnce
  <2>4. ~(r = OwnRow /\ yTemp # Empty)
    <3>1. SUFFICES ASSUME r = OwnRow, yTemp # Empty PROVE FALSE
      OBVIOUS
    <3>2. r.node = HeadNode /\ r.meas = yTemp
      BY <3>1 DEF OwnRow
    <3>3. QED  BY <2>1, <3>1, <3>2 DEF Sent
  <2>5. QED  BY <1>2, <2>2, <2>3, <2>4, RowsOfBatch DEF BInv
<1>5. ASSUME NEW r \in b.rows
      PROVE  Sent(r)' /\ r \notin ToSet(srcBuf')
  <2>1. CASE r \in ToSet(srcBuf) /\ r.node \in Sources /\ r.meas \in Nat /\ Behind(r.node, r.meas)
    <3>1. r.node # HeadNode
      BY <2>1, NodesAssumption
    <3>2. QED  BY <2>1, <3>1 DEF Sent
  <2>2. CASE r = OwnRow /\ yTemp # Empty
    <3>1. r.node = HeadNode /\ r.meas = yTemp
      BY <2>2 DEF OwnRow
    <3>2. r.meas < own' /\ yTemp' = Empty
      BY <2>2, <3>1 DEF BInv, OwnTaken, Sends
    <3>3. QED  BY <3>1, <3>2 DEF Sent
  <2>3. QED  BY <1>2, <2>1, <2>2, RowsOfBatch DEF BInv
<1>6. BatchesOlder'
  BY <1>3, <1>4, <1>5 DEF BatchesOlder
<1>7. OwnTaken'
  BY DEF OwnTaken, Sends
<1>8. CompressedOnce'
  <2>1. \A i, j \in 1..Len(batches) : i # j => batches[i].rows \cap batches[j].rows = {}
    BY DEF BInv, CompressedOnce
  <2>2. \A i \in 1..Len(batches) : batches[i].rows \cap b.rows = {}
    BY <1>4
  <2>3. \A i, j \in 1..Len(batches') :
          i # j => batches'[i].rows \cap batches'[j].rows = {}
    BY <1>3, <2>1, <2>2
  <2>4. \A i \in 1..Len(batches') : batches'[i].rows \cap ToSet(srcBuf') = {}
    BY <1>3, <1>5
  <2>5. QED  BY <2>3, <2>4 DEF CompressedOnce
<1>9. QED  BY <1>6, <1>7, <1>8 DEF BInv

LEMMA NextBInv == BInv /\ [Next]_vars => BInv'
<1> SUFFICES ASSUME BInv, [Next]_vars
             PROVE  BInv'
  OBVIOUS
<1>1. FInv'
  BY NextFInv DEF BInv
<1>2. own \in Nat
  BY BatchTypes DEF BInv
<1>3. ASSUME NEW n \in Sources, Deliver(n)
      PROVE  BInv'
  <2> DEFINE m   == Head(link[n])
             pkt == [node |-> n, meas |-> m]
  <2>1. Arrives(n) /\ Takes(pkt) /\ own' = own
    BY <1>3, ReceiveTakes DEF Deliver, ReceiveSrc
  <2>2. /\ m \in Nat /\ pkt \in Rows /\ pkt.node = n /\ pkt.meas = m /\ n # HeadNode
    BY <2>1, ArrivesFlow, FlowTypes, NodesAssumption DEF Rows, BInv
  <2>3. /\ \A s \in Sources, k \in Nat : Behind(s, k) => Behind(s, k)'
        /\ \A k \in Nat : Behind(n, k) => k < m
    BY <2>1, ArrivesFlow DEF BInv
  <2> HIDE DEF pkt, m
  <2>4. \A x \in ToSet(srcBuf') : x \in ToSet(srcBuf) \/ x = pkt
    BY <2>1, <2>2, BufferAfter DEF ToSet, BInv
  <2>5. \A i \in 1..Len(batches) : pkt \notin batches[i].rows
    BY <2>2, <2>3 DEF BInv, BatchesOlder, Sent
  <2>6. pkt \notin ToSet(srcBuf)
    BY <2>2, <2>3, FlowTypes DEF BInv, FInv, RowsOlder, ToSet
  <2>7. CASE UNCHANGED <<batches, yTemp>>
    <3>1. OwnTaken'
      BY <2>1, <2>7 DEF BInv, OwnTaken
    <3>2. QED  BY <1>1, <1>2, <2>1, <2>3, <2>4, <2>5, <2>7, <3>1, NoBatchBInv
  <2>8. CASE srcBuf' \in {<<>>, <<pkt>>} /\ Sends
    <3>1. \A x \in ToSet(srcBuf') : x = pkt
      BY <2>8 DEF ToSet
    <3>2. QED  BY <1>1, <2>1, <2>2, <2>3, <2>5, <2>6, <2>8, <3>1, BatchBInv
  <2>9. QED  BY <2>1, <2>7, <2>8 DEF Takes
<1>4. ASSUME NEW n \in Sources, Lose(n) \/ SrcMeasure(n)
      PROVE  BInv'
  <2>1. UNCHANGED <<srcBuf, batches, own, yTemp>>
    BY <1>4 DEF Lose, SrcMeasure, headVars
  <2>2. \A s \in Sources, k \in Nat : Behind(s, k) => Behind(s, k)'
    BY <1>4, ArrivesFlow, MeasureFlow DEF Lose, BInv
  <2>3. OwnTaken'
    BY <2>1 DEF BInv, OwnTaken
  <2>4. QED  BY <1>1, <1>2, <2>1, <2>2, <2>3, NoBatchBInv
(* The rest leaves the links alone.                                        *)
<1>5. ASSUME UNCHANGED <<measured, link>>
      PROVE  \A s \in Sources, k \in Nat : Behind(s, k) => Behind(s, k)'
  BY <1>5 DEF Behind
<1>6. ASSUME HeadMeasure
      PROVE  BInv'
  <2>1. own' = own + 1 /\ yTemp' = own /\ UNCHANGED <<srcBuf, batches, measured, link>>
    BY <1>6 DEF HeadMeasure, Measure, airVars
  <2>2. OwnTaken' /\ own <= own' /\ own' \in Nat
    BY <1>2, <2>1 DEF OwnTaken
  <2>3. QED  BY <1>1, <1>5, <2>1, <2>2, NoBatchBInv
<1>7. ASSUME HeadTimeOut
      PROVE  BInv'
  <2>1. UNCHANGED <<measured, link, own>>
    BY <1>7 DEF HeadTimeOut, TimeOut, airVars
  <2>2. CASE UNCHANGED <<srcBuf, batches, yTemp>>
    <3>1. OwnTaken'
      BY <2>1, <2>2 DEF BInv, OwnTaken
    <3>2. QED  BY <1>1, <1>2, <1>5, <2>1, <2>2, <3>1, NoBatchBInv
  <2>3. CASE srcBuf' = <<>> /\ Sends
    <3>1. ToSet(srcBuf') = {}
      BY <2>3 DEF ToSet
    <3>2. QED  BY <1>1, <1>5, <2>1, <2>3, <3>1, BatchBInv
  <2>4. QED  BY <1>7, <2>2, <2>3, TimeOutSends DEF HeadTimeOut
<1>8. ASSUME HeadStop \/ UNCHANGED vars
      PROVE  BInv'
  <2>1. UNCHANGED <<srcBuf, batches, own, yTemp, measured, link>>
    BY <1>8 DEF HeadStop, StopApplication, vars, headVars, airVars
  <2>2. OwnTaken'
    BY <2>1 DEF BInv, OwnTaken
  <2>3. QED  BY <1>1, <1>2, <1>5, <2>1, <2>2, NoBatchBInv
<1>9. QED
  BY <1>3, <1>4, <1>6, <1>7, <1>8 DEF Next

(* No row is compressed twice or waits after it was compressed, whatever   *)
(* is lost and however late the timeout: even when the sequence numbers    *)
(* wrap around and a head returns to one it has sent already.              *)
THEOREM NeverTwice == Spec => []CompressedOnce
<1>1. Init => BInv
  <2> SUFFICES ASSUME Init PROVE BInv
    OBVIOUS
  <2>1. batches = <<>> /\ yTemp = Empty
    BY DEF Init, HeadInit
  <2>2. QED  BY <2>1, InitFInv DEF BInv, BatchesOlder, OwnTaken, CompressedOnce
<1>2. BInv => CompressedOnce
  BY DEF BInv
<1>3. QED  BY <1>1, <1>2, NextBInv, PTL DEF Spec
-----------------------------------------------------------------------------
(* Why the buffer of the head cannot overflow: as long as sequence numbers *)
(* tell measurements apart, the rows of one sequence come from different   *)
(* nodes.                                                                  *)
OneRowPerNode ==
  \A i, j \in 1..Len(srcBuf) : i # j => srcBuf[i].node # srcBuf[j].node

OInv == FInv /\ NoOverflow /\ OneRowPerNode

(* Rows of different source nodes are fewer than the head has room for.    *)
LEMMA RoomForOneMore ==
  ASSUME HInv, OneRowPerNode
  PROVE  ~IsFull(srcBuf)
<1> DEFINE I == 1..Len(srcBuf)
           f == [i \in I |-> srcBuf[i].node]
<1>1. srcBuf \in Seq(Rows) /\ Len(srcBuf) \in Nat
  BY DEF HInv, HeadTypeOK
<1>2. \A i \in I : srcBuf[i].node \in Sources
  <2>1. \A i \in I : srcBuf[i] \in Rows
    BY <1>1, ElementOfSeq
  <2>2. QED  BY <2>1 DEF Rows, HInv, SrcBufFresh
<1>3. f \in Injection(I, Sources)
  BY <1>2 DEF Injection, IsInjective, OneRowPerNode
<1>4. IsFiniteSet(Sources)
  BY NodesAssumption
<1> HIDE DEF f
<1>5. Cardinality(I) <= Cardinality(Sources)
  <2> HIDE DEF I
  <2>1. QED  BY <1>3, <1>4, FS_Injection
<1>6. Cardinality(I) = Len(srcBuf)
  <2> DEFINE k == Len(srcBuf)
  <2>1. k \in Nat
    BY <1>1
  <2> HIDE DEF k
  <2>2. Cardinality(1..k) = IF 1 > k THEN 0 ELSE k - 1 + 1
    BY <2>1, FS_Interval
  <2>3. QED  BY <2>1, <2>2 DEF k
<1>7. Cardinality(Sources) \in Nat
  BY <1>4, FS_CardinalityType
<1>8. QED  BY <1>1, <1>5, <1>6, <1>7 DEF IsFull, NNodes

LEMMA NoWrapSeqNo ==
  ASSUME MaxMeas <= SeqSpace, NEW k \in Nat, k < MaxMeas
  PROVE  SeqNo(k) = k
<1>1. k \in Nat /\ k < SeqSpace /\ SeqSpace \in Nat
  BY NumbersAssumption
<1>2. QED  BY <1>1 DEF SeqNo

(* A packet of the sequence being collected is from a node that has no row *)
(* in the buffer yet.                                                      *)
LEMMA NewNode ==
  ASSUME MaxMeas <= SeqSpace, OInv, NEW n \in Sources, Arrives(n),
         SeqNo(Head(link[n])) = nextSeq, NEW i \in 1..Len(srcBuf)
  PROVE  srcBuf[i].node # n
<1> DEFINE m == Head(link[n])
<1>1. /\ m \in Meas
      /\ \A k \in Nat : Behind(n, k) => k < m
      /\ \A k \in Nat : k = m => Behind(n, k)'
  BY ArrivesFlow DEF OInv
<1>2. m \in Nat /\ m < measured[n] /\ measured[n] \in Nat /\ measured[n] <= MaxMeas
  BY <1>1, FlowTypes DEF OInv, Behind, Arrives
<1> HIDE DEF m
<1>3. SUFFICES ASSUME srcBuf[i].node = n PROVE FALSE
  OBVIOUS
<1>4. srcBuf[i].meas \in Nat /\ srcBuf[i].meas < m
  BY <1>1, <1>3, FlowTypes DEF OInv, FInv, RowsOlder
<1>5. m < MaxMeas /\ srcBuf[i].meas < MaxMeas
  BY <1>2, <1>4, NumbersAssumption
<1>6. SeqNo(m) = m /\ SeqNo(srcBuf[i].meas) = srcBuf[i].meas
  BY <1>2, <1>4, <1>5, NoWrapSeqNo
<1>7. SeqNo(srcBuf[i].meas) = SeqNo(m)
  BY DEF OInv, FInv, HInv, SrcBufFresh, m
<1>8. QED  BY <1>2, <1>4, <1>6, <1>7

LEMMA NextOInv == MaxMeas <= SeqSpace /\ OInv /\ [Next]_vars => OInv'
<1> SUFFICES ASSUME MaxMeas <= SeqSpace, OInv, [Next]_vars
             PROVE  OInv'
  OBVIOUS
<1>1. FInv'
  BY NextFInv DEF OInv
<1>2. ~IsFull(srcBuf) /\ BufferFull \notin failed
  BY RoomForOneMore DEF OInv, FInv, NoOverflow, Crashed
<1>3. ASSUME NEW n \in Sources, Deliver(n)
      PROVE  OInv'
  <2> DEFINE pkt == [node |-> n, meas |-> Head(link[n])]
  <2>1. Arrives(n) /\ ReceiveSrc(pkt)
    BY <1>3 DEF Deliver
  <2>2. pkt \in Rows /\ pkt.node = n /\ pkt.meas = Head(link[n])
    BY <2>1, ArrivesFlow DEF Rows, OInv
  <2> HIDE DEF pkt
  <2>3. CASE srcBuf' \in {srcBuf, <<>>, <<pkt>>} /\ BufferFull \notin failed'
    <3>1. OneRowPerNode'
      BY <2>3 DEF OInv, OneRowPerNode
    <3>2. QED  BY <1>1, <2>3, <3>1 DEF OInv, NoOverflow, Crashed
  <2>4. CASE srcBuf' = Append(srcBuf, pkt) /\ SeqNo(pkt.meas) = nextSeq /\ BufferFull \notin failed'
    <3>1. /\ Len(srcBuf') = Len(srcBuf) + 1 /\ Len(srcBuf) \in Nat
          /\ \A i \in 1..Len(srcBuf) : srcBuf'[i] = srcBuf[i]
          /\ srcBuf'[Len(srcBuf) + 1] = pkt
          /\ \A i \in 1..Len(srcBuf') : i \in 1..Len(srcBuf) \/ i = Len(srcBuf) + 1
      BY <2>2, <2>4, FlowTypes, AppendProperties DEF OInv
    <3>2. \A i \in 1..Len(srcBuf) : srcBuf[i].node # n
      BY <2>1, <2>2, <2>4, NewNode
    <3>3. OneRowPerNode'
      BY <2>2, <3>1, <3>2 DEF OInv, OneRowPerNode
    <3>4. QED  BY <1>1, <2>4, <3>3 DEF OInv, NoOverflow, Crashed
  <2>5. CASE ReceiveNewer(pkt)
    <3>1. /\ srcBuf' \in {<<>>, <<pkt>>}
          /\ \E x \in {{}, {SizeMismatch}} : failed' = failed \cup x
      BY <1>2, <2>5 DEF ReceiveNewer, StartNewSeq, Closed
    <3>2. BufferFull \notin failed'
      BY <1>2, <3>1 DEF BufferFull, SizeMismatch
    <3>3. QED  BY <2>3, <3>1, <3>2
  <2>6. CASE ReceiveCurrent(pkt)
    BY <1>2, <2>3, <2>4, <2>6 DEF ReceiveCurrent, WriteRow
  <2>7. CASE ReceiveExpired(pkt)
    BY <1>2, <2>3, <2>7 DEF ReceiveExpired
  <2>8. QED  BY <2>1, <2>5, <2>6, <2>7 DEF ReceiveSrc
<1>4. ASSUME UNCHANGED <<srcBuf, failed>>
      PROVE  OInv'
  BY <1>1, <1>4 DEF OInv, OneRowPerNode, NoOverflow, Crashed
<1>5. ASSUME HeadTimeOut
      PROVE  OInv'
  <2>1. srcBuf' = <<>> /\ BufferFull \notin failed'
    BY <1>2, <1>5 DEF HeadTimeOut, TimeOut, StartNewSeq, Closed, BufferFull, SizeMismatch
  <2>2. QED  BY <1>1, <2>1 DEF OInv, OneRowPerNode, NoOverflow, Crashed
<1>6. ASSUME \/ HeadMeasure \/ HeadStop \/ UNCHANGED vars
             \/ \E n \in Sources : SrcMeasure(n) \/ Lose(n)
      PROVE  UNCHANGED <<srcBuf, failed>>
  BY <1>6 DEF HeadMeasure, Measure, HeadStop, StopApplication, SrcMeasure, Lose, vars, headVars
<1>7. QED
  BY <1>3, <1>4, <1>5, <1>6 DEF Next

(* As long as sequence numbers do not wrap around, the head is never given *)
(* a row it has no room for, however many packets are lost or late: the    *)
(* write that would leave its matrix cannot happen.                        *)
THEOREM NeverOverflows ==
  ASSUME MaxMeas <= SeqSpace
  PROVE  Spec => []NoOverflow
<1>1. Init => OInv
  <2> SUFFICES ASSUME Init PROVE OInv
    OBVIOUS
  <2>1. srcBuf = <<>> /\ failed = {}
    BY DEF Init, HeadInit
  <2>2. QED  BY <2>1, InitFInv DEF OInv, NoOverflow, Crashed, OneRowPerNode
<1>2. OInv /\ [Next]_vars => OInv'
  BY NextOInv
<1>3. OInv => NoOverflow
  BY DEF OInv
<1>4. QED  BY <1>1, <1>2, <1>3, PTL DEF Spec
=============================================================================
