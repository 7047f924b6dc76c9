------------------------- MODULE ClusterHeadProofs -------------------------
(***************************************************************************)
(* Proofs about a cluster head that may receive any packet of its sources  *)
(* at any time: for every set of sources, every range of sequence numbers, *)
(* with and without spatial compression.                                   *)
(*                                                                         *)
(* SourceRowsMatch says of what was sent what SrcBufFresh says of what is  *)
(* collected, and follows from it when a sequence is closed; SrcBufFresh   *)
(* is inductive once the types are known.                                  *)
(***************************************************************************)
EXTENDS ClusterHead, SequenceTheorems, TLAPS

HInv == HeadTypeOK /\ SrcBufFresh /\ SourceRowsMatch

(* Sequence numbers stay in their range.                                   *)
LEMMA SeqNoType ==
  /\ \A k \in Nat : SeqNo(k) \in SeqNos
  /\ \A k \in Nat : (k + 1) % SeqSpace \in SeqNos
  BY NumbersAssumption DEF SeqNo, SeqNos

(* The rows that are compressed: those collected and perhaps the head's.   *)
LEMMA CompressedRows ==
  ASSUME HeadTypeOK, SrcBufFresh
  PROVE  /\ ToSet(CompressNextSpat) \subseteq Rows
         /\ \A r \in ToSet(CompressNextSpat) :
              r.node # HeadNode => SeqNo(r.meas) = nextSeq
<1>1. srcBuf \in Seq(Rows) /\ \A i \in 1..Len(srcBuf) : srcBuf[i] \in Rows
  BY ElementOfSeq DEF HeadTypeOK
<1>2. CASE yTemp = Empty
  BY <1>1, <1>2 DEF CompressNextSpat, ToSet, SrcBufFresh
<1>3. CASE yTemp # Empty
  <2>1. OwnRow \in Rows /\ OwnRow.node = HeadNode
    BY <1>3 DEF HeadTypeOK, OwnRow, Rows
  <2> DEFINE s == Append(srcBuf, OwnRow)
  <2>2. /\ s \in Seq(Rows) /\ Len(s) = Len(srcBuf) + 1
        /\ \A i \in 1..Len(srcBuf) : s[i] = srcBuf[i]
        /\ s[Len(srcBuf) + 1] = OwnRow
    BY <1>1, <2>1, AppendProperties
  <2> HIDE DEF s
  <2>3. \A i \in 1..Len(s) : i \in 1..Len(srcBuf) \/ i = Len(srcBuf) + 1
    BY <1>1, <2>2
  <2>4. \A i \in 1..Len(s) :
          s[i] \in Rows /\ (s[i].node # HeadNode => SeqNo(s[i].meas) = nextSeq)
    BY <1>1, <2>1, <2>2, <2>3 DEF SrcBufFresh
  <2>5. CompressNextSpat = s
    BY <1>3 DEF CompressNextSpat, s
  <2>6. ToSet(s) = {s[i] : i \in 1..Len(s)}
    BY <2>2 DEF ToSet
  <2>7. QED  BY <2>4, <2>5, <2>6
<1>4. QED  BY <1>2, <1>3

(* Closing a sequence keeps the invariant, if the buffer is left with rows *)
(* of the sequence that begins.                                            *)
LEMMA StartNewSeqHInv ==
  ASSUME HInv, NEW seq \in SeqNos, NEW cnt \in Nat, NEW buf \in Seq(Rows),
         \A i \in 1..Len(buf) : buf[i].node # HeadNode /\ SeqNo(buf[i].meas) = seq,
         StartNewSeq(seq, cnt, buf),
         timer' \in SeqNos \cup {Empty}, UNCHANGED <<own, running>>
  PROVE  HInv'
<1> USE DEF HInv
<1>1. CASE /\ failed' = failed \cup {BufferFull}
           /\ UNCHANGED <<nextSeq, srcBuf, yTemp, rxSrc, batches>>
  BY <1>1 DEF HeadTypeOK, SrcBufFresh, SourceRowsMatch
<1>2. CASE /\ batches' = Append(batches, BatchOf(nextSeq, CompressNextSpat, cnt))
           /\ failed' \subseteq failed \cup {SizeMismatch}
           /\ nextSeq' = seq /\ srcBuf' = buf /\ yTemp' = Empty /\ rxSrc' = 0
  <2> DEFINE b == BatchOf(nextSeq, CompressNextSpat, cnt)
  <2>1. /\ b \in Batches /\ b.seq = nextSeq
        /\ \A r \in b.rows : r.node # HeadNode => SeqNo(r.meas) = b.seq
    BY CompressedRows DEF BatchOf, Batches, HeadTypeOK
  <2> HIDE DEF b
  <2>2. /\ batches' \in Seq(Batches) /\ Len(batches') = Len(batches) + 1
        /\ \A i \in 1..Len(batches) : batches'[i] = batches[i]
        /\ batches'[Len(batches) + 1] = b
    <3>1. batches \in Seq(Batches) /\ batches' = Append(batches, b)
      BY <1>2 DEF HeadTypeOK, b
    <3>2. QED  BY <2>1, <3>1, AppendProperties
  <2>3. \A i \in 1..Len(batches') : i \in 1..Len(batches) \/ i = Len(batches) + 1
    BY <2>2 DEF HeadTypeOK
  <2>4. SourceRowsMatch'
    BY <2>1, <2>2, <2>3 DEF SourceRowsMatch
  <2>5. SrcBufFresh'
    BY <1>2 DEF SrcBufFresh
  <2>6. HeadTypeOK'
    BY <1>2, <2>2 DEF HeadTypeOK
  <2>7. QED  BY <2>4, <2>5, <2>6
<1>3. QED
  BY <1>1, <1>2 DEF StartNewSeq, Closed

(* Receiving any packet keeps the invariant.                               *)
LEMMA ReceiveHInv ==
  ASSUME HInv, NEW pkt \in Packets, ReceiveSrc(pkt)
  PROVE  HInv'
<1>1. /\ pkt.node \in Sources /\ pkt.node # HeadNode /\ pkt.meas \in Nat /\ pkt \in Rows
  BY NodesAssumption DEF Packets, Rows, Meas
<1>2. timer' \in SeqNos /\ nextSeq \in Nat
  BY SeqNoType DEF ReceiveSrc, RestartTimer, HInv, HeadTypeOK, SeqNos
<1>3. CASE ReceiveNewer(pkt)
  <2> DEFINE buf == IF pkt.node \in Misfit THEN <<>> ELSE <<pkt>>
  <2>1. /\ buf \in Seq(Rows)
        /\ \A i \in 1..Len(buf) :
             buf[i].node # HeadNode /\ SeqNo(buf[i].meas) = SeqNo(pkt.meas)
    BY <1>1
  <2>2. SeqNo(pkt.meas) \in SeqNos /\ rxSrc + 1 \in Nat
    BY <1>1, SeqNoType DEF HInv, HeadTypeOK
  <2>3. StartNewSeq(SeqNo(pkt.meas), rxSrc + 1, buf) /\ UNCHANGED <<own, running>>
    BY <1>3 DEF ReceiveNewer, ReceiveSrc
  <2> HIDE DEF buf
  <2>4. QED  BY <1>2, <2>1, <2>2, <2>3, StartNewSeqHInv
<1>4. CASE ReceiveCurrent(pkt)
  <2>1. /\ UNCHANGED <<nextSeq, yTemp, batches, own, running>>
        /\ rxSrc' \in Nat /\ SeqNo(pkt.meas) = nextSeq /\ WriteRow(pkt)
    BY <1>4 DEF ReceiveCurrent, ReceiveSrc, HInv, HeadTypeOK
  <2>2. CASE srcBuf' = srcBuf
    BY <1>2, <2>1, <2>2
      DEF WriteRow, HInv, HeadTypeOK, SrcBufFresh, SourceRowsMatch
  <2>3. CASE srcBuf' = Append(srcBuf, pkt) /\ failed' = failed
    <3>1. /\ srcBuf' \in Seq(Rows) /\ Len(srcBuf') = Len(srcBuf) + 1
          /\ \A i \in 1..Len(srcBuf) : srcBuf'[i] = srcBuf[i]
          /\ srcBuf'[Len(srcBuf) + 1] = pkt
      BY <1>1, <2>3, AppendProperties DEF HInv, HeadTypeOK
    <3>2. \A i \in 1..Len(srcBuf') : i \in 1..Len(srcBuf) \/ i = Len(srcBuf) + 1
      BY <3>1 DEF HInv, HeadTypeOK
    <3>3. SrcBufFresh'
      BY <1>1, <2>1, <3>1, <3>2 DEF HInv, SrcBufFresh
    <3>4. QED
      BY <1>2, <2>1, <2>3, <3>1, <3>3 DEF HInv, HeadTypeOK, SourceRowsMatch
  <2>4. QED  BY <2>1, <2>2, <2>3 DEF WriteRow
<1>5. CASE ReceiveExpired(pkt)
  BY <1>2, <1>5
    DEF ReceiveExpired, ReceiveSrc, HInv, HeadTypeOK, SrcBufFresh, SourceRowsMatch
<1>6. QED
  BY <1>3, <1>4, <1>5 DEF ReceiveSrc

(* The invariant holds at the start and is kept by every step.             *)
LEMMA HeadInitHInv == HeadInit => HInv
  BY NumbersAssumption
    DEF HeadInit, HInv, HeadTypeOK, SrcBufFresh, SourceRowsMatch, SeqNos, Meas

LEMMA HeadNextHInv == HInv /\ [HeadNext]_headVars => HInv'
<1> SUFFICES ASSUME HInv, [HeadNext]_headVars
             PROVE  HInv'
  OBVIOUS
<1>1. ASSUME Measure
      PROVE  HInv'
  BY <1>1, NumbersAssumption
    DEF Measure, HInv, HeadTypeOK, SrcBufFresh, SourceRowsMatch, Meas
<1>2. ASSUME NEW pkt \in Packets, ReceiveSrc(pkt)
      PROVE  HInv'
  BY <1>2, ReceiveHInv
<1>3. ASSUME TimeOut
      PROVE  HInv'
  <2>1. timer \in SeqNos /\ rxSrc \in Nat
    BY <1>3 DEF TimeOut, HInv, HeadTypeOK
  <2>2. StartNewSeq(timer, rxSrc, <<>>) /\ timer' = Empty /\ UNCHANGED <<own, running>>
    BY <1>3 DEF TimeOut
  <2>3. <<>> \in Seq(Rows) /\ \A i \in 1..Len(<<>>) : FALSE
    OBVIOUS
  <2>4. QED  BY <2>1, <2>2, <2>3, StartNewSeqHInv
<1>4. ASSUME StopApplication
      PROVE  HInv'
  BY <1>4 DEF StopApplication, HInv, HeadTypeOK, SrcBufFresh, SourceRowsMatch
<1>5. ASSUME UNCHANGED headVars
      PROVE  HInv'
  BY <1>5 DEF headVars, HInv, HeadTypeOK, SrcBufFresh, SourceRowsMatch
<1>6. QED
  BY <1>1, <1>2, <1>3, <1>4, <1>5 DEF HeadNext

LEMMA HInvHolds == HeadSpec => []HInv
  BY HeadInitHInv, HeadNextHInv, PTL DEF HeadSpec
-----------------------------------------------------------------------------
(* Every variable of the head keeps its type; the sequence number and the  *)
(* argument of the timeout stay within the 16 bits of the field.           *)
THEOREM HeadTypeCorrect == HeadSpec => []HeadTypeOK
<1>1. HInv => HeadTypeOK
  BY DEF HInv
<1>2. QED  BY <1>1, HInvHolds, PTL

(* The buffer never mixes sequences, whatever arrives in whatever order.   *)
THEOREM BufferFresh == HeadSpec => []SrcBufFresh
<1>1. HInv => SrcBufFresh
  BY DEF HInv
<1>2. QED  BY <1>1, HInvHolds, PTL

(* A batch is sent under the sequence number its source packets carried.   *)
THEOREM SourceRowsMatchSeq == HeadSpec => []SourceRowsMatch
<1>1. HInv => SourceRowsMatch
  BY DEF HInv
<1>2. QED  BY <1>1, HInvHolds, PTL

(* While the head runs, collected rows always have a pending timeout event *)
(* that will send them, even though every packet cancels it.               *)
THEOREM CollectedRowsHaveTimer == HeadSpec => []RowsHaveTimer
<1>1. HeadInit => RowsHaveTimer
  BY DEF HeadInit, RowsHaveTimer
<1>2. HInv /\ RowsHaveTimer /\ [HeadNext]_headVars => RowsHaveTimer'
  <2> SUFFICES ASSUME HInv, RowsHaveTimer, [HeadNext]_headVars
               PROVE  RowsHaveTimer'
    OBVIOUS
  <2>1. ASSUME NEW pkt \in Packets, ReceiveSrc(pkt)
        PROVE  RowsHaveTimer'
    <3>1. timer' \in SeqNos
      BY <2>1, SeqNoType DEF ReceiveSrc, RestartTimer, HInv, HeadTypeOK, SeqNos
    <3>2. timer' # Empty
      BY <3>1, NumbersAssumption DEF SeqNos, Empty
    <3>3. QED  BY <3>2 DEF RowsHaveTimer
  <2>2. ASSUME TimeOut
        PROVE  RowsHaveTimer'
    BY <2>2 DEF TimeOut, StartNewSeq, Closed, RowsHaveTimer, Crashed
  <2>3. ASSUME Measure \/ StopApplication \/ UNCHANGED headVars
        PROVE  RowsHaveTimer'
    BY <2>3 DEF Measure, StopApplication, headVars, RowsHaveTimer, Crashed
  <2>4. QED
    BY <2>1, <2>2, <2>3 DEF HeadNext
<1>3. QED  BY <1>1, <1>2, HInvHolds, PTL DEF HeadSpec
-----------------------------------------------------------------------------
(* The number being collected may be that of the next batch, and so may    *)
(* the one that a pending timeout begins, once the number being collected  *)
(* is sent: it follows that number, or the one sent last.                  *)
TimerFollows ==
  timer # Empty =>
    \/ timer = After(nextSeq)
    \/ Len(batches) >= 1 /\ timer = After(batches[Len(batches)].seq)

NInv == HInv /\ NumbersFollow /\ MayFollow(nextSeq, Len(batches)) /\ TimerFollows

(* Sending the number being collected, and going on with seq.              *)
LEMMA SendNumbers ==
  ASSUME NInv, NEW b, NEW seq, NEW buf, b.seq = nextSeq, Closed(b, seq, buf),
         \/ seq > nextSeq \/ seq = After(nextSeq)
         \/ Len(batches) >= 1 /\ seq = After(batches[Len(batches)].seq)
  PROVE  /\ NumbersFollow' /\ MayFollow(nextSeq, Len(batches))'
         /\ \/ UNCHANGED <<nextSeq, batches>>
            \/ Len(batches') >= 1 /\ batches'[Len(batches')].seq = nextSeq
<1> DEFINE n == Len(batches)
<1>1. batches \in Seq(Batches) /\ n \in Nat
  BY DEF NInv, HInv, HeadTypeOK
<1>2. CASE UNCHANGED <<nextSeq, batches>>
  BY <1>2 DEF NInv, NumbersFollow, MayFollow, After
<1>3. CASE batches' = Append(batches, b) /\ nextSeq' = seq
  <2>1. /\ Len(batches') = n + 1 /\ batches'[n + 1] = b
        /\ \A i \in 1..n : batches'[i] = batches[i]
    BY <1>1, <1>3
  <2> HIDE DEF n
  <2>2. ASSUME NEW k, NEW i \in 0..n
        PROVE  MayFollow(k, i) => MayFollow(k, i)'
    <3>1. i >= 1 => i \in 1..n
      BY <1>1
    <3>2. i >= 2 => i - 1 \in 1..n
      BY <1>1
    <3>3. (i >= 1 => batches'[i] = batches[i]) /\ (i >= 2 => batches'[i - 1] = batches[i - 1])
      BY <2>1, <3>1, <3>2
    <3>4. QED  BY <3>3 DEF MayFollow, After
  <2>3. ASSUME NEW i \in 1..Len(batches')
        PROVE  MayFollow(batches[i].seq, i - 1)'
    <3>1. CASE i \in 1..n
      <4>1. MayFollow(batches[i].seq, i - 1) /\ i - 1 \in 0..n /\ batches'[i] = batches[i]
        BY <1>1, <2>1, <3>1 DEF NInv, NumbersFollow, n
      <4>2. MayFollow(batches'[i].seq, i - 1)
        BY <4>1
      <4>3. QED  BY <2>2, <4>1, <4>2 DEF MayFollow, After
    <3>2. CASE i = n + 1
      <4>1. MayFollow(nextSeq, n) /\ n \in 0..n /\ i - 1 = n
        BY <1>1, <3>2 DEF NInv, n
      <4>2. batches'[i].seq = nextSeq
        BY <2>1, <3>2
      <4>3. QED  BY <2>2, <4>1, <4>2 DEF MayFollow, After
    <3>3. QED  BY <1>1, <2>1, <3>1, <3>2
  <2>4. NumbersFollow'
    BY <2>3 DEF NumbersFollow
  <2>5. MayFollow(nextSeq, Len(batches))'
    <3>1. n >= 1 => n \in 1..n /\ (n + 1) - 1 = n
      BY <1>1
    <3>2. n >= 1 => batches'[n] = batches[n]
      BY <2>1, <3>1
    <3>3. QED  BY <1>1, <1>3, <2>1, <3>1, <3>2 DEF MayFollow, After, n
  <2>6. QED  BY <1>1, <2>1, <2>4, <2>5
<1>4. QED  BY <1>2, <1>3 DEF Closed

(* Whatever a head receives and however late, it never goes back further   *)
(* than the last packet that began a sequence took it forward: the numbers *)
(* that follow in what it sends are those that Uplinks lets heads use.     *)
THEOREM NumbersFollowAlways == HeadSpec => []NumbersFollow
<1>1. HeadInit => NInv
  BY HeadInitHInv DEF HeadInit, NInv, NumbersFollow, MayFollow, TimerFollows
<1>2. NInv /\ [HeadNext]_headVars => NInv'
  <2> SUFFICES ASSUME NInv, [HeadNext]_headVars
               PROVE  NInv'
    OBVIOUS
  <2>1. HInv'
    BY HeadNextHInv DEF NInv
  <2>2. ASSUME NEW pkt \in Packets, ReceiveSrc(pkt)
        PROVE  NInv'
    <3>1. timer' = After(nextSeq)
      BY <2>2 DEF ReceiveSrc, RestartTimer, After
    <3>2. CASE UNCHANGED <<nextSeq, batches>>
      BY <2>1, <3>1, <3>2 DEF NInv, NumbersFollow, MayFollow, TimerFollows, After
    <3>3. CASE ReceiveNewer(pkt)
      <4> DEFINE seq == SeqNo(pkt.meas)
                 b   == BatchOf(nextSeq, CompressNextSpat, rxSrc + 1)
      <4>1. PICK buf : seq > nextSeq /\ Closed(b, seq, buf) /\ b.seq = nextSeq
        BY <3>3 DEF ReceiveNewer, StartNewSeq, BatchOf
      <4> HIDE DEF seq, b
      <4>2. /\ NumbersFollow' /\ MayFollow(nextSeq, Len(batches))'
            /\ \/ UNCHANGED <<nextSeq, batches>>
               \/ Len(batches') >= 1 /\ batches'[Len(batches')].seq = nextSeq
        BY <4>1, SendNumbers
      <4>3. TimerFollows'
        BY <3>1, <4>2 DEF TimerFollows, After
      <4>4. QED  BY <2>1, <4>2, <4>3 DEF NInv
    <3>4. QED  BY <2>2, <3>2, <3>3 DEF ReceiveSrc, ReceiveCurrent, ReceiveExpired
  <2>3. ASSUME TimeOut
        PROVE  NInv'
    <3> DEFINE b == BatchOf(nextSeq, CompressNextSpat, rxSrc)
    <3>1. Closed(b, timer, <<>>) /\ timer # Empty /\ timer' = Empty /\ b.seq = nextSeq
      BY <2>3 DEF TimeOut, StartNewSeq, BatchOf
    <3> HIDE DEF b
    <3>2. NumbersFollow' /\ MayFollow(nextSeq, Len(batches))'
      BY <3>1, SendNumbers DEF NInv, TimerFollows
    <3>3. QED  BY <2>1, <3>1, <3>2 DEF NInv, TimerFollows
  <2>4. ASSUME Measure \/ StopApplication \/ UNCHANGED headVars
        PROVE  NInv'
    <3>1. UNCHANGED <<nextSeq, batches>> /\ timer' \in {timer, Empty}
      BY <2>4 DEF Measure, StopApplication, headVars
    <3>2. QED
      BY <2>1, <3>1 DEF NInv, NumbersFollow, MayFollow, TimerFollows, After
  <2>5. QED  BY <2>2, <2>3, <2>4 DEF HeadNext
<1>3. NInv => NumbersFollow
  BY DEF NInv
<1>4. QED  BY <1>1, <1>2, <1>3, PTL DEF HeadSpec
=============================================================================
