---------------------------- MODULE ClusterHead ----------------------------
(***************************************************************************)
(* The receive side of CsClusterApp: how a cluster head collects the       *)
(* temporally compressed rows of its source nodes into m_srcDataBuffer,    *)
(* decides that a measurement sequence is over (a packet of a newer one    *)
(* arrives, or the timeout event runs) and compresses what it has.         *)
(*                                                                         *)
(* A measurement is a number; a packet carries it modulo SeqSpace, the     *)
(* range of the 16 bit sequence field.  A row of the buffer is a node and  *)
(* the measurement its data came from, so that the properties can tell     *)
(* which measurement a batch really holds.  A batch is what one call of    *)
(* StartNewSeq compresses and hands to the transmit side.                  *)
(***************************************************************************)
EXTENDS Integers, FiniteSets, Sequences, SequencesExt

CONSTANTS
  Sources,   \* the source nodes of the cluster
  Misfit,    \* sources whose packets do not have the size m_m of the head
  MaxMeas,   \* measurements a node takes before its input data ends (bound)
  SeqSpace,  \* number of sequence numbers, 2^16 in the code
  SpatCompr  \* m_spatComprEnable

HeadNode == 0   \* CsClusterHeader::CLUSTER_NODEID

ASSUME NodesAssumption ==
  IsFiniteSet(Sources) /\ HeadNode \notin Sources /\ Misfit \subseteq Sources
ASSUME NumbersAssumption == MaxMeas \in Nat /\ SeqSpace \in Nat \ {0}
ASSUME ComprAssumption == SpatCompr \in BOOLEAN

VARIABLES
  nextSeq,  \* m_nextSeq: the sequence being collected
  srcBuf,   \* m_srcDataBuffer
  yTemp,    \* the measurement m_yTemp holds, or Empty
  own,      \* measurements the head has taken itself
  timer,    \* the argument m_timeoutEvent was scheduled with, or Empty
  rxSrc,    \* m_nPktRxSeq_src
  batches,  \* history: what was compressed and sent, in order
  running,  \* m_running
  failed    \* history: assertions that did not hold

headVars == <<nextSeq, srcBuf, yTemp, own, timer, rxSrc, batches, running, failed>>

Empty        == -1   \* no measurement, no pending event
BufferFull   == "Buffer is already full."
SizeMismatch == "Size mismatch!"

Meas    == 0..MaxMeas
SeqNos  == 0..(SeqSpace - 1)
Rows    == [node : Sources \cup {HeadNode}, meas : Meas]
NNodes  == Cardinality(Sources) + 1            \* m_nNodes
Packets == [node : Sources, meas : Meas]

SeqNo(k)  == k % SeqSpace
OwnRow    == [node |-> HeadNode, meas |-> yTemp]
IsFull(s) == Len(s) >= NNodes

(* Writing a row into a full buffer leaves its matrix: the program ends.   *)
Crashed == BufferFull \in failed

HeadInit ==
  /\ nextSeq = 0
  /\ srcBuf = <<>>
  /\ yTemp = Empty
  /\ own = 0
  /\ timer = Empty
  /\ rxSrc = 0
  /\ batches = <<>>
  /\ running = TRUE
  /\ failed = {}

(* Names ending in "Wrong" are mistakes that could be made in the action   *)
(* below them; the properties are known to notice each of them.            *)
MeasurePastEndWrong ==
  /\ ~Crashed /\ running
  /\ own <= MaxMeas
  /\ yTemp' = own
  /\ own' = own + 1
  /\ UNCHANGED <<nextSeq, srcBuf, timer, rxSrc, batches, running, failed>>

(* Measure: CompressNextTemp replaces m_yTemp, and CreateCsPackets, which  *)
(* a head overrides, sends nothing and leaves m_nextSeq alone.             *)
Measure ==
  /\ ~Crashed /\ running
  /\ own < MaxMeas
  /\ yTemp' = own
  /\ own' = own + 1
  /\ UNCHANGED <<nextSeq, srcBuf, timer, rxSrc, batches, running, failed>>

(* CompressNextSpat: the rows that are compressed, the head's own last.    *)
CompressNextSpat == IF yTemp = Empty THEN srcBuf ELSE Append(srcBuf, OwnRow)

(* What StartNewSeq does when it sends b and leaves the buffer as buf.     *)
Closed(b, seq, buf) ==
  \/ /\ yTemp # Empty /\ IsFull(srcBuf)
     /\ failed' = failed \cup {BufferFull}
     /\ UNCHANGED <<nextSeq, srcBuf, yTemp, rxSrc, batches>>
  \/ /\ yTemp = Empty \/ ~IsFull(srcBuf)
     /\ batches' = Append(batches, b)
     /\ failed' = failed \cup
          (IF SpatCompr /\ CompressNextSpat = <<>> THEN {SizeMismatch} ELSE {})
     /\ nextSeq' = seq
     /\ srcBuf' = buf
     /\ yTemp' = Empty
     /\ rxSrc' = 0

BatchOf(seq, rows, cnt) == [seq |-> seq, rows |-> ToSet(rows), rx |-> cnt]

(* The buffer is not reset; it is reset before it is compressed; the       *)
(* batch gets the sequence number that begins.                             *)
StartNewSeqNoResetWrong(seq, cnt, buf) ==
  Closed(BatchOf(nextSeq, CompressNextSpat, cnt), seq, srcBuf \o buf)
StartNewSeqEarlyResetWrong(seq, cnt, buf) ==
  Closed(BatchOf(nextSeq, <<>>, cnt), seq, buf)
StartNewSeqLabelWrong(seq, cnt, buf) ==
  Closed(BatchOf(seq, CompressNextSpat, cnt), seq, buf)

(* StartNewSeq(seq) when cnt packets were counted: what was collected is   *)
(* sent under the sequence number that ends, and the buffer is left as     *)
(* buf.                                                                    *)
StartNewSeq(seq, cnt, buf) ==
  Closed(BatchOf(nextSeq, CompressNextSpat, cnt), seq, buf)

(* m_srcDataBuffer.WriteData, after the check of the packet's size.        *)
WriteRow(pkt) ==
  \/ /\ pkt.node \in Misfit
     /\ UNCHANGED <<srcBuf, failed>>
  \/ /\ pkt.node \notin Misfit /\ IsFull(srcBuf)
     /\ failed' = failed \cup {BufferFull}
     /\ UNCHANGED srcBuf
  \/ /\ pkt.node \notin Misfit /\ ~IsFull(srcBuf)
     /\ srcBuf' = Append(srcBuf, pkt)
     /\ UNCHANGED failed

RestartOnlyPendingWrong == timer' = IF timer = Empty THEN Empty ELSE (nextSeq + 1) % SeqSpace
RestartSameSeqWrong     == timer' = nextSeq
RestartTwoAheadWrong    == timer' = (nextSeq + 2) % SeqSpace

(* The timeout event is replaced, with the sequence number that follows    *)
(* the one the head collects before it looks at the packet.                *)
RestartTimer == timer' = (nextSeq + 1) % SeqSpace

ReceiveNewer(pkt) ==
  /\ SeqNo(pkt.meas) > nextSeq
  /\ StartNewSeq(SeqNo(pkt.meas), rxSrc + 1,
                 IF pkt.node \in Misfit THEN <<>> ELSE <<pkt>>)

ReceiveCurrent(pkt) ==
  /\ SeqNo(pkt.meas) = nextSeq
  /\ rxSrc' = rxSrc + 1
  /\ WriteRow(pkt)
  /\ UNCHANGED <<nextSeq, yTemp, batches>>

ReceiveExpired(pkt) ==
  /\ SeqNo(pkt.meas) < nextSeq
  /\ rxSrc' = rxSrc + 1
  /\ UNCHANGED <<nextSeq, srcBuf, yTemp, batches, failed>>

(* A packet from a source node of this cluster.  The callback stays        *)
(* installed when the application stops.                                   *)
ReceiveSrc(pkt) ==
  /\ ~Crashed
  /\ RestartTimer
  /\ ReceiveNewer(pkt) \/ ReceiveCurrent(pkt) \/ ReceiveExpired(pkt)
  /\ UNCHANGED <<own, running>>

(* The timeout event runs.                                                 *)
TimeOut ==
  /\ ~Crashed
  /\ timer # Empty
  /\ StartNewSeq(timer, rxSrc, <<>>)
  /\ timer' = Empty
  /\ UNCHANGED <<own, running>>

StopApplication ==
  /\ ~Crashed /\ running
  /\ running' = FALSE
  /\ timer' = Empty
  /\ UNCHANGED <<nextSeq, srcBuf, yTemp, own, rxSrc, batches, failed>>

HeadNext ==
  \/ Measure
  \/ \E pkt \in Packets : ReceiveSrc(pkt)
  \/ TimeOut
  \/ StopApplication

HeadSpec == HeadInit /\ [][HeadNext]_headVars
-----------------------------------------------------------------------------
Batches == [seq : SeqNos, rows : SUBSET Rows, rx : Nat]

(* Every variable has its type.                                            *)
HeadTypeOK ==
  /\ nextSeq \in SeqNos
  /\ srcBuf \in Seq(Rows)
  /\ yTemp \in Meas \cup {Empty}
  /\ own \in Meas
  /\ timer \in SeqNos \cup {Empty}
  /\ rxSrc \in Nat
  /\ batches \in Seq(Batches)
  /\ running \in BOOLEAN
  /\ failed \subseteq {BufferFull, SizeMismatch}

(* m_srcDataBuffer never mixes sequences: whatever packets arrive, in      *)
(* whatever order and however late the timeout, every row in it came in a  *)
(* packet that carried the sequence number the head is collecting.         *)
SrcBufFresh ==
  \A i \in 1..Len(srcBuf) :
    srcBuf[i].node # HeadNode /\ SeqNo(srcBuf[i].meas) = nextSeq

(* What is buffered is not forgotten: while the head runs, collected rows  *)
(* always have a pending timeout event that will send them, even though    *)
(* every packet cancels it.                                                *)
RowsHaveTimer == running /\ srcBuf # <<>> /\ ~Crashed => timer # Empty

(* A batch goes out under the sequence number of the packets it was made   *)
(* from: the rows of the source nodes always match it (the head's own row  *)
(* need not).                                                              *)
SourceRowsMatch ==
  \A i \in 1..Len(batches) : \A r \in batches[i].rows :
    r.node # HeadNode => SeqNo(r.meas) = batches[i].seq

(* What number the next batch may have when i are sent: a later one than   *)
(* that of the last, or the one after it, or the one after that of the     *)
(* batch before.  The last is a step back when a packet skipped numbers:   *)
(* the timeout it restarted begins the first of them.                      *)
After(k) == (k + 1) % SeqSpace
MayFollow(k, i) ==
  \/ i = 0 /\ k = 0
  \/ i >= 1 /\ (k > batches[i].seq \/ k = After(batches[i].seq))
  \/ i >= 2 /\ k = After(batches[i - 1].seq)

(* Numbers may be left out and even used twice, but, whatever is received  *)
(* and however late, no head goes back further than the last packet that   *)
(* began a sequence took it forward.                                       *)
NumbersFollow == \A i \in 1..Len(batches) : MayFollow(batches[i].seq, i - 1)
=============================================================================
