-------------------------------- MODULE Sink --------------------------------
(***************************************************************************)
(* CsSinkApp with the part of Reconstructor that keeps state: packets of   *)
(* the cluster heads are buffered until one of a newer sequence arrives,   *)
(* and what is buffered is reconstructed, after every packet or, with      *)
(* WaitAllPackets, when no packet came for a while.                        *)
(*                                                                         *)
(* A packet is a combination of compressed rows of one or more clusters    *)
(* and carries, for every cluster, which of its nodes contributed (the     *)
(* SrcInfo field).  A cluster none of whose nodes did looks like one that  *)
(* is not part of the packet.  The sink sees the number of a packet modulo *)
(* SeqSpace; the packet knows it in full.  A head may use a number for     *)
(* more than one batch, so that a packet also knows which batch it is of.  *)
(***************************************************************************)
EXTENDS Integers, FiniteSets, Sequences, SequencesExt

CONSTANTS
  Clusters,    \* the clusters added with AddCluster: all there are
  Nodes,       \* node identifiers in a cluster
  MaxBatches,  \* measurements, and batches a head sends (bound)
  MaxPerBatch, \* packets a head sends of a batch (bound)
  SeqSpace,    \* number of sequence numbers, 2^16 in the code
  MinPackets,  \* m_minPackets
  WaitModes    \* the values of m_waitForAll to look at

ASSUME ClustersAssumption == IsFiniteSet(Clusters) /\ Clusters # {}
ASSUME SinkNumbersAssumption ==
  MaxBatches \in Nat /\ MaxPerBatch \in Nat /\ SeqSpace \in Nat \ {0} /\ MinPackets \in Nat
ASSUME WaitAssumption == WaitModes \subseteq BOOLEAN /\ WaitModes # {}

VARIABLES
  waitForAll,   \* m_waitForAll, an attribute: it never changes
  seqCount,     \* m_seqCount
  rxPacketsSeq, \* m_rxPacketsSeq
  inBuf,        \* m_inBuf and m_ncMatrix of the reconstructor, row by row
  precode,      \* precode of each ClusterInfo: the nodes whose entry is set
  timer,        \* is m_timeoutEvent pending?
  rxStored,     \* how many counts m_rxCnt_stream holds
  rec           \* history: the last reconstruction, or none yet

sinkVars == <<waitForAll, seqCount, rxPacketsSeq, inBuf, precode, timer, rxStored, rec>>

Meas   == 0..(MaxBatches - 1)
SeqNos == 0..(SeqSpace - 1)

(* The SrcInfo field: a set of nodes, a bitset in the code, per cluster.   *)
Parts   == [Clusters -> SUBSET Nodes]
Packets == [head : Clusters, batch : 1..MaxBatches, idx : 1..MaxPerBatch,
            meas : Meas, parts : Parts]

SeqNo(k) == k % SeqSpace

IsSrcInfoSet(pkt, c) == pkt.parts[c] # {}

Nothing == [seq |-> 0, rows |-> {}]

SinkInit ==
  /\ waitForAll \in WaitModes
  /\ seqCount = 0
  /\ rxPacketsSeq = 0
  /\ inBuf = <<>>
  /\ precode = [c \in Clusters |-> {}]
  /\ timer = FALSE
  /\ rxStored = 0
  /\ rec = Nothing

(* Names ending in "Wrong" are mistakes that could be made in the          *)
(* definition below them; the properties are known to notice each of them. *)
PrecodeKeepsOldWrong(pkt) ==
  [c \in Clusters |-> precode[c] \cup pkt.parts[c]]

(* SetPrecodeEntries for each cluster whose SrcInfo is set.                *)
Precode(pkt) ==
  [c \in Clusters |-> IF IsSrcInfoSet(pkt, c) THEN pkt.parts[c] ELSE precode[c]]

ReconstructionOfNothingWrong(seq, rows) == [seq |-> seq, rows |-> {}]

(* What ReconstructNext reconstructs and under which run it writes it.     *)
Reconstruction(seq, rows) == [seq |-> seq, rows |-> ToSet(rows)]

KeptOnResetWrong == inBuf
CountStoredWrong == rxStored

(* Starting a sequence: the rows that stay in the buffers, and the counts  *)
(* that are stored once the one of the old sequence is.                    *)
KeptOnReset == <<>>
CountStored == rxStored + 1

WaitOnceWrong(rows, cnt, seq) ==
  \/ waitForAll /\ timer' = (cnt = 1) /\ UNCHANGED rec
  \/ ~waitForAll /\ rec' = Reconstruction(seq, rows) /\ UNCHANGED timer
DecodeOneLateWrong(rows, cnt, seq) ==
  /\ rec' = IF cnt > MinPackets THEN Reconstruction(seq, rows) ELSE rec
  /\ UNCHANGED timer

(* The packet is buffered: wait for more of them, or reconstruct.          *)
Decode(rows, cnt, seq) ==
  \/ waitForAll /\ timer' = TRUE /\ UNCHANGED rec
  \/ /\ ~waitForAll
     /\ rec' = IF cnt >= MinPackets THEN Reconstruction(seq, rows) ELSE rec
     /\ UNCHANGED timer

Accept(pkt, rows, cnt, seq) ==
  /\ seqCount' = seq
  /\ rxPacketsSeq' = cnt + 1
  /\ inBuf' = Append(rows, pkt)
  /\ precode' = Precode(pkt)
  /\ Decode(Append(rows, pkt), cnt + 1, seq)

(* A packet of a newer sequence starts it.                                 *)
ReceiveNewer(pkt) ==
  /\ SeqNo(pkt.meas) > seqCount
  /\ rxStored' = CountStored
  /\ Accept(pkt, KeptOnReset, 0, SeqNo(pkt.meas))

ReceiveCurrent(pkt) ==
  /\ SeqNo(pkt.meas) = seqCount
  /\ Accept(pkt, inBuf, rxPacketsSeq, seqCount)
  /\ UNCHANGED rxStored

ReceiveOlderWrong(pkt) ==
  /\ SeqNo(pkt.meas) < seqCount
  /\ rxStored' = CountStored
  /\ Accept(pkt, KeptOnReset, 0, SeqNo(pkt.meas))

ReceiveExpired(pkt) ==
  /\ SeqNo(pkt.meas) < seqCount
  /\ UNCHANGED <<seqCount, rxPacketsSeq, inBuf, precode, timer, rxStored, rec>>

(* A packet of a cluster head.                                             *)
Receive(pkt) ==
  /\ ReceiveNewer(pkt) \/ ReceiveCurrent(pkt) \/ ReceiveExpired(pkt)
  /\ UNCHANGED waitForAll

(* The timeout event: ReconstructNext.                                     *)
WaitTimeOut ==
  /\ timer
  /\ timer' = FALSE
  /\ rec' = Reconstruction(seqCount, inBuf)
  /\ UNCHANGED <<waitForAll, seqCount, rxPacketsSeq, inBuf, precode, rxStored>>

SinkNext == WaitTimeOut \/ \E pkt \in Packets : Receive(pkt)

SinkSpec == SinkInit /\ [][SinkNext]_sinkVars
-----------------------------------------------------------------------------
Reconstructions == [seq : SeqNos, rows : (SUBSET Packets) \ {{}}]

(* Every variable has its type; nothing is reconstructed from no rows.     *)
SinkTypeOK ==
  /\ waitForAll \in BOOLEAN
  /\ seqCount \in SeqNos
  /\ rxPacketsSeq \in Nat
  /\ inBuf \in Seq(Packets)
  /\ precode \in [Clusters -> SUBSET Nodes]
  /\ timer \in BOOLEAN
  /\ rxStored \in Nat
  /\ rec \in Reconstructions \cup {Nothing}

(* The two owners of the sequence agree: the reconstructor's buffers hold  *)
(* exactly the packets the application counted, all of them of the         *)
(* sequence it is at, so that no reconstruction mixes measurements.        *)
BufferFresh ==
  /\ Len(inBuf) = rxPacketsSeq
  /\ \A i \in 1..Len(inBuf) : SeqNo(inBuf[i].meas) = seqCount

(* The last reconstruction used all that is buffered.                      *)
UpToDate == rec = Reconstruction(seqCount, inBuf)

(* Without WaitAllPackets a packet is never left undecoded once enough     *)
(* were received: the last reconstruction covers all of them.              *)
DecodedAtOnce ==
  ~waitForAll /\ inBuf # <<>> /\ rxPacketsSeq >= MinPackets => UpToDate

(* With WaitAllPackets buffered packets are not forgotten: they are in the *)
(* last reconstruction, or a timeout event is pending, however the event   *)
(* and the packets that replace it interleave.                             *)
DecodedOrPending == waitForAll /\ inBuf # <<>> => UpToDate \/ timer

(* A sequence is never reconstructed again after a later one, and a later  *)
(* attempt at a sequence uses all that an earlier one used.                *)
AttemptsImprove ==
  [][\/ rec.seq < rec'.seq
     \/ rec.seq = rec'.seq /\ rec.rows \subseteq rec'.rows]_sinkVars
=============================================================================
