------------------------------- MODULE Uplinks -------------------------------
(***************************************************************************)
(* The cluster heads of a network and the sink, over one link per head     *)
(* that keeps the order of packets and may lose some.  A head sends        *)
(* batches, a few packets of each; with network coding the packets combine *)
(* its own rows with those of heads that have used the same number, whose  *)
(* SrcInfo they then carry too.                                            *)
(*                                                                         *)
(* Heads number their batches as ClusterHead allows (NumbersFollow): they  *)
(* leave numbers out, go back, and use a number twice with other nodes.    *)
(*                                                                         *)
(* In an ideal run no packet is lost, every measurement is one batch (as   *)
(* CompleteBatches has it), and the measurement interval is longer than    *)
(* all packets of a measurement and the sink's wait take.                  *)
(***************************************************************************)
EXTENDS Sink

CONSTANTS
  NodeSets, \* NodeSets[c]: sets of nodes head c may have rows of (bound)
  MaxSends, \* MaxSends[c]: batches head c sends if not ideal (bound)
  Ideals    \* the values of ideal to look at

ASSUME NodeSetsAssumption == NodeSets \in [Clusters -> SUBSET SUBSET Nodes]
ASSUME MaxSendsAssumption == MaxSends \in [Clusters -> 0..MaxBatches]
ASSUME IdealsAssumption   == Ideals \subseteq BOOLEAN /\ Ideals # {}

VARIABLES
  ideal,  \* is this an ideal run?  It never changes
  info,   \* info[c]: the batches of head c, their numbers and m_srcInfo
  air,    \* air[c]: packets on the way from head c to the sink
  made    \* history of an ideal run: the packets of the newest measurement

linkVars == <<ideal, info, air, made>>
vars     == <<sinkVars, linkVars>>

Init ==
  /\ SinkInit
  /\ ideal \in Ideals
  /\ info = [c \in Clusters |-> <<>>]
  /\ air = [c \in Clusters |-> <<>>]
  /\ made = {}

AirEmpty == \A c \in Clusters : air[c] = <<>>

(* It is time for the measurement that follows the first k, in an ideal    *)
(* run.                                                                    *)
Turn(k) ==
  /\ \A d \in Clusters : Len(info[d]) >= k
  /\ (\E d \in Clusters : Len(info[d]) > k) \/ (AirEmpty /\ ~timer)

(* What number the next batch of head c may have.                          *)
MayFollow(k, c) ==
  LET i == Len(info[c]) IN
  \/ i = 0 /\ k = 0
  \/ i >= 1 /\ k > info[c][i].meas
  \/ i >= 2 /\ k = info[c][i - 1].meas + 1

(* The nodes in the batches that head c has sent with number k.            *)
NodesOf(c, k) == {info[c][i].nodes : i \in {j \in 1..Len(info[c]) : info[c][j].meas = k}}

(* What the packets of head c may say when their rows are of number k: of  *)
(* each cluster the nodes of one batch, for DoRLNC overwrites SrcInfo; of  *)
(* another cluster also nothing.                                           *)
Combined(c, nodes, k) ==
  {parts \in Parts :
     \A d \in Clusters :
       parts[d] \in NodesOf(d, k) \cup (IF d = c THEN {nodes} ELSE {{}})}

SendPkts(c, parts, k, n) ==
  [i \in 1..n |-> [head |-> c, batch |-> Len(info[c]) + 1, idx |-> i, meas |-> k, parts |-> parts]]

(* Head c sends n packets of its next batch.                               *)
HeadSend(c) ==
  /\ Len(info[c]) < IF ideal THEN MaxBatches ELSE MaxSends[c]
  /\ \E k \in Meas, nodes \in NodeSets[c], n \in 1..MaxPerBatch :
       /\ MayFollow(k, c)
       /\ ideal => k = Len(info[c]) /\ Turn(k)
       /\ info' = [info EXCEPT ![c] = Append(@, [meas |-> k, nodes |-> nodes])]
       /\ \E parts \in Combined(c, nodes, k) :
            LET pkts == SendPkts(c, parts, k, n) IN
            /\ air' = [air EXCEPT ![c] = @ \o pkts]
            /\ made' = IF ideal
                       THEN {pkt \in made : pkt.meas >= k} \cup {pkts[i] : i \in 1..n}
                       ELSE made
  /\ UNCHANGED <<ideal, sinkVars>>

Arrives(c) ==
  /\ air[c] # <<>>
  /\ air' = [air EXCEPT ![c] = Tail(@)]
  /\ UNCHANGED <<ideal, info, made>>

Deliver(c) == Arrives(c) /\ Receive(Head(air[c]))

Lose(c) == ~ideal /\ Arrives(c) /\ UNCHANGED sinkVars

SinkTimeOut ==
  /\ ideal => AirEmpty
  /\ WaitTimeOut
  /\ UNCHANGED linkVars

Next ==
  \/ \E c \in Clusters : HeadSend(c) \/ Deliver(c) \/ Lose(c)
  \/ SinkTimeOut

Spec == Init /\ [][Next]_vars

(* The simulator runs every event that is due.                             *)
FairSpec ==
  /\ Spec
  /\ WF_vars(SinkTimeOut)
  /\ \A c \in Clusters : WF_vars(Deliver(c) \/ Lose(c))
-----------------------------------------------------------------------------
(* Every variable has its type.                                            *)
TypeOK ==
  /\ SinkTypeOK
  /\ ideal \in BOOLEAN
  /\ info \in [Clusters -> Seq([meas : Meas, nodes : SUBSET Nodes])]
  /\ air \in [Clusters -> Seq(Packets)]
  /\ made \subseteq Packets

(* The precoding matrix of a cluster is never cleared, and is overwritten  *)
(* by every packet that names the cluster.  Yet for every cluster with     *)
(* data in a buffered row it is the one the row was compressed with: stale *)
(* entries belong to clusters that contributed no data at all.  Only a     *)
(* cluster that used the row's number more than once may be wrong.         *)
UsedTwice(c, k) ==
  \E i, j \in 1..Len(info[c]) : i # j /\ info[c][i].meas = k /\ info[c][j].meas = k

PrecodeMatches ==
  \A i \in 1..Len(inBuf) : \A c \in Clusters :
    IsSrcInfoSet(inBuf[i], c) =>
      precode[c] = inBuf[i].parts[c] \/ UsedTwice(c, inBuf[i].meas)

(* In an ideal run all packets of a measurement are decoded, and together, *)
(* before the next measurement, if they are enough.                        *)
Quiet == AirEmpty /\ ~timer
AllDecoded ==
  ideal /\ Quiet /\ (waitForAll \/ Cardinality(made) >= MinPackets) => rec.rows = made

(* The stream of packet counts has one entry per sequence that ended, so   *)
(* that the k-th entry belongs to sequence k.                              *)
CountPerSeq      == rxStored = seqCount
IdealCountPerSeq == ideal => CountPerSeq

(* What the sink has accepted is decoded before its buffers are reset for  *)
(* the next sequence.                                                      *)
DecodedBeforeReset ==
  [][seqCount' # seqCount /\ inBuf # <<>> => UpToDate]_vars

(* With WaitAllPackets the buffered packets are decoded in the end, unless *)
(* a newer sequence comes first; the newest always is.                     *)
EventuallyDecoded == waitForAll /\ inBuf # <<>> ~> UpToDate
=============================================================================
