---------------------------- MODULE NetworkCoding ----------------------------
(***************************************************************************)
(* The cluster heads as a network: CsClusterApp from the packets made of a *)
(* compressed sequence to the links that lead to other heads and the sink. *)
(* A head buffers its own packets and those of other heads; a periodic     *)
(* event empties the buffer and sends random linear combinations of the    *)
(* packets of a sequence, or the packets themselves; without buffering     *)
(* packets are sent on as they come.                                       *)
(*                                                                         *)
(* How a head comes to close a sequence is ClusterHead's matter: here it   *)
(* may close any sequence number at any time, also one it closed before.   *)
(* What it makes of it is a batch, identified by the head and a number.    *)
(* The payload of a packet is a linear combination of rows; the model      *)
(* keeps the coefficients it really has ("data") and the batches it was    *)
(* made from, next to what the header says of it.  The factors of          *)
(* NcCoeffNorm, which multiply data and header alike, are left out.        *)
(***************************************************************************)
EXTENDS CsClusterHeader, Sequences, SequencesExt

CONSTANTS
  Out,        \* Out[h]: where the Tx devices of head h lead to
  NodeSets,   \* NodeSets[h]: sets of nodes whose rows head h may have (bound)
  MaxClosed,  \* MaxClosed[h]: batches of head h (bound)
  SeqNos,     \* sequence numbers (bound)
  Coeffs,     \* what the coefficient generator draws (bound)
  NcPktPLink, \* m_ncPktPLink
  NcMax,      \* m_ncMaxRecomb
  Settings    \* the attribute values to look at

Heads == ClusterIds
Sink  == -1   \* no cluster id
Links == UNION {{<<h, d>> : d \in Out[h]} : h \in Heads}
Nodes == UNION UNION {NodeSets[h] : h \in Heads}

ASSUME TopologyAssumption == Out \in [Heads -> SUBSET (Heads \cup {Sink})]
ASSUME BatchAssumption ==
  /\ MaxClosed \in [Heads -> Nat] /\ SeqNos \subseteq Nat
  /\ \A h \in Heads : \A s \in NodeSets[h] : s \subseteq Nat /\ IsFiniteSet(s)
ASSUME CodingAssumption ==
  Coeffs \subseteq Int /\ NcPktPLink \in Nat \ {0} /\ NcMax \in Nat
ASSUME SettingsAssumption ==
  \A s \in Settings :
    /\ s.mode \in {"code", "shuffle", "relay"}   \* m_ncEnable, m_shuffle, neither
    /\ s.coeff \in CoeffTypes                    \* m_coeffType
    /\ s.spatial \in BOOLEAN                     \* m_spatComprEnable
    /\ s.timeOut \in Nat                         \* m_ncTimeOut
    /\ s.size \in [Heads -> Nat]                 \* m_m of every head
    /\ s.lossy \in BOOLEAN                       \* may links lose packets?

VARIABLES
  net,      \* the attributes of this simulation: they never change
  closed,   \* history: closed[h][n], the n-th batch of head h
  ncBuf,    \* m_ncPktBuffer of every head
  rxCl,     \* m_nPktRxSeq_cl
  idle,     \* m_ncTimeOutCnt
  ncEvent,  \* m_ncEvent: is it pending, or why not?
  link,     \* packets on the way
  arrived   \* history: the batches in the packets that reached the sink

vars == <<net, closed, ncBuf, rxCl, idle, ncEvent, link, arrived>>

Batches == Heads \X Nat
Packets ==
  [head : Heads, seq : SeqNos, field : Fields, src : [Heads -> SUBSET Nodes], cnt : Nat,
   data : [Index -> Int], origin : SUBSET Batches, depth : Nat]

Buffering == net.mode # "relay"

Init ==
  /\ net \in Settings
  /\ closed = [h \in Heads |-> <<>>]
  /\ ncBuf = [h \in Heads |-> <<>>]
  /\ rxCl = [h \in Heads |-> 0]
  /\ idle = [h \in Heads |-> 0]
  /\ ncEvent = [h \in Heads |-> IF Buffering THEN "pending" ELSE "unused"]
  /\ link = [e \in Links |-> <<>>]
  /\ arrived = {}

(* WriteBcPacketList: the packets go to every Tx device, in this order.    *)
Sent(h, pkts, links) ==
  [e \in Links |-> IF e[1] = h THEN links[e] \o pkts ELSE links[e]]

(* The packets wait for the network coding event, or are sent at once.     *)
Pass(h, pkts, links) ==
  \/ /\ Buffering
     /\ ncBuf' = [ncBuf EXCEPT ![h] = @ \o pkts]
     /\ link' = links
  \/ /\ ~Buffering
     /\ link' = Sent(h, pkts, links)
     /\ UNCHANGED ncBuf
-----------------------------------------------------------------------------
(* The rows that become packets, in order: all of the compressed ones, or  *)
(* those in the buffer, which are in the order of their arrival.           *)
RowLists(h, nodes) ==
  IF net.spatial THEN {[i \in 1..Lk[h] |-> i - 1]} ELSE SetToSeqs(nodes)

(* The packet of row i of the batch that head h makes next.                *)
NewPacket(h, k, nodes, i) ==
  [head |-> h, seq |-> k, cnt |-> 0, depth |-> 0,
   field |-> Serialize(net.coeff, UnitVector(h, i)),
   data |-> UnitVector(h, i),
   src |-> [d \in Heads |-> IF d = h THEN nodes ELSE {}],
   origin |-> {<<h, Len(closed[h]) + 1>>}]

(* Names ending in "Wrong" are mistakes that could be made in the          *)
(* definition below them; the properties are known to notice each of them. *)
CountAtCloseWrong(h) == [rxCl EXCEPT ![h] = 0]

(* The count of packets from other heads is kept per sequence if nothing   *)
(* is buffered, and else per interval.                                     *)
CountAtClose(h) == IF Buffering THEN rxCl ELSE [rxCl EXCEPT ![h] = 0]

(* StartNewSeq with CreateCsClusterPackets, of sequence number k.          *)
StartNewSeq(h) ==
  /\ Len(closed[h]) < MaxClosed[h]
  /\ \E k \in SeqNos, nodes \in NodeSets[h] : \E rows \in RowLists(h, nodes) :
       /\ closed' = [closed EXCEPT ![h] = Append(@, [seq |-> k, nodes |-> nodes])]
       /\ Pass(h, [n \in 1..Len(rows) |-> NewPacket(h, k, nodes, rows[n])], link)
  /\ rxCl' = CountAtClose(h)
  /\ UNCHANGED <<net, idle, ncEvent, arrived>>
-----------------------------------------------------------------------------
(* The ways to list a finite set of numbers in ascending order: one.       *)
Ascending(S) ==
  {f \in [1..Cardinality(S) -> S] : \A i, j \in DOMAIN f : i < j => f[i] < f[j]}

(* The packets of a sequence are taken from the buffer together, when the  *)
(* first of them is: Group(buf, i) are the indices of those taken with     *)
(* packet i.                                                               *)
GroupAllWrong(buf, i) == 1..Len(buf)

Group(buf, i) == {j \in 1..Len(buf) : buf[j].seq = buf[i].seq}
Leader(buf, i) == Min(Group(buf, i))

LeadersFirstOnlyWrong(buf) == {i \in 1..Len(buf) : i = 1}

Leaders(buf) == {i \in 1..Len(buf) : Leader(buf, i) = i}

(* m_shuffle: the packets as they are, one group after the other.  (It is  *)
(* the vector the list was copied from that is shuffled.)                  *)
Before(buf, i, j) ==
  \/ Leader(buf, i) < Leader(buf, j)
  \/ Leader(buf, i) = Leader(buf, j) /\ i < j
Regrouped(buf) ==
  {[r \in 1..Len(buf) |-> buf[f[r]]] :
     f \in {g \in [1..Len(buf) -> 1..Len(buf)] :
              \A i, j \in 1..Len(buf) : i < j => Before(buf, g[i], g[j])}}

(* The linear combination of the vectors v[i], i in the set g.             *)
Combination(g, c, v) ==
  [k \in Index |-> MapThenSumSet(LAMBDA i : c[i] * v[i][k], g)]

CombinedSrcFirstWrong(buf, g, d) == buf[Min(g)].src[d]

(* A cluster's SrcInfo is that of the last packet that has it set.         *)
CombinedSrc(buf, g, d) ==
  LET named == {i \in g : buf[i].src[d] # {}}
  IN IF named = {} THEN {} ELSE buf[Max(named)].src[d]

(* DoRLNC of the group g of the buffer, with the coefficients c.           *)
DoRLNC(h, buf, g, c) ==
  [head |-> h,
   seq |-> buf[Min(g)].seq,
   field |-> Serialize(net.coeff,
               Combination(g, c, [i \in g |-> Deserialize(net.coeff, buf[i].field)])),
   data |-> Combination(g, c, [i \in g |-> buf[i].data]),
   src |-> [d \in Heads |-> CombinedSrc(buf, g, d)],
   cnt |-> Max({buf[i].cnt : i \in g}),
   origin |-> UNION {buf[i].origin : i \in g},
   depth |-> Max({buf[i].depth : i \in g}) + 1]

(* NcPktPLink packets for every group, each with coefficients of its own:  *)
(* c[n] are those of the n-th packet, leaders are in the order of f.       *)
Recombined(h, buf, f, c) ==
  [n \in 1..(Len(f) * NcPktPLink) |->
     DoRLNC(h, buf, Group(buf, f[(n - 1) \div NcPktPLink + 1]), c[n])]

NextIdleNoResetWrong(h) == idle[h] + 1

(* The number of intervals in a row without packets; it is only compared   *)
(* with m_ncTimeOut, and not told apart beyond it.                         *)
NextIdle(h) ==
  IF ncBuf[h] # <<>> THEN 0 ELSE IF idle[h] < net.timeOut THEN idle[h] + 1 ELSE net.timeOut

AgainNoEndlessWrong(h) == NextIdle(h) < net.timeOut
Again(h) == net.timeOut = 0 \/ NextIdle(h) < net.timeOut

(* The network coding event: the buffer is emptied, and the event comes    *)
(* again unless there were too many intervals without packets.             *)
NcInterval(h) ==
  /\ ncEvent[h] = "pending"
  /\ ncBuf' = [ncBuf EXCEPT ![h] = <<>>]
  /\ idle' = [idle EXCEPT ![h] = NextIdle(h)]
  /\ ncEvent' = [ncEvent EXCEPT ![h] = IF Again(h) THEN "pending" ELSE "timed out"]

RLNetworkCoding(h) ==
  LET buf == ncBuf[h] IN
  /\ NcInterval(h)
  /\ rxCl' = [rxCl EXCEPT ![h] = 0]
  /\ UNCHANGED <<net, closed, arrived>>
  /\ \/ /\ net.mode = "shuffle"
        /\ \E pkts \in Regrouped(buf) : link' = Sent(h, pkts, link)
     \/ /\ net.mode = "code"
        /\ \E f \in Ascending(Leaders(buf)) :
             \E c \in [1..(Len(f) * NcPktPLink) -> [1..Len(buf) -> Coeffs]] :
               link' = Sent(h, Recombined(h, buf, f, c), link)
-----------------------------------------------------------------------------
(* ReceiveCluster takes a packet of another head, unless it was combined   *)
(* too often or its values are not as many as this head's.                 *)
Accepted(h, pkt) ==
  pkt.head # h /\ pkt.cnt < NcMax /\ net.size[pkt.head] = net.size[h]

(* Receive, for a packet of a cluster head: the head's own come back only  *)
(* to be dropped.                                                          *)
Receive(h, pkt, links) ==
  /\ rxCl' = IF pkt.head = h THEN rxCl ELSE [rxCl EXCEPT ![h] = @ + 1]
  /\ \/ Accepted(h, pkt) /\ Pass(h, <<pkt>>, links)
     \/ ~Accepted(h, pkt) /\ link' = links /\ UNCHANGED ncBuf
  /\ UNCHANGED arrived

(* CsSinkApp takes it from here.                                           *)
ReceiveSink(pkt, links) ==
  /\ arrived' = arrived \cup pkt.origin
  /\ link' = links
  /\ UNCHANGED <<ncBuf, rxCl>>

Taken(e) == [link EXCEPT ![e] = Tail(@)]

Deliver(e) ==
  /\ link[e] # <<>>
  /\ \/ e[2] # Sink /\ Receive(e[2], Head(link[e]), Taken(e))
     \/ e[2] = Sink /\ ReceiveSink(Head(link[e]), Taken(e))
  /\ UNCHANGED <<net, closed, idle, ncEvent>>

Lose(e) ==
  /\ net.lossy
  /\ link[e] # <<>>
  /\ link' = Taken(e)
  /\ UNCHANGED <<net, closed, ncBuf, rxCl, idle, ncEvent, arrived>>

(* The event is cancelled; the receive callback stays installed.           *)
StopApplication(h) ==
  /\ ncEvent[h] = "pending"
  /\ ncEvent' = [ncEvent EXCEPT ![h] = "cancelled"]
  /\ UNCHANGED <<net, closed, ncBuf, rxCl, idle, link, arrived>>

Next ==
  \/ \E h \in Heads : StartNewSeq(h) \/ RLNetworkCoding(h) \/ StopApplication(h)
  \/ \E e \in Links : Deliver(e) \/ Lose(e)

Spec == Init /\ [][Next]_vars

(* The simulator runs every event that is due.  (Only RLNetworkCoding does *)
(* to the variables of NcInterval what NcInterval says.)                   *)
FairSpec ==
  /\ Spec
  /\ \A h \in Heads : WF_<<ncBuf, idle, ncEvent>>(NcInterval(h))
  /\ \A e \in Links : WF_vars(Deliver(e) \/ Lose(e))
-----------------------------------------------------------------------------
(* Every variable has its type.                                            *)
TypeOK ==
  /\ net \in Settings
  /\ \A h \in Heads : closed[h] \in Seq([seq : SeqNos, nodes : NodeSets[h]])
  /\ ncBuf \in [Heads -> Seq(Packets)]
  /\ rxCl \in [Heads -> Nat]
  /\ idle \in [Heads -> 0..net.timeOut]
  /\ ncEvent \in [Heads -> {"pending", "timed out", "cancelled", "unused"}]
  /\ link \in [Links -> Seq(Packets)]
  /\ arrived \subseteq Batches

InTransit ==
  UNION ({ToSet(ncBuf[h]) : h \in Heads} \cup {ToSet(link[e]) : e \in Links})

(* Whoever reads a header finds the coefficients with which the rows are   *)
(* in the payload, however often heads recombined the packet: always with  *)
(* normal or uniform coefficients, with Bernoulli ones if nobody combines  *)
(* packets and they fit in one byte.                                       *)
HeaderTrue(pkt) == Deserialize(net.coeff, pkt.field) = pkt.data
HeaderTellsPayload ==
  net.coeff # "BERN" \/ (net.mode # "code" /\ NcInfoSize <= PerByte) =>
    \A pkt \in InTransit : HeaderTrue(pkt)

(* Only packets of one sequence are combined, although a buffer holds      *)
(* several: all rows in a packet are of batches with its number.           *)
NumberOf(b) == closed[b[1]][b[2]].seq
OneSequence ==
  \A pkt \in InTransit : \A b \in pkt.origin : NumberOf(b) = pkt.seq

(* The batches of head d that carry the number k.                          *)
Closings(d, k) == {n \in 1..Len(closed[d]) : closed[d][n].seq = k}

(* The SrcInfo of a packet names, for every cluster in it, the nodes whose *)
(* rows were compressed, and no cluster that is not in it.  A head that    *)
(* closes a number twice makes two batches that packets can mix up: for    *)
(* such a cluster nothing is claimed.                                      *)
SrcInfoTrue ==
  \A pkt \in InTransit : \A d \in Heads :
    \/ \E n \in Closings(d, pkt.seq) : <<d, n>> \in pkt.origin /\ pkt.src[d] = closed[d][n].nodes
    \/ pkt.src[d] = {} /\ \A n \in Closings(d, pkt.seq) : <<d, n>> \notin pkt.origin
    \/ Cardinality(Closings(d, pkt.seq)) > 1

(* Without losses, with packets of one size and links that lead every head *)
(* on and never back, every row ever compressed is still in the network or *)
(* has reached the sink.                                                   *)
Ranks ==
  {rank \in [Heads -> 0..Cardinality(Heads)] :
     \A h \in Heads : \A d \in Out[h] \ {Sink} : rank[h] < rank[d]}
Reliable ==
  /\ ~net.lossy /\ NcMax > 0 /\ \A g, h \in Heads : net.size[g] = net.size[h]
  /\ Ranks # {} /\ \A h \in Heads : Out[h] # {}
Somewhere == arrived \cup UNION {pkt.origin : pkt \in InTransit}
Whole(h, n) == IF net.spatial THEN Lk[h] > 0 ELSE closed[h][n].nodes # {}
NothingVanishes ==
  Reliable => \A h \in Heads : \A n \in 1..Len(closed[h]) : Whole(h, n) => <<h, n>> \in Somewhere

(* The count of packets from other heads belongs to the interval: it       *)
(* covers all of their packets that the next interval combines.            *)
Foreign(buf, h) == {i \in 1..Len(buf) : buf[i].head # h}
CountCoversBuffer == \A h \in Heads : Cardinality(Foreign(ncBuf[h], h)) <= rxCl[h]

(* Every batch reaches the sink, if the network coding events never time   *)
(* out and no head is stopped.                                             *)
AllArrive ==
  \A h \in Heads : \A n \in 1..MaxClosed[h] :
    (Reliable /\ net.timeOut = 0 /\ Len(closed[h]) >= n /\ Whole(h, n))
      ~> (<<h, n>> \in arrived \/ \E g \in Heads : ncEvent[g] = "cancelled")

(* The header of a packet that was not combined yet names the row in its   *)
(* payload, also as Bernoulli coefficients ("they their bit representation *)
(* is true in a packet", cs-cluster-header.h:36).                          *)
CoefficientsTrue == \A pkt \in InTransit : pkt.depth = 0 => HeaderTrue(pkt)

(* No packet is recombined more often than NcMax allows ("Network coding:  *)
(* maximum NOF recombinations", cs-cluster-app.cc:69).                     *)
AtMostNcMax == \A pkt \in InTransit : pkt.depth <= NcMax
=============================================================================
