--------------------------- MODULE SensorCluster ---------------------------
(***************************************************************************)
(* A cluster: source nodes running CsSrcApp and the head running           *)
(* CsClusterApp, over one link per source.  A link keeps the order in      *)
(* which packets were handed over and may lose some, which is what         *)
(* BroadcastQueue is shown to implement for an application that, like a    *)
(* source, does not write after it was stopped.                            *)
(*                                                                         *)
(* All nodes start at the same time and share one measurement interval, as *)
(* every simulation of the repository sets them up: the k-th measurements  *)
(* of all nodes are scheduled for the same time and earlier than any       *)
(* packet that carries one of them.  A setting says what links and delays  *)
(* do in a run: may packets be lost (lossy), is the timeout longer than    *)
(* any packet takes from source to head (timeoutWaits), is the measurement *)
(* interval longer than both together (measureWaits)?  Without the last,   *)
(* packets of several measurements may be on the way at once.              *)
(***************************************************************************)
EXTENDS ClusterHead

CONSTANT Settings  \* the settings to look at

ASSUME SettingsAssumption ==
  Settings \subseteq [lossy : BOOLEAN, timeoutWaits : BOOLEAN, measureWaits : BOOLEAN]

VARIABLES
  setting,   \* the setting of this run; it never changes
  measured,  \* measured[n]: measurements source n has taken, its m_nextSeq
  link,      \* link[n]: measurements on the way from source n to the head
  started,   \* history: measured, when the timeout was last restarted
  heard      \* history: the latest measurement a packet was received of

airVars == <<setting, measured, link, started, heard>>
vars    == <<headVars, airVars>>

Init ==
  /\ HeadInit
  /\ setting \in Settings
  /\ measured = [n \in Sources |-> 0]
  /\ link = [n \in Sources |-> <<>>]
  /\ started = measured
  /\ heard = Empty

LinksEmpty == \A n \in Sources : link[n] = <<>>

(* Everybody but a stopped head has taken k measurements.                  *)
AllTook(k) == (own >= k \/ ~running) /\ \A n \in Sources : measured[n] >= k
SomeTookMore(k) == own > k \/ \E n \in Sources : measured[n] > k

(* It is time for the measurement that follows the first k.                *)
Turn(k) ==
  /\ AllTook(k)
  /\ setting.measureWaits => SomeTookMore(k) \/ (LinksEmpty /\ timer = Empty)

HeadMeasure ==
  /\ Turn(own)
  /\ Measure
  /\ UNCHANGED airVars

(* CsSrcApp::Measure of a source: the next block is compressed and sent.   *)
SrcMeasure(n) ==
  /\ ~Crashed
  /\ measured[n] < MaxMeas
  /\ Turn(measured[n])
  /\ link' = [link EXCEPT ![n] = Append(@, measured[n])]
  /\ measured' = [measured EXCEPT ![n] = @ + 1]
  /\ UNCHANGED <<headVars, setting, started, heard>>

(* A packet of the k-th measurement arrives after all nodes have taken it. *)
Arrives(n) ==
  /\ ~Crashed
  /\ link[n] # <<>>
  /\ AllTook(Head(link[n]) + 1)
  /\ link' = [link EXCEPT ![n] = Tail(@)]
  /\ UNCHANGED <<setting, measured>>

Deliver(n) ==
  /\ Arrives(n)
  /\ ReceiveSrc([node |-> n, meas |-> Head(link[n])])
  /\ started' = measured
  /\ heard' = IF Head(link[n]) > heard THEN Head(link[n]) ELSE heard

Lose(n) ==
  /\ setting.lossy
  /\ Arrives(n)
  /\ UNCHANGED <<headVars, started, heard>>

(* A packet that was on the way when the timeout was restarted takes less  *)
(* than the timeout, if timeoutWaits; later ones may still be on the way.  *)
NoneOnTheWay == \A n \in Sources : link[n] # <<>> => Head(link[n]) >= started[n]

HeadTimeOut ==
  /\ setting.timeoutWaits => NoneOnTheWay
  /\ TimeOut
  /\ UNCHANGED airVars

HeadStop == StopApplication /\ UNCHANGED airVars

Next ==
  \/ HeadMeasure
  \/ \E n \in Sources : SrcMeasure(n) \/ Deliver(n) \/ Lose(n)
  \/ HeadTimeOut
  \/ HeadStop

Spec == Init /\ [][Next]_vars

(* The simulator runs every event that is due.                             *)
FairSpec ==
  /\ Spec
  /\ WF_vars(HeadMeasure)
  /\ WF_vars(HeadTimeOut)
  /\ \A n \in Sources : WF_vars(SrcMeasure(n)) /\ WF_vars(Deliver(n) \/ Lose(n))
-----------------------------------------------------------------------------
(* The head has every variable's type, and so do sources and links.        *)
TypeOK ==
  /\ HeadTypeOK
  /\ setting \in Settings
  /\ measured \in [Sources -> Meas]
  /\ link \in [Sources -> Seq(Meas)]
  /\ started \in [Sources -> Meas]
  /\ heard \in Meas \cup {Empty}

(* A head has room for one row of each node, and is never given more: the  *)
(* write that leaves its matrix cannot happen.                             *)
NoOverflow == ~Crashed

(* No row is compressed twice, or compressed and still waiting, although a *)
(* head may go back to a sequence number it has already sent.              *)
CompressedOnce ==
  /\ \A i, j \in 1..Len(batches) : i # j => batches[i].rows \cap batches[j].rows = {}
  /\ \A i \in 1..Len(batches) : batches[i].rows \cap ToSet(srcBuf) = {}

Ideal == ~setting.lossy /\ setting.timeoutWaits /\ setting.measureWaits
Quiet == running /\ LinksEmpty /\ timer = Empty /\ \A n \in Sources : measured[n] = own

(* When packets are not lost, the timeout is longer than any packet takes  *)
(* and the interval longer than both, every measurement is compressed      *)
(* exactly once, with the row of every node, under its own sequence        *)
(* number, and with the right count of packets: across the wrap-around of  *)
(* the sequence number too.                                                *)
CompleteBatches ==
  Ideal /\ Quiet /\ Sources # {} =>
    batches = [k \in 1..own |->
                 [seq  |-> SeqNo(k - 1),
                  rows |-> {[node |-> n, meas |-> k - 1] :
                              n \in (Sources \ Misfit) \cup {HeadNode}},
                  rx   |-> Cardinality(Sources)]]

(* A batch holds data of the measurement its sequence number names.        *)
RowsMatchSeq ==
  \A i \in 1..Len(batches) : \A r \in batches[i].rows : SeqNo(r.meas) = batches[i].seq

(* A head drops a packet as expired only if it is old: it has received a   *)
(* packet of a later measurement before.                                   *)
ExpiresOld ==
  \A n \in Sources :
    Deliver(n) /\ SeqNo(Head(link[n])) < nextSeq => heard > Head(link[n])

TimelyOnlyOldExpire == [][setting.timeoutWaits => ExpiresOld]_vars

(* Every row that a head accepts is eventually compressed and sent, unless *)
(* the application is stopped first; a stopped head goes on receiving, and *)
(* sends what it accepts then.                                             *)
RowsAreSent ==
  \A n \in Sources, k \in Meas :
    [node |-> n, meas |-> k] \in ToSet(srcBuf) ~>
      \/ \E i \in 1..Len(batches) : [node |-> n, meas |-> k] \in batches[i].rows
      \/ ~running /\ timer = Empty
=============================================================================
