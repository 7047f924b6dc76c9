--------------------------- MODULE BroadcastQueue ---------------------------
(***************************************************************************)
(* The transmit side of CsSrcApp (inherited by CsClusterApp): the FIFO     *)
(* m_bcPackets, the simulator events that empty it, and the coin that      *)
(* decides whether a packet is sent at all.                                *)
(*                                                                         *)
(* Every action is one simulator event or one call made by another event.  *)
(* "agenda" holds the pending events of this application in the order in   *)
(* which the simulator will run them: Broadcast(pkt) and ScheduleBc().     *)
(* m_sendEvent is the handle of the Broadcast that was scheduled last; it  *)
(* says nothing of an older one that is still pending, as there may be     *)
(* once StopApplication has cancelled the last.  m_schedEvent needs no     *)
(* variable: it is only read to cancel it, once, and since every           *)
(* ScheduleBc() event waits for m_pktInterval, the one scheduled last is   *)
(* the last one in the agenda.                                             *)
(*                                                                         *)
(* The model is of the optimised build, where NS_ASSERT compiles to        *)
(* nothing; "failed" remembers which assertions a debug build would have   *)
(* stopped at.  Taking the front of an empty m_bcPackets is undefined:     *)
(* the model stops there.                                                  *)
(***************************************************************************)
EXTENDS Naturals, Sequences, SequencesExt

CONSTANTS
  MaxPkts,      \* packets written in a behaviour (bound)
  MaxList,      \* length of the longest list written at once (bound)
  TxOutcomes,   \* outcomes of "m_ranTx->GetValue() < m_txProb"
  ZeroInterval, \* is m_pktInterval zero (the default)?
  Reactive      \* does the application write after it was stopped?  A cluster
                \* head does, its receive callback stays installed

ASSUME BoundAssumption == MaxPkts \in Nat /\ MaxList \in Nat
ASSUME TxAssumption == TxOutcomes \subseteq BOOLEAN /\ TxOutcomes # {}
ASSUME ModeAssumption == ZeroInterval \in BOOLEAN /\ Reactive \in BOOLEAN

VARIABLES
  bcPackets,  \* m_bcPackets; packets are numbered as they are written
  agenda,     \* pending Broadcast and ScheduleBc events
  sendEvent,  \* m_sendEvent: the packet of the Broadcast scheduled last, or 0
  running,    \* m_running
  written,    \* history: packets written so far
  sent,       \* history: packets broadcast, in order (its length is m_sent)
  skipped,    \* history: packets the coin discarded
  cancelled,  \* history: packets whose Broadcast was cancelled
  orphaned,   \* history: packets whose Broadcast StopApplication left behind
  failed      \* history: assertions that did not hold

vars == <<bcPackets, agenda, sendEvent, running, written, sent, skipped, cancelled,
          orphaned, failed>>

NoPackets == "No packets to schedule!"
Already   == "Already sending!"
Running   == "m_sendEvent.IsExpired()"

(* Names ending in "Wrong" are mistakes that could be made in the          *)
(* definition below them; the properties are known to notice each of them. *)
SchedAsSendWrong == [kind |-> "send", pkt |-> 0]

SendEv(p) == [kind |-> "send", pkt |-> p]
SchedEv   == [kind |-> "sched", pkt |-> 0]
Events    == [kind : {"send"}, pkt : 1..MaxPkts] \cup {SchedEv}

HasBcPackets(q) == q # <<>>
Crashed         == NoPackets \in failed

(* m_sendEvent.IsRunning(): the Broadcast scheduled last is pending.       *)
IsBroadcasting(ag) == \E i \in 1..Len(ag) : ag[i] = SendEv(sendEvent)

Init ==
  /\ bcPackets = <<>>
  /\ agenda = <<>>
  /\ sendEvent = 0
  /\ running = TRUE
  /\ written = 0
  /\ sent = <<>>
  /\ skipped = {}
  /\ cancelled = {}
  /\ orphaned = {}
  /\ failed = {}

PoppedNotErasedWrong(q) == q
RetryForgottenWrong(ag) == ag

(* The front packet is erased; a skipped packet leaves a retry behind.     *)
Popped(q) == Tail(q)
Retry(ag) == Append(ag, SchedEv)

(* ScheduleBc(dt) with the queue q and the agenda ag as the caller left    *)
(* them.  dt is zero for a new transmission, which then runs before the    *)
(* events that wait for m_pktInterval, or after those due at the same      *)
(* time; it is m_pktInterval otherwise.                                    *)
ScheduleBc(q, ag, places, asserted) ==
  /\ failed' = asserted
        \cup (IF HasBcPackets(q) THEN {} ELSE {NoPackets})
        \cup (IF IsBroadcasting(ag) THEN {Already} ELSE {})
  /\ \/ /\ ~HasBcPackets(q)
        /\ bcPackets' = q
        /\ agenda' = ag
        /\ UNCHANGED <<sendEvent, skipped>>
     \/ /\ HasBcPackets(q)
        /\ TRUE \in TxOutcomes
        /\ \E at \in places : agenda' = InsertAt(ag, at, SendEv(Head(q)))
        /\ sendEvent' = Head(q)
        /\ bcPackets' = Popped(q)
        /\ skipped' = skipped
     \/ /\ HasBcPackets(q)
        /\ FALSE \in TxOutcomes
        /\ bcPackets' = Popped(q)
        /\ skipped' = skipped \cup {Head(q)}
        /\ agenda' = IF HasBcPackets(Popped(q)) THEN Retry(ag) ELSE ag
        /\ sendEvent' = sendEvent

AtEnd(ag)      == {Len(ag) + 1}
KickPlaces(ag) == IF ZeroInterval THEN AtEnd(ag) ELSE 1..(Len(ag) + 1)

NewPackets(k) == [i \in 1..k |-> written + i]

EnqueueFrontWrong(k)     == NewPackets(k) \o bcPackets
MayKickBusyWrong(q, ag)  == HasBcPackets(q)

(* The list goes to the end of the FIFO, and the transmission is started   *)
(* unless it is under way.                                                 *)
Enqueue(k)     == bcPackets \o NewPackets(k)
MayKick(q, ag) == HasBcPackets(q) /\ ~IsBroadcasting(ag)

(* Measure (a source) or the receive, timeout and network coding handlers  *)
(* (a head) hand k packets to WriteBcPacketList.                           *)
WriteBcPacketList(k) ==
  LET q == Enqueue(k) IN
  /\ ~Crashed
  /\ running \/ Reactive
  /\ written + k <= MaxPkts
  /\ written' = written + k
  /\ \/ /\ MayKick(q, agenda)
        /\ ScheduleBc(q, agenda, KickPlaces(agenda), failed)
     \/ /\ ~MayKick(q, agenda)
        /\ bcPackets' = q
        /\ UNCHANGED <<agenda, sendEvent, skipped, failed>>
  /\ UNCHANGED <<running, sent, cancelled, orphaned>>

(* The Broadcast event: the packet goes to every Tx device, and the next   *)
(* one is scheduled.                                                       *)
Broadcast ==
  /\ ~Crashed
  /\ agenda # <<>> /\ Head(agenda).kind = "send"
  /\ sent' = Append(sent, Head(agenda).pkt)
  /\ LET rest == Tail(agenda)
         asserted == failed \cup
                     (IF IsBroadcasting(rest) THEN {Running} ELSE {})
     IN \/ /\ HasBcPackets(bcPackets)
           /\ ScheduleBc(bcPackets, rest, AtEnd(rest), asserted)
        \/ /\ ~HasBcPackets(bcPackets)
           /\ agenda' = rest
           /\ failed' = asserted
           /\ UNCHANGED <<bcPackets, sendEvent, skipped>>
  /\ UNCHANGED <<running, written, cancelled, orphaned>>

(* The ScheduleBc event a skipped packet left behind.                      *)
Reschedule ==
  /\ ~Crashed
  /\ agenda # <<>> /\ Head(agenda).kind = "sched"
  /\ ScheduleBc(bcPackets, Tail(agenda), AtEnd(Tail(agenda)), failed)
  /\ UNCHANGED <<running, written, sent, cancelled, orphaned>>

(* StopApplication cancels the event each handle refers to, once, and      *)
(* leaves the others in the agenda.                                        *)
IsLast(ag, i, ev) ==
  /\ i \in 1..Len(ag) /\ ag[i] = ev
  /\ \A j \in (i+1)..Len(ag) : ag[j] # ev

CancelNothingWrong(ag, ev) == ag

Cancel(ag, ev) ==
  IF \E i \in 1..Len(ag) : IsLast(ag, i, ev)
  THEN RemoveAt(ag, CHOOSE i \in 1..Len(ag) : IsLast(ag, i, ev))
  ELSE ag

Pkts(ag) == {ag[i].pkt : i \in {j \in 1..Len(ag) : ag[j].kind = "send"}}

StopApplication ==
  /\ ~Crashed
  /\ running
  /\ running' = FALSE
  /\ agenda' = Cancel(Cancel(agenda, SendEv(sendEvent)), SchedEv)
  /\ cancelled' = cancelled \cup (IF IsBroadcasting(agenda) THEN {sendEvent} ELSE {})
  /\ orphaned' = Pkts(agenda')
  /\ UNCHANGED <<bcPackets, sendEvent, written, sent, skipped, failed>>

RunEvent == Broadcast \/ Reschedule

Next ==
  \/ \E k \in 0..MaxList : WriteBcPacketList(k)
  \/ RunEvent
  \/ StopApplication

Spec == Init /\ [][Next]_vars

(* The simulator runs every pending event.                                 *)
FairSpec == Spec /\ WF_vars(RunEvent)
-----------------------------------------------------------------------------
(* Every variable has its type.                                            *)
TypeOK ==
  /\ bcPackets \in Seq(1..MaxPkts)
  /\ agenda \in Seq(Events)
  /\ sendEvent \in 0..MaxPkts
  /\ running \in BOOLEAN
  /\ written \in 0..MaxPkts
  /\ sent \in Seq(1..MaxPkts)
  /\ skipped \subseteq 1..MaxPkts
  /\ cancelled \subseteq 1..MaxPkts
  /\ orphaned \subseteq 1..MaxPkts
  /\ failed \subseteq {NoPackets, Already, Running}

(* A newer packet passes an older one only if StopApplication left the     *)
(* Broadcast of the older one behind: a stopped cluster head that writes   *)
(* again takes the cancelled m_sendEvent for "not sending" and starts a    *)
(* transmission of delay zero ahead of it.                                 *)
MayPass(p, q) == ~ZeroInterval /\ q \in orphaned /\ p \notin orphaned

(* Packets leave in the order in which they were written to m_bcPackets    *)
(* (cs-src-app.h calls it a FIFO), however Broadcast and ScheduleBc events *)
(* interleave and whatever the coin skips.  The only packets that are ever *)
(* passed are those that were scheduled when the application was stopped,  *)
(* and then only by packets that were not, and only with a positive packet *)
(* interval.                                                               *)
Fifo ==
  \A i, j \in 1..Len(sent) : i < j => sent[i] < sent[j] \/ MayPass(sent[i], sent[j])

InAgenda == Pkts(agenda)

(* Every packet ever written is in exactly one place: waiting, scheduled,  *)
(* sent, skipped by the coin or cancelled by StopApplication.  None is     *)
(* lost or sent twice by the two kinds of events that race for the queue.  *)
Conserved ==
  /\ 1..written = ToSet(bcPackets) \cup InAgenda \cup ToSet(sent)
                    \cup skipped \cup cancelled
  /\ ToSet(bcPackets) \cap (InAgenda \cup ToSet(sent) \cup skipped \cup cancelled) = {}
  /\ InAgenda \cap (ToSet(sent) \cup skipped \cup cancelled) = {}
  /\ ToSet(sent) \cap (skipped \cup cancelled) = {}
  /\ skipped \cap cancelled = {}

(* A packet accepted and not yet broadcast waits or is scheduled.          *)
Abstract == INSTANCE LossyFifo
              WITH count <- written, out <- sent,
                   pending <- ToSet(bcPackets) \cup InAgenda,
                   late <- IF ZeroInterval THEN {} ELSE orphaned

(* The queue, its events and its coin implement a lossy FIFO whose sender  *)
(* may once leave packets behind: nothing is duplicated or invented on the *)
(* way to the devices, and only a packet left behind is passed by others.  *)
ImplementsLossyFifo == Abstract!FifoSpec

(* While the application runs, waiting packets always have an event that   *)
(* will take them from the queue: the transmission never stalls.           *)
NoStall == running /\ HasBcPackets(bcPackets) /\ ~Crashed => agenda # <<>>

(* As long as the coin skips nothing, as with the default transmission     *)
(* probability of one, no assertion of this code can fail: nothing is      *)
(* scheduled twice and the queue is never popped while empty.              *)
CertainTxIsSafe == skipped = {} => failed = {}

(* ScheduleBc asserts that a packet is waiting (cs-src-app.cc:344).        *)
AlwaysPacketToSchedule == NoPackets \notin failed

(* The queue drains: waiting packets are all taken from it, unless the     *)
(* program fails or the application is stopped and left without an event.  *)
(* A stopped cluster head that starts to transmit again drains its queue.  *)
Drains ==
  HasBcPackets(bcPackets)
    ~> (~HasBcPackets(bcPackets) \/ (~running /\ agenda = <<>>) \/ Crashed)

(* Stopping leaves no event behind that would still transmit, as long as   *)
(* the coin skips nothing: a stopped application is silent until it writes *)
(* again, which a source never does.                                       *)
SilentAfterStop == [][running /\ ~running' /\ skipped = {} => agenda' = <<>>]_vars
=============================================================================
