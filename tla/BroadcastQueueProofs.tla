------------------------ MODULE BroadcastQueueProofs ------------------------
(***************************************************************************)
(* Proofs about BroadcastQueue for every bound, every behaviour of the     *)
(* coin, and both kinds of application.                                    *)
(*                                                                         *)
(* That packets leave in order is not inductive: it rests on where every   *)
(* packet that has not left is.  Ordered says it: m_bcPackets holds the    *)
(* last packets written, without a gap; everything scheduled was taken     *)
(* from the queue before them; the scheduled packets are in order, but for *)
(* those the application left behind when it was stopped; and so are all   *)
(* that were sent before them.  Handled says what m_sendEvent is good for: *)
(* the packet it stands for is the youngest scheduled, and it is pending   *)
(* whenever a Broadcast is that was not left behind.                       *)
(***************************************************************************)
EXTENDS BroadcastQueue, SequenceTheorems, TLAPS

(* o holds the packets that may be passed.                                 *)
Before(p, r, o) == p < r \/ (r \in o /\ p \notin o)

Ordered(q, ag, snt, w, o) ==
  /\ Len(q) <= w
  /\ \A i \in 1..Len(q) : q[i] = w - Len(q) + i
  /\ \A i, j \in 1..Len(ag) :
       i < j /\ ag[i].kind = "send" /\ ag[j].kind = "send"
         => Before(ag[i].pkt, ag[j].pkt, o)
  /\ \A i \in 1..Len(ag) : ag[i].kind = "send" => ag[i].pkt <= w - Len(q)
  /\ \A i, j \in 1..Len(snt) : i < j => Before(snt[i], snt[j], o)
  /\ \A i \in 1..Len(snt) : snt[i] <= w - Len(q)
  /\ \A i \in 1..Len(snt), j \in 1..Len(ag) :
       ag[j].kind = "send" => Before(snt[i], ag[j].pkt, o)
  /\ \A p \in o : p <= w - Len(q)

Handled(ag, h, o) ==
  \A i \in 1..Len(ag) :
    ag[i].kind = "send" /\ ag[i].pkt \notin o
      => ag[i].pkt <= h /\ \E j \in 1..Len(ag) : ag[j] = SendEv(h)

Passable == IF ZeroInterval THEN {} ELSE orphaned

IInv ==
  /\ TypeOK
  /\ Ordered(bcPackets, agenda, sent, written, Passable)
  /\ Handled(agenda, sendEvent, orphaned)
  /\ running => orphaned = {}
-----------------------------------------------------------------------------
(* Inserting an element moves those behind it by one place.                *)
LEMMA InsertAtProperties ==
  ASSUME NEW S, NEW s \in Seq(S), NEW e \in S, NEW at \in 1..(Len(s) + 1)
  PROVE  /\ InsertAt(s, at, e) \in Seq(S)
         /\ Len(InsertAt(s, at, e)) = Len(s) + 1
         /\ InsertAt(s, at, e)[at] = e
         /\ \A i \in 1..(at - 1) : InsertAt(s, at, e)[i] = s[i]
         /\ \A i \in (at + 1)..(Len(s) + 1) : InsertAt(s, at, e)[i] = s[i - 1]
<1> DEFINE l == SubSeq(s, 1, at - 1)
           r == SubSeq(s, at, Len(s))
<1>1. /\ l \in Seq(S) /\ Len(l) = at - 1
      /\ \A i \in 1..(at - 1) : l[i] = s[i]
  <2>1. \A i \in 1..(at - 1) : s[i] \in S
    BY ElementOfSeq
  <2>2. QED  BY <2>1, SubSeqProperties
<1>2. /\ r \in Seq(S) /\ Len(r) = Len(s) - at + 1
      /\ \A i \in 1..(Len(s) - at + 1) : r[i] = s[at + i - 1]
  <2>1. \A i \in at..Len(s) : s[i] \in S
    BY ElementOfSeq
  <2>2. QED  BY <2>1, SubSeqProperties
<1>3. <<e>> \in Seq(S) /\ Len(<<e>>) = 1 /\ <<e>>[1] = e
  OBVIOUS
<1> HIDE DEF l, r
<1> DEFINE le == l \o <<e>>
<1>4. /\ le \in Seq(S) /\ Len(le) = at
      /\ \A i \in 1..at : le[i] = IF i < at THEN s[i] ELSE e
  <2>1. /\ le \in Seq(S) /\ Len(le) = Len(l) + 1
        /\ \A i \in 1..(Len(l) + 1) :
             le[i] = IF i <= Len(l) THEN l[i] ELSE <<e>>[i - Len(l)]
    BY <1>1, <1>3, ConcatProperties
  <2>2. QED  BY <1>1, <1>3, <2>1
<1>5. InsertAt(s, at, e) = le \o r
  BY DEF InsertAt, l, r
<1> HIDE DEF le
<1>6. /\ le \o r \in Seq(S)
      /\ Len(le \o r) = at + Len(r)
      /\ \A i \in 1..(at + Len(r)) :
           (le \o r)[i] = IF i <= at THEN le[i] ELSE r[i - at]
  BY <1>2, <1>4, ConcatProperties
<1>7. \A i \in (at + 1)..(Len(s) + 1) : i - at \in 1..(Len(s) - at + 1) /\ r[i - at] = s[i - 1]
  BY <1>2
<1>8. \A i \in (at + 1)..(Len(s) + 1) : (le \o r)[i] = s[i - 1]
  BY <1>2, <1>6, <1>7
<1>9. ASSUME NEW i \in 1..at
      PROVE  (le \o r)[i] = IF i < at THEN s[i] ELSE e
  <2>1. i \in 1..(at + Len(r)) /\ i <= at
    BY <1>2
  <2>2. (le \o r)[i] = le[i]
    BY <1>6, <2>1
  <2>3. QED  BY <1>4, <2>2
<1>10. QED
  BY <1>2, <1>5, <1>6, <1>8, <1>9

(* Removing an element moves those behind it by one place.                 *)
LEMMA RemoveAtProperties ==
  ASSUME NEW S, NEW s \in Seq(S), NEW at \in 1..Len(s)
  PROVE  /\ RemoveAt(s, at) \in Seq(S)
         /\ Len(RemoveAt(s, at)) = Len(s) - 1
         /\ \A i \in 1..(at - 1) : RemoveAt(s, at)[i] = s[i]
         /\ \A i \in at..(Len(s) - 1) : RemoveAt(s, at)[i] = s[i + 1]
<1> DEFINE l == SubSeq(s, 1, at - 1)
           r == SubSeq(s, at + 1, Len(s))
<1>1. /\ l \in Seq(S) /\ Len(l) = at - 1
      /\ \A i \in 1..(at - 1) : l[i] = s[i]
  <2>1. \A i \in 1..(at - 1) : s[i] \in S
    BY ElementOfSeq
  <2>2. QED  BY <2>1, SubSeqProperties
<1>2. /\ r \in Seq(S) /\ Len(r) = Len(s) - at
      /\ \A i \in 1..(Len(s) - at) : r[i] = s[at + i]
  <2>1. \A i \in (at + 1)..Len(s) : s[i] \in S
    BY ElementOfSeq
  <2>2. QED  BY <2>1, SubSeqProperties
<1>3. RemoveAt(s, at) = l \o r
  BY DEF RemoveAt
<1> HIDE DEF l, r
<1>4. /\ l \o r \in Seq(S) /\ Len(l \o r) = Len(l) + Len(r)
      /\ \A i \in 1..(Len(l) + Len(r)) :
           (l \o r)[i] = IF i <= Len(l) THEN l[i] ELSE r[i - Len(l)]
  BY <1>1, <1>2, ConcatProperties
<1>5. QED
  BY <1>1, <1>2, <1>3, <1>4

(* Taking events away from the agenda keeps the packets in order.          *)
LEMMA ThinnedAgenda ==
  ASSUME NEW q, NEW ag, NEW rest, NEW snt, NEW w, NEW o, NEW f,
         \A i \in 1..Len(rest) : f[i] \in 1..Len(ag) /\ rest[i] = ag[f[i]],
         \A i, j \in 1..Len(rest) : i < j => f[i] < f[j],
         Ordered(q, ag, snt, w, o)
  PROVE  Ordered(q, rest, snt, w, o)
<1>1. ASSUME NEW i \in 1..Len(rest), NEW j \in 1..Len(rest), i < j,
             rest[i].kind = "send", rest[j].kind = "send"
      PROVE  Before(rest[i].pkt, rest[j].pkt, o)
  <2>1. f[i] \in 1..Len(ag) /\ f[j] \in 1..Len(ag) /\ f[i] < f[j]
    BY <1>1
  <2>2. rest[i] = ag[f[i]] /\ rest[j] = ag[f[j]]
    BY <1>1
  <2>3. QED  BY <1>1, <2>1, <2>2 DEF Ordered
<1>2. ASSUME NEW i \in 1..Len(rest), rest[i].kind = "send"
      PROVE  /\ rest[i].pkt <= w - Len(q)
             /\ \A j \in 1..Len(snt) : Before(snt[j], rest[i].pkt, o)
  <2>1. f[i] \in 1..Len(ag) /\ rest[i] = ag[f[i]]
    BY <1>2
  <2>2. QED  BY <1>2, <2>1 DEF Ordered
<1>3. QED  BY <1>1, <1>2 DEF Ordered

(* The first event is taken from the agenda.                               *)
LEMMA FirstTaken ==
  ASSUME NEW ag \in Seq(Events), ag # <<>>,
         NEW q, NEW snt, NEW w, NEW o, Ordered(q, ag, snt, w, o)
  PROVE  /\ Tail(ag) \in Seq(Events) /\ Len(Tail(ag)) \in Nat
         /\ Len(Tail(ag)) = Len(ag) - 1
         /\ \A i \in 1..Len(Tail(ag)) : Tail(ag)[i] = ag[i + 1]
         /\ Head(ag) = ag[1] /\ 1 \in 1..Len(ag)
         /\ Ordered(q, Tail(ag), snt, w, o)
<1> DEFINE rest == Tail(ag)
<1>1. /\ rest \in Seq(Events) /\ Len(rest) = Len(ag) - 1 /\ Len(rest) \in Nat
      /\ \A i \in 1..Len(rest) : rest[i] = ag[i + 1]
      /\ Head(ag) = ag[1] /\ 1 \in 1..Len(ag) /\ Len(ag) \in Nat
  BY HeadTailProperties
<1> HIDE DEF rest
<1>2. Ordered(q, rest, snt, w, o)
  <2> DEFINE f == [i \in 1..Len(rest) |-> i + 1]
  <2>1. \A i \in 1..Len(rest) : f[i] \in 1..Len(ag) /\ rest[i] = ag[f[i]]
    BY <1>1
  <2>2. \A i, j \in 1..Len(rest) : i < j => f[i] < f[j]
    OBVIOUS
  <2> HIDE DEF f
  <2>3. QED  BY <2>1, <2>2, ThinnedAgenda
<1>3. QED  BY <1>1, <1>2 DEF rest

(* Cancelling an event leaves a subsequence of the agenda.                 *)
LEMMA CancelProperties ==
  ASSUME NEW ag \in Seq(Events), NEW ev,
         NEW q, NEW snt, NEW w, NEW o, Ordered(q, ag, snt, w, o)
  PROVE  Cancel(ag, ev) \in Seq(Events) /\ Ordered(q, Cancel(ag, ev), snt, w, o)
<1>1. CASE \E i \in 1..Len(ag) : IsLast(ag, i, ev)
  <2>1. PICK at \in 1..Len(ag) : Cancel(ag, ev) = RemoveAt(ag, at)
    BY <1>1 DEF Cancel
  <2> DEFINE rest == RemoveAt(ag, at)
  <2>2. /\ rest \in Seq(Events)
        /\ Len(rest) = Len(ag) - 1
        /\ \A i \in 1..(at - 1) : rest[i] = ag[i]
        /\ \A i \in at..(Len(ag) - 1) : rest[i] = ag[i + 1]
    BY RemoveAtProperties
  <2> HIDE DEF rest
  <2>3. PICK f \in [1..Len(rest) -> 1..Len(ag)] :
          /\ \A i \in 1..Len(rest) : rest[i] = ag[f[i]]
          /\ \A i, j \in 1..Len(rest) : i < j => f[i] < f[j]
    <3> DEFINE g == [i \in 1..Len(rest) |-> IF i < at THEN i ELSE i + 1]
    <3>1. g \in [1..Len(rest) -> 1..Len(ag)]
      BY <2>2
    <3>2. \A i \in 1..Len(rest) : rest[i] = ag[g[i]]
      BY <2>2
    <3>3. \A i, j \in 1..Len(rest) : i < j => g[i] < g[j]
      BY <2>2
    <3>4. QED  BY <3>1, <3>2, <3>3
  <2>4. \A i \in 1..Len(rest) : f[i] \in 1..Len(ag) /\ rest[i] = ag[f[i]]
    BY <2>3
  <2>5. Ordered(q, rest, snt, w, o)
    BY <2>3, <2>4, ThinnedAgenda
  <2>6. QED  BY <2>1, <2>2, <2>5 DEF rest
<1>2. CASE ~\E i \in 1..Len(ag) : IsLast(ag, i, ev)
  BY <1>2 DEF Cancel
<1>3. QED  BY <1>1, <1>2

(* Packets that are in order stay so when some of them may be passed.      *)
LEMMA StillOrdered ==
  ASSUME NEW q, NEW ag, NEW snt, NEW w, Ordered(q, ag, snt, w, {}),
         NEW o, \A p \in o : p <= w - Len(q)
  PROVE  Ordered(q, ag, snt, w, o)
<1>1. \A p, r : Before(p, r, {}) => Before(p, r, o)
  BY DEF Before
<1>2. QED  BY <1>1 DEF Ordered

(* The front packet is younger than all that were taken before it.         *)
LEMMA FrontPacket ==
  ASSUME NEW q \in Seq(1..MaxPkts), HasBcPackets(q), NEW w \in 0..MaxPkts,
         NEW ag, NEW snt, NEW o, Ordered(q, ag, snt, w, o)
  PROVE  /\ Popped(q) \in Seq(1..MaxPkts)
         /\ Len(Popped(q)) = Len(q) - 1
         /\ \A i \in 1..Len(Popped(q)) : Popped(q)[i] = w - Len(Popped(q)) + i
         /\ Head(q) \in 1..MaxPkts
         /\ Head(q) = w - Len(Popped(q))
         /\ Head(q) = w - Len(q) + 1
         /\ Len(q) \in 1..w
<1>1. /\ Len(q) \in Nat \ {0} /\ Len(q) <= w
      /\ \A i \in 1..Len(q) : q[i] = w - Len(q) + i
  BY EmptySeq DEF HasBcPackets, Ordered
<1>2. /\ Head(q) \in 1..MaxPkts /\ Tail(q) \in Seq(1..MaxPkts)
      /\ Len(Tail(q)) = Len(q) - 1
      /\ \A i \in 1..Len(Tail(q)) : Tail(q)[i] = q[i + 1]
  BY HeadTailProperties DEF HasBcPackets
<1>3. Head(q) = q[1]
  BY DEF HasBcPackets
<1>4. QED  BY <1>1, <1>2, <1>3 DEF Popped

(* Events that send carry a packet that was written.                       *)
LEMMA EventPackets ==
  ASSUME NEW e \in Events
  PROVE  e.pkt \in Nat /\ (e.kind = "send" => e.pkt \in 1..MaxPkts)
  BY BoundAssumption DEF Events, SchedEv

(* ScheduleBc keeps the packets in order, provided that a packet is only   *)
(* scheduled ahead of Broadcasts that may be passed, and m_sendEvent the   *)
(* handle of the youngest.                                                 *)
LEMMA ScheduleBcOrdered ==
  ASSUME NEW q \in Seq(1..MaxPkts), NEW ag \in Seq(Events), NEW snt,
         NEW w \in 0..MaxPkts, NEW o, NEW places, NEW asserted,
         asserted \subseteq {NoPackets, Already, Running},
         skipped \subseteq 1..MaxPkts, sendEvent \in 0..MaxPkts,
         places \subseteq 1..(Len(ag) + 1),
         places = AtEnd(ag)
           \/ \A i \in 1..Len(ag) : ag[i].kind = "send" => ag[i].pkt \in o,
         Ordered(q, ag, snt, w, o),
         NEW lost, Handled(ag, sendEvent, lost),
         \A i \in 1..Len(snt) : snt[i] \in 1..MaxPkts,
         o \subseteq 1..MaxPkts,
         ScheduleBc(q, ag, places, asserted)
  PROVE  /\ bcPackets' \in Seq(1..MaxPkts)
         /\ agenda' \in Seq(Events)
         /\ skipped' \subseteq 1..MaxPkts
         /\ sendEvent' \in 0..MaxPkts
         /\ failed' \subseteq {NoPackets, Already, Running}
         /\ Ordered(bcPackets', agenda', snt, w, o)
         /\ Handled(agenda', sendEvent', lost)
<1>1. failed' \subseteq {NoPackets, Already, Running}
  BY DEF ScheduleBc
<1>2. CASE ~HasBcPackets(q)
  BY <1>1, <1>2 DEF ScheduleBc
<1>3. ASSUME HasBcPackets(q)
      PROVE  /\ Popped(q) \in Seq(1..MaxPkts)
             /\ Len(Popped(q)) = Len(q) - 1
             /\ \A i \in 1..Len(Popped(q)) : Popped(q)[i] = w - Len(Popped(q)) + i
             /\ Head(q) \in 1..MaxPkts
             /\ Head(q) = w - Len(Popped(q))
             /\ Head(q) = w - Len(q) + 1
             /\ Len(q) \in 1..w
  BY <1>3, FrontPacket
<1>4. ASSUME HasBcPackets(q), NEW at \in 1..(Len(ag) + 1), at \in places,
             NEW e \in Events, e = SendEv(Head(q)),
             agenda' = InsertAt(ag, at, e), sendEvent' = Head(q),
             bcPackets' = Popped(q), skipped' = skipped
      PROVE  /\ agenda' \in Seq(Events) /\ Ordered(bcPackets', agenda', snt, w, o)
             /\ Handled(agenda', sendEvent', lost)
  <2>1. e.kind = "send" /\ e.pkt = Head(q)
    BY <1>4 DEF SendEv
  <2>2. at \in 1..(Len(ag) + 1) /\ Len(ag) \in Nat
    OBVIOUS
  <2>3. /\ agenda' \in Seq(Events)
        /\ Len(agenda') = Len(ag) + 1
        /\ agenda'[at] = e
        /\ \A i \in 1..(at - 1) : agenda'[i] = ag[i]
        /\ \A i \in (at + 1)..(Len(ag) + 1) : agenda'[i] = ag[i - 1]
    <3> DEFINE ia == InsertAt(ag, at, e)
    <3>1. /\ ia \in Seq(Events)
          /\ Len(ia) = Len(ag) + 1
          /\ ia[at] = e
          /\ \A i \in 1..(at - 1) : ia[i] = ag[i]
          /\ \A i \in (at + 1)..(Len(ag) + 1) : ia[i] = ag[i - 1]
      BY InsertAtProperties
    <3> HIDE DEF ia
    <3>2. agenda' = ia
      BY <1>4 DEF ia
    <3>3. QED  BY <3>1, <3>2
  <2> DEFINE n == Head(q)
  <2>4. /\ n \in Nat /\ n = w - Len(bcPackets') /\ n = w - Len(q) + 1 /\ n \notin o
    <3>1. n \in Nat /\ n = w - Len(bcPackets') /\ n = w - Len(q) + 1
      BY <1>3, <1>4
    <3>2. \A p \in o : p \in Nat /\ p <= w - Len(q)
      BY DEF Ordered
    <3>3. Len(q) \in Nat
      OBVIOUS
    <3>4. QED  BY <3>1, <3>2, <3>3
  <2> HIDE DEF n
  <2>5. ASSUME NEW i \in 1..Len(ag), ag[i].kind = "send"
        PROVE  ag[i].pkt \in Nat /\ ag[i].pkt < n
    <3>1. ag[i].pkt \in Nat /\ ag[i].pkt <= w - Len(q)
      BY <2>5, ElementOfSeq, EventPackets DEF Ordered
    <3>2. QED  BY <2>4, <3>1
(* An event of the new agenda is the new one, or stood in the old one at   *)
(* its place or one before.                                                *)
  <2>6. ASSUME NEW i \in 1..Len(agenda')
        PROVE  \/ i = at /\ agenda'[i] = e
               \/ i < at /\ i \in 1..Len(ag) /\ agenda'[i] = ag[i]
               \/ i > at /\ i - 1 \in 1..Len(ag) /\ agenda'[i] = ag[i - 1]
    <3>1. CASE i = at
      BY <2>3, <3>1
    <3>2. CASE i < at
      BY <2>2, <2>3, <3>2
    <3>3. CASE i > at
      <4>1. i \in (at + 1)..(Len(ag) + 1) /\ i - 1 \in 1..Len(ag)
        BY <2>2, <2>3, <3>3
      <4>2. QED  BY <2>3, <3>3, <4>1
    <3>4. QED  BY <2>2, <3>1, <3>2, <3>3
  <2>7. ASSUME NEW i \in 1..Len(agenda'), agenda'[i].kind = "send", i > at
        PROVE  agenda'[i].pkt \in o
    <3>1. i - 1 \in 1..Len(ag) /\ agenda'[i] = ag[i - 1]
      BY <2>2, <2>6, <2>7
    <3>2. places # AtEnd(ag)
      BY <1>4, <2>2, <2>7, <3>1 DEF AtEnd
    <3>3. QED  BY <2>7, <3>1, <3>2
  <2>8. ASSUME NEW i \in 1..Len(agenda'), agenda'[i].kind = "send"
        PROVE  /\ agenda'[i].pkt \in Nat /\ agenda'[i].pkt <= n
               /\ i # at => agenda'[i].pkt < n
               /\ \A k \in 1..Len(snt) : Before(snt[k], agenda'[i].pkt, o)
    <3>1. CASE agenda'[i] = e
      <4>1. agenda'[i].pkt = n
        BY <2>1, <3>1 DEF n
      <4>2. \A k \in 1..Len(snt) : snt[k] \in Nat /\ snt[k] <= w - Len(q)
        <5>1. \A k \in 1..Len(snt) : snt[k] \in Nat
          OBVIOUS
        <5>2. QED  BY <5>1 DEF Ordered
      <4>3. \A k \in 1..Len(snt) : snt[k] < n
        BY <2>4, <4>2
      <4>4. i = at
        <5>1. i # at => \E j \in 1..Len(ag) : agenda'[i] = ag[j]
          BY <2>2, <2>6
        <5>2. QED  BY <2>4, <2>5, <2>8, <4>1, <5>1
      <4>5. QED  BY <2>4, <4>1, <4>3, <4>4 DEF Before
    <3>2. CASE \E j \in 1..Len(ag) : agenda'[i] = ag[j]
      <4>1. PICK j \in 1..Len(ag) : agenda'[i] = ag[j]
        BY <3>2
      <4>2. ag[j].kind = "send" /\ ag[j].pkt \in Nat /\ ag[j].pkt < n
        BY <2>5, <2>8, <4>1
      <4>3. \A k \in 1..Len(snt) : Before(snt[k], ag[j].pkt, o)
        BY <4>2 DEF Ordered
      <4>4. QED  BY <2>4, <4>1, <4>2, <4>3
    <3>3. QED  BY <2>6, <3>1, <3>2
  <2>9. ASSUME NEW i \in 1..Len(agenda'), NEW j \in 1..Len(agenda'), i < j,
               agenda'[i].kind = "send", agenda'[j].kind = "send"
        PROVE  Before(agenda'[i].pkt, agenda'[j].pkt, o)
    <3>1. CASE i = at
      <4>1. agenda'[i].pkt = n /\ agenda'[j].pkt \in o
        BY <2>1, <2>2, <2>3, <2>7, <2>9, <3>1 DEF n
      <4>2. QED  BY <2>4, <4>1 DEF Before
    <3>2. CASE j = at
      <4>1. agenda'[j].pkt = n /\ agenda'[i].pkt < n
        BY <2>1, <2>3, <2>8, <2>9, <3>2 DEF n
      <4>2. QED  BY <4>1 DEF Before
    <3>3. CASE i # at /\ j # at
      <4>1. PICK k \in 1..Len(ag), l \in 1..Len(ag) :
              k < l /\ agenda'[i] = ag[k] /\ agenda'[j] = ag[l]
        <5>1. PICK k \in 1..Len(ag) : agenda'[i] = ag[k]
                     /\ ((i < at /\ k = i) \/ (i > at /\ k = i - 1))
          BY <2>2, <2>6, <3>3
        <5>2. PICK l \in 1..Len(ag) : agenda'[j] = ag[l]
                     /\ ((j < at /\ l = j) \/ (j > at /\ l = j - 1))
          BY <2>2, <2>6, <3>3
        <5>3. k < l
          BY <2>2, <2>9, <5>1, <5>2
        <5>4. QED  BY <5>1, <5>2, <5>3
      <4>2. QED  BY <2>9, <4>1 DEF Ordered
    <3>4. QED  BY <3>1, <3>2, <3>3
  <2>10. \A i \in 1..Len(snt) : snt[i] <= w - Len(bcPackets')
    <3>1. \A i \in 1..Len(snt) : snt[i] \in Nat /\ snt[i] <= w - Len(q)
      BY DEF Ordered
    <3>2. QED  BY <2>4, <3>1
  <2>11. \A p \in o : p <= w - Len(bcPackets')
    <3>1. \A p \in o : p \in Nat /\ p <= w - Len(q)
      BY DEF Ordered
    <3>2. QED  BY <2>4, <3>1
  <2>12. /\ Len(bcPackets') <= w
         /\ \A i \in 1..Len(bcPackets') : bcPackets'[i] = w - Len(bcPackets') + i
    BY <1>3, <1>4
  <2>13. \A i \in 1..Len(agenda') :
           agenda'[i].kind = "send" => agenda'[i].pkt <= w - Len(bcPackets')
    BY <2>4, <2>8
  <2>14. \A i \in 1..Len(snt), j \in 1..Len(agenda') :
           agenda'[j].kind = "send" => Before(snt[i], agenda'[j].pkt, o)
    BY <2>8
  <2>15. \A i, j \in 1..Len(snt) : i < j => Before(snt[i], snt[j], o)
    BY DEF Ordered
  <2>16. Ordered(bcPackets', agenda', snt, w, o)
    BY <2>9, <2>10, <2>11, <2>12, <2>13, <2>14, <2>15 DEF Ordered
  <2>17. Handled(agenda', sendEvent', lost)
    <3>1. at \in 1..Len(agenda') /\ agenda'[at] = SendEv(sendEvent') /\ sendEvent' = n
      BY <1>4, <2>2, <2>3 DEF n
    <3>2. QED  BY <2>8, <3>1 DEF Handled
  <2>18. QED  BY <2>3, <2>16, <2>17
<1>5. ASSUME HasBcPackets(q), bcPackets' = Popped(q), sendEvent' = sendEvent,
             agenda' = IF HasBcPackets(Popped(q)) THEN Retry(ag) ELSE ag
      PROVE  /\ agenda' \in Seq(Events) /\ Ordered(bcPackets', agenda', snt, w, o)
             /\ Handled(agenda', sendEvent', lost)
  <2>1. SchedEv \in Events /\ SchedEv.kind # "send"
    BY DEF Events, SchedEv
  <2>2. /\ agenda' \in Seq(Events)
        /\ \A i \in 1..Len(agenda') :
             agenda'[i].kind = "send" => i \in 1..Len(ag) /\ agenda'[i] = ag[i]
        /\ \A i \in 1..Len(ag) : i \in 1..Len(agenda') /\ agenda'[i] = ag[i]
    <3>1. CASE agenda' = ag
      BY <3>1
    <3>2. CASE agenda' = Append(ag, SchedEv)
      <4> DEFINE r == Append(ag, SchedEv)
      <4>1. /\ r \in Seq(Events) /\ Len(r) = Len(ag) + 1 /\ Len(ag) \in Nat
            /\ \A i \in 1..Len(ag) : r[i] = ag[i]
            /\ r[Len(ag) + 1] = SchedEv
        BY <2>1, AppendProperties
      <4> HIDE DEF r
      <4>2. agenda' = r
        BY <3>2 DEF r
      <4>3. QED  BY <2>1, <4>1, <4>2
    <3>3. QED  BY <1>5, <3>1, <3>2 DEF Retry
  <2>3. \A i \in 1..Len(ag) : ag[i].kind = "send" => ag[i].pkt <= w - Len(bcPackets')
    <3> SUFFICES ASSUME NEW i \in 1..Len(ag), ag[i].kind = "send"
                 PROVE  ag[i].pkt <= w - Len(bcPackets')
      OBVIOUS
    <3>1. ag[i].pkt \in Nat /\ ag[i].pkt <= w - Len(q)
      BY ElementOfSeq, EventPackets DEF Ordered
    <3>2. QED  BY <1>3, <1>5, <3>1
  <2>4. /\ Len(bcPackets') <= w
        /\ \A i \in 1..Len(bcPackets') : bcPackets'[i] = w - Len(bcPackets') + i
    BY <1>3, <1>5
  <2>5. \A i \in 1..Len(snt) : snt[i] <= w - Len(bcPackets')
    <3>1. \A i \in 1..Len(snt) : snt[i] \in Nat /\ snt[i] <= w - Len(q)
      BY DEF Ordered
    <3>2. QED  BY <1>3, <1>5, <3>1
  <2>6. \A i \in 1..Len(agenda') :
          agenda'[i].kind = "send" => agenda'[i].pkt <= w - Len(bcPackets')
    BY <2>2, <2>3
  <2>7. \A i, j \in 1..Len(agenda') :
          i < j /\ agenda'[i].kind = "send" /\ agenda'[j].kind = "send"
            => Before(agenda'[i].pkt, agenda'[j].pkt, o)
    BY <2>2 DEF Ordered
  <2>8. \A i \in 1..Len(snt), j \in 1..Len(agenda') :
          agenda'[j].kind = "send" => Before(snt[i], agenda'[j].pkt, o)
    BY <2>2 DEF Ordered
  <2>9. \A p \in o : p <= w - Len(bcPackets')
    <3>1. \A p \in o : p \in Nat /\ p <= w - Len(q)
      BY DEF Ordered
    <3>2. QED  BY <1>3, <1>5, <3>1
  <2>10. \A i, j \in 1..Len(snt) : i < j => Before(snt[i], snt[j], o)
    BY DEF Ordered
  <2>11. Ordered(bcPackets', agenda', snt, w, o)
    BY <2>4, <2>5, <2>6, <2>7, <2>8, <2>9, <2>10 DEF Ordered
  <2>12. Handled(agenda', sendEvent', lost)
    <3> SUFFICES ASSUME NEW i \in 1..Len(agenda'),
                        agenda'[i].kind = "send", agenda'[i].pkt \notin lost
                 PROVE  /\ agenda'[i].pkt <= sendEvent
                        /\ \E j \in 1..Len(agenda') : agenda'[j] = SendEv(sendEvent)
      BY <1>5 DEF Handled
    <3>1. i \in 1..Len(ag) /\ agenda'[i] = ag[i]
      BY <2>2
    <3>2. /\ ag[i].pkt <= sendEvent
          /\ \E j \in 1..Len(ag) : ag[j] = SendEv(sendEvent)
      BY <3>1 DEF Handled
    <3>3. QED  BY <2>2, <3>1, <3>2
  <2>13. QED  BY <2>2, <2>11, <2>12
<1>6. CASE HasBcPackets(q) /\ TRUE \in TxOutcomes
           /\ (\E at \in places : agenda' = InsertAt(ag, at, SendEv(Head(q))))
           /\ sendEvent' = Head(q)
           /\ bcPackets' = Popped(q) /\ skipped' = skipped
  <2>1. PICK at \in places : agenda' = InsertAt(ag, at, SendEv(Head(q)))
    BY <1>6
  <2>2. at \in 1..(Len(ag) + 1)
    OBVIOUS
  <2>3. SendEv(Head(q)) \in Events
    BY <1>3, <1>6 DEF Events, SendEv
  <2>4. QED  BY <1>1, <1>3, <1>4, <1>6, <2>1, <2>2, <2>3
<1>7. CASE HasBcPackets(q) /\ FALSE \in TxOutcomes /\ bcPackets' = Popped(q)
           /\ skipped' = skipped \cup {Head(q)} /\ sendEvent' = sendEvent
           /\ agenda' = IF HasBcPackets(Popped(q)) THEN Retry(ag) ELSE ag
  BY <1>1, <1>3, <1>5, <1>7
<1>8. QED
  BY <1>2, <1>6, <1>7 DEF ScheduleBc

(* Init establishes the invariant.                                         *)
LEMMA InitIInv == Init => IInv
  BY BoundAssumption DEF Init, IInv, TypeOK, Ordered, Handled, Passable

(* The list goes behind the packets that wait.                             *)
LEMMA EnqueueOrdered ==
  ASSUME IInv, NEW k \in Nat, written + k <= MaxPkts
  PROVE  /\ Enqueue(k) \in Seq(1..MaxPkts)
         /\ written + k \in 0..MaxPkts
         /\ Ordered(Enqueue(k), agenda, sent, written + k, Passable)
<1>1. /\ bcPackets \in Seq(1..MaxPkts) /\ written \in Nat /\ MaxPkts \in Nat
      /\ Len(bcPackets) \in Nat
  BY BoundAssumption DEF IInv, TypeOK
<1>2. /\ NewPackets(k) \in Seq(1..MaxPkts)
      /\ Len(NewPackets(k)) = k
      /\ \A i \in 1..k : NewPackets(k)[i] = written + i
  BY <1>1 DEF NewPackets
<1>3. /\ Enqueue(k) \in Seq(1..MaxPkts)
      /\ Len(Enqueue(k)) = Len(bcPackets) + k
      /\ \A i \in 1..(Len(bcPackets) + k) : Enqueue(k)[i] =
           IF i <= Len(bcPackets) THEN bcPackets[i] ELSE NewPackets(k)[i - Len(bcPackets)]
  <2> DEFINE S == 1..MaxPkts
             np == NewPackets(k)
  <2>1. bcPackets \in Seq(S) /\ np \in Seq(S) /\ Len(np) = k
    BY <1>1, <1>2
  <2> HIDE DEF S, np
  <2>2. /\ bcPackets \o np \in Seq(S)
        /\ Len(bcPackets \o np) = Len(bcPackets) + Len(np)
        /\ \A i \in 1..(Len(bcPackets) + Len(np)) : (bcPackets \o np)[i] =
             IF i <= Len(bcPackets) THEN bcPackets[i] ELSE np[i - Len(bcPackets)]
    BY <2>1, ConcatProperties
  <2>3. QED  BY <2>1, <2>2 DEF Enqueue, S, np
<1>4. (written + k) - Len(Enqueue(k)) = written - Len(bcPackets)
  BY <1>1, <1>3
<1>5. \A i \in 1..Len(Enqueue(k)) : Enqueue(k)[i] = (written + k) - Len(Enqueue(k)) + i
  <2> SUFFICES ASSUME NEW i \in 1..Len(Enqueue(k))
               PROVE  Enqueue(k)[i] = (written + k) - Len(Enqueue(k)) + i
    OBVIOUS
  <2>1. CASE i <= Len(bcPackets)
    <3>1. i \in 1..Len(bcPackets) /\ i \in 1..(Len(bcPackets) + k)
      BY <1>1, <1>3, <2>1
    <3>2. bcPackets[i] = written - Len(bcPackets) + i
      BY <3>1 DEF IInv, Ordered
    <3>3. QED  BY <1>3, <1>4, <2>1, <3>1, <3>2
  <2>2. CASE i > Len(bcPackets)
    <3>1. i - Len(bcPackets) \in 1..k /\ i \in 1..(Len(bcPackets) + k)
      BY <1>1, <1>3, <2>2
    <3>2. Enqueue(k)[i] = written + (i - Len(bcPackets))
      BY <1>1, <1>2, <1>3, <2>2, <3>1
    <3>3. QED  BY <1>1, <1>4, <3>1, <3>2
  <2>3. QED  BY <1>1, <2>1, <2>2
<1>6. Len(Enqueue(k)) <= written + k
  BY <1>1, <1>3 DEF IInv, Ordered
<1>7. Ordered(Enqueue(k), agenda, sent, written + k, Passable)
  BY <1>4, <1>5, <1>6 DEF IInv, Ordered
<1>8. QED  BY <1>1, <1>3, <1>7

(* m_sendEvent stays the handle of the youngest Broadcast when the first   *)
(* event runs: if that was its own, no other is left, but for those left   *)
(* behind.                                                                 *)
LEMMA FirstHandled ==
  ASSUME IInv, agenda # <<>>
  PROVE  Handled(Tail(agenda), sendEvent, orphaned)
<1> DEFINE rest == Tail(agenda)
<1>1. agenda \in Seq(Events) /\ Ordered(bcPackets, agenda, sent, written, Passable)
      /\ Handled(agenda, sendEvent, orphaned) /\ sendEvent \in Nat /\ Len(agenda) \in Nat
  BY DEF IInv, TypeOK
<1>2. /\ Len(rest) = Len(agenda) - 1 /\ 1 \in 1..Len(agenda)
      /\ \A i \in 1..Len(rest) : rest[i] = agenda[i + 1]
  BY <1>1, FirstTaken
<1> HIDE DEF rest
<1> SUFFICES ASSUME NEW i \in 1..Len(rest), rest[i].kind = "send", rest[i].pkt \notin orphaned
             PROVE  /\ rest[i].pkt <= sendEvent
                    /\ \E j \in 1..Len(rest) : rest[j] = SendEv(sendEvent)
  BY DEF Handled, rest
<1>3. i + 1 \in 1..Len(agenda) /\ 1 < i + 1 /\ rest[i] = agenda[i + 1]
  BY <1>1, <1>2
<1>4. PICK k \in 1..Len(agenda) : agenda[k] = SendEv(sendEvent)
  BY <1>1, <1>3 DEF Handled
<1>5. rest[i].pkt <= sendEvent
  BY <1>1, <1>3 DEF Handled
<1>6. k # 1
  <2> SUFFICES ASSUME k = 1
               PROVE  FALSE
    OBVIOUS
  <2>1. agenda[1].kind = "send" /\ agenda[1].pkt = sendEvent
    BY <1>4 DEF SendEv
  <2>2. Before(sendEvent, agenda[i + 1].pkt, Passable)
    BY <1>1, <1>2, <1>3, <2>1 DEF Ordered
  <2>3. agenda[i + 1].pkt \notin Passable
    BY <1>3 DEF Passable
  <2>4. agenda[i + 1].pkt \in Nat
    BY <1>1, <1>3, ElementOfSeq, EventPackets
  <2>5. QED  BY <1>1, <1>3, <1>5, <2>2, <2>3, <2>4 DEF Before
<1>7. k - 1 \in 1..Len(rest) /\ rest[k - 1] = agenda[k]
  <2>1. k - 1 \in 1..Len(rest) /\ (k - 1) + 1 = k
    BY <1>1, <1>2, <1>6
  <2>2. QED  BY <1>2, <2>1
<1>8. QED  BY <1>4, <1>5, <1>7

(* The packets a stopped application leaves behind were scheduled.         *)
LEMMA ScheduledPackets ==
  ASSUME NEW ag \in Seq(Events), NEW q, NEW snt, NEW w, NEW o, Ordered(q, ag, snt, w, o)
  PROVE  Pkts(ag) \subseteq 1..MaxPkts /\ \A p \in Pkts(ag) : p <= w - Len(q)
<1>1. \A i \in 1..Len(ag) : ag[i].kind = "send" =>
        ag[i].pkt \in 1..MaxPkts /\ ag[i].pkt <= w - Len(q)
  BY ElementOfSeq, EventPackets DEF Ordered
<1>2. QED  BY <1>1 DEF Pkts

(* Every step preserves the invariant.                                     *)
LEMMA NextIInv == IInv /\ [Next]_vars => IInv'
<1> SUFFICES ASSUME IInv, [Next]_vars
             PROVE  IInv'
  OBVIOUS
<1> USE BoundAssumption
<1>0. /\ bcPackets \in Seq(1..MaxPkts) /\ agenda \in Seq(Events)
      /\ written \in 0..MaxPkts /\ sent \in Seq(1..MaxPkts)
      /\ sendEvent \in 0..MaxPkts
      /\ skipped \subseteq 1..MaxPkts /\ cancelled \subseteq 1..MaxPkts
      /\ orphaned \subseteq 1..MaxPkts /\ Passable \subseteq 1..MaxPkts
      /\ failed \subseteq {NoPackets, Already, Running}
      /\ Ordered(bcPackets, agenda, sent, written, Passable)
      /\ Handled(agenda, sendEvent, orphaned)
      /\ running => orphaned = {}
      /\ \A i \in 1..Len(sent) : sent[i] \in 1..MaxPkts
      /\ Len(agenda) \in Nat
  <2>1. orphaned \subseteq 1..MaxPkts /\ sent \in Seq(1..MaxPkts)
    BY DEF IInv, TypeOK
  <2>2. Passable \subseteq 1..MaxPkts
    BY <2>1 DEF Passable
  <2>3. \A i \in 1..Len(sent) : sent[i] \in 1..MaxPkts
    BY <2>1, ElementOfSeq
  <2>4. QED  BY <2>2, <2>3 DEF IInv, TypeOK
<1>a. orphaned' = orphaned => Passable' = Passable
  BY DEF Passable
<1>1. ASSUME NEW k \in 0..MaxList, WriteBcPacketList(k)
      PROVE  IInv'
  <2> DEFINE q == Enqueue(k)
  <2>1. /\ q \in Seq(1..MaxPkts) /\ written + k \in 0..MaxPkts
        /\ Ordered(q, agenda, sent, written + k, Passable)
    BY <1>1, EnqueueOrdered DEF WriteBcPacketList
  <2>a. written' = written + k /\ UNCHANGED <<running, sent, cancelled, orphaned>>
    BY <1>1 DEF WriteBcPacketList
  <2>2. CASE MayKick(q, agenda) /\ ScheduleBc(q, agenda, KickPlaces(agenda), failed)
    <3> DEFINE places == KickPlaces(agenda)
    <3>1. places \subseteq 1..(Len(agenda) + 1) /\ ~IsBroadcasting(agenda)
      BY <1>0, <2>2 DEF KickPlaces, AtEnd, MayKick
    <3>2. \/ places = AtEnd(agenda)
          \/ \A i \in 1..Len(agenda) : agenda[i].kind = "send" => agenda[i].pkt \in Passable
      <4>1. CASE ZeroInterval
        BY <4>1 DEF KickPlaces
      <4>2. CASE ~ZeroInterval
        BY <1>0, <3>1, <4>2 DEF Passable, Handled, IsBroadcasting
      <4>3. QED  BY <4>1, <4>2
    <3> HIDE DEF places
    <3>3. ScheduleBc(q, agenda, places, failed)
      BY <2>2 DEF places
    <3> HIDE DEF q
    <3>4. /\ bcPackets' \in Seq(1..MaxPkts) /\ agenda' \in Seq(Events)
          /\ skipped' \subseteq 1..MaxPkts /\ sendEvent' \in 0..MaxPkts
          /\ failed' \subseteq {NoPackets, Already, Running}
          /\ Ordered(bcPackets', agenda', sent, written + k, Passable)
          /\ Handled(agenda', sendEvent', orphaned)
      BY <1>0, <2>1, <3>1, <3>2, <3>3, ScheduleBcOrdered
    <3>5. QED
      BY <1>0, <1>a, <2>1, <2>a, <3>4 DEF IInv, TypeOK
  <2>3. CASE ~MayKick(q, agenda) /\ bcPackets' = q
             /\ UNCHANGED <<agenda, sendEvent, skipped, failed>>
    <3> HIDE DEF q
    <3>1. QED
      BY <1>0, <1>a, <2>1, <2>a, <2>3 DEF IInv, TypeOK
  <2>4. QED  BY <1>1, <2>2, <2>3 DEF WriteBcPacketList
<1>2. ASSUME Broadcast
      PROVE  IInv'
  <2> DEFINE p == Head(agenda).pkt
             rest == Tail(agenda)
             snt == Append(sent, p)
             asserted == failed \cup (IF IsBroadcasting(rest) THEN {Running} ELSE {})
  <2>1. agenda # <<>> /\ Head(agenda).kind = "send"
    BY <1>2 DEF Broadcast
  <2>2. /\ rest \in Seq(Events) /\ Len(rest) = Len(agenda) - 1 /\ Len(rest) \in Nat
        /\ \A i \in 1..Len(rest) : rest[i] = agenda[i + 1]
        /\ Head(agenda) = agenda[1] /\ 1 \in 1..Len(agenda)
        /\ Ordered(bcPackets, rest, sent, written, Passable)
        /\ Handled(rest, sendEvent, orphaned)
    BY <1>0, <2>1, FirstTaken, FirstHandled
  <2>3. p \in 1..MaxPkts /\ p = agenda[1].pkt
    BY <1>0, <2>1, <2>2, ElementOfSeq, EventPackets
  <2> HIDE DEF p, rest
  <2>4. /\ snt \in Seq(1..MaxPkts) /\ Len(snt) = Len(sent) + 1 /\ Len(sent) \in Nat
        /\ \A i \in 1..Len(sent) : snt[i] = sent[i]
        /\ snt[Len(sent) + 1] = p
    BY <1>0, <2>3, AppendProperties
  <2> HIDE DEF snt
  <2>5. /\ p <= written - Len(bcPackets)
        /\ \A i \in 1..Len(sent) : Before(sent[i], p, Passable)
    BY <1>0, <2>1, <2>2, <2>3 DEF Ordered
  <2>6. \A i \in 1..Len(rest) : rest[i].kind = "send" => Before(p, rest[i].pkt, Passable)
    <3> SUFFICES ASSUME NEW i \in 1..Len(rest), rest[i].kind = "send"
                 PROVE  Before(p, rest[i].pkt, Passable)
      OBVIOUS
    <3>1. i + 1 \in 1..Len(agenda) /\ 1 < i + 1 /\ rest[i] = agenda[i + 1]
      BY <1>0, <2>2
    <3>2. QED  BY <1>0, <2>1, <2>2, <2>3, <3>1 DEF Ordered
  <2>7. Ordered(bcPackets, rest, snt, written, Passable)
    <3>1. \A i \in 1..Len(snt) : i \in 1..Len(sent) \/ i = Len(sent) + 1
      BY <2>4
    <3>2. \A i \in 1..Len(snt) : snt[i] <= written - Len(bcPackets)
      BY <1>0, <2>4, <2>5, <3>1 DEF Ordered
    <3>3. \A i, j \in 1..Len(snt) : i < j => Before(snt[i], snt[j], Passable)
      <4> SUFFICES ASSUME NEW i \in 1..Len(snt), NEW j \in 1..Len(snt), i < j
                   PROVE  Before(snt[i], snt[j], Passable)
        OBVIOUS
      <4>1. i \in 1..Len(sent)
        BY <2>4
      <4>2. CASE j \in 1..Len(sent)
        BY <1>0, <2>4, <4>1, <4>2 DEF Ordered
      <4>3. CASE j = Len(sent) + 1
        BY <2>4, <2>5, <4>1, <4>3
      <4>4. QED  BY <3>1, <4>2, <4>3
    <3>4. \A i \in 1..Len(snt), j \in 1..Len(rest) :
            rest[j].kind = "send" => Before(snt[i], rest[j].pkt, Passable)
      <4> SUFFICES ASSUME NEW i \in 1..Len(snt), NEW j \in 1..Len(rest), rest[j].kind = "send"
                   PROVE  Before(snt[i], rest[j].pkt, Passable)
        OBVIOUS
      <4>1. CASE i \in 1..Len(sent)
        BY <2>2, <2>4, <4>1 DEF Ordered
      <4>2. CASE i = Len(sent) + 1
        BY <2>4, <2>6, <4>2
      <4>3. QED  BY <3>1, <4>1, <4>2
    <3>5. QED  BY <2>2, <3>2, <3>3, <3>4 DEF Ordered
  <2>8. sent' = snt /\ UNCHANGED <<running, written, cancelled, orphaned>>
    BY <1>2 DEF Broadcast, snt, p
  <2>9. CASE ScheduleBc(bcPackets, rest, AtEnd(rest), asserted)
    <3> DEFINE places == AtEnd(rest)
    <3>1. places \subseteq 1..(Len(rest) + 1) /\ places = AtEnd(rest)
      BY <2>2 DEF AtEnd
    <3>2. asserted \subseteq {NoPackets, Already, Running}
      BY <1>0
    <3>3. \A i \in 1..Len(snt) : snt[i] \in 1..MaxPkts
      BY <2>4, ElementOfSeq
    <3> HIDE DEF places, asserted
    <3>4. ScheduleBc(bcPackets, rest, places, asserted)
      BY <2>9, <3>1
    <3>5. /\ bcPackets' \in Seq(1..MaxPkts) /\ agenda' \in Seq(Events)
          /\ skipped' \subseteq 1..MaxPkts /\ sendEvent' \in 0..MaxPkts
          /\ failed' \subseteq {NoPackets, Already, Running}
          /\ Ordered(bcPackets', agenda', snt, written, Passable)
          /\ Handled(agenda', sendEvent', orphaned)
      BY <1>0, <2>2, <2>7, <3>1, <3>2, <3>3, <3>4, ScheduleBcOrdered
    <3>6. QED  BY <1>0, <1>a, <2>4, <2>8, <3>5 DEF IInv, TypeOK
  <2>10. CASE agenda' = rest /\ failed' = asserted /\ UNCHANGED <<bcPackets, sendEvent, skipped>>
    BY <1>0, <1>a, <2>2, <2>4, <2>7, <2>8, <2>10 DEF IInv, TypeOK
  <2>11. QED
    BY <1>2, <2>9, <2>10 DEF Broadcast, rest
<1>3. ASSUME Reschedule
      PROVE  IInv'
  <2> DEFINE rest == Tail(agenda)
             places == AtEnd(rest)
  <2>1. agenda # <<>>
    BY <1>3 DEF Reschedule
  <2>2. /\ rest \in Seq(Events) /\ Len(rest) \in Nat
        /\ Ordered(bcPackets, rest, sent, written, Passable)
        /\ Handled(rest, sendEvent, orphaned)
    BY <1>0, <2>1, FirstTaken, FirstHandled
  <2>3. ScheduleBc(bcPackets, rest, places, failed)
        /\ UNCHANGED <<running, written, sent, cancelled, orphaned>>
    BY <1>3 DEF Reschedule
  <2> HIDE DEF rest
  <2>4. places \subseteq 1..(Len(rest) + 1) /\ places = AtEnd(rest)
    BY <2>2 DEF AtEnd
  <2> HIDE DEF places
  <2>5. /\ bcPackets' \in Seq(1..MaxPkts) /\ agenda' \in Seq(Events)
        /\ skipped' \subseteq 1..MaxPkts /\ sendEvent' \in 0..MaxPkts
        /\ failed' \subseteq {NoPackets, Already, Running}
        /\ Ordered(bcPackets', agenda', sent, written, Passable)
        /\ Handled(agenda', sendEvent', orphaned)
    BY <1>0, <2>2, <2>3, <2>4, ScheduleBcOrdered
  <2>6. QED  BY <1>0, <1>a, <2>3, <2>5 DEF IInv, TypeOK
<1>4. ASSUME StopApplication
      PROVE  IInv'
  <2> DEFINE one == Cancel(agenda, SendEv(sendEvent))
  <2>1. /\ agenda' = Cancel(one, SchedEv) /\ orphaned' = Pkts(agenda') /\ orphaned = {}
        /\ running' = FALSE
        /\ cancelled' = cancelled \cup (IF IsBroadcasting(agenda) THEN {sendEvent} ELSE {})
        /\ UNCHANGED <<bcPackets, sendEvent, written, sent, skipped, failed>>
    BY <1>0, <1>4 DEF StopApplication
  <2>2. Ordered(bcPackets, agenda, sent, written, {})
    BY <1>0, <2>1 DEF Passable
  <2>3. one \in Seq(Events) /\ Ordered(bcPackets, one, sent, written, {})
    BY <1>0, <2>2, CancelProperties
  <2> HIDE DEF one
  <2>4. agenda' \in Seq(Events) /\ Ordered(bcPackets, agenda', sent, written, {})
    BY <2>1, <2>3, CancelProperties
  <2>5. Pkts(agenda') \subseteq 1..MaxPkts
        /\ \A p \in Pkts(agenda') : p <= written - Len(bcPackets)
    BY <2>4, ScheduledPackets
  <2>6. \A p \in Passable' : p <= written - Len(bcPackets)
    BY <2>1, <2>5 DEF Passable
  <2>7. Ordered(bcPackets, agenda', sent, written, Passable')
    BY <2>4, <2>6, StillOrdered
  <2>8. Handled(agenda', sendEvent', orphaned')
    <3>1. \A i \in 1..Len(agenda') : agenda'[i].kind = "send" => agenda'[i].pkt \in orphaned'
      BY <2>1 DEF Pkts
    <3>2. QED  BY <3>1 DEF Handled
  <2>9. cancelled' \subseteq 1..MaxPkts
    <3>1. IsBroadcasting(agenda) => sendEvent \in 1..MaxPkts
      BY <1>0, ElementOfSeq, EventPackets DEF IsBroadcasting, SendEv
    <3>2. QED  BY <1>0, <2>1, <3>1
  <2>10. QED
    BY <1>0, <2>1, <2>4, <2>5, <2>7, <2>8, <2>9 DEF IInv, TypeOK
<1>5. ASSUME UNCHANGED vars
      PROVE  IInv'
  BY <1>0, <1>a, <1>5 DEF vars, IInv, TypeOK
<1>6. QED
  BY <1>1, <1>2, <1>3, <1>4, <1>5 DEF Next, RunEvent

(* The invariant holds in every reachable state.                           *)
LEMMA IInvHolds == Spec => []IInv
  BY InitIInv, NextIInv, PTL DEF Spec
-----------------------------------------------------------------------------
(* Every variable of the transmit side keeps its type.                     *)
THEOREM TypeCorrect == Spec => []TypeOK
<1>1. IInv => TypeOK
  BY DEF IInv
<1>2. QED  BY <1>1, IInvHolds, PTL

(* Packets leave in the order in which they were written to m_bcPackets,   *)
(* however Broadcast and ScheduleBc interleave and whatever the coin does; *)
(* the only ones ever passed are those whose Broadcast StopApplication     *)
(* left behind, by those that were not, and none with an interval of zero. *)
THEOREM FifoHolds == Spec => []Fifo
<1>1. IInv => Fifo
  <2> SUFFICES ASSUME IInv, NEW i \in 1..Len(sent), NEW j \in 1..Len(sent), i < j
               PROVE  sent[i] < sent[j] \/ MayPass(sent[i], sent[j])
    BY DEF Fifo
  <2>1. Before(sent[i], sent[j], Passable)
    BY DEF IInv, Ordered
  <2>2. QED  BY <2>1 DEF Before, Passable, MayPass
<1>2. QED  BY <1>1, IInvHolds, PTL
-----------------------------------------------------------------------------
(* What ScheduleBc leaves in the agenda.                                   *)
LEMMA ScheduleBcAgenda ==
  ASSUME NEW q \in Seq(1..MaxPkts), NEW ag \in Seq(Events),
         NEW places, NEW asserted, places \subseteq 1..(Len(ag) + 1),
         ScheduleBc(q, ag, places, asserted), HasBcPackets(q)
  PROVE  /\ HasBcPackets(bcPackets') => agenda' # <<>>
         /\ skipped' = {} => skipped = {}
         /\ skipped' = {} /\ ag = <<>> =>
              Len(agenda') = 1 /\ agenda'[1] = SendEv(sendEvent')
<1>1. CASE /\ \E at \in places : agenda' = InsertAt(ag, at, SendEv(Head(q)))
           /\ sendEvent' = Head(q)
           /\ skipped' = skipped
  <2>1. PICK at \in places : agenda' = InsertAt(ag, at, SendEv(Head(q)))
    BY <1>1
  <2> DEFINE e == SendEv(Head(q))
             ia == InsertAt(ag, at, e)
  <2>2. e \in Events /\ at \in 1..(Len(ag) + 1)
    BY HeadTailProperties DEF HasBcPackets, Events, SendEv
  <2>3. e = SendEv(sendEvent')
    BY <1>1
  <2> HIDE DEF e
  <2>4. Len(ia) = Len(ag) + 1 /\ ia[at] = e
    BY <2>2, InsertAtProperties
  <2>5. ia = agenda'
    BY <2>1 DEF e
  <2> HIDE DEF ia
  <2>6. ag = <<>> => at = 1
    BY <2>2
  <2>7. Len(ag) \in Nat
    OBVIOUS
  <2>8. Len(agenda') # 0
    BY <2>4, <2>5, <2>7
  <2>9. agenda' # <<>>
    BY <2>8
  <2>10. ASSUME ag = <<>>
         PROVE  Len(agenda') = 1 /\ agenda'[1] = SendEv(sendEvent')
    <3>1. Len(ag) = 0 /\ at = 1
      BY <2>6, <2>10
    <3>2. QED  BY <2>3, <2>4, <2>5, <3>1
  <2>11. QED  BY <1>1, <2>9, <2>10
<1>2. CASE /\ FALSE \in TxOutcomes
           /\ bcPackets' = Popped(q)
           /\ agenda' = IF HasBcPackets(Popped(q)) THEN Retry(ag) ELSE ag
           /\ skipped' = skipped \cup {Head(q)}
  <2>1. SchedEv \in Events
    BY DEF Events
  <2>2. Append(ag, SchedEv) # <<>>
    BY <2>1, AppendProperties
  <2>3. QED  BY <1>2, <2>2 DEF Retry
<1>3. QED  BY <1>1, <1>2 DEF ScheduleBc

(* Waiting packets always have an event that will take them from the       *)
(* queue while the application runs: the transmission never stalls.        *)
THEOREM NeverStalls == Spec => []NoStall
<1>1. Init => NoStall
  BY DEF Init, NoStall, HasBcPackets
<1>2. IInv /\ NoStall /\ [Next]_vars => NoStall'
  <2> SUFFICES ASSUME IInv, NoStall, [Next]_vars
               PROVE  NoStall'
    OBVIOUS
  <2>0. bcPackets \in Seq(1..MaxPkts) /\ agenda \in Seq(Events)
    BY DEF IInv, TypeOK
  <2>1. ASSUME NEW k \in 0..MaxList, WriteBcPacketList(k)
        PROVE  NoStall'
    <3> DEFINE q == Enqueue(k)
    <3>1. q \in Seq(1..MaxPkts)
      BY <2>1, EnqueueOrdered, BoundAssumption DEF WriteBcPacketList
    <3>2. CASE MayKick(q, agenda) /\ ScheduleBc(q, agenda, KickPlaces(agenda), failed)
      <4> DEFINE places == KickPlaces(agenda)
      <4>1. places \subseteq 1..(Len(agenda) + 1) /\ HasBcPackets(q)
        BY <2>0, <3>2 DEF KickPlaces, AtEnd, MayKick
      <4>2. ScheduleBc(q, agenda, places, failed)
        BY <3>2
      <4> HIDE DEF places, q
      <4>3. QED
        BY <2>0, <3>1, <4>1, <4>2, ScheduleBcAgenda DEF NoStall
    <3>3. CASE ~MayKick(q, agenda) /\ bcPackets' = q /\ agenda' = agenda
      BY <2>0, <3>3 DEF MayKick, IsBroadcasting, NoStall
    <3>4. QED  BY <2>1, <3>2, <3>3 DEF WriteBcPacketList
  <2>2. ASSUME Broadcast \/ Reschedule, HasBcPackets(bcPackets)
        PROVE  NoStall'
    <3> DEFINE rest == Tail(agenda)
               places == AtEnd(rest)
    <3>1. rest \in Seq(Events) /\ Len(rest) \in Nat
      BY <2>0, <2>2, HeadTailProperties DEF Broadcast, Reschedule
    <3>2. PICK asserted : ScheduleBc(bcPackets, rest, AtEnd(rest), asserted)
      BY <2>2 DEF Broadcast, Reschedule
    <3>3. places \subseteq 1..(Len(rest) + 1) /\ ScheduleBc(bcPackets, rest, places, asserted)
      BY <3>1, <3>2 DEF AtEnd
    <3> HIDE DEF rest, places
    <3>4. QED
      BY <2>0, <2>2, <3>1, <3>3, ScheduleBcAgenda DEF NoStall
  <2>3. ASSUME Broadcast \/ Reschedule, ~HasBcPackets(bcPackets)
        PROVE  NoStall'
    BY <2>3 DEF Broadcast, Reschedule, ScheduleBc, NoStall
  <2>4. ASSUME StopApplication
        PROVE  NoStall'
    BY <2>4 DEF StopApplication, NoStall
  <2>5. ASSUME UNCHANGED vars
        PROVE  NoStall'
    BY <2>5 DEF vars, NoStall, Crashed
  <2>6. QED
    BY <2>1, <2>2, <2>3, <2>4, <2>5 DEF Next, RunEvent
<1>3. QED  BY <1>1, <1>2, IInvHolds, PTL DEF Spec

(* As long as nothing is skipped there is never more than one event.       *)
OneSend ==
  skipped = {} =>
    /\ failed = {}
    /\ agenda = <<>> \/ (Len(agenda) = 1 /\ agenda[1] = SendEv(sendEvent))

(* StopApplication cancels a single transmission.                          *)
LEMMA StopEmpties ==
  ASSUME agenda \in Seq(Events), StopApplication,
         agenda = <<>> \/ (Len(agenda) = 1 /\ agenda[1] = SendEv(sendEvent))
  PROVE  agenda' = <<>>
<1> DEFINE ev == SendEv(sendEvent)
<1>1. Cancel(agenda, ev) = <<>>
  <2>1. CASE agenda = <<>>
    BY <2>1 DEF Cancel, IsLast
  <2>2. CASE Len(agenda) = 1 /\ agenda[1] = ev
    <3> HIDE DEF ev
    <3>1. IsLast(agenda, 1, ev)
      BY <2>2 DEF IsLast
    <3>2. PICK at \in 1..Len(agenda) : Cancel(agenda, ev) = RemoveAt(agenda, at)
      BY <2>2, <3>1 DEF Cancel
    <3> DEFINE r == RemoveAt(agenda, at)
    <3>3. r \in Seq(Events) /\ Len(r) = Len(agenda) - 1
      BY RemoveAtProperties
    <3> HIDE DEF r
    <3>4. r = <<>>
      BY <2>2, <3>3, EmptySeq
    <3>5. QED  BY <3>2, <3>4 DEF r
  <2>3. QED  BY <2>1, <2>2
<1>2. Cancel(<<>>, SchedEv) = <<>>
  BY DEF Cancel, IsLast
<1>3. QED  BY <1>1, <1>2 DEF StopApplication

(* There is never more than one event as long as nothing is skipped.       *)
LEMMA OneSendHolds == Spec => []OneSend
<1>1. Init => OneSend
  BY DEF Init, OneSend
<1>2. IInv /\ OneSend /\ [Next]_vars => OneSend'
  <2> SUFFICES ASSUME IInv, OneSend, [Next]_vars, skipped' = {}
               PROVE  OneSend'
    BY DEF OneSend
  <2>0. bcPackets \in Seq(1..MaxPkts) /\ agenda \in Seq(Events)
    BY DEF IInv, TypeOK
  <2>1. /\ failed = {}
        /\ agenda = <<>> \/ (Len(agenda) = 1 /\ agenda[1] = SendEv(sendEvent))
    <3>1. skipped = {}
      BY DEF Next, RunEvent, WriteBcPacketList, Broadcast, Reschedule, StopApplication,
             ScheduleBc, vars
    <3>2. QED  BY <3>1 DEF OneSend
  <2>2. ASSUME NEW q \in Seq(1..MaxPkts), HasBcPackets(q), NEW ag, ag = <<>>,
               NEW places, places \subseteq 1..(Len(ag) + 1),
               ScheduleBc(q, ag, places, {})
        PROVE  OneSend'
    <3>1. ag \in Seq(Events) /\ ~IsBroadcasting(ag)
      BY <2>2 DEF IsBroadcasting
    <3>2. Len(agenda') = 1 /\ agenda'[1] = SendEv(sendEvent')
      BY <2>2, <3>1, ScheduleBcAgenda
    <3>3. failed' = {}
      BY <2>2, <3>1 DEF ScheduleBc
    <3>4. QED  BY <3>2, <3>3 DEF OneSend
  <2>3. ASSUME NEW k \in 0..MaxList, WriteBcPacketList(k)
        PROVE  OneSend'
    <3> DEFINE q == Enqueue(k)
    <3>1. q \in Seq(1..MaxPkts)
      BY <2>3, EnqueueOrdered, BoundAssumption DEF WriteBcPacketList
    <3>2. CASE MayKick(q, agenda) /\ ScheduleBc(q, agenda, KickPlaces(agenda), failed)
      <4> DEFINE places == KickPlaces(agenda)
      <4>1. /\ places \subseteq 1..(Len(agenda) + 1)
            /\ HasBcPackets(q) /\ agenda = <<>>
        BY <2>0, <2>1, <3>2 DEF KickPlaces, AtEnd, MayKick, IsBroadcasting
      <4>2. ScheduleBc(q, agenda, places, {})
        BY <2>1, <3>2
      <4> HIDE DEF places, q
      <4>3. QED  BY <2>2, <3>1, <4>1, <4>2
    <3>3. CASE UNCHANGED <<agenda, sendEvent, skipped, failed>>
      BY <2>1, <3>3 DEF OneSend
    <3>4. QED  BY <2>3, <3>2, <3>3 DEF WriteBcPacketList
  <2>4. ASSUME Broadcast
        PROVE  OneSend'
    <3>1. agenda # <<>> /\ Tail(agenda) = <<>>
      <4>1. agenda # <<>> /\ Len(agenda) = 1
        BY <2>1, <2>4 DEF Broadcast
      <4>2. Tail(agenda) \in Seq(Events) /\ Len(Tail(agenda)) = 0
        BY <2>0, <4>1, HeadTailProperties
      <4>3. QED  BY <4>1, <4>2, EmptySeq
    <3>2. ~IsBroadcasting(<<>>)
      BY DEF IsBroadcasting
    <3>3. CASE HasBcPackets(bcPackets) /\ ScheduleBc(bcPackets, <<>>, {1}, {})
      <4> DEFINE ag == <<>>
      <4>1. {1} \subseteq 1..(Len(ag) + 1) /\ ag = <<>>
        OBVIOUS
      <4>2. ScheduleBc(bcPackets, ag, {1}, {})
        BY <3>3
      <4> HIDE DEF ag
      <4>3. QED  BY <2>0, <2>2, <3>3, <4>1, <4>2
    <3>4. CASE agenda' = <<>> /\ failed' = {}
      BY <3>4 DEF OneSend
    <3>5. AtEnd(<<>>) = {1}
      BY DEF AtEnd
    <3>6. QED  BY <2>1, <2>4, <3>1, <3>2, <3>3, <3>4, <3>5 DEF Broadcast
  <2>5. ~Reschedule
    BY <2>0, <2>1 DEF Reschedule, SendEv
  <2>6. ASSUME StopApplication
        PROVE  OneSend'
    BY <2>0, <2>1, <2>6, StopEmpties DEF StopApplication, OneSend
  <2>7. ASSUME UNCHANGED vars
        PROVE  OneSend'
    BY <2>7 DEF vars, OneSend
  <2>8. QED
    BY <2>3, <2>4, <2>5, <2>6, <2>7 DEF Next, RunEvent
<1>3. QED  BY <1>1, <1>2, IInvHolds, PTL DEF Spec

(* As long as nothing is skipped, as with the default transmission         *)
(* probability, no assertion of this code can fail.                        *)
THEOREM CertainTxSafe == Spec => []CertainTxIsSafe
<1>1. OneSend => CertainTxIsSafe
  BY DEF OneSend, CertainTxIsSafe
<1>2. QED  BY <1>1, OneSendHolds, PTL

(* Stopping leaves no event behind, as long as nothing is skipped.         *)
THEOREM StopIsSilent == Spec => SilentAfterStop
<1>1. /\ IInv /\ OneSend /\ [Next]_vars
      => [running /\ ~running' /\ skipped = {} => agenda' = <<>>]_vars
  <2> SUFFICES ASSUME IInv, OneSend, [Next]_vars, running, ~running', skipped = {}
               PROVE  agenda' = <<>>
    OBVIOUS
  <2>1. StopApplication
    BY DEF Next, RunEvent, WriteBcPacketList, Broadcast, Reschedule, vars
  <2>2. QED  BY <2>1, StopEmpties DEF IInv, TypeOK, OneSend
<1>2. QED  BY <1>1, IInvHolds, OneSendHolds, PTL DEF Spec, SilentAfterStop
-----------------------------------------------------------------------------
(* Why no packet is lost or sent twice: every step moves packets from one  *)
(* place to another.  That a packet is only in one place to begin with is  *)
(* what Ordered says of the queue, the events and what was sent.           *)
Placed(Q, A, S, K, C, w) ==
  /\ 1..w = Q \cup A \cup S \cup K \cup C
  /\ Q \cap (A \cup S \cup K \cup C) = {}
  /\ A \cap (S \cup K \cup C) = {}
  /\ S \cap (K \cup C) = {}
  /\ K \cap C = {}

LEMMA ConservedIsPlaced ==
  Conserved <=> Placed(ToSet(bcPackets), Pkts(agenda), ToSet(sent), skipped, cancelled, written)
  BY DEF Conserved, InAgenda, Placed, Pkts

(* The front packet is taken from the queue.                               *)
LEMMA PopPackets ==
  ASSUME NEW q \in Seq(1..MaxPkts), HasBcPackets(q),
         NEW ag, NEW snt, NEW w \in Nat, NEW o, Ordered(q, ag, snt, w, o)
  PROVE  /\ ToSet(q) = ToSet(Popped(q)) \cup {Head(q)}
         /\ Head(q) \notin ToSet(Popped(q))
<1>1. /\ Len(q) \in Nat \ {0} /\ q # <<>>
      /\ \A i \in 1..Len(q) : q[i] = w - Len(q) + i
  BY EmptySeq DEF HasBcPackets, Ordered
<1> DEFINE t == Popped(q)
<1>2. /\ Len(t) = Len(q) - 1 /\ \A i \in 1..Len(t) : t[i] = q[i + 1]
      /\ Head(q) = q[1]
  BY <1>1, HeadTailProperties DEF Popped
<1> HIDE DEF t
<1>3. ToSet(q) \subseteq ToSet(t) \cup {Head(q)}
  <2>1. ASSUME NEW i \in 1..Len(q)
        PROVE  q[i] = Head(q) \/ \E j \in 1..Len(t) : q[i] = t[j]
    <3>1. CASE i = 1
      BY <1>2, <3>1
    <3>2. CASE i # 1
      <4>1. i - 1 \in 1..Len(t) /\ (i - 1) + 1 = i
        BY <1>1, <1>2, <3>2
      <4>2. t[i - 1] = q[i]
        BY <1>2, <4>1
      <4>3. QED  BY <4>1, <4>2
    <3>3. QED  BY <3>1, <3>2
  <2>2. QED  BY <2>1 DEF ToSet
<1>4. ASSUME NEW j \in 1..Len(t)
      PROVE  j + 1 \in 1..Len(q) /\ t[j] = q[j + 1] /\ t[j] # Head(q)
  <2>1. j + 1 \in 1..Len(q) /\ 1 \in 1..Len(q) /\ t[j] = q[j + 1]
    BY <1>1, <1>2
  <2>2. q[j + 1] = w - Len(q) + (j + 1) /\ q[1] = w - Len(q) + 1
    BY <1>1, <2>1
  <2>3. QED  BY <1>1, <1>2, <2>1, <2>2
<1>5. ToSet(t) \subseteq ToSet(q) /\ Head(q) \notin ToSet(t)
  <2>1. \A p \in ToSet(t) : \E j \in 1..Len(t) : p = t[j]
    BY DEF ToSet
  <2>2. \A p \in ToSet(t) : p # Head(q) /\ \E i \in 1..Len(q) : p = q[i]
    BY <1>4, <2>1
  <2>3. \A i \in 1..Len(q) : q[i] \in ToSet(q)
    BY DEF ToSet
  <2>4. \A p \in ToSet(t) : p # Head(q) /\ p \in ToSet(q)
    BY <2>2, <2>3
  <2>5. QED  BY <2>4
<1>6. Head(q) \in ToSet(q)
  <2>1. 1 \in 1..Len(q)
    BY <1>1
  <2>2. QED  BY <1>2, <2>1 DEF ToSet
<1>7. QED  BY <1>3, <1>5, <1>6 DEF t

(* The packets of an agenda that an event is inserted in.                  *)
LEMMA InsertPackets ==
  ASSUME NEW ag \in Seq(Events), NEW e \in Events, e.kind = "send",
         NEW at \in 1..(Len(ag) + 1)
  PROVE  Pkts(InsertAt(ag, at, e)) = Pkts(ag) \cup {e.pkt}
<1> DEFINE ia == InsertAt(ag, at, e)
<1>1. /\ Len(ia) = Len(ag) + 1 /\ Len(ag) \in Nat
      /\ ia[at] = e
      /\ \A i \in 1..(at - 1) : ia[i] = ag[i]
      /\ \A i \in (at + 1)..(Len(ag) + 1) : ia[i] = ag[i - 1]
  BY InsertAtProperties
<1> HIDE DEF ia
<1>2. ASSUME NEW i \in 1..Len(ia), ia[i].kind = "send"
      PROVE  ia[i].pkt \in Pkts(ag) \cup {e.pkt}
  <2>1. CASE i = at
    BY <1>1, <2>1
  <2>2. CASE i < at
    <3>1. i \in 1..Len(ag) /\ ia[i] = ag[i]
      BY <1>1, <2>2
    <3>2. QED  BY <1>2, <3>1 DEF Pkts
  <2>3. CASE i > at
    <3>1. i - 1 \in 1..Len(ag) /\ ia[i] = ag[i - 1]
      BY <1>1, <2>3
    <3>2. QED  BY <1>2, <3>1 DEF Pkts
  <2>4. QED  BY <1>1, <2>1, <2>2, <2>3
<1>3. ASSUME NEW i \in 1..Len(ag), ag[i].kind = "send"
      PROVE  ag[i].pkt \in Pkts(ia)
  <2>1. CASE i < at
    <3>1. i \in 1..Len(ia) /\ ia[i] = ag[i]
      BY <1>1, <2>1
    <3>2. QED  BY <1>3, <3>1 DEF Pkts
  <2>2. CASE i >= at
    <3>1. i + 1 \in 1..Len(ia) /\ i + 1 \in (at + 1)..(Len(ag) + 1) /\ (i + 1) - 1 = i
      BY <1>1, <2>2
    <3>2. ia[i + 1] = ag[i]
      BY <1>1, <3>1
    <3>3. QED  BY <1>3, <3>1, <3>2 DEF Pkts
  <2>3. QED  BY <2>1, <2>2
<1>4. e.pkt \in Pkts(ia)
  <2>1. at \in 1..Len(ia)
    BY <1>1
  <2>2. QED  BY <1>1, <2>1 DEF Pkts
<1>5. Pkts(ia) \subseteq Pkts(ag) \cup {e.pkt}
  BY <1>2 DEF Pkts
<1>6. Pkts(ag) \subseteq Pkts(ia)
  BY <1>3 DEF Pkts
<1>7. QED  BY <1>4, <1>5, <1>6 DEF ia

(* The packets of an agenda that the event at one place is removed from.   *)
LEMMA RemovePackets ==
  ASSUME NEW ag \in Seq(Events), NEW q, NEW snt, NEW w, NEW o, Ordered(q, ag, snt, w, o),
         NEW at \in 1..Len(ag), NEW rest,
         Len(rest) = Len(ag) - 1,
         \A i \in 1..(at - 1) : rest[i] = ag[i],
         \A i \in at..(Len(ag) - 1) : rest[i] = ag[i + 1]
  PROVE  Pkts(rest) = IF ag[at].kind = "send" THEN Pkts(ag) \ {ag[at].pkt} ELSE Pkts(ag)
<1>1. Len(ag) \in Nat
  OBVIOUS
<1>2. ASSUME NEW i \in 1..Len(rest), rest[i].kind = "send"
      PROVE  \E j \in 1..Len(ag) : j # at /\ ag[j] = rest[i]
  <2>1. CASE i < at
    BY <1>1, <2>1
  <2>2. CASE i >= at
    <3>1. i + 1 \in 1..Len(ag) /\ i + 1 # at /\ rest[i] = ag[i + 1]
      BY <1>1, <2>2
    <3>2. QED  BY <3>1
  <2>3. QED  BY <2>1, <2>2
<1>3. ASSUME NEW j \in 1..Len(ag), j # at
      PROVE  \E i \in 1..Len(rest) : rest[i] = ag[j]
  <2>1. CASE j < at
    <3>1. j \in 1..Len(rest) /\ rest[j] = ag[j]
      BY <1>1, <2>1
    <3>2. QED  BY <3>1
  <2>2. CASE j > at
    <3>1. j - 1 \in 1..Len(rest) /\ j - 1 \in at..(Len(ag) - 1) /\ (j - 1) + 1 = j
      BY <1>1, <2>2
    <3>2. rest[j - 1] = ag[j]
      BY <3>1
    <3>3. QED  BY <3>1, <3>2
  <2>3. QED  BY <1>3, <2>1, <2>2
(* Two events never send the same packet.                                  *)
<1>4. ASSUME NEW j \in 1..Len(ag), j # at, ag[j].kind = "send", ag[at].kind = "send"
      PROVE  ag[j].pkt # ag[at].pkt
  <2>1. ag[j].pkt \in Nat /\ ag[at].pkt \in Nat
    BY ElementOfSeq, EventPackets
  <2>2. j < at \/ at < j
    BY <1>1, <1>4
  <2>3. Before(ag[j].pkt, ag[at].pkt, o) \/ Before(ag[at].pkt, ag[j].pkt, o)
    BY <1>4, <2>2 DEF Ordered
  <2>4. QED  BY <2>1, <2>3 DEF Before
<1>5. ASSUME NEW p
      PROVE  p \in Pkts(rest) <=>
               \E j \in 1..Len(ag) : j # at /\ ag[j].kind = "send" /\ ag[j].pkt = p
  <2>1. p \in Pkts(rest) <=> \E i \in 1..Len(rest) : rest[i].kind = "send" /\ rest[i].pkt = p
    BY DEF Pkts
  <2>2. ASSUME NEW i \in 1..Len(rest), rest[i].kind = "send", rest[i].pkt = p
        PROVE  \E j \in 1..Len(ag) : j # at /\ ag[j].kind = "send" /\ ag[j].pkt = p
    <3>1. PICK j \in 1..Len(ag) : j # at /\ ag[j] = rest[i]
      BY <1>2, <2>2
    <3>2. QED  BY <2>2, <3>1
  <2>3. ASSUME NEW j \in 1..Len(ag), j # at, ag[j].kind = "send", ag[j].pkt = p
        PROVE  \E i \in 1..Len(rest) : rest[i].kind = "send" /\ rest[i].pkt = p
    <3>1. PICK i \in 1..Len(rest) : rest[i] = ag[j]
      BY <1>3, <2>3
    <3>2. QED  BY <2>3, <3>1
  <2>4. QED  BY <2>1, <2>2, <2>3
<1>6. \A p : p \in Pkts(ag) <=> \E j \in 1..Len(ag) : ag[j].kind = "send" /\ ag[j].pkt = p
  BY DEF Pkts
<1>7. CASE ag[at].kind = "send"
  <2>1. \A p : p \in Pkts(rest) <=> p \in Pkts(ag) /\ p # ag[at].pkt
    BY <1>4, <1>5, <1>6, <1>7
  <2>2. QED  BY <1>7, <2>1
<1>8. CASE ag[at].kind # "send"
  <2>1. \A p : p \in Pkts(rest) <=> p \in Pkts(ag)
    BY <1>5, <1>6, <1>8
  <2>2. Pkts(rest) = Pkts(ag)
    BY <2>1 DEF Pkts
  <2>3. QED  BY <1>8, <2>2
<1>9. QED  BY <1>7, <1>8

(* A retry sends nothing by itself.                                        *)
LEMMA RetryPackets == ASSUME NEW ag \in Seq(Events) PROVE Pkts(Retry(ag)) = Pkts(ag)
<1> DEFINE r == Retry(ag)
<1>1. /\ Len(r) = Len(ag) + 1 /\ Len(ag) \in Nat
      /\ \A i \in 1..Len(ag) : r[i] = ag[i]
      /\ r[Len(ag) + 1].kind # "send"
  <2>1. SchedEv \in Events /\ SchedEv.kind # "send"
    BY DEF Events, SchedEv
  <2>2. QED  BY <2>1, AppendProperties DEF Retry
<1> HIDE DEF r
<1>2. {i \in 1..Len(r) : r[i].kind = "send"} = {i \in 1..Len(ag) : ag[i].kind = "send"}
  <2>1. \A i \in 1..Len(r) : i \in 1..Len(ag) \/ i = Len(ag) + 1
    BY <1>1
  <2>2. \A i \in 1..Len(ag) : i \in 1..Len(r)
    BY <1>1
  <2>3. QED  BY <1>1, <2>1, <2>2
<1>3. \A i \in {j \in 1..Len(ag) : ag[j].kind = "send"} : r[i].pkt = ag[i].pkt
  BY <1>1
<1>4. Pkts(r) = Pkts(ag)
  BY <1>2, <1>3 DEF Pkts
<1>5. QED  BY <1>4 DEF r

(* ScheduleBc moves the front packet to an event or to those skipped.      *)
LEMMA ScheduleBcPlaced ==
  ASSUME NEW q \in Seq(1..MaxPkts), NEW ag \in Seq(Events), NEW snt, NEW w \in Nat,
         NEW places, NEW asserted, places \subseteq 1..(Len(ag) + 1),
         NEW o, Ordered(q, ag, snt, w, o), ScheduleBc(q, ag, places, asserted),
         NEW S, NEW C, Placed(ToSet(q), Pkts(ag), S, skipped, C, w)
  PROVE  Placed(ToSet(bcPackets'), Pkts(agenda'), S, skipped', C, w)
<1>1. CASE bcPackets' = q /\ agenda' = ag /\ skipped' = skipped
  BY <1>1
<1>2. ASSUME HasBcPackets(q)
      PROVE  /\ ToSet(q) = ToSet(Popped(q)) \cup {Head(q)}
             /\ Head(q) \notin ToSet(Popped(q))
  BY <1>2, PopPackets
<1>3. CASE /\ HasBcPackets(q)
           /\ \E at \in places : agenda' = InsertAt(ag, at, SendEv(Head(q)))
           /\ bcPackets' = Popped(q) /\ skipped' = skipped
  <2>1. PICK at \in 1..(Len(ag) + 1) : agenda' = InsertAt(ag, at, SendEv(Head(q)))
    BY <1>3
  <2>2. SendEv(Head(q)) \in Events /\ SendEv(Head(q)).kind = "send"
        /\ SendEv(Head(q)).pkt = Head(q)
    BY <1>3, HeadTailProperties DEF HasBcPackets, Events, SendEv
  <2>3. Pkts(agenda') = Pkts(ag) \cup {Head(q)}
    BY <2>1, <2>2, InsertPackets
  <2>4. QED  BY <1>2, <1>3, <2>3 DEF Placed
<1>4. CASE /\ HasBcPackets(q)
           /\ bcPackets' = Popped(q) /\ skipped' = skipped \cup {Head(q)}
           /\ agenda' = IF HasBcPackets(Popped(q)) THEN Retry(ag) ELSE ag
  <2>1. Pkts(agenda') = Pkts(ag)
    BY <1>4, RetryPackets
  <2>2. QED  BY <1>2, <1>4, <2>1 DEF Placed
<1>5. QED  BY <1>1, <1>3, <1>4 DEF ScheduleBc

(* Cancelling takes the packet of the event, if it is pending and sends.   *)
LEMMA CancelPackets ==
  ASSUME NEW ag \in Seq(Events), NEW ev, NEW q, NEW snt, NEW w, NEW o,
         Ordered(q, ag, snt, w, o)
  PROVE  Pkts(Cancel(ag, ev)) =
           IF ev.kind = "send" /\ \E i \in 1..Len(ag) : IsLast(ag, i, ev)
           THEN Pkts(ag) \ {ev.pkt} ELSE Pkts(ag)
<1>1. CASE \E i \in 1..Len(ag) : IsLast(ag, i, ev)
  <2>1. PICK at \in 1..Len(ag) : IsLast(ag, at, ev) /\ Cancel(ag, ev) = RemoveAt(ag, at)
    BY <1>1 DEF Cancel
  <2> DEFINE rest == RemoveAt(ag, at)
  <2>2. /\ Len(rest) = Len(ag) - 1 /\ Len(ag) \in Nat
        /\ \A i \in 1..(at - 1) : rest[i] = ag[i]
        /\ \A i \in at..(Len(ag) - 1) : rest[i] = ag[i + 1]
    BY RemoveAtProperties
  <2> HIDE DEF rest
  <2>3. Pkts(rest) = IF ag[at].kind = "send" THEN Pkts(ag) \ {ag[at].pkt} ELSE Pkts(ag)
    BY <2>2, RemovePackets
  <2>4. ag[at] = ev
    BY <2>1 DEF IsLast
  <2>5. QED  BY <1>1, <2>1, <2>3, <2>4 DEF rest
<1>2. CASE ~\E i \in 1..Len(ag) : IsLast(ag, i, ev)
  BY <1>2 DEF Cancel
<1>3. QED  BY <1>1, <1>2

(* An event that is in the agenda is there a last time.                    *)
LEMMA LastThere ==
  ASSUME IInv, IsBroadcasting(agenda)
  PROVE  \E i \in 1..Len(agenda) : IsLast(agenda, i, SendEv(sendEvent))
<1>1. agenda \in Seq(Events) /\ Len(agenda) \in Nat
      /\ Ordered(bcPackets, agenda, sent, written, Passable)
  BY DEF IInv, TypeOK
<1>2. PICK i \in 1..Len(agenda) : agenda[i] = SendEv(sendEvent)
  BY DEF IsBroadcasting
<1>3. ASSUME NEW j \in (i + 1)..Len(agenda), agenda[j] = SendEv(sendEvent)
      PROVE  FALSE
  <2>1. j \in 1..Len(agenda) /\ i < j
    BY <1>1
  <2>2. agenda[i].kind = "send" /\ agenda[j].kind = "send" /\ agenda[i].pkt = agenda[j].pkt
    BY <1>2, <1>3 DEF SendEv
  <2>3. Before(agenda[i].pkt, agenda[j].pkt, Passable) /\ agenda[i].pkt \in Nat
    BY <1>1, <2>1, <2>2, ElementOfSeq, EventPackets DEF Ordered
  <2>4. QED  BY <2>2, <2>3 DEF Before
<1>4. QED  BY <1>2, <1>3 DEF IsLast

(* Packets put at the end of what came out are out.                        *)
LEMMA AppendedPackets ==
  ASSUME NEW s \in Seq(1..MaxPkts), NEW p \in 1..MaxPkts, NEW t, t = Append(s, p)
  PROVE  ToSet(t) = ToSet(s) \cup {p}
<1>1. /\ Len(t) = Len(s) + 1 /\ Len(s) \in Nat
      /\ \A i \in 1..Len(s) : t[i] = s[i]
      /\ t[Len(s) + 1] = p
  BY AppendProperties
<1>2. /\ \A i \in 1..Len(t) : i \in 1..Len(s) \/ i = Len(s) + 1
      /\ \A i \in 1..Len(s) : i \in 1..Len(t)
      /\ Len(s) + 1 \in 1..Len(t)
  BY <1>1
<1>3. QED  BY <1>1, <1>2 DEF ToSet

(* Every step moves packets from place to place, or adds those written.    *)
LEMMA NextPlaced == IInv /\ Conserved /\ [Next]_vars => Conserved'
<1> SUFFICES ASSUME IInv, Conserved, [Next]_vars
             PROVE  Conserved'
  OBVIOUS
<1> USE BoundAssumption
<1>0. /\ bcPackets \in Seq(1..MaxPkts) /\ agenda \in Seq(Events) /\ sent \in Seq(1..MaxPkts)
      /\ written \in Nat /\ Len(agenda) \in Nat /\ Len(bcPackets) \in Nat
      /\ Ordered(bcPackets, agenda, sent, written, Passable)
      /\ Placed(ToSet(bcPackets), Pkts(agenda), ToSet(sent), skipped, cancelled, written)
  BY ConservedIsPlaced DEF IInv, TypeOK
<1>1. SUFFICES Placed(ToSet(bcPackets'), Pkts(agenda'), ToSet(sent'),
                      skipped', cancelled', written')
  BY DEF Conserved, InAgenda, Placed, Pkts
<1> DEFINE Goal == Placed(ToSet(bcPackets'), Pkts(agenda'), ToSet(sent'),
                          skipped', cancelled', written')
<1>2. ASSUME NEW k \in 0..MaxList, WriteBcPacketList(k)
      PROVE  Goal
  <2> DEFINE q == Enqueue(k)
  <2>1. /\ q \in Seq(1..MaxPkts) /\ written + k \in Nat
        /\ Ordered(q, agenda, sent, written + k, Passable)
    BY <1>2, EnqueueOrdered DEF WriteBcPacketList
  <2>2. ToSet(q) = ToSet(bcPackets) \cup ((written + 1)..(written + k))
    <3>1. /\ Len(q) = Len(bcPackets) + k /\ NewPackets(k) \in Seq(Nat)
          /\ \A i \in 1..Len(bcPackets) : q[i] = bcPackets[i]
          /\ \A i \in 1..k : q[Len(bcPackets) + i] = written + i
      BY <1>0 DEF Enqueue, NewPackets
    <3> HIDE DEF q
    <3>2. ASSUME NEW i \in 1..Len(q)
          PROVE  q[i] \in ToSet(bcPackets) \cup ((written + 1)..(written + k))
      <4>1. CASE i \in 1..Len(bcPackets)
        BY <3>1, <4>1 DEF ToSet
      <4>2. CASE i \notin 1..Len(bcPackets)
        <5>1. i - Len(bcPackets) \in 1..k /\ Len(bcPackets) + (i - Len(bcPackets)) = i
          BY <1>0, <3>1, <4>2
        <5>2. q[i] = written + (i - Len(bcPackets))
          BY <3>1, <5>1
        <5>3. QED  BY <1>0, <5>1, <5>2
      <4>3. QED  BY <4>1, <4>2
    <3>3. ToSet(bcPackets) \subseteq ToSet(q)
      <4>1. ASSUME NEW i \in 1..Len(bcPackets)
            PROVE  bcPackets[i] \in ToSet(q)
        <5>1. i \in 1..Len(q) /\ q[i] = bcPackets[i]
          BY <1>0, <3>1
        <5>2. QED  BY <5>1 DEF ToSet
      <4>2. QED  BY <4>1 DEF ToSet
    <3>4. ASSUME NEW p \in (written + 1)..(written + k)
          PROVE  p \in ToSet(q)
      <4>1. p - written \in 1..k /\ written + (p - written) = p
            /\ Len(bcPackets) + (p - written) \in 1..Len(q)
        BY <1>0, <3>1
      <4>2. q[Len(bcPackets) + (p - written)] = p
        BY <3>1, <4>1
      <4>3. QED  BY <4>1, <4>2 DEF ToSet
    <3>5. ToSet(q) \subseteq ToSet(bcPackets) \cup ((written + 1)..(written + k))
      <4> DEFINE all == ToSet(bcPackets) \cup ((written + 1)..(written + k))
      <4>1. \A i \in 1..Len(q) : q[i] \in all
        BY <3>2
      <4> HIDE DEF all
      <4>2. ToSet(q) \subseteq all
        BY <4>1 DEF ToSet
      <4>3. QED  BY <4>2 DEF all
    <3>6. QED  BY <3>3, <3>4, <3>5
  <2> HIDE DEF q
  <2>3. Placed(ToSet(q), Pkts(agenda), ToSet(sent), skipped, cancelled, written + k)
    <3> DEFINE new == (written + 1)..(written + k)
    <3>1. 1..(written + k) = (1..written) \cup new /\ (1..written) \cap new = {}
      BY <1>0
    <3>2. ToSet(q) = ToSet(bcPackets) \cup new
      BY <2>2
    <3> HIDE DEF new
    <3>3. QED  BY <1>0, <3>1, <3>2 DEF Placed
  <2>4. written' = written + k /\ UNCHANGED <<sent, cancelled>>
    BY <1>2 DEF WriteBcPacketList
  <2>5. CASE ScheduleBc(q, agenda, KickPlaces(agenda), failed)
    <3> DEFINE places == KickPlaces(agenda)
    <3>1. places \subseteq 1..(Len(agenda) + 1)
      BY <1>0 DEF KickPlaces, AtEnd
    <3>2. ScheduleBc(q, agenda, places, failed)
      BY <2>5
    <3> HIDE DEF places
    <3>3. QED  BY <1>0, <2>1, <2>3, <2>4, <3>1, <3>2, ScheduleBcPlaced
  <2>6. CASE bcPackets' = q /\ UNCHANGED <<agenda, skipped>>
    BY <2>3, <2>4, <2>6
  <2>7. QED  BY <1>2, <2>5, <2>6 DEF WriteBcPacketList, q
(* The first event is taken from the agenda.                               *)
<1>3. ASSUME agenda # <<>>
      PROVE  /\ Tail(agenda) \in Seq(Events) /\ Len(Tail(agenda)) \in Nat
             /\ AtEnd(Tail(agenda)) \subseteq 1..(Len(Tail(agenda)) + 1)
             /\ Ordered(bcPackets, Tail(agenda), sent, written, Passable)
             /\ Pkts(Tail(agenda)) = IF Head(agenda).kind = "send"
                                     THEN Pkts(agenda) \ {Head(agenda).pkt} ELSE Pkts(agenda)
             /\ Head(agenda).kind = "send" => Head(agenda).pkt \in Pkts(agenda)
  <2> DEFINE rest == Tail(agenda)
  <2>1. /\ rest \in Seq(Events) /\ Len(rest) = Len(agenda) - 1 /\ Len(rest) \in Nat
        /\ \A i \in 1..Len(rest) : rest[i] = agenda[i + 1]
        /\ Head(agenda) = agenda[1] /\ 1 \in 1..Len(agenda)
    BY <1>0, <1>3, FirstTaken
  <2>2. Ordered(bcPackets, rest, sent, written, Passable)
    BY <1>0, <1>3, FirstTaken
  <2> HIDE DEF rest
  <2>3. \A i \in 1..(1 - 1) : rest[i] = agenda[i]
    OBVIOUS
  <2>4. \A i \in 1..(Len(agenda) - 1) : rest[i] = agenda[i + 1]
    BY <2>1
  <2>5. Pkts(rest) = IF agenda[1].kind = "send" THEN Pkts(agenda) \ {agenda[1].pkt}
                                                ELSE Pkts(agenda)
    BY <1>0, <2>1, <2>3, <2>4, RemovePackets
  <2>6. agenda[1].kind = "send" => agenda[1].pkt \in Pkts(agenda)
    BY <2>1 DEF Pkts
  <2>7. AtEnd(rest) \subseteq 1..(Len(rest) + 1)
    BY <2>1 DEF AtEnd
  <2>8. QED  BY <2>1, <2>2, <2>5, <2>6, <2>7 DEF rest
<1>4. ASSUME Broadcast
      PROVE  Goal
  <2> DEFINE rest == Tail(agenda)
             p == Head(agenda).pkt
  <2>1. agenda # <<>> /\ Head(agenda).kind = "send" /\ sent' = Append(sent, p)
        /\ UNCHANGED <<written, cancelled>>
    BY <1>4 DEF Broadcast
  <2>2. p \in 1..MaxPkts
    <3>1. Head(agenda) \in Events
      BY <1>0, <2>1, HeadTailProperties
    <3>2. QED  BY <2>1, <3>1, EventPackets
  <2> HIDE DEF p
  <2>3. ToSet(sent') = ToSet(sent) \cup {p}
    BY <1>0, <2>1, <2>2, AppendedPackets
  <2> USE DEF p
  <2>4. /\ rest \in Seq(Events) /\ AtEnd(rest) \subseteq 1..(Len(rest) + 1)
        /\ Ordered(bcPackets, rest, sent, written, Passable)
        /\ Pkts(rest) = Pkts(agenda) \ {p} /\ p \in Pkts(agenda)
    BY <1>3, <2>1
  <2> HIDE DEF rest, p
  <2>5. Placed(ToSet(bcPackets), Pkts(rest), ToSet(sent'), skipped, cancelled, written)
    BY <1>0, <2>3, <2>4 DEF Placed
  <2>6. CASE \E asserted : ScheduleBc(bcPackets, rest, AtEnd(rest), asserted)
    <3> DEFINE places == AtEnd(rest)
    <3>1. PICK asserted : ScheduleBc(bcPackets, rest, places, asserted)
      BY <2>6
    <3>2. places \subseteq 1..(Len(rest) + 1)
      BY <2>4
    <3> HIDE DEF places
    <3>3. Placed(ToSet(bcPackets'), Pkts(agenda'), ToSet(sent'), skipped', cancelled, written)
      BY <1>0, <2>4, <2>5, <3>1, <3>2, ScheduleBcPlaced
    <3>4. QED  BY <2>1, <3>3
  <2>7. CASE agenda' = rest /\ UNCHANGED <<bcPackets, skipped>>
    BY <2>1, <2>5, <2>7
  <2>8. QED  BY <1>4, <2>6, <2>7 DEF Broadcast, rest
<1>5. ASSUME Reschedule
      PROVE  Goal
  <2> DEFINE rest == Tail(agenda)
             places == AtEnd(rest)
  <2>1. agenda # <<>> /\ Head(agenda).kind # "send"
        /\ UNCHANGED <<written, sent, cancelled>>
        /\ ScheduleBc(bcPackets, rest, places, failed)
    BY <1>5 DEF Reschedule
  <2>2. /\ rest \in Seq(Events) /\ places \subseteq 1..(Len(rest) + 1)
        /\ Ordered(bcPackets, rest, sent, written, Passable) /\ Pkts(rest) = Pkts(agenda)
    BY <1>3, <2>1
  <2> HIDE DEF rest, places
  <2>3. Placed(ToSet(bcPackets), Pkts(rest), ToSet(sent), skipped, cancelled, written)
    BY <1>0, <2>2
  <2>4. Placed(ToSet(bcPackets'), Pkts(agenda'), ToSet(sent), skipped', cancelled, written)
    BY <1>0, <2>1, <2>2, <2>3, ScheduleBcPlaced
  <2>5. QED  BY <2>1, <2>4
<1>6. ASSUME StopApplication
      PROVE  Goal
  <2> DEFINE ev   == SendEv(sendEvent)
             last == IF IsBroadcasting(agenda) THEN {sendEvent} ELSE {}
             one  == Cancel(agenda, ev)
  <2>1. last \subseteq Pkts(agenda)
    BY DEF IsBroadcasting, Pkts, SendEv
  <2>2. Pkts(one) = Pkts(agenda) \ last
    <3>1. ev.kind = "send" /\ ev.pkt = sendEvent
      BY DEF SendEv
    <3>2. IsBroadcasting(agenda) <=> \E i \in 1..Len(agenda) : IsLast(agenda, i, ev)
      BY LastThere DEF IsLast, IsBroadcasting
    <3> HIDE DEF ev
    <3>3. Pkts(one) = IF ev.kind = "send" /\ \E i \in 1..Len(agenda) : IsLast(agenda, i, ev)
                      THEN Pkts(agenda) \ {ev.pkt} ELSE Pkts(agenda)
      BY <1>0, CancelPackets
    <3>4. QED  BY <3>1, <3>2, <3>3
  <2>3. one \in Seq(Events) /\ Ordered(bcPackets, one, sent, written, Passable)
    BY <1>0, CancelProperties
  <2>4. /\ agenda' = Cancel(one, SchedEv) /\ cancelled' = cancelled \cup last
        /\ UNCHANGED <<bcPackets, written, sent, skipped>>
    BY <1>6 DEF StopApplication
  <2> HIDE DEF last, one
  <2>5. Pkts(agenda') = Pkts(one)
    <3>1. SchedEv.kind # "send"
      BY DEF SchedEv
    <3>2. QED  BY <2>3, <2>4, <3>1, CancelPackets
  <2>6. QED  BY <1>0, <2>1, <2>2, <2>4, <2>5 DEF Placed
<1>7. ASSUME UNCHANGED vars
      PROVE  Goal
  BY <1>0, <1>7 DEF vars
<1>8. QED
  BY <1>2, <1>4, <1>5, <1>6, <1>7 DEF Next, RunEvent

(* Every packet ever written is in exactly one place: none is lost or sent *)
(* twice by the two kinds of events that race for the queue, nor by        *)
(* StopApplication.                                                        *)
THEOREM NoneLostOrTwice == Spec => []Conserved
<1>1. Init => Conserved
  BY DEF Init, Conserved, InAgenda, Pkts, ToSet
<1>2. QED  BY <1>1, NextPlaced, IInvHolds, PTL DEF Spec
-----------------------------------------------------------------------------
(* Why the queue, its events and its coin are a lossy FIFO.  That every    *)
(* packet is in one place says which packets are pending: those that were  *)
(* neither sent nor lost.  A step that loses packets or broadcasts one     *)
(* only adds to what was sent or lost, so nothing becomes pending again;   *)
(* and Ordered says that the first event sends the oldest of them, but for *)
(* those left behind.                                                      *)
Waiting == ToSet(bcPackets) \cup InAgenda
Lost    == skipped \cup cancelled

LEMMA WaitingIsTheRest ==
  ASSUME Conserved PROVE Waiting = (1..written) \ (ToSet(sent) \cup Lost)
  BY DEF Conserved, Waiting, Lost

(* What a step of the queue does to the numbers the FIFO counts with.      *)
LEMMA HistoryGrows ==
  ASSUME IInv, [Next]_vars
  PROVE  /\ Lost \subseteq Lost'
         /\ \/ /\ \E k \in 0..MaxList : written' = written + k /\ written + k <= MaxPkts
               /\ sent' = sent /\ Passable' = Passable
            \/ /\ Broadcast /\ written' = written /\ Passable' = Passable
            \/ /\ StopApplication /\ written' = written /\ sent' = sent
<1>1. Lost \subseteq Lost'
  BY DEF Lost, Next, RunEvent, WriteBcPacketList, Broadcast, Reschedule,
         StopApplication, ScheduleBc, vars
<1>2. ASSUME NEW k \in 0..MaxList, WriteBcPacketList(k)
      PROVE  /\ written' = written + k /\ written + k <= MaxPkts /\ sent' = sent
             /\ orphaned' = orphaned
  BY <1>2 DEF WriteBcPacketList
<1>3. ASSUME Reschedule \/ UNCHANGED vars
      PROVE  /\ written' = written + 0 /\ written + 0 <= MaxPkts /\ sent' = sent
             /\ orphaned' = orphaned /\ 0 \in 0..MaxList
  BY <1>3, BoundAssumption DEF Reschedule, vars, IInv, TypeOK
<1>4. ASSUME Broadcast
      PROVE  written' = written /\ orphaned' = orphaned
  BY <1>4 DEF Broadcast
<1>5. ASSUME StopApplication
      PROVE  written' = written /\ sent' = sent
  BY <1>5 DEF StopApplication
<1>6. orphaned' = orphaned => Passable' = Passable
  BY DEF Passable
<1>7. QED
  BY <1>1, <1>2, <1>3, <1>4, <1>5, <1>6 DEF Next, RunEvent

(* A packet of the agenda, or of the queue, is not older than the packet   *)
(* the first event sends, unless that may pass it.                         *)
LEMMA FirstMayPass ==
  ASSUME IInv, agenda # <<>>, Head(agenda).kind = "send"
  PROVE  /\ Head(agenda).pkt \in InAgenda
         /\ \A q \in Waiting : Abstract!Passes(Head(agenda).pkt, q)
<1>1. /\ agenda \in Seq(Events) /\ bcPackets \in Seq(1..MaxPkts)
      /\ Len(bcPackets) \in Nat /\ written \in Nat /\ MaxPkts \in Nat
      /\ Ordered(bcPackets, agenda, sent, written, Passable)
  BY BoundAssumption DEF IInv, TypeOK
<1>2. 1 \in 1..Len(agenda) /\ Head(agenda) = agenda[1] /\ Len(agenda) \in Nat
  BY <1>1, FirstTaken
<1>3. Head(agenda).pkt \in InAgenda
  BY <1>2 DEF InAgenda, Pkts
<1>4. agenda[1].pkt \in Nat
  BY <1>1, <1>2, ElementOfSeq, EventPackets
<1>5. \A p, q \in Nat : p = q \/ Before(p, q, Passable) => Abstract!Passes(p, q)
  BY DEF Before, Abstract!Passes, Passable
<1>6. ASSUME NEW i \in 1..Len(agenda), agenda[i].kind = "send"
      PROVE  Abstract!Passes(agenda[1].pkt, agenda[i].pkt)
  <2>1. agenda[i].pkt \in Nat
    BY <1>1, <1>6, ElementOfSeq, EventPackets
  <2>2. i = 1 \/ 1 < i
    BY <1>2
  <2>3. 1 < i => Before(agenda[1].pkt, agenda[i].pkt, Passable)
    BY <1>1, <1>2, <1>6 DEF Ordered
  <2>4. QED  BY <1>4, <1>5, <2>1, <2>2, <2>3
<1>7. ASSUME NEW i \in 1..Len(bcPackets)
      PROVE  Abstract!Passes(agenda[1].pkt, bcPackets[i])
  <2>1. agenda[1].pkt <= written - Len(bcPackets)
    BY <1>1, <1>2 DEF Ordered
  <2>2. bcPackets[i] = written - Len(bcPackets) + i
    BY <1>1 DEF Ordered
  <2>3. bcPackets[i] \in Nat /\ agenda[1].pkt < bcPackets[i]
    BY <1>1, <1>4, <2>1, <2>2, ElementOfSeq
  <2>4. QED  BY <1>4, <1>5, <2>3 DEF Before
<1>8. \A q \in InAgenda : Abstract!Passes(agenda[1].pkt, q)
  BY <1>6 DEF InAgenda, Pkts
<1>9. \A q \in ToSet(bcPackets) : Abstract!Passes(agenda[1].pkt, q)
  BY <1>7 DEF ToSet
<1>10. QED  BY <1>2, <1>3, <1>8, <1>9 DEF Waiting

(* Every step of the queue is a step of the lossy FIFO.                    *)
LEMMA StepIsFifoStep ==
  IInv /\ Conserved /\ Conserved' /\ [Next]_vars => [Abstract!FifoNext]_(Abstract!fifoVars)
<1> SUFFICES ASSUME IInv, Conserved, Conserved', [Next]_vars
             PROVE  Abstract!FifoNext
  OBVIOUS
<1>1. /\ Waiting = (1..written) \ (ToSet(sent) \cup Lost)
      /\ Waiting' = (1..written') \ (ToSet(sent') \cup Lost')
  BY WaitingIsTheRest DEF Conserved, Waiting, Lost
<1>2. Lost \subseteq Lost'
  BY HistoryGrows
<1>3. CASE /\ \E k \in 0..MaxList : written' = written + k /\ written + k <= MaxPkts
           /\ sent' = sent /\ Passable' = Passable
  <2>1. PICK k \in 0..MaxList : written' = written + k /\ written + k <= MaxPkts
    BY <1>3
  <2>2. written \in Nat /\ k \in Nat /\ MaxList \in Nat
    BY BoundAssumption DEF IInv, TypeOK
  <2>3. 1..written' = (1..written) \cup ((written + 1)..(written + k))
    BY <2>1, <2>2
  <2>4. Waiting' \subseteq Waiting \cup ((written + 1)..(written + k))
    BY <1>1, <1>2, <1>3, <2>3
  <2>5. CASE k = 0
    <3>1. written' = written /\ Waiting' \subseteq Waiting
      BY <2>1, <2>2, <2>4, <2>5
    <3>2. Abstract!Lose
      BY <1>3, <3>1 DEF Abstract!Lose, Waiting, InAgenda, Passable
    <3>3. QED  BY <3>2 DEF Abstract!FifoNext
  <2>6. CASE k # 0
    <3>1. k \in 1..MaxList
      BY <2>2, <2>6
    <3>2. Abstract!Put(k)
      BY <1>3, <2>1, <2>4 DEF Abstract!Put, Waiting, InAgenda, Passable
    <3>3. QED  BY <3>1, <3>2 DEF Abstract!FifoNext
  <2>7. QED  BY <2>5, <2>6
<1>4. CASE Broadcast /\ written' = written /\ Passable' = Passable
  <2> DEFINE p == Head(agenda).pkt
  <2>1. agenda # <<>> /\ Head(agenda).kind = "send" /\ sent' = Append(sent, p)
    BY <1>4 DEF Broadcast
  <2>2. p \in Waiting /\ \A q \in Waiting : Abstract!Passes(p, q)
    BY <2>1, FirstMayPass DEF Waiting
  <2>3. ToSet(sent') = ToSet(sent) \cup {p}
    <3>1. sent \in Seq(1..MaxPkts) /\ agenda \in Seq(Events)
      BY DEF IInv, TypeOK
    <3>2. Head(agenda) \in Events
      BY <2>1, <3>1, HeadTailProperties
    <3>3. p \in 1..MaxPkts
      BY <2>1, <3>2, EventPackets
    <3> HIDE DEF p
    <3>4. QED  BY <2>1, <3>1, <3>3, AppendedPackets
  <2> HIDE DEF p
  <2>4. Waiting' \subseteq Waiting \ {p}
    BY <1>1, <1>2, <1>4, <2>3
  <2>5. Abstract!Emit
    BY <1>4, <2>1, <2>2, <2>4 DEF Abstract!Emit, Waiting, InAgenda, Passable
  <2>6. QED  BY <2>5 DEF Abstract!FifoNext
<1>5. CASE StopApplication /\ written' = written /\ sent' = sent
  <2>1. Passable = {} /\ Passable' \subseteq Waiting'
    BY <1>5 DEF StopApplication, IInv, Passable, Waiting, InAgenda
  <2>2. Waiting' \subseteq Waiting
    BY <1>1, <1>2, <1>5
  <2>3. Abstract!LeaveBehind
    BY <1>5, <2>1, <2>2 DEF Abstract!LeaveBehind, Waiting, InAgenda, Passable
  <2>4. QED  BY <2>3 DEF Abstract!FifoNext
<1>6. QED  BY <1>3, <1>4, <1>5, HistoryGrows

(* The queue, its events and its coin implement a lossy FIFO whose sender  *)
(* may once leave packets behind: nothing is duplicated or invented on the *)
(* way to the devices, and only packets left behind are passed by others.  *)
THEOREM QueueIsLossyFifo == Spec => ImplementsLossyFifo
<1>1. Init => Abstract!FifoInit
  BY DEF Init, Abstract!FifoInit, InAgenda, Pkts, ToSet
<1>2. QED
  BY <1>1, StepIsFifoStep, IInvHolds, NoneLostOrTwice, PTL
     DEF Spec, ImplementsLossyFifo, Abstract!FifoSpec
=============================================================================
