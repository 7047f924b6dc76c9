------------------------- MODULE NetworkCodingProofs -------------------------
(***************************************************************************)
(* Proofs about the network of cluster heads, for every number of heads,   *)
(* rows and packets, every topology and all coefficients.                  *)
(*                                                                         *)
(* What the packets say does not depend on what a linear combination of    *)
(* vectors is, only on the header and the payload being combined alike:    *)
(* up to there a sequence of packets is one of whatever is in it.  That a  *)
(* combination of packets is a packet again, with a vector of integers, is *)
(* in the last section, from the sums in CsClusterHeaderProofs.            *)
(***************************************************************************)
EXTENDS NetworkCoding, CsClusterHeaderProofs, SequenceTheorems, FiniteSetTheorems,
        WellFoundedInduction

Sequence(s) == s \in Seq(ToSet(s))

LEMMA SequenceOf ==
  ASSUME NEW S, NEW s \in Seq(S)
  PROVE  Sequence(s)
<1>1. Len(s) \in Nat /\ s \in [1..Len(s) -> S] /\ DOMAIN s = 1..Len(s)
  BY LenProperties
<1>2. s \in [1..Len(s) -> ToSet(s)]
  BY <1>1 DEF ToSet
<1>3. QED  BY <1>1, <1>2, SeqDef DEF Sequence

LEMMA SequenceProperties ==
  ASSUME NEW s, Sequence(s)
  PROVE  /\ Len(s) \in Nat /\ DOMAIN s = 1..Len(s) /\ s = [i \in 1..Len(s) |-> s[i]]
         /\ \A i \in 1..Len(s) : s[i] \in ToSet(s)
         /\ \A x \in ToSet(s) : \E i \in 1..Len(s) : s[i] = x
<1>1. Len(s) \in Nat /\ s \in [1..Len(s) -> ToSet(s)] /\ DOMAIN s = 1..Len(s)
  BY LenProperties DEF Sequence
<1>2. QED  BY <1>1 DEF ToSet

LEMMA FunctionIsSequence ==
  ASSUME NEW n \in Nat, NEW s, s = [i \in 1..n |-> s[i]]
  PROVE  Sequence(s) /\ Len(s) = n
<1>1. DOMAIN s = 1..n
  OBVIOUS
<1>2. s \in [1..n -> ToSet(s)]
  BY <1>1 DEF ToSet
<1>3. s \in Seq(ToSet(s))
  BY <1>2, SeqDef
<1>4. QED  BY <1>1, <1>3, LenProperties DEF Sequence

LEMMA EmptySequence == Sequence(<<>>) /\ ToSet(<<>>) = {} /\ Len(<<>>) = 0
<1>1. <<>> \in Seq({}) /\ Len(<<>>) = 0
  BY EmptySeq
<1>2. DOMAIN <<>> = {}
  BY <1>1, LenProperties
<1>3. ToSet(<<>>) = {}
  BY <1>2 DEF ToSet
<1>4. QED  BY <1>1, <1>3, SequenceOf

LEMMA SingleSequence == \A x : Sequence(<<x>>) /\ ToSet(<<x>>) = {x} /\ Len(<<x>>) = 1
<1> SUFFICES ASSUME NEW x
             PROVE  Sequence(<<x>>) /\ ToSet(<<x>>) = {x} /\ Len(<<x>>) = 1
  OBVIOUS
<1>1. <<x>> \in Seq({x}) /\ Len(<<x>>) = 1 /\ <<x>>[1] = x
  OBVIOUS
<1> DEFINE s == <<x>>
<1>2. s \in Seq({x}) /\ Len(s) = 1 /\ s[1] = x
  BY <1>1
<1> HIDE DEF s
<1>3. DOMAIN s = {1}
  BY <1>2, LenProperties
<1>4. ToSet(s) = {x}
  BY <1>2, <1>3 DEF ToSet
<1>5. QED  BY <1>2, <1>4, SequenceOf DEF s

LEMMA Concatenation ==
  ASSUME NEW s, NEW t, Sequence(s), Sequence(t)
  PROVE  /\ Sequence(s \o t) /\ ToSet(s \o t) = ToSet(s) \cup ToSet(t)
         /\ Len(s \o t) = Len(s) + Len(t)
         /\ \A i \in 1..Len(s) : (s \o t)[i] = s[i]
         /\ \A i \in (Len(s) + 1)..(Len(s) + Len(t)) : (s \o t)[i] = t[i - Len(s)]
<1> DEFINE S == ToSet(s) \cup ToSet(t)
           u == s \o t
<1>1. s \in Seq(S) /\ t \in Seq(S)
  BY SeqMonotonic DEF Sequence
<1> HIDE DEF S
<1>2. /\ u \in Seq(S) /\ Len(u) = Len(s) + Len(t)
      /\ \A i \in 1..(Len(s) + Len(t)) : u[i] = IF i <= Len(s) THEN s[i] ELSE t[i - Len(s)]
  BY <1>1, ConcatProperties
<1>3. /\ Len(s) \in Nat /\ DOMAIN s = 1..Len(s)
      /\ Len(t) \in Nat /\ DOMAIN t = 1..Len(t)
      /\ DOMAIN u = 1..Len(u)
  BY <1>2, SequenceProperties, LenProperties
<1> HIDE DEF u
<1>4. \A i \in 1..Len(s) : i \in 1..Len(u) /\ u[i] = s[i]
  BY <1>2, <1>3
<1>5. \A i \in 1..Len(t) : i + Len(s) \in 1..Len(u) /\ u[i + Len(s)] = t[i]
  BY <1>2, <1>3
<1>6. \A i \in (Len(s) + 1)..(Len(s) + Len(t)) : i - Len(s) \in 1..Len(t) /\ u[i] = t[i - Len(s)]
  BY <1>2, <1>3
<1>7. \A i \in 1..Len(u) : i \in 1..Len(s) \/ i \in (Len(s) + 1)..(Len(s) + Len(t))
  BY <1>2, <1>3
<1>8. ToSet(u) \subseteq ToSet(s) \cup ToSet(t)
  BY <1>3, <1>4, <1>6, <1>7 DEF ToSet
<1>9. ToSet(s) \cup ToSet(t) \subseteq ToSet(u)
  BY <1>3, <1>4, <1>5 DEF ToSet
<1>10. Sequence(u)
  BY <1>2, SequenceOf
<1>11. QED  BY <1>2, <1>4, <1>6, <1>8, <1>9, <1>10 DEF u

LEMMA RestOfSequence ==
  ASSUME NEW s, Sequence(s), s # <<>>
  PROVE  Sequence(Tail(s)) /\ ToSet(s) = ToSet(Tail(s)) \cup {Head(s)}
<1> DEFINE S == ToSet(s)
           t == Tail(s)
<1>1. /\ t \in Seq(S) /\ Len(t) = Len(s) - 1
      /\ \A i \in 1..Len(t) : t[i] = s[i + 1]
  BY HeadTailProperties DEF Sequence
<1>2. Head(s) = s[1] /\ Len(s) \in Nat \ {0} /\ DOMAIN s = 1..Len(s) /\ DOMAIN t = 1..Len(t)
  BY <1>1, EmptySeq, LenProperties DEF Sequence
<1> HIDE DEF t
<1>3. \A i \in 1..Len(s) : i = 1 \/ (i - 1 \in 1..Len(t) /\ s[i] = t[i - 1])
  BY <1>1, <1>2
<1>4. \A i \in 1..Len(t) : i + 1 \in 1..Len(s)
  BY <1>1, <1>2
<1>5. 1 \in 1..Len(s)
  BY <1>2
<1>6. ToSet(s) = ToSet(t) \cup {s[1]}
  <2>1. \A i \in DOMAIN s : s[i] \in ToSet(t) \cup {s[1]}
    BY <1>2, <1>3 DEF ToSet
  <2>2. \A i \in DOMAIN t : t[i] \in ToSet(s)
    BY <1>1, <1>2, <1>4 DEF ToSet
  <2>3. s[1] \in ToSet(s)
    BY <1>2, <1>5 DEF ToSet
  <2>4. QED  BY <2>1, <2>2, <2>3 DEF ToSet
<1>7. Sequence(t)
  BY <1>1, SequenceOf
<1>8. QED  BY <1>2, <1>6, <1>7 DEF t
-----------------------------------------------------------------------------
(* Minima and maxima of sets of numbers.                                   *)
LEMMA MaxIsElement ==
  ASSUME NEW n \in Nat, NEW S, S \subseteq 0..n, S # {}
  PROVE  Max(S) \in S
<1> DEFINE T == {n - x : x \in S}
<1>1. T \subseteq Nat /\ T # {}
  <2>1. \A x \in S : n - x \in Nat
    OBVIOUS
  <2>2. QED  BY <2>1
<1> HIDE DEF T
<1>2. Min(T) \in T /\ \A y \in T : Min(T) <= y
  BY <1>1, MinIsElement
<1>3. PICK x \in S : Min(T) = n - x
  BY <1>2 DEF T
<1>4. \A y \in S : n - x <= n - y
  BY <1>2, <1>3 DEF T
<1>5. \A y \in S : x >= y
  BY <1>4
<1>6. QED  BY <1>5 DEF Max

(* A listing that never repeats an element of a finite set, and is as long *)
(* as the set is large, has all of its elements.                           *)
LEMMA ListsAll ==
  ASSUME NEW n \in Nat, NEW S, IsFiniteSet(S), Cardinality(S) = n,
         NEW f \in [1..n -> S], \A i, j \in 1..n : i < j => f[i] # f[j]
  PROVE  \A x \in S : \E i \in 1..n : f[i] = x
<1>1. f \in Injection(1..n, S)
  BY DEF Injection, IsInjective
<1>2. Cardinality(1..n) = n
  BY FS_Interval
<1>3. f \in Surjection(1..n, S)
  BY <1>1, <1>2, FS_Injection
<1>4. QED  BY <1>3 DEF Surjection
-----------------------------------------------------------------------------
(* The shape of the state.                                                 *)
Batched(c)  == c = [h \in Heads |-> c[h]] /\ \A h \in Heads : Sequence(c[h])
Buffers(b)  == b = [h \in Heads |-> b[h]] /\ \A h \in Heads : Sequence(b[h])
Channels(l) == l = [e \in Links |-> l[e]] /\ \A e \in Links : Sequence(l[e])

Shape ==
  /\ net \in Settings
  /\ Batched(closed)
  /\ Buffers(ncBuf)
  /\ Channels(link)
  /\ rxCl \in [Heads -> Nat]
  /\ ~Buffering => \A h \in Heads : ncBuf[h] = <<>>

LEMMA LinkEnds ==
  /\ \A e \in Links : /\ e[1] \in Heads /\ e[2] \in Out[e[1]]
                      /\ e[2] \in Heads \cup {Sink}
  /\ \A h \in Heads : \A d \in Out[h] : <<h, d>> \in Links
  /\ Sink \notin Heads
<1>1. \A e \in Links : e[1] \in Heads /\ e[2] \in Out[e[1]]
  BY DEF Links
<1>2. \A h \in Heads : Out[h] \subseteq Heads \cup {Sink}
  BY TopologyAssumption
<1>3. \A h \in Heads : \A d \in Out[h] : <<h, d>> \in Links
  BY DEF Links
<1>4. Sink \notin Heads
  BY LkAssumption DEF Sink, Heads
<1>5. QED  BY <1>1, <1>2, <1>3, <1>4

(* What becomes of packets that are sent, passed on and taken from a link. *)
LEMMA SentFlow ==
  ASSUME NEW h \in Heads, NEW pkts, Sequence(pkts), NEW links, Channels(links)
  PROVE  LET sent == Sent(h, pkts, links) IN
         /\ Channels(sent)
         /\ \A e \in Links : /\ e[1] = h => ToSet(sent[e]) = ToSet(links[e]) \cup ToSet(pkts)
                             /\ e[1] # h => sent[e] = links[e]
<1> DEFINE sent == Sent(h, pkts, links)
<1>1. /\ sent = [e \in Links |-> sent[e]]
      /\ \A e \in Links : sent[e] = IF e[1] = h THEN links[e] \o pkts ELSE links[e]
  BY DEF Sent
<1> HIDE DEF sent
<1>2. \A e \in Links : Sequence(links[e])
  BY DEF Channels
<1>3. ASSUME NEW e \in Links
      PROVE  /\ Sequence(sent[e])
             /\ e[1] = h => ToSet(sent[e]) = ToSet(links[e]) \cup ToSet(pkts)
             /\ e[1] # h => sent[e] = links[e]
  <2>1. /\ Sequence(links[e]) /\ Sequence(links[e] \o pkts)
        /\ ToSet(links[e] \o pkts) = ToSet(links[e]) \cup ToSet(pkts)
    BY <1>2, Concatenation
  <2>2. sent[e] = IF e[1] = h THEN links[e] \o pkts ELSE links[e]
    BY <1>1
  <2>3. QED  BY <2>1, <2>2
<1>4. QED  BY <1>1, <1>3 DEF Channels, sent

LEMMA TakenFlow ==
  ASSUME Channels(link), NEW e \in Links, link[e] # <<>>
  PROVE  /\ Channels(Taken(e))
         /\ Head(link[e]) \in ToSet(link[e])
         /\ \A f \in Links : /\ ToSet(Taken(e)[f]) \subseteq ToSet(link[f])
                             /\ f # e => Taken(e)[f] = link[f]
         /\ ToSet(link[e]) = ToSet(Taken(e)[e]) \cup {Head(link[e])}
<1>1. Taken(e) = [f \in Links |-> IF f = e THEN Tail(link[e]) ELSE link[f]]
  BY DEF Taken, Channels
<1>2. \A f \in Links : Sequence(link[f])
  BY DEF Channels
<1>3. Sequence(Tail(link[e])) /\ ToSet(link[e]) = ToSet(Tail(link[e])) \cup {Head(link[e])}
  BY <1>2, RestOfSequence
<1>4. QED  BY <1>1, <1>2, <1>3 DEF Channels

LEMMA PassFlow ==
  ASSUME Shape, NEW h \in Heads, NEW pkts, Sequence(pkts), NEW links, Channels(links),
         Pass(h, pkts, links)
  PROVE  /\ Buffers(ncBuf') /\ Channels(link')
         /\ \A g \in Heads : g # h \/ ~Buffering => ncBuf'[g] = ncBuf[g]
         /\ \A e \in Links : e[1] # h \/ Buffering => link'[e] = links[e]
         /\ Buffering => /\ ncBuf'[h] = ncBuf[h] \o pkts
                         /\ ToSet(ncBuf'[h]) = ToSet(ncBuf[h]) \cup ToSet(pkts)
         /\ ~Buffering => \A e \in Links :
              e[1] = h => ToSet(link'[e]) = ToSet(links[e]) \cup ToSet(pkts)
<1>1. CASE Buffering
  <2>1. link' = links /\ ncBuf' = [ncBuf EXCEPT ![h] = @ \o pkts]
    BY <1>1 DEF Pass
  <2>2. /\ ncBuf' = [g \in Heads |-> IF g = h THEN ncBuf[h] \o pkts ELSE ncBuf[g]]
        /\ \A g \in Heads : Sequence(ncBuf[g])
    BY <2>1 DEF Shape, Buffers
  <2>3. Sequence(ncBuf[h] \o pkts) /\ ToSet(ncBuf[h] \o pkts) = ToSet(ncBuf[h]) \cup ToSet(pkts)
    BY <2>2, Concatenation
  <2>4. Buffers(ncBuf')
    BY <2>2, <2>3 DEF Buffers
  <2>5. QED  BY <1>1, <2>1, <2>2, <2>3, <2>4
<1>2. CASE ~Buffering
  <2>1. link' = Sent(h, pkts, links) /\ ncBuf' = ncBuf
    BY <1>2 DEF Pass
  <2>2. QED  BY <1>2, <2>1, SentFlow DEF Shape
<1>3. QED  BY <1>1, <1>2

(* The packets of rows that were compressed.                               *)
NewPackets(h, k, nodes, rows) == [n \in 1..Len(rows) |-> NewPacket(h, k, nodes, rows[n])]

LEMMA NewPacketsSequence ==
  ASSUME NEW h \in Heads, NEW k, NEW nodes \in NodeSets[h], NEW rows \in RowLists(h, nodes),
         NEW pkts, pkts = NewPackets(h, k, nodes, rows)
  PROVE  /\ Sequence(pkts)
         /\ \A p \in ToSet(pkts) : \E i : p = NewPacket(h, k, nodes, i)
         /\ (IF net.spatial THEN Lk[h] > 0 ELSE nodes # {}) => ToSet(pkts) # {}
<1>1. /\ Sequence(rows)
      /\ (IF net.spatial THEN Lk[h] > 0 ELSE nodes # {}) => Len(rows) # 0
  <2>1. CASE net.spatial /\ rows = [i \in 1..Lk[h] |-> i - 1]
    <3>1. Lk[h] \in Nat
      BY LkAssumption DEF Heads
    <3>2. rows = [i \in 1..Lk[h] |-> rows[i]]
      BY <2>1
    <3>3. Sequence(rows) /\ Len(rows) = Lk[h]
      BY <3>1, <3>2, FunctionIsSequence
    <3>4. QED  BY <2>1, <3>1, <3>3
  <2>2. CASE ~net.spatial /\ rows \in SetToSeqs(nodes)
    <3>1. IsFiniteSet(nodes) /\ Cardinality(nodes) \in Nat
      BY BatchAssumption, FS_CardinalityType
    <3>2. rows = [i \in 1..Cardinality(nodes) |-> rows[i]]
      BY <2>2 DEF SetToSeqs
    <3>3. Sequence(rows) /\ Len(rows) = Cardinality(nodes)
      BY <3>1, <3>2, FunctionIsSequence
    <3>4. QED  BY <2>2, <3>1, <3>3, FS_EmptySet
  <2>3. QED  BY <2>1, <2>2 DEF RowLists
<1>2. Len(rows) \in Nat
  BY <1>1, SequenceProperties
<1>3. pkts = [n \in 1..Len(rows) |-> pkts[n]]
  BY DEF NewPackets
<1>4. \A n \in 1..Len(rows) : pkts[n] = NewPacket(h, k, nodes, rows[n])
  BY DEF NewPackets
<1>5. Sequence(pkts) /\ Len(pkts) = Len(rows)
  BY <1>2, <1>3, FunctionIsSequence
<1>6. \A p \in ToSet(pkts) : \E i : p = NewPacket(h, k, nodes, i)
  BY <1>4, <1>5, SequenceProperties
<1>7. Len(rows) # 0 => pkts[1] \in ToSet(pkts)
  BY <1>2, <1>5, SequenceProperties
<1>8. QED  BY <1>1, <1>5, <1>6, <1>7
-----------------------------------------------------------------------------
(* What is true of every packet.  The header counts no recombinations, it  *)
(* names the coefficients of the payload where HeaderTellsPayload says so, *)
(* the rows are of batches with the packet's sequence number, and SrcInfo  *)
(* names their nodes.                                                      *)
Truthful(p) ==
  net.coeff # "BERN" \/ (net.mode # "code" /\ NcInfoSize <= PerByte) => HeaderTrue(p)
OneNumber(p) ==
  \A b \in p.origin :
    /\ b[1] \in Heads /\ b[2] \in 1..Len(closed[b[1]])
    /\ NumberOf(b) = p.seq
SrcTrue(p, d) ==
  \/ \E n \in Closings(d, p.seq) : <<d, n>> \in p.origin /\ p.src[d] = closed[d][n].nodes
  \/ p.src[d] = {} /\ \A n \in Closings(d, p.seq) : <<d, n>> \notin p.origin
  \/ Cardinality(Closings(d, p.seq)) > 1

Good(p) ==
  /\ p.head \in Heads
  /\ p.cnt = 0
  /\ Truthful(p)
  /\ OneNumber(p)
  /\ \A d \in Heads : SrcTrue(p, d)

(* Batches are only ever added.                                            *)
Grown ==
  \A d \in Heads :
    /\ Len(closed[d]) \in Nat /\ Len(closed'[d]) \in Nat /\ Len(closed[d]) <= Len(closed'[d])
    /\ \A n \in 1..Len(closed[d]) : closed'[d][n] = closed[d][n]

LEMMA NothingClosed ==
  ASSUME Batched(closed), closed' = closed
  PROVE  Batched(closed') /\ Grown
<1>1. \A d \in Heads : Len(closed[d]) \in Nat
  BY SequenceProperties DEF Batched
<1>2. QED  BY <1>1 DEF Batched, Grown

LEMMA BatchClosed ==
  ASSUME Batched(closed), NEW h \in Heads, NEW b, closed' = [closed EXCEPT ![h] = Append(@, b)]
  PROVE  /\ Batched(closed') /\ Grown
         /\ Len(closed'[h]) = Len(closed[h]) + 1 /\ closed'[h][Len(closed[h]) + 1] = b
         /\ \A d \in Heads : d # h => closed'[d] = closed[d]
<1> DEFINE s == closed[h]
           t == Append(s, b)
           S == ToSet(s) \cup {b}
<1>1. /\ closed' = [d \in Heads |-> IF d = h THEN t ELSE closed[d]]
      /\ \A d \in Heads : Sequence(closed[d])
  BY DEF Batched
<1>2. s \in Seq(S) /\ b \in S
  BY <1>1, SeqMonotonic DEF Sequence
<1> HIDE DEF S
<1>3. /\ t \in Seq(S) /\ Len(t) = Len(s) + 1
      /\ \A i \in 1..Len(s) : t[i] = s[i]
      /\ t[Len(s) + 1] = b
  BY <1>2, AppendProperties
<1>4. Sequence(t)
  BY <1>3, SequenceOf
<1>5. \A d \in Heads : Len(closed[d]) \in Nat
  BY <1>1, SequenceProperties
<1> HIDE DEF t
<1>6. Batched(closed')
  BY <1>1, <1>4 DEF Batched
<1>7. Grown
  BY <1>1, <1>3, <1>5 DEF Grown
<1>8. QED  BY <1>1, <1>3, <1>6, <1>7

Numbered(c, d, k) == {n \in 1..Len(c[d]) : c[d][n].seq = k}

LEMMA ClosingsFinite ==
  ASSUME NEW c, Batched(c), NEW d \in Heads, NEW k
  PROVE  Len(c[d]) \in Nat /\ IsFiniteSet(Numbered(c, d, k))
<1>1. Len(c[d]) \in Nat
  BY SequenceProperties DEF Batched
<1>2. IsFiniteSet(1..Len(c[d]))
  BY <1>1, FS_Interval
<1>3. QED  BY <1>1, <1>2, FS_Subset DEF Numbered

(* A packet stays good while batches are added.                            *)
LEMMA GoodKept ==
  ASSUME Batched(closed), Batched(closed'), Grown, net' = net, NEW p, Good(p)
  PROVE  Good(p)'
<1>1. Truthful(p)'
  BY DEF Good, Truthful, HeaderTrue
<1>2. OneNumber(p)'
  <2> SUFFICES ASSUME NEW b \in p.origin
               PROVE  b[2] \in 1..Len(closed'[b[1]]) /\ NumberOf(b)' = p.seq /\ b[1] \in Heads
    BY DEF OneNumber
  <2>1. b[1] \in Heads /\ b[2] \in 1..Len(closed[b[1]]) /\ closed[b[1]][b[2]].seq = p.seq
    BY DEF Good, OneNumber, NumberOf
  <2>2. QED  BY <2>1 DEF Grown, NumberOf
<1>3. ASSUME NEW d \in Heads
      PROVE  SrcTrue(p, d)'
  <2> DEFINE C == Closings(d, p.seq)
             D == Closings(d, p.seq)'
  <2>1. C \subseteq D /\ IsFiniteSet(D) /\ IsFiniteSet(C)
    <3>1. IsFiniteSet(C) /\ IsFiniteSet(D)
      <4>1. C = Numbered(closed, d, p.seq) /\ D = Numbered(closed', d, p.seq)
        BY DEF Closings, Numbered
      <4>2. QED  BY <4>1, ClosingsFinite
    <3>2. C \subseteq D
      BY DEF Closings, Grown
    <3>3. QED  BY <3>1, <3>2
  <2>2. CASE \E n \in C : <<d, n>> \in p.origin /\ p.src[d] = closed[d][n].nodes
    <3>1. PICK n \in C : <<d, n>> \in p.origin /\ p.src[d] = closed[d][n].nodes
      BY <2>2
    <3>2. closed'[d][n] = closed[d][n]
      BY <3>1 DEF Closings, Grown
    <3>3. QED  BY <2>1, <3>1, <3>2 DEF SrcTrue
  <2>3. CASE p.src[d] = {} /\ \A n \in C : <<d, n>> \notin p.origin
    <3>1. \A n \in D : <<d, n>> \notin p.origin
      <4> SUFFICES ASSUME NEW n \in D, <<d, n>> \in p.origin
                   PROVE  FALSE
        OBVIOUS
      <4>1. n \in 1..Len(closed[d]) /\ closed[d][n].seq = p.seq
        BY DEF Good, OneNumber, NumberOf
      <4>2. QED  BY <2>3, <4>1 DEF Closings
    <3>2. QED  BY <2>3, <3>1 DEF SrcTrue
  <2>4. CASE Cardinality(C) > 1
    <3>1. Cardinality(C) <= Cardinality(D) /\ Cardinality(C) \in Nat /\ Cardinality(D) \in Nat
      BY <2>1, FS_Subset, FS_CardinalityType
    <3>2. QED  BY <2>4, <3>1 DEF SrcTrue
  <2>5. QED  BY <2>2, <2>3, <2>4 DEF Good, SrcTrue
<1>4. QED  BY <1>1, <1>2, <1>3 DEF Good

(* The packets of a new batch.                                             *)
LEMMA NewPacketGood ==
  ASSUME Batched(closed), net \in Settings, net' = net,
         NEW h \in Heads, NEW k, NEW nodes, NEW i,
         NEW p, p = NewPacket(h, k, nodes, i), NEW b, b.seq = k, b.nodes = nodes,
         closed' = [closed EXCEPT ![h] = Append(@, b)]
  PROVE  Good(p)'
<1> DEFINE m == Len(closed[h]) + 1
<1>1. /\ p.head = h /\ p.seq = k /\ p.cnt = 0 /\ p.origin = {<<h, m>>}
      /\ p.data = UnitVector(h, i) /\ p.field = Serialize(net.coeff, UnitVector(h, i))
      /\ p.src = [d \in Heads |-> IF d = h THEN nodes ELSE {}]
  BY DEF NewPacket
<1>2. b.seq = k /\ b.nodes = nodes
  OBVIOUS
<1>3. /\ Batched(closed') /\ Grown
      /\ Len(closed'[h]) = m /\ closed'[h][m] = b
      /\ m \in Nat \ {0}
  <2>1. /\ Batched(closed') /\ Grown
        /\ Len(closed'[h]) = Len(closed[h]) + 1 /\ closed'[h][Len(closed[h]) + 1] = b
    BY BatchClosed
  <2>2. Len(closed[h]) \in Nat
    BY <2>1 DEF Grown
  <2>3. QED  BY <2>1, <2>2
<1>4. Truthful(p)'
  <2>1. UnitVector(h, i) \in Signs
    BY DEF UnitVector, Signs, BernValues
  <2>2. CASE net.coeff # "BERN"
    BY <1>1, <2>2 DEF Truthful, HeaderTrue, Serialize, Deserialize
  <2>3. CASE net.coeff = "BERN" /\ NcInfoSize <= PerByte
    BY <1>1, <2>1, <2>3, OneByteTrue DEF Truthful, HeaderTrue, Serialize, Deserialize
  <2>4. QED  BY <2>2, <2>3 DEF Truthful
<1> HIDE DEF m
<1>5. OneNumber(p)'
  BY <1>1, <1>2, <1>3 DEF OneNumber, NumberOf
<1>6. \A d \in Heads : SrcTrue(p, d)'
  <2>1. SrcTrue(p, h)'
    <3>1. m \in Closings(h, k)'
      BY <1>2, <1>3 DEF Closings
    <3>2. QED  BY <1>1, <1>2, <1>3, <3>1 DEF SrcTrue
  <2>2. ASSUME NEW d \in Heads, d # h
        PROVE  SrcTrue(p, d)'
    BY <1>1, <2>2 DEF SrcTrue
  <2>3. QED  BY <2>1, <2>2
<1>7. QED  BY <1>1, <1>4, <1>5, <1>6 DEF Good, m
-----------------------------------------------------------------------------
(* Dividing by a number other than a constant.                             *)
LEMMA Quotient ==
  ASSUME NEW a \in Nat, NEW b \in Nat \ {0}
  PROVE  a \div b \in Nat /\ b * (a \div b) <= a /\ a < b * (a \div b + 1)
  OBVIOUS

LEMMA QuotientUnique ==
  ASSUME NEW b \in Nat \ {0}, NEW q \in Nat
  PROVE  (b * q) \div b = q
<1> DEFINE x == (b * q) \div b
<1>1. b * q \in Nat
  OBVIOUS
<1>2. x \in Nat /\ b * x <= b * q /\ b * q < b * (x + 1)
  BY <1>1, Quotient
<1> HIDE DEF x
<1>3. ~(x < q)
  <2> SUFFICES ASSUME x + 1 <= q
               PROVE  FALSE
    BY <1>2
  <2>1. b * (x + 1) <= b * q
    BY <1>2
  <2>2. b * (x + 1) \in Nat
    BY <1>2
  <2>3. QED  BY <1>1, <1>2, <2>1, <2>2
<1>4. ~(q < x)
  <2> SUFFICES ASSUME q + 1 <= x
               PROVE  FALSE
    BY <1>2
  <2>1. b * (q + 1) <= b * x
    BY <1>2
  <2>2. b * (q + 1) = b * q + b /\ b * x \in Nat
    BY <1>2
  <2>3. QED  BY <1>1, <1>2, <2>1, <2>2
<1>5. QED  BY <1>2, <1>3, <1>4 DEF x

(* The n * b packets of n groups: which group a packet is of.              *)
LEMMA Positions ==
  ASSUME NEW b \in Nat \ {0}, NEW n \in Nat
  PROVE  /\ n * b \in Nat
         /\ \A r \in 1..(n * b) : (r - 1) \div b + 1 \in 1..n
         /\ \A i \in 1..n : \E r \in 1..(n * b) : (r - 1) \div b + 1 = i
<1>1. n * b \in Nat
  OBVIOUS
<1>2. ASSUME NEW r \in 1..(n * b)
      PROVE  (r - 1) \div b + 1 \in 1..n
  <2> DEFINE q == (r - 1) \div b
  <2>1. r - 1 \in Nat /\ r - 1 < n * b
    BY <1>1
  <2>2. q \in Nat /\ b * q <= r - 1
    BY <2>1, Quotient
  <2> HIDE DEF q
  <2>3. b * q < b * n
    <3>1. b * q \in Nat /\ b * n = n * b
      BY <2>2
    <3>2. QED  BY <1>1, <2>1, <2>2, <3>1
  <2>4. q < n
    BY <2>2, <2>3
  <2>5. QED  BY <2>2, <2>4 DEF q
<1>3. ASSUME NEW i \in 1..n
      PROVE  \E r \in 1..(n * b) : (r - 1) \div b + 1 = i
  <2> DEFINE r == b * (i - 1) + 1
  <2>1. i - 1 \in Nat /\ b * (i - 1) \in Nat
    OBVIOUS
  <2>2. b * (i - 1) + b = b * i /\ b * i <= n * b
    OBVIOUS
  <2>3. r \in 1..(n * b)
    BY <1>1, <2>1, <2>2
  <2>4. r - 1 = b * (i - 1)
    BY <2>1
  <2>5. (r - 1) \div b = i - 1
    BY <2>1, <2>4, QuotientUnique
  <2> HIDE DEF r
  <2>6. QED  BY <2>3, <2>5
<1>4. QED  BY <1>1, <1>2, <1>3

(* A packet's group and its leader.                                        *)
LEMMA GroupProperties ==
  ASSUME NEW buf, Sequence(buf), NEW i \in 1..Len(buf)
  PROVE  /\ Group(buf, i) \subseteq 1..Len(buf) /\ i \in Group(buf, i)
         /\ \A j \in Group(buf, i) : buf[j].seq = buf[i].seq
         /\ Leader(buf, i) \in Group(buf, i)
         /\ Leader(buf, i) = Min(Group(buf, i))
         /\ Group(buf, Leader(buf, i)) = Group(buf, i)
         /\ Leader(buf, i) \in Leaders(buf)
<1>1. Group(buf, i) \subseteq 1..Len(buf) /\ i \in Group(buf, i)
  BY DEF Group
<1>2. \A j \in Group(buf, i) : buf[j].seq = buf[i].seq
  BY DEF Group
<1>3. Leader(buf, i) = Min(Group(buf, i))
  BY DEF Leader
<1>4. Leader(buf, i) \in Group(buf, i)
  <2>1. Group(buf, i) \subseteq Nat /\ Group(buf, i) # {}
    BY <1>1
  <2>2. QED  BY <1>3, <2>1, MinIsElement
<1>5. Group(buf, Leader(buf, i)) = Group(buf, i)
  BY <1>4 DEF Group
<1>6. Leader(buf, Leader(buf, i)) = Leader(buf, i)
  BY <1>5 DEF Leader
<1>7. QED  BY <1>1, <1>2, <1>3, <1>4, <1>5, <1>6 DEF Leaders

(* Combining packets of one sequence that are good makes a good packet.    *)
LEMMA DoRLNCGood ==
  ASSUME net.mode = "code", NEW h \in Heads, NEW buf, Sequence(buf),
         \A j \in 1..Len(buf) : Good(buf[j]),
         NEW i \in 1..Len(buf), NEW c, NEW p, p = DoRLNC(h, buf, Group(buf, i), c)
  PROVE  /\ Good(p) /\ p.head = h
         /\ \A j \in Group(buf, i) : buf[j].origin \subseteq p.origin
<1> DEFINE g == Group(buf, i)
           V == [j \in g |-> Deserialize(net.coeff, buf[j].field)]
           W == [j \in g |-> buf[j].data]
<1>1. /\ p.head = h /\ p.seq = buf[Min(g)].seq
      /\ p.field = Serialize(net.coeff, Combination(g, c, V))
      /\ p.data = Combination(g, c, W)
      /\ p.src = [d \in Heads |-> CombinedSrc(buf, g, d)]
      /\ p.cnt = Max({buf[j].cnt : j \in g})
      /\ p.origin = UNION {buf[j].origin : j \in g}
  BY DEF DoRLNC
<1>2. /\ g \subseteq 1..Len(buf) /\ i \in g /\ Min(g) \in g
      /\ \A j \in g : buf[j].seq = buf[i].seq
  BY GroupProperties
<1> HIDE DEF g
<1>3. p.seq = buf[i].seq /\ \A j \in g : buf[j].seq = p.seq
  BY <1>1, <1>2
<1>4. \A j \in g : Good(buf[j])
  BY <1>2
<1>5. Truthful(p)
  <2> SUFFICES ASSUME net.coeff # "BERN"
               PROVE  HeaderTrue(p)
    BY DEF Truthful
  <2>1. \A j \in g : Deserialize(net.coeff, buf[j].field) = buf[j].data
    BY <1>4 DEF Good, Truthful, HeaderTrue
  <2>2. V = W
    BY <2>1
  <2>3. p.field = p.data
    BY <1>1, <2>2 DEF Serialize
  <2>4. QED  BY <2>3 DEF HeaderTrue, Deserialize
<1>6. p.cnt = 0
  <2> DEFINE C == {buf[j].cnt : j \in g}
  <2>1. C = {0}
    BY <1>2, <1>4 DEF Good
  <2>2. p.cnt = Max(C)
    BY <1>1
  <2>3. Max({0}) \in {0}
    <3>1. {0} \subseteq 0..0 /\ {0} # {} /\ 0 \in Nat
      OBVIOUS
    <3>2. QED  BY <3>1, MaxIsElement
  <2>4. QED  BY <2>1, <2>2, <2>3
<1>7. OneNumber(p)
  BY <1>1, <1>3, <1>4 DEF Good, OneNumber
<1>8. ASSUME NEW d \in Heads
      PROVE  SrcTrue(p, d)
  <2> DEFINE named == {j \in g : buf[j].src[d] # {}}
             C == Closings(d, p.seq)
  <2>1. p.src[d] = IF named = {} THEN {} ELSE buf[Max(named)].src[d]
    BY <1>1 DEF CombinedSrc
  <2>2. \A j \in g : buf[j].origin \subseteq p.origin
    BY <1>1
  <2>3. ASSUME NEW j \in g
        PROVE  \/ \E n \in C : <<d, n>> \in buf[j].origin /\ buf[j].src[d] = closed[d][n].nodes
               \/ buf[j].src[d] = {} /\ \A n \in C : <<d, n>> \notin buf[j].origin
               \/ Cardinality(C) > 1
    <3>1. SrcTrue(buf[j], d) /\ buf[j].seq = p.seq
      BY <1>3, <1>4 DEF Good
    <3>2. QED  BY <3>1 DEF SrcTrue
  <2> HIDE DEF C
  <2>4. CASE Cardinality(C) > 1
    BY <2>4 DEF SrcTrue, C
  <2>5. CASE ~(Cardinality(C) > 1) /\ named # {}
    <3>1. Max(named) \in named
      <4>1. named \subseteq 0..Len(buf) /\ Len(buf) \in Nat
        BY <1>2, SequenceProperties
      <4> HIDE DEF named
      <4>2. QED  BY <2>5, <4>1, MaxIsElement
    <3>2. PICK j \in g : p.src[d] = buf[j].src[d] /\ buf[j].src[d] # {}
      BY <2>1, <2>5, <3>1
    <3>3. PICK n \in C : <<d, n>> \in buf[j].origin /\ buf[j].src[d] = closed[d][n].nodes
      BY <2>3, <2>5, <3>2
    <3>4. QED  BY <2>2, <3>2, <3>3 DEF SrcTrue, C
  <2>6. CASE ~(Cardinality(C) > 1) /\ named = {}
    <3>1. \A j \in g : buf[j].src[d] = {}
      BY <2>6
    <3>2. p.src[d] = {}
      BY <2>1, <2>6
    <3> HIDE DEF named
    <3>3. CASE \E j \in g : \E n \in C :
                 <<d, n>> \in buf[j].origin /\ buf[j].src[d] = closed[d][n].nodes
      BY <2>2, <3>1, <3>2, <3>3 DEF SrcTrue, C
    <3>4. CASE \A j \in g : \A n \in C : <<d, n>> \notin buf[j].origin
      BY <1>1, <3>2, <3>4 DEF SrcTrue, C
    <3>5. QED  BY <2>3, <2>6, <3>3, <3>4
  <2>7. QED  BY <2>4, <2>5, <2>6
<1>9. QED  BY <1>1, <1>5, <1>6, <1>7, <1>8 DEF Good, g

(* A strictly ascending list of the members of a set has all of them.      *)
LEMMA AscendingListsAll ==
  ASSUME NEW n \in Nat, NEW S, S \subseteq 1..n, NEW f \in Ascending(S)
  PROVE  /\ Len(f) \in Nat /\ f \in [1..Len(f) -> S]
         /\ \A x \in S : \E i \in 1..Len(f) : f[i] = x
<1> DEFINE m == Cardinality(S)
<1>1. IsFiniteSet(S)
  <2>1. IsFiniteSet(1..n)
    BY FS_Interval
  <2>2. QED  BY <2>1, FS_Subset
<1>2. m \in Nat
  BY <1>1, FS_CardinalityType
<1>3. f \in [1..m -> S] /\ \A i, j \in DOMAIN f : i < j => f[i] < f[j]
  BY DEF Ascending
<1> HIDE DEF m
<1>4. f = [i \in 1..m |-> f[i]]
  BY <1>3
<1>5. Len(f) = m
  BY <1>2, <1>4, FunctionIsSequence
<1>6. \A i, j \in 1..m : i < j => f[i] # f[j]
  <2> SUFFICES ASSUME NEW i \in 1..m, NEW j \in 1..m, i < j
               PROVE  f[i] # f[j]
    OBVIOUS
  <2>1. f[i] \in 1..n /\ f[j] \in 1..n /\ f[i] < f[j]
    BY <1>3
  <2>2. QED  BY <2>1
<1>7. m = Cardinality(S)
  BY DEF m
<1>8. \A x \in S : \E i \in 1..m : f[i] = x
  BY <1>1, <1>2, <1>3, <1>6, <1>7, ListsAll
<1>9. QED  BY <1>2, <1>3, <1>5, <1>8

(* The packets that network coding makes of a buffer: every one is made of *)
(* a group, and every group is in one.                                     *)
LEMMA RecombinedPackets ==
  ASSUME NEW h \in Heads, NEW buf, Sequence(buf), NEW f \in Ascending(Leaders(buf)),
         NEW c, NEW pkts, pkts = Recombined(h, buf, f, c)
  PROVE  /\ Sequence(pkts)
         /\ \A p \in ToSet(pkts) : \E i \in 1..Len(buf) : \E d :
              p = DoRLNC(h, buf, Group(buf, i), d)
         /\ \A i \in 1..Len(buf) : \E p \in ToSet(pkts) : \E d :
              p = DoRLNC(h, buf, Group(buf, i), d)
<1> DEFINE m == Len(f) * NcPktPLink
           pos(n) == (n - 1) \div NcPktPLink + 1
<1>1. Len(buf) \in Nat /\ Leaders(buf) \subseteq 1..Len(buf)
  BY SequenceProperties DEF Leaders
<1>2. /\ Len(f) \in Nat /\ f \in [1..Len(f) -> Leaders(buf)]
      /\ \A x \in Leaders(buf) : \E i \in 1..Len(f) : f[i] = x
  BY <1>1, AscendingListsAll
<1>3. /\ m \in Nat
      /\ \A r \in 1..m : pos(r) \in 1..Len(f)
      /\ \A i \in 1..Len(f) : \E r \in 1..m : pos(r) = i
  BY <1>2, CodingAssumption, Positions
<1>4. pkts = [n \in 1..m |-> DoRLNC(h, buf, Group(buf, f[pos(n)]), c[n])]
  BY DEF Recombined
<1> HIDE DEF m, pos
<1>5. Sequence(pkts) /\ Len(pkts) = m
  <2>1. pkts = [n \in 1..m |-> pkts[n]]
    BY <1>4
  <2>2. QED  BY <1>3, <2>1, FunctionIsSequence
<1>6. ASSUME NEW p \in ToSet(pkts)
      PROVE  \E i \in 1..Len(buf) : \E d : p = DoRLNC(h, buf, Group(buf, i), d)
  <2>1. PICK n \in 1..m : pkts[n] = p
    BY <1>5, SequenceProperties
  <2>2. f[pos(n)] \in 1..Len(buf)
    BY <1>1, <1>2, <1>3
  <2>3. p = DoRLNC(h, buf, Group(buf, f[pos(n)]), c[n])
    BY <1>4, <2>1
  <2>4. QED  BY <2>2, <2>3
<1>7. ASSUME NEW i \in 1..Len(buf)
      PROVE  \E p \in ToSet(pkts) : \E d : p = DoRLNC(h, buf, Group(buf, i), d)
  <2>1. Leader(buf, i) \in Leaders(buf) /\ Group(buf, Leader(buf, i)) = Group(buf, i)
    BY GroupProperties
  <2>2. PICK n \in 1..m : f[pos(n)] = Leader(buf, i)
    BY <1>2, <1>3, <2>1
  <2>3. pkts[n] = DoRLNC(h, buf, Group(buf, i), c[n])
    BY <1>4, <2>1, <2>2
  <2>4. pkts[n] \in ToSet(pkts)
    BY <1>5, SequenceProperties
  <2>5. QED  BY <2>3, <2>4
<1>8. QED  BY <1>5, <1>6, <1>7

(* Regrouping a buffer loses no packet and adds none.                      *)
LEMMA RegroupedPackets ==
  ASSUME NEW buf, Sequence(buf), NEW pkts \in Regrouped(buf)
  PROVE  Sequence(pkts) /\ ToSet(pkts) = ToSet(buf)
<1> DEFINE n == Len(buf)
<1>1. n \in Nat /\ DOMAIN buf = 1..n
  BY SequenceProperties
<1>2. PICK f \in [1..n -> 1..n] :
        /\ \A i, j \in 1..n : i < j => Before(buf, f[i], f[j])
        /\ pkts = [r \in 1..n |-> buf[f[r]]]
  BY DEF Regrouped
<1> HIDE DEF n
<1>3. \A i \in 1..n : ~Before(buf, i, i)
  <2> SUFFICES ASSUME NEW i \in 1..n
               PROVE  ~Before(buf, i, i)
    OBVIOUS
  <2>1. Leader(buf, i) \in 1..n
    BY GroupProperties DEF n
  <2>2. QED  BY <2>1 DEF Before
<1>4. \A i, j \in 1..n : i < j => f[i] # f[j]
  BY <1>2, <1>3
<1>5. IsFiniteSet(1..n) /\ Cardinality(1..n) = n
  BY <1>1, FS_Interval
<1>6. \A x \in 1..n : \E i \in 1..n : f[i] = x
  <2> DEFINE S == 1..n
  <2>1. IsFiniteSet(S) /\ Cardinality(S) = n /\ f \in [1..n -> S]
    BY <1>5
  <2> HIDE DEF S
  <2>2. \A x \in S : \E i \in 1..n : f[i] = x
    BY <1>1, <1>4, <2>1, ListsAll
  <2>3. QED  BY <2>2 DEF S
<1>7. Sequence(pkts) /\ DOMAIN pkts = 1..n
  <2>1. pkts = [r \in 1..n |-> pkts[r]]
    BY <1>2
  <2>2. QED  BY <1>1, <2>1, FunctionIsSequence
<1>8. \A r \in 1..n : pkts[r] = buf[f[r]]
  BY <1>2
<1>9. ToSet(pkts) = ToSet(buf)
  BY <1>1, <1>6, <1>7, <1>8 DEF ToSet
<1>10. QED  BY <1>7, <1>9
-----------------------------------------------------------------------------
(* Counting the packets of other heads in a buffer.                        *)
LEMMA ForeignFinite ==
  ASSUME NEW buf, Sequence(buf), NEW h
  PROVE  IsFiniteSet(Foreign(buf, h)) /\ Cardinality(Foreign(buf, h)) \in Nat
<1>1. IsFiniteSet(1..Len(buf))
  BY SequenceProperties, FS_Interval
<1>2. Foreign(buf, h) \subseteq 1..Len(buf)
  BY DEF Foreign
<1>3. IsFiniteSet(Foreign(buf, h))
  BY <1>1, <1>2, FS_Subset
<1>4. QED  BY <1>3, FS_CardinalityType

LEMMA ForeignEmpty == \A h : Cardinality(Foreign(<<>>, h)) = 0
<1>1. \A h : Foreign(<<>>, h) = {}
  BY EmptySequence DEF Foreign
<1>2. QED  BY <1>1, FS_EmptySet

LEMMA OwnAppended ==
  ASSUME NEW buf, Sequence(buf), NEW pkts, Sequence(pkts), NEW h,
         \A p \in ToSet(pkts) : p.head = h
  PROVE  Foreign(buf \o pkts, h) = Foreign(buf, h)
<1> DEFINE u == buf \o pkts
<1>1. /\ Len(u) = Len(buf) + Len(pkts) /\ Len(buf) \in Nat /\ Len(pkts) \in Nat
      /\ \A i \in 1..Len(buf) : u[i] = buf[i]
      /\ \A i \in (Len(buf) + 1)..(Len(buf) + Len(pkts)) : u[i] = pkts[i - Len(buf)]
  BY Concatenation, SequenceProperties
<1> HIDE DEF u
<1>2. \A i \in 1..Len(pkts) : pkts[i].head = h
  BY SequenceProperties
<1>3. ASSUME NEW i \in 1..Len(u)
      PROVE  i \in 1..Len(buf) \/ u[i].head = h
  <2>1. CASE i \in (Len(buf) + 1)..(Len(buf) + Len(pkts))
    <3>1. i - Len(buf) \in 1..Len(pkts)
      BY <1>1, <2>1
    <3>2. u[i] = pkts[i - Len(buf)]
      BY <1>1, <2>1
    <3>3. QED  BY <1>2, <3>1, <3>2
  <2>2. QED  BY <1>1, <2>1
<1>4. \A i \in 1..Len(buf) : i \in 1..Len(u)
  BY <1>1
<1>5. Foreign(u, h) = Foreign(buf, h)
  BY <1>1, <1>3, <1>4 DEF Foreign
<1>6. QED  BY <1>5 DEF u

LEMMA OneAppended ==
  ASSUME NEW buf, Sequence(buf), NEW p, NEW h
  PROVE  Cardinality(Foreign(buf \o <<p>>, h)) <= Cardinality(Foreign(buf, h)) + 1
<1> DEFINE u == buf \o <<p>>
           F == Foreign(buf, h) \cup {Len(buf) + 1}
<1>1. /\ Sequence(u) /\ Len(u) = Len(buf) + 1 /\ Len(buf) \in Nat
      /\ \A i \in 1..Len(buf) : u[i] = buf[i]
  BY Concatenation, SingleSequence, SequenceProperties
<1> HIDE DEF u
<1>2. \A i \in 1..Len(u) : i \in 1..Len(buf) \/ i = Len(buf) + 1
  BY <1>1
<1>3. Foreign(u, h) \subseteq F
  BY <1>1, <1>2 DEF Foreign
<1>4. /\ IsFiniteSet(F) /\ Cardinality(F) <= Cardinality(Foreign(buf, h)) + 1
      /\ Cardinality(Foreign(buf, h)) \in Nat
  BY ForeignFinite, FS_AddElement
<1>5. Cardinality(Foreign(u, h)) <= Cardinality(F) /\ Cardinality(F) \in Nat
  BY <1>3, <1>4, FS_Subset, FS_CardinalityType
<1>6. Cardinality(Foreign(u, h)) \in Nat
  BY <1>1, ForeignFinite
<1> HIDE DEF F
<1>7. QED  BY <1>4, <1>5, <1>6 DEF u
-----------------------------------------------------------------------------
(* The invariant.  A packet's head is never behind a head that holds it.   *)
Ahead(p, h) == \A rank \in Ranks : rank[p.head] <= rank[h]

BuffersGood  == \A h \in Heads : \A p \in ToSet(ncBuf[h]) : Good(p) /\ Ahead(p, h)
ChannelsGood == \A e \in Links : \A p \in ToSet(link[e]) : Good(p) /\ Ahead(p, e[1])

Inv == Shape /\ BuffersGood /\ ChannelsGood /\ CountCoversBuffer

LEMMA AheadProperties ==
  /\ \A p : p.head \in Heads => Ahead(p, p.head)
  /\ \A e \in Links : \A p : p.head \in Heads /\ Ahead(p, e[1]) /\ e[2] # Sink
                               => Ahead(p, e[2]) /\ (Ranks # {} => p.head # e[2])
<1>1. \A rank \in Ranks : \A h \in Heads : rank[h] \in Nat
  <2>1. IsFiniteSet(Heads)
    BY LkAssumption DEF Heads
  <2>2. Cardinality(Heads) \in Nat
    BY <2>1, FS_CardinalityType
  <2>3. QED  BY <2>2 DEF Ranks
<1>2. \A p : p.head \in Heads => Ahead(p, p.head)
  BY <1>1 DEF Ahead
<1>3. ASSUME NEW e \in Links, NEW p, p.head \in Heads, Ahead(p, e[1]), e[2] # Sink
      PROVE  Ahead(p, e[2]) /\ (Ranks # {} => p.head # e[2])
  <2>1. e[1] \in Heads /\ e[2] \in Heads /\ e[2] \in Out[e[1]] \ {Sink}
    BY <1>3, LinkEnds
  <2>2. ASSUME NEW rank \in Ranks
        PROVE  rank[p.head] < rank[e[2]]
    <3>1. rank[e[1]] < rank[e[2]]
      BY <2>1 DEF Ranks
    <3>2. rank[p.head] <= rank[e[1]]
      BY <1>3 DEF Ahead
    <3>3. rank[p.head] \in Nat /\ rank[e[1]] \in Nat /\ rank[e[2]] \in Nat
      BY <1>1, <1>3, <2>1
    <3>4. QED  BY <3>1, <3>2, <3>3
  <2>3. Ahead(p, e[2])
    <3>1. \A rank \in Ranks : rank[p.head] <= rank[e[2]]
      BY <1>1, <1>3, <2>1, <2>2
    <3>2. QED  BY <3>1 DEF Ahead
  <2>4. Ranks # {} => p.head # e[2]
    BY <1>1, <1>3, <2>2
  <2>5. QED  BY <2>3, <2>4
<1>4. QED  BY <1>2, <1>3

LEMMA InitInv == Init => Inv
<1> SUFFICES ASSUME Init
             PROVE  Inv
  OBVIOUS
<1>1. Shape
  BY EmptySequence DEF Init, Shape, Batched, Buffers, Channels
<1>2. BuffersGood /\ ChannelsGood
  BY EmptySequence DEF Init, BuffersGood, ChannelsGood
<1>3. CountCoversBuffer
  BY ForeignEmpty DEF Init, CountCoversBuffer
<1>4. QED  BY <1>1, <1>2, <1>3 DEF Inv

(* What was good before a step is good after it.                           *)
LEMMA StaysGood ==
  ASSUME Inv, Batched(closed'), Grown, net' = net
  PROVE  /\ \A h \in Heads : \A p \in ToSet(ncBuf[h]) : Good(p)' /\ Ahead(p, h)
         /\ \A e \in Links : \A p \in ToSet(link[e]) : Good(p)' /\ Ahead(p, e[1])
<1>1. Batched(closed)
  BY DEF Inv, Shape
<1>2. ASSUME NEW h \in Heads, NEW p \in ToSet(ncBuf[h])
      PROVE  Good(p)' /\ Ahead(p, h)
  BY <1>1, GoodKept DEF Inv, BuffersGood
<1>3. ASSUME NEW e \in Links, NEW p \in ToSet(link[e])
      PROVE  Good(p)' /\ Ahead(p, e[1])
  BY <1>1, GoodKept DEF Inv, ChannelsGood
<1>4. QED  BY <1>2, <1>3
-----------------------------------------------------------------------------
(* StartNewSeq: the packets of a new batch.                                *)
LEMMA StartNewSeqPackets ==
  ASSUME Inv, NEW h \in Heads, StartNewSeq(h)
  PROVE  \E b, pkts :
           /\ closed' = [closed EXCEPT ![h] = Append(@, b)]
           /\ Pass(h, pkts, link)
           /\ Sequence(pkts)
           /\ \A p \in ToSet(pkts) : /\ Good(p)' /\ p.head = h
                                     /\ p.origin = {<<h, Len(closed[h]) + 1>>}
           /\ (IF net.spatial THEN Lk[h] > 0 ELSE b.nodes # {}) => ToSet(pkts) # {}
<1>1. PICK k \in SeqNos, nodes \in NodeSets[h] : \E rows \in RowLists(h, nodes) :
        /\ closed' = [closed EXCEPT ![h] = Append(@, [seq |-> k, nodes |-> nodes])]
        /\ Pass(h, [n \in 1..Len(rows) |-> NewPacket(h, k, nodes, rows[n])], link)
  BY DEF StartNewSeq
<1>2. PICK rows \in RowLists(h, nodes) :
        /\ closed' = [closed EXCEPT ![h] = Append(@, [seq |-> k, nodes |-> nodes])]
        /\ Pass(h, [n \in 1..Len(rows) |-> NewPacket(h, k, nodes, rows[n])], link)
  BY <1>1
<1>3. PICK pkts : pkts = NewPackets(h, k, nodes, rows)
  OBVIOUS
<1>4. PICK b : b = [seq |-> k, nodes |-> nodes]
  OBVIOUS
<1>5. /\ closed' = [closed EXCEPT ![h] = Append(@, b)]
      /\ Pass(h, pkts, link)
      /\ b.seq = k /\ b.nodes = nodes
  BY <1>2, <1>3, <1>4 DEF NewPackets
<1>6. /\ Sequence(pkts)
      /\ \A p \in ToSet(pkts) : \E i : p = NewPacket(h, k, nodes, i)
      /\ (IF net.spatial THEN Lk[h] > 0 ELSE nodes # {}) => ToSet(pkts) # {}
  BY <1>3, NewPacketsSequence
<1>7. Batched(closed) /\ net \in Settings /\ net' = net
  BY DEF Inv, Shape, StartNewSeq
<1>8. ASSUME NEW p \in ToSet(pkts)
      PROVE  Good(p)' /\ p.head = h /\ p.origin = {<<h, Len(closed[h]) + 1>>}
  <2>1. PICK i : p = NewPacket(h, k, nodes, i)
    BY <1>6
  <2>2. closed' = [closed EXCEPT ![h] = Append(@, b)] /\ b.seq = k /\ b.nodes = nodes
    BY <1>5
  <2>3. p.head = h /\ p.origin = {<<h, Len(closed[h]) + 1>>}
    BY <2>1 DEF NewPacket
  <2>4. Good(p)'
    BY <1>7, <2>1, <2>2, NewPacketGood
  <2>5. QED  BY <2>3, <2>4
<1>9. QED  BY <1>5, <1>6, <1>8

LEMMA StartNewSeqInv ==
  ASSUME Inv, NEW h \in Heads, StartNewSeq(h)
  PROVE  Inv'
<1>1. PICK b, pkts :
        /\ closed' = [closed EXCEPT ![h] = Append(@, b)]
        /\ Pass(h, pkts, link)
        /\ Sequence(pkts)
        /\ \A p \in ToSet(pkts) : Good(p)' /\ p.head = h
  BY StartNewSeqPackets
<1>2. Shape /\ net' = net /\ rxCl' = CountAtClose(h)
  BY DEF Inv, StartNewSeq
<1>3. Batched(closed') /\ Grown
  BY <1>1, <1>2, BatchClosed DEF Shape
<1>4. /\ Buffers(ncBuf') /\ Channels(link')
      /\ \A g \in Heads : g # h \/ ~Buffering => ncBuf'[g] = ncBuf[g]
      /\ \A e \in Links : e[1] # h \/ Buffering => link'[e] = link[e]
      /\ Buffering => /\ ncBuf'[h] = ncBuf[h] \o pkts
                      /\ ToSet(ncBuf'[h]) = ToSet(ncBuf[h]) \cup ToSet(pkts)
      /\ ~Buffering => \A e \in Links :
           e[1] = h => ToSet(link'[e]) = ToSet(link[e]) \cup ToSet(pkts)
  BY <1>1, <1>2, PassFlow DEF Shape
<1>5. \A p \in ToSet(pkts) : Good(p)' /\ Ahead(p, h)
  BY <1>1, AheadProperties
<1>6. BuffersGood'
  BY <1>2, <1>3, <1>4, <1>5, StaysGood DEF BuffersGood
<1>7. ChannelsGood'
  BY <1>2, <1>3, <1>4, <1>5, StaysGood DEF ChannelsGood
<1>8. rxCl' \in [Heads -> Nat] /\ (Buffering => rxCl' = rxCl)
  BY <1>2 DEF Shape, CountAtClose
<1>9. Shape'
  BY <1>2, <1>3, <1>4, <1>8 DEF Shape, Buffering
<1>10. CountCoversBuffer'
  <2>1. CASE Buffering
    <3>1. Foreign(ncBuf'[h], h) = Foreign(ncBuf[h], h)
      <4>1. Sequence(ncBuf[h]) /\ ncBuf'[h] = ncBuf[h] \o pkts
        BY <1>2, <1>4, <2>1 DEF Shape, Buffers
      <4>2. Foreign(ncBuf[h] \o pkts, h) = Foreign(ncBuf[h], h)
        BY <1>1, <4>1, OwnAppended
      <4>3. QED  BY <4>1, <4>2
    <3>2. QED  BY <1>4, <1>8, <2>1, <3>1 DEF Inv, CountCoversBuffer
  <2>2. CASE ~Buffering
    <3>1. \A g \in Heads : ncBuf'[g] = <<>> /\ rxCl'[g] \in Nat
      BY <1>2, <1>4, <1>8, <2>2 DEF Shape
    <3>2. QED  BY <3>1, ForeignEmpty DEF CountCoversBuffer
  <2>3. QED  BY <2>1, <2>2
<1>11. QED  BY <1>6, <1>7, <1>9, <1>10 DEF Inv

(* The packets the network coding event makes of a buffer: all are good,   *)
(* and none of the buffer's is forgotten.                                  *)
LEMMA IntervalPackets ==
  ASSUME Inv, NEW h \in Heads, RLNetworkCoding(h)
  PROVE  \E pkts :
           /\ link' = Sent(h, pkts, link)
           /\ Sequence(pkts)
           /\ \A p \in ToSet(pkts) : Good(p) /\ Ahead(p, h)
           /\ \A q \in ToSet(ncBuf[h]) : \E p \in ToSet(pkts) : q.origin \subseteq p.origin
<1> DEFINE buf == ncBuf[h]
<1>1. Sequence(buf) /\ \A p \in ToSet(buf) : Good(p) /\ Ahead(p, h)
  BY DEF Inv, Shape, Buffers, BuffersGood
<1> HIDE DEF buf
<1>2. ASSUME NEW pkts \in Regrouped(buf), link' = Sent(h, pkts, link)
      PROVE  /\ Sequence(pkts)
             /\ \A p \in ToSet(pkts) : Good(p) /\ Ahead(p, h)
             /\ \A q \in ToSet(buf) : \E p \in ToSet(pkts) : q.origin \subseteq p.origin
  BY <1>1, RegroupedPackets
<1>3. ASSUME net.mode = "code", NEW f \in Ascending(Leaders(buf)), NEW c,
             NEW pkts, pkts = Recombined(h, buf, f, c)
      PROVE  /\ Sequence(pkts)
             /\ \A p \in ToSet(pkts) : Good(p) /\ Ahead(p, h)
             /\ \A q \in ToSet(buf) : \E p \in ToSet(pkts) : q.origin \subseteq p.origin
  <2>1. /\ Sequence(pkts)
        /\ \A p \in ToSet(pkts) : \E i \in 1..Len(buf) : \E d :
              p = DoRLNC(h, buf, Group(buf, i), d)
        /\ \A i \in 1..Len(buf) : \E p \in ToSet(pkts) : \E d :
              p = DoRLNC(h, buf, Group(buf, i), d)
    BY <1>1, <1>3, RecombinedPackets
  <2>2. \A i \in 1..Len(buf) : Good(buf[i])
    BY <1>1, SequenceProperties
  <2>3. ASSUME NEW p \in ToSet(pkts)
        PROVE  Good(p) /\ Ahead(p, h)
    <3>1. PICK i \in 1..Len(buf) : \E d : p = DoRLNC(h, buf, Group(buf, i), d)
      BY <2>1
    <3>2. Good(p) /\ p.head = h
      BY <1>1, <1>3, <2>2, <3>1, DoRLNCGood
    <3>3. QED  BY <3>2, AheadProperties
  <2>4. ASSUME NEW q \in ToSet(buf)
        PROVE  \E p \in ToSet(pkts) : q.origin \subseteq p.origin
    <3>1. PICK i \in 1..Len(buf) : buf[i] = q
      BY <1>1, SequenceProperties
    <3>2. PICK p \in ToSet(pkts) : \E d : p = DoRLNC(h, buf, Group(buf, i), d)
      BY <2>1
    <3>3. i \in Group(buf, i)
      BY <1>1, GroupProperties
    <3>4. QED  BY <1>1, <1>3, <2>2, <3>1, <3>2, <3>3, DoRLNCGood
  <2>5. QED  BY <2>1, <2>3, <2>4
<1>4. CASE net.mode = "shuffle" /\ \E pkts \in Regrouped(buf) : link' = Sent(h, pkts, link)
  BY <1>2, <1>4 DEF buf
<1>5. CASE /\ net.mode = "code"
           /\ \E f \in Ascending(Leaders(buf)) : \E c :
                link' = Sent(h, Recombined(h, buf, f, c), link)
  <2>0. PICK f \in Ascending(Leaders(buf)) : \E c :
          link' = Sent(h, Recombined(h, buf, f, c), link)
    BY <1>5
  <2>1. PICK c : link' = Sent(h, Recombined(h, buf, f, c), link)
    BY <2>0
  <2>2. PICK pkts : pkts = Recombined(h, buf, f, c)
    OBVIOUS
  <2>3. QED  BY <1>3, <1>5, <2>1, <2>2 DEF buf
<1>6. QED  BY <1>4, <1>5 DEF RLNetworkCoding, buf

LEMMA RLNetworkCodingInv ==
  ASSUME Inv, NEW h \in Heads, RLNetworkCoding(h)
  PROVE  Inv'
<1>1. PICK pkts :
        /\ link' = Sent(h, pkts, link)
        /\ Sequence(pkts)
        /\ \A p \in ToSet(pkts) : Good(p) /\ Ahead(p, h)
  BY IntervalPackets
<1>2. /\ Shape /\ net' = net /\ closed' = closed
      /\ rxCl' = [rxCl EXCEPT ![h] = 0] /\ ncBuf' = [ncBuf EXCEPT ![h] = <<>>]
  BY DEF Inv, RLNetworkCoding, NcInterval
<1>3. /\ Channels(link')
      /\ \A e \in Links : /\ e[1] = h => ToSet(link'[e]) = ToSet(link[e]) \cup ToSet(pkts)
                          /\ e[1] # h => link'[e] = link[e]
  BY <1>1, <1>2, SentFlow DEF Shape
<1>4. \A g \in Heads : ncBuf'[g] = IF g = h THEN <<>> ELSE ncBuf[g]
  BY <1>2 DEF Shape, Buffers
<1>5. Buffers(ncBuf')
  BY <1>2, <1>4, EmptySequence DEF Shape, Buffers
<1>6. Batched(closed') /\ Grown
  BY <1>2, NothingClosed DEF Shape
<1>7. Shape'
  BY <1>2, <1>3, <1>4, <1>5, <1>6 DEF Shape, Buffering
<1>8. BuffersGood'
  BY <1>2, <1>4, <1>6, StaysGood, EmptySequence DEF BuffersGood
<1>9. \A p \in ToSet(pkts) : Good(p)'
  BY <1>1, <1>2, <1>6, GoodKept DEF Shape
<1>10. ChannelsGood'
  BY <1>1, <1>2, <1>3, <1>6, <1>9, StaysGood DEF ChannelsGood
<1>11. CountCoversBuffer'
  BY <1>2, <1>4, ForeignEmpty DEF Inv, CountCoversBuffer, Shape
<1>12. QED  BY <1>7, <1>8, <1>10, <1>11 DEF Inv

(* A step that sends nothing and empties no buffer.                        *)
LEMMA NothingSent ==
  ASSUME Inv, net' = net, closed' = closed, ncBuf' = ncBuf, Channels(link'),
         \A e \in Links : ToSet(link'[e]) \subseteq ToSet(link[e]),
         rxCl' \in [Heads -> Nat], \A h \in Heads : rxCl[h] <= rxCl'[h]
  PROVE  Inv'
<1>1. Shape /\ Batched(closed') /\ Grown
  BY NothingClosed DEF Inv, Shape
<1>2. Shape'
  BY <1>1 DEF Shape, Buffering, Buffers
<1>3. BuffersGood' /\ ChannelsGood'
  BY <1>1, StaysGood DEF BuffersGood, ChannelsGood
<1>4. CountCoversBuffer'
  <2>1. ASSUME NEW h \in Heads
        PROVE  Cardinality(Foreign(ncBuf[h], h)) <= rxCl'[h]
    <3>1. Cardinality(Foreign(ncBuf[h], h)) \in Nat
      BY <1>1, ForeignFinite DEF Shape, Buffers
    <3>2. Cardinality(Foreign(ncBuf[h], h)) <= rxCl[h] /\ rxCl[h] <= rxCl'[h]
      BY DEF Inv, CountCoversBuffer
    <3>3. rxCl[h] \in Nat /\ rxCl'[h] \in Nat
      BY <1>1 DEF Shape
    <3>4. QED  BY <3>1, <3>2, <3>3
  <2>2. QED  BY <2>1 DEF CountCoversBuffer
<1>5. QED  BY <1>2, <1>3, <1>4 DEF Inv

(* A packet that is accepted and passed on.                                *)
LEMMA AcceptedInv ==
  ASSUME Inv, net' = net, closed' = closed,
         NEW e \in Links, link[e] # <<>>, e[2] # Sink,
         NEW pkt, pkt = Head(link[e]), Accepted(e[2], pkt), Pass(e[2], <<pkt>>, Taken(e)),
         rxCl' = [rxCl EXCEPT ![e[2]] = @ + 1]
  PROVE  Inv'
<1>1. PICK h, links : h = e[2] /\ links = Taken(e)
  OBVIOUS
<1>2. h \in Heads /\ Pass(h, <<pkt>>, links) /\ rxCl' = [rxCl EXCEPT ![h] = @ + 1] /\ pkt.head # h
  BY <1>1, LinkEnds DEF Accepted
<1>3. /\ Channels(links)
      /\ pkt \in ToSet(link[e])
      /\ \A f \in Links : ToSet(links[f]) \subseteq ToSet(link[f])
  BY <1>1, TakenFlow DEF Inv, Shape
<1>4. Shape /\ Batched(closed') /\ Grown
  BY NothingClosed DEF Inv, Shape
<1>5. PICK pkts : pkts = <<pkt>>
  OBVIOUS
<1>6. Sequence(pkts) /\ ToSet(pkts) = {pkt} /\ Pass(h, pkts, links) /\ Channels(links) /\ h \in Heads
  BY <1>2, <1>3, <1>5, SingleSequence
<1>7. /\ Buffers(ncBuf') /\ Channels(link')
      /\ \A g \in Heads : g # h \/ ~Buffering => ncBuf'[g] = ncBuf[g]
      /\ \A f \in Links : f[1] # h \/ Buffering => link'[f] = links[f]
      /\ Buffering => /\ ncBuf'[h] = ncBuf[h] \o pkts
                      /\ ToSet(ncBuf'[h]) = ToSet(ncBuf[h]) \cup ToSet(pkts)
      /\ ~Buffering => \A f \in Links :
           f[1] = h => ToSet(link'[f]) = ToSet(links[f]) \cup ToSet(pkts)
  <2>1. /\ Buffers(ncBuf') /\ Channels(link')
        /\ \A g \in Heads : g # h \/ ~Buffering => ncBuf'[g] = ncBuf[g]
    BY <1>4, <1>6, PassFlow
  <2>2. \A f \in Links : f[1] # h \/ Buffering => link'[f] = links[f]
    BY <1>4, <1>6, PassFlow
  <2>3. Buffering => /\ ncBuf'[h] = ncBuf[h] \o pkts
                     /\ ToSet(ncBuf'[h]) = ToSet(ncBuf[h]) \cup ToSet(pkts)
    BY <1>4, <1>6, PassFlow
  <2>4. ~Buffering => \A f \in Links :
          f[1] = h => ToSet(link'[f]) = ToSet(links[f]) \cup ToSet(pkts)
    <3> SUFFICES ASSUME ~Buffering, NEW f \in Links, f[1] = h
                 PROVE  ToSet(link'[f]) = ToSet(links[f]) \cup ToSet(pkts)
      OBVIOUS
    <3>1. link'[f] = links[f] \o pkts /\ Sequence(links[f])
      BY <1>6 DEF Pass, Sent, Channels
    <3>2. ToSet(links[f] \o pkts) = ToSet(links[f]) \cup ToSet(pkts)
      BY <1>6, <3>1, Concatenation
    <3>3. QED  BY <3>1, <3>2
  <2>5. QED  BY <2>1, <2>2, <2>3, <2>4
<1>8. Good(pkt)' /\ Ahead(pkt, h)
  <2>1. Good(pkt) /\ Good(pkt)' /\ Ahead(pkt, e[1])
    BY <1>3, <1>4, StaysGood DEF Inv, ChannelsGood
  <2>2. pkt.head \in Heads
    BY <2>1 DEF Good
  <2>3. QED  BY <1>1, <2>1, <2>2, AheadProperties
<1>9. BuffersGood'
  <2>1. ASSUME NEW g \in Heads, NEW p \in ToSet(ncBuf'[g])
        PROVE  Good(p)' /\ Ahead(p, g)
    <3>1. p \in ToSet(ncBuf[g]) \/ (g = h /\ p = pkt)
      BY <1>6, <1>7
    <3>2. QED  BY <1>4, <1>8, <3>1, StaysGood
  <2>2. QED  BY <2>1 DEF BuffersGood
<1>10. ChannelsGood'
  <2>1. ASSUME NEW f \in Links, NEW p \in ToSet(link'[f])
        PROVE  Good(p)' /\ Ahead(p, f[1])
    <3>1. p \in ToSet(link[f]) \/ (f[1] = h /\ p = pkt)
      BY <1>3, <1>6, <1>7
    <3>2. QED  BY <1>4, <1>8, <3>1, StaysGood
  <2>2. QED  BY <2>1 DEF ChannelsGood
<1>11. /\ rxCl' \in [Heads -> Nat]
       /\ \A g \in Heads : rxCl'[g] = IF g = h THEN rxCl[g] + 1 ELSE rxCl[g]
  BY <1>2, <1>4 DEF Shape
<1>12. Shape'
  BY <1>4, <1>7, <1>11 DEF Shape, Buffering
<1>13. CountCoversBuffer'
  <2>1. ASSUME NEW g \in Heads
        PROVE  Cardinality(Foreign(ncBuf'[g], g)) <= rxCl'[g]
    <3>1. /\ Sequence(ncBuf[g]) /\ Sequence(ncBuf'[g])
          /\ rxCl[g] \in Nat /\ rxCl'[g] \in Nat
          /\ Cardinality(Foreign(ncBuf[g], g)) <= rxCl[g]
      BY <1>4, <1>7, <1>11 DEF Shape, Buffers, Inv, CountCoversBuffer
    <3>2. Cardinality(Foreign(ncBuf[g], g)) \in Nat /\ Cardinality(Foreign(ncBuf'[g], g)) \in Nat
      BY <3>1, ForeignFinite
    <3>3. CASE ncBuf'[g] = ncBuf[g]
      BY <1>11, <3>1, <3>2, <3>3
    <3>4. CASE g = h /\ ncBuf'[g] = ncBuf[g] \o <<pkt>>
      <4>1. Cardinality(Foreign(ncBuf'[g], g)) <= Cardinality(Foreign(ncBuf[g], g)) + 1
        BY <3>1, <3>4, OneAppended
      <4>2. rxCl'[g] = rxCl[g] + 1
        BY <1>11, <3>4
      <4>3. QED  BY <3>1, <3>2, <4>1, <4>2
    <3>5. QED  BY <1>5, <1>7, <3>3, <3>4
  <2>2. QED  BY <2>1 DEF CountCoversBuffer
<1>14. QED  BY <1>9, <1>10, <1>12, <1>13 DEF Inv

LEMMA DeliverInv ==
  ASSUME Inv, NEW e \in Links, Deliver(e)
  PROVE  Inv'
<1>1. net' = net /\ closed' = closed /\ link[e] # <<>> /\ Shape
  BY DEF Deliver, Inv
<1>2. /\ Channels(Taken(e))
      /\ \A f \in Links : ToSet(Taken(e)[f]) \subseteq ToSet(link[f])
  BY <1>1, TakenFlow DEF Shape
<1>3. PICK pkt : pkt = Head(link[e])
  OBVIOUS
<1>4. CASE e[2] # Sink /\ Receive(e[2], pkt, Taken(e))
  <2>1. e[2] \in Heads
    BY <1>4, LinkEnds
  <2>2. CASE Accepted(e[2], pkt) /\ Pass(e[2], <<pkt>>, Taken(e))
    <3>1. rxCl' = [rxCl EXCEPT ![e[2]] = @ + 1]
      BY <1>4, <2>2 DEF Receive, Accepted
    <3>2. QED  BY <1>1, <1>3, <1>4, <2>2, <3>1, AcceptedInv
  <2>3. CASE link' = Taken(e) /\ ncBuf' = ncBuf
    <3>1. rxCl' = rxCl \/ rxCl' = [rxCl EXCEPT ![e[2]] = @ + 1]
      BY <1>4 DEF Receive
    <3>2. rxCl' \in [Heads -> Nat] /\ \A h \in Heads : rxCl[h] <= rxCl'[h]
      BY <1>1, <3>1 DEF Shape
    <3>3. QED  BY <1>1, <1>2, <2>3, <3>2, NothingSent
  <2>4. QED  BY <1>4, <2>2, <2>3 DEF Receive
<1>5. CASE ReceiveSink(pkt, Taken(e))
  <2>1. link' = Taken(e) /\ ncBuf' = ncBuf /\ rxCl' = rxCl
    BY <1>5 DEF ReceiveSink
  <2>2. rxCl' \in [Heads -> Nat] /\ \A h \in Heads : rxCl[h] <= rxCl'[h]
    BY <1>1, <2>1 DEF Shape
  <2>3. QED  BY <1>1, <1>2, <2>1, <2>2, NothingSent
<1>6. QED  BY <1>3, <1>4, <1>5 DEF Deliver

LEMMA QuietInv ==
  ASSUME Inv, \/ \E h \in Heads : StopApplication(h)
              \/ \E e \in Links : Lose(e)
              \/ UNCHANGED vars
  PROVE  Inv'
<1>1. /\ net' = net /\ closed' = closed /\ ncBuf' = ncBuf /\ rxCl' = rxCl
      /\ link' = link \/ \E e \in Links : link[e] # <<>> /\ link' = Taken(e)
  BY DEF StopApplication, Lose, vars
<1>2. Shape
  BY DEF Inv
<1>3. Channels(link') /\ \A e \in Links : ToSet(link'[e]) \subseteq ToSet(link[e])
  BY <1>1, <1>2, TakenFlow DEF Shape
<1>4. rxCl' \in [Heads -> Nat] /\ \A h \in Heads : rxCl[h] <= rxCl'[h]
  BY <1>1, <1>2 DEF Shape
<1>5. QED  BY <1>1, <1>3, <1>4, NothingSent

LEMMA NextInv == Inv /\ [Next]_vars => Inv'
<1> SUFFICES ASSUME Inv, [Next]_vars
             PROVE  Inv'
  OBVIOUS
<1>1. CASE \E h \in Heads : StartNewSeq(h)
  BY <1>1, StartNewSeqInv
<1>2. CASE \E h \in Heads : RLNetworkCoding(h)
  BY <1>2, RLNetworkCodingInv
<1>3. CASE \E e \in Links : Deliver(e)
  BY <1>3, DeliverInv
<1>4. CASE \/ \E h \in Heads : StopApplication(h)
           \/ \E e \in Links : Lose(e)
           \/ UNCHANGED vars
  BY <1>4, QuietInv
<1>5. QED  BY <1>1, <1>2, <1>3, <1>4 DEF Next

(* The invariant holds of every behaviour.                                 *)
THEOREM InvHolds == Spec => []Inv
BY InitInv, NextInv, PTL DEF Spec
-----------------------------------------------------------------------------
(* What follows for the packets in the network.                            *)
LEMMA TransitGood == Inv => \A p \in InTransit : Good(p)
<1>1. \A p \in InTransit :
        \/ \E h \in Heads : p \in ToSet(ncBuf[h])
        \/ \E e \in Links : p \in ToSet(link[e])
  BY DEF InTransit
<1>2. QED  BY <1>1 DEF Inv, BuffersGood, ChannelsGood

(* The payload of a packet is what its header says, for normal and uniform *)
(* coefficients always: HeaderTellsPayload of the runs.                    *)
THEOREM HeadersTell == Spec => []HeaderTellsPayload
<1>1. Inv => HeaderTellsPayload
  BY TransitGood DEF Good, Truthful, HeaderTellsPayload
<1>2. QED  BY <1>1, InvHolds, PTL

(* Sequences are not mixed in a packet: OneSequence of the runs.           *)
THEOREM SequencesApart == Spec => []OneSequence
<1>1. Inv => OneSequence
  BY TransitGood DEF Good, OneNumber, OneSequence
<1>2. QED  BY <1>1, InvHolds, PTL

(* SrcInfo names the nodes whose rows are in a packet: SrcInfoTrue.        *)
THEOREM SourcesNamed == Spec => []SrcInfoTrue
<1>1. Inv => SrcInfoTrue
  BY TransitGood DEF Good, SrcTrue, SrcInfoTrue
<1>2. QED  BY <1>1, InvHolds, PTL

(* The interval's count covers the packets of other heads in the buffer:   *)
(* CountCoversBuffer of the runs.                                          *)
THEOREM CountCovers == Spec => []CountCoversBuffer
<1>1. Inv => CountCoversBuffer
  BY DEF Inv
<1>2. QED  BY <1>1, InvHolds, PTL

(* The header's count of recombinations is zero in every packet of every   *)
(* behaviour, so that ReceiveCluster never refuses one for it.             *)
NcCountStaysZero == \A pkt \in InTransit : pkt.cnt = 0

THEOREM NeverCounted == Spec => []NcCountStaysZero
<1>1. Inv => NcCountStaysZero
  BY TransitGood DEF Good, NcCountStaysZero
<1>2. QED  BY <1>1, InvHolds, PTL
-----------------------------------------------------------------------------
(* Where links are reliable and lead on, nothing vanishes.                 *)
Held(p, bufs, links) ==
  \/ \E h \in Heads : p \in ToSet(bufs[h])
  \/ \E e \in Links : p \in ToSet(links[e])

LEMMA SomewhereHeld ==
  \A b : /\ b \in Somewhere <=>
              b \in arrived \/ \E p : Held(p, ncBuf, link) /\ b \in p.origin
         /\ b \in Somewhere' <=>
              b \in arrived' \/ \E p : Held(p, ncBuf', link') /\ b \in p.origin
<1>1. \A p : p \in InTransit <=> Held(p, ncBuf, link)
  BY DEF InTransit, Held
<1>2. \A p : p \in InTransit' <=> Held(p, ncBuf', link')
  BY DEF InTransit, Held
<1>3. QED  BY <1>1, <1>2 DEF Somewhere

LEMMA PassHolds ==
  ASSUME Shape, NEW h \in Heads, Out[h] # {}, NEW pkts, Sequence(pkts),
         NEW links, Channels(links), Pass(h, pkts, links)
  PROVE  \A p : Held(p, ncBuf, links) \/ p \in ToSet(pkts) => Held(p, ncBuf', link')
<1>1. PICK d : <<h, d>> \in Links
  BY LinkEnds
<1>2. CASE Buffering
  <2>1. /\ \A g \in Heads : g # h => ncBuf'[g] = ncBuf[g]
        /\ \A e \in Links : link'[e] = links[e]
    BY <1>2, PassFlow
  <2>2. ToSet(ncBuf'[h]) = ToSet(ncBuf[h]) \cup ToSet(pkts)
    BY <1>2, PassFlow
  <2>3. QED  BY <2>1, <2>2 DEF Held
<1>3. CASE ~Buffering
  <2>1. link' = Sent(h, pkts, links) /\ ncBuf' = ncBuf
    BY <1>3 DEF Pass
  <2>2. \A e \in Links : /\ e[1] = h => ToSet(link'[e]) = ToSet(links[e]) \cup ToSet(pkts)
                         /\ e[1] # h => link'[e] = links[e]
    BY <2>1, SentFlow
  <2>3. \A p \in ToSet(pkts) : p \in ToSet(link'[<<h, d>>])
    BY <1>1, <2>2
  <2>4. QED  BY <1>1, <2>1, <2>2, <2>3 DEF Held
<1>4. QED  BY <1>2, <1>3

LEMMA StartNewSeqKeeps ==
  ASSUME Inv, Reliable, NEW h \in Heads, StartNewSeq(h), NEW n, n = Len(closed[h]) + 1
  PROVE  /\ Somewhere \subseteq Somewhere'
         /\ Whole(h, n)' => <<h, n>> \in Somewhere'
<1>1. PICK b, pkts :
        /\ closed' = [closed EXCEPT ![h] = Append(@, b)]
        /\ Pass(h, pkts, link)
        /\ Sequence(pkts)
        /\ \A p \in ToSet(pkts) : p.origin = {<<h, n>>}
        /\ (IF net.spatial THEN Lk[h] > 0 ELSE b.nodes # {}) => ToSet(pkts) # {}
  BY StartNewSeqPackets
<1>2. Shape /\ Channels(link) /\ Out[h] # {} /\ net' = net /\ arrived' = arrived
  BY DEF Inv, Shape, Reliable, StartNewSeq
<1>3. \A p : Held(p, ncBuf, link) \/ p \in ToSet(pkts) => Held(p, ncBuf', link')
  BY <1>1, <1>2, PassHolds
<1>4. Somewhere \subseteq Somewhere'
  BY <1>2, <1>3, SomewhereHeld
<1>5. closed'[h][n] = b
  BY <1>1, <1>2, BatchClosed DEF Shape
<1>6. ASSUME Whole(h, n)'
      PROVE  <<h, n>> \in Somewhere'
  <2>1. IF net.spatial THEN Lk[h] > 0 ELSE b.nodes # {}
    BY <1>2, <1>5, <1>6 DEF Whole
  <2>2. PICK p \in ToSet(pkts) : p.origin = {<<h, n>>}
    BY <1>1, <2>1
  <2>3. Held(p, ncBuf', link') /\ <<h, n>> \in p.origin
    BY <1>3, <2>2
  <2>4. QED  BY <2>3, SomewhereHeld
<1>7. QED  BY <1>4, <1>6

LEMMA RLNetworkCodingKeeps ==
  ASSUME Inv, Reliable, NEW h \in Heads, RLNetworkCoding(h)
  PROVE  Somewhere \subseteq Somewhere'
<1>1. PICK pkts :
        /\ link' = Sent(h, pkts, link)
        /\ Sequence(pkts)
        /\ \A q \in ToSet(ncBuf[h]) : \E p \in ToSet(pkts) : q.origin \subseteq p.origin
  BY IntervalPackets
<1>2. Shape /\ arrived' = arrived /\ ncBuf' = [ncBuf EXCEPT ![h] = <<>>] /\ Out[h] # {}
  BY DEF Inv, RLNetworkCoding, NcInterval, Reliable
<1>3. PICK d : <<h, d>> \in Links
  BY <1>2, LinkEnds
<1>4. \A e \in Links : /\ e[1] = h => ToSet(link'[e]) = ToSet(link[e]) \cup ToSet(pkts)
                       /\ e[1] # h => link'[e] = link[e]
  BY <1>1, <1>2, SentFlow DEF Shape
<1>5. \A p \in ToSet(pkts) : Held(p, ncBuf', link')
  BY <1>3, <1>4 DEF Held
<1>6. \A g \in Heads : g # h => ncBuf'[g] = ncBuf[g]
  BY <1>2 DEF Shape, Buffers
<1>7. ASSUME NEW q, Held(q, ncBuf, link)
      PROVE  \E p : Held(p, ncBuf', link') /\ q.origin \subseteq p.origin
  <2>1. CASE q \in ToSet(ncBuf[h])
    BY <1>1, <1>5, <2>1
  <2>2. CASE \E g \in Heads \ {h} : q \in ToSet(ncBuf[g])
    BY <1>6, <2>2 DEF Held
  <2>3. CASE \E e \in Links : q \in ToSet(link[e])
    BY <1>4, <2>3 DEF Held
  <2>4. QED  BY <1>7, <2>1, <2>2, <2>3 DEF Held
<1>8. ASSUME NEW b \in Somewhere
      PROVE  b \in Somewhere'
  <2>1. b \in arrived' \/ \E q : Held(q, ncBuf, link) /\ b \in q.origin
    BY <1>2, SomewhereHeld
  <2>2. b \in arrived' \/ \E p : Held(p, ncBuf', link') /\ b \in p.origin
    BY <1>7, <2>1
  <2>3. QED  BY <2>2, SomewhereHeld
<1>9. QED  BY <1>8

LEMMA DeliverKeeps ==
  ASSUME Inv, Reliable, NEW e \in Links, Deliver(e)
  PROVE  Somewhere \subseteq Somewhere'
<1>1. link[e] # <<>> /\ Shape
  BY DEF Deliver, Inv
<1>2. PICK pkt, links : pkt = Head(link[e]) /\ links = Taken(e)
  OBVIOUS
<1>3. /\ Channels(links) /\ pkt \in ToSet(link[e])
      /\ \A f \in Links : f # e => links[f] = link[f]
      /\ ToSet(link[e]) = ToSet(links[e]) \cup {pkt}
  BY <1>1, <1>2, TakenFlow DEF Shape
<1>4. \A p : Held(p, ncBuf, link) => Held(p, ncBuf, links) \/ p = pkt
  BY <1>3 DEF Held
<1>5. CASE e[2] # Sink /\ Receive(e[2], pkt, links)
  <2>1. e[2] \in Heads /\ Out[e[2]] # {} /\ arrived' = arrived
    BY <1>5, LinkEnds DEF Reliable, Receive
  <2>2. Good(pkt) /\ Ahead(pkt, e[1])
    BY <1>3 DEF Inv, ChannelsGood
  <2>3. pkt.head \in Heads /\ pkt.cnt = 0
    BY <2>2 DEF Good
  <2>4. Accepted(e[2], pkt)
    <3>1. pkt.head # e[2]
      BY <1>5, <2>2, <2>3, AheadProperties DEF Reliable
    <3>2. QED  BY <2>1, <2>3, <3>1 DEF Accepted, Reliable
  <2>5. PICK pkts : pkts = <<pkt>>
    OBVIOUS
  <2>6. Pass(e[2], pkts, links) /\ Sequence(pkts) /\ pkt \in ToSet(pkts)
    BY <1>5, <2>4, <2>5, SingleSequence DEF Receive
  <2>7. \A p : Held(p, ncBuf, links) \/ p \in ToSet(pkts) => Held(p, ncBuf', link')
    BY <1>1, <1>3, <2>1, <2>6, PassHolds
  <2>8. QED  BY <1>4, <2>1, <2>6, <2>7, SomewhereHeld
<1>6. CASE ReceiveSink(pkt, links)
  <2>1. arrived' = arrived \cup pkt.origin /\ link' = links /\ ncBuf' = ncBuf
    BY <1>6 DEF ReceiveSink
  <2>2. QED  BY <1>4, <2>1, SomewhereHeld
<1>7. QED  BY <1>2, <1>5, <1>6 DEF Deliver

LEMMA StepKeeps ==
  ASSUME Inv, [Next]_vars, Reliable
  PROVE  Somewhere \subseteq Somewhere'
<1>1. CASE \E h \in Heads : StartNewSeq(h)
  <2>1. PICK h \in Heads : StartNewSeq(h)
    BY <1>1
  <2>2. PICK n : n = Len(closed[h]) + 1
    OBVIOUS
  <2>3. QED  BY <2>1, <2>2, StartNewSeqKeeps
<1>2. CASE \E h \in Heads : RLNetworkCoding(h)
  BY <1>2, RLNetworkCodingKeeps
<1>3. CASE \E e \in Links : Deliver(e)
  BY <1>3, DeliverKeeps
<1>4. CASE (\E h \in Heads : StopApplication(h)) \/ UNCHANGED vars
  <2>1. ncBuf' = ncBuf /\ link' = link /\ arrived' = arrived
    BY <1>4 DEF StopApplication, vars
  <2>2. QED  BY <2>1, SomewhereHeld
<1>5. \A e \in Links : ~Lose(e)
  BY DEF Reliable, Lose
<1>6. QED  BY <1>1, <1>2, <1>3, <1>4, <1>5 DEF Next

(* Every compressed row stays in the network until the sink has it:        *)
(* NothingVanishes of the runs.                                            *)
THEOREM RowsStay == Spec => []NothingVanishes
<1>1. Init => NothingVanishes
  <2>1. ASSUME Init, NEW h \in Heads
        PROVE  Len(closed[h]) = 0
    BY <2>1, EmptySequence DEF Init
  <2>2. QED  BY <2>1 DEF NothingVanishes
<1>2. Inv /\ NothingVanishes /\ [Next]_vars => NothingVanishes'
  <2> SUFFICES ASSUME Inv, NothingVanishes, [Next]_vars, Reliable',
                      NEW h \in Heads, NEW n \in 1..Len(closed'[h]), Whole(h, n)'
               PROVE  <<h, n>> \in Somewhere'
    BY DEF NothingVanishes
  <2>1. net' = net
    BY DEF Next, vars, StartNewSeq, RLNetworkCoding, StopApplication, Deliver, Lose
  <2>2. Reliable /\ Batched(closed)
    BY <2>1 DEF Reliable, Inv, Shape
  <2>3. Somewhere \subseteq Somewhere'
    BY <2>2, StepKeeps
  <2>4. CASE closed' = closed
    BY <2>1, <2>2, <2>3, <2>4 DEF NothingVanishes, Whole
  <2>5. ASSUME NEW g \in Heads, StartNewSeq(g)
        PROVE  <<h, n>> \in Somewhere'
    <3>1. PICK b : closed' = [closed EXCEPT ![g] = Append(@, b)]
      BY <2>5 DEF StartNewSeq
    <3>2. /\ Grown /\ Len(closed'[g]) = Len(closed[g]) + 1
          /\ \A d \in Heads : d # g => closed'[d] = closed[d]
      BY <2>2, <3>1, BatchClosed
    <3>3. CASE n \in 1..Len(closed[h])
      <4>1. closed'[h][n] = closed[h][n]
        BY <3>2, <3>3 DEF Grown
      <4>2. QED  BY <2>1, <2>2, <2>3, <3>3, <4>1 DEF NothingVanishes, Whole
    <3>4. CASE n \notin 1..Len(closed[h])
      <4>1. h = g /\ n = Len(closed[h]) + 1
        BY <3>2, <3>4 DEF Grown
      <4>2. QED  BY <2>2, <2>5, <4>1, StartNewSeqKeeps
    <3>5. QED  BY <3>3, <3>4
  <2>6. QED
    BY <2>4, <2>5 DEF Next, vars, RLNetworkCoding, StopApplication, Deliver, Lose
<1>3. QED  BY <1>1, <1>2, InvHolds, PTL DEF Spec
-----------------------------------------------------------------------------
(* Types.  A field is as long as the kind of coefficients makes it.        *)
TypedField(w) ==
  w \in IF net.coeff = "BERN" THEN [0..LastByte -> [Places -> BernValues]] ELSE [Index -> Int]
Typed(p) == p \in Packets /\ TypedField(p.field)

LEMMA TypedCodec ==
  /\ \A v \in [Index -> Int] : TypedField(Serialize(net.coeff, v))
  /\ \A w : TypedField(w) => w \in Fields /\ Deserialize(net.coeff, w) \in [Index -> Int]
  BY FieldTypes DEF TypedField, Serialize, Deserialize, Fields

(* A linear combination of vectors is a vector.                            *)
LEMMA CombinationType ==
  ASSUME NEW g, IsFiniteSet(g), NEW c, \A i \in g : c[i] \in Int,
         NEW v, \A i \in g : v[i] \in [Index -> Int]
  PROVE  Combination(g, c, v) \in [Index -> Int]
<1>1. ASSUME NEW k \in Index
      PROVE  MapThenSumSet(LAMBDA i : c[i] * v[i][k], g) \in Int
  <2> DEFINE t == [i \in g |-> c[i] * v[i][k]]
             f == CHOOSE h : h = [s \in SUBSET g |->
                    IF s = {} THEN 0
                    ELSE c[Chosen(s)] * v[Chosen(s)][k] + h[s \ {Chosen(s)}]]
  <2>1. MapThenSumSet(LAMBDA i : c[i] * v[i][k], g) = f[g]
    BY Zenon DEF MapThenSumSet, MapThenFoldSet, Chosen
  <2>2. PICK a : AddsUp(a, t, SUBSET g)
    BY SumExists
  <2>3. \A s \in SUBSET g : s # {} => t[Chosen(s)] = c[Chosen(s)] * v[Chosen(s)][k]
    BY ChosenRest
  <2>4. \A h : AddsUp(h, t, SUBSET g) <=> h = [s \in SUBSET g |->
                    IF s = {} THEN 0
                    ELSE c[Chosen(s)] * v[Chosen(s)][k] + h[s \ {Chosen(s)}]]
    BY <2>3 DEF AddsUp
  <2>5. AddsUp(f, t, SUBSET g)
    BY <2>2, <2>4
  <2>6. t \in [g -> Int]
    <3>1. ASSUME NEW i \in g
          PROVE  c[i] * v[i][k] \in Int
      <4>1. c[i] \in Int /\ v[i][k] \in Int
        OBVIOUS
      <4>2. QED  BY <4>1
    <3>2. QED  BY <3>1
  <2> HIDE DEF t, f
  <2>7. f[g] \in Int
    BY <2>5, <2>6, SumType
  <2>8. QED  BY <2>1, <2>7
<1>2. QED  BY <1>1, Zenon DEF Combination

(* What the elements of a finite set are mapped to is finite.              *)
LEMMA FiniteImage ==
  ASSUME NEW S, IsFiniteSet(S), NEW f
  PROVE  IsFiniteSet({f[x] : x \in S})
<1> DEFINE T == {f[x] : x \in S}
           F == [x \in S |-> f[x]]
<1>1. F \in Surjection(S, T)
  BY DEF Surjection
<1> HIDE DEF F, T
<1>2. IsFiniteSet(T)
  BY <1>1, FS_Surjection
<1>3. QED  BY <1>2 DEF T

LEMMA MaxOfNumbers ==
  ASSUME NEW S, IsFiniteSet(S), S \subseteq Nat, S # {}
  PROVE  Max(S) \in S
<1> DEFINE Has(s) == \E x \in s : \A y \in s : x >= y
           F == {s \in SUBSET S : s # {} /\ ~Has(s)}
<1>1. F = {}
  <2> SUFFICES ASSUME F # {} PROVE FALSE
    OBVIOUS
  <2>1. PICK s \in F : \A r \in F : Cardinality(s) <= Cardinality(r)
    <3>1. F \subseteq SUBSET S
      OBVIOUS
    <3> HIDE DEF F
    <3>2. QED  BY <3>1, SmallestSet
  <2>2. PICK x \in s : TRUE
    OBVIOUS
  <2> DEFINE r == s \ {x}
  <2>3. s \in SUBSET S /\ r \in SUBSET S /\ ~Has(s)
    OBVIOUS
  <2>4. r \notin F
    <3>1. IsFiniteSet(s)
      BY FS_Subset
    <3>2. Cardinality(r) = Cardinality(s) - 1 /\ Cardinality(s) \in Nat
      BY <3>1, FS_RemoveElement, FS_CardinalityType
    <3> HIDE DEF F, r
    <3>3. ~(Cardinality(s) <= Cardinality(r))
      BY <3>2
    <3>4. QED  BY <2>1, <3>3
  <2>5. CASE r = {}
    <3>1. s = {x} /\ x \in Nat
      BY <2>3, <2>5
    <3>2. QED  BY <2>3, <3>1
  <2>6. CASE r # {}
    <3>1. PICK m \in r : \A y \in r : m >= y
      BY <2>3, <2>4, <2>6
    <3>2. m \in Nat /\ x \in Nat /\ r \subseteq Nat /\ m \in s
      BY <2>3
    <3>3. CASE m >= x
      BY <2>3, <3>1, <3>2, <3>3
    <3>4. CASE x >= m
      <4>1. \A y \in s : x >= y
        BY <3>1, <3>2, <3>4
      <4>2. QED  BY <2>3, <4>1
    <3>5. QED  BY <3>2, <3>3, <3>4
  <2>7. QED  BY <2>5, <2>6
<1>2. Has(S)
  BY <1>1
<1>3. QED  BY <1>2 DEF Max

LEMMA NewPacketTyped ==
  ASSUME Shape, NEW h \in Heads, NEW k \in SeqNos, NEW nodes \in NodeSets[h], NEW i,
         NEW p, p = NewPacket(h, k, nodes, i)
  PROVE  Typed(p)
<1>1. UnitVector(h, i) \in [Index -> Int]
  BY DEF UnitVector
<1>2. TypedField(p.field) /\ p.field \in Fields
  BY <1>1, TypedCodec DEF NewPacket
<1>3. [d \in Heads |-> IF d = h THEN nodes ELSE {}] \in [Heads -> SUBSET Nodes]
  <2>1. nodes \subseteq Nodes
    BY Zenon DEF Nodes
  <2>2. QED  BY <2>1
<1>4. {<<h, Len(closed[h]) + 1>>} \subseteq Batches
  <2>1. Len(closed[h]) \in Nat
    BY SequenceProperties DEF Shape, Batched
  <2>2. QED  BY <2>1 DEF Batches
<1>5. p \in Packets
  BY <1>1, <1>2, <1>3, <1>4 DEF Packets, NewPacket
<1>6. QED  BY <1>2, <1>5 DEF Typed

(* Combining packets makes a packet.                                       *)
LEMMA DoRLNCTyped ==
  ASSUME NEW h \in Heads, NEW buf, Sequence(buf), \A j \in 1..Len(buf) : Typed(buf[j]),
         NEW i \in 1..Len(buf), NEW c \in [1..Len(buf) -> Coeffs],
         NEW p, p = DoRLNC(h, buf, Group(buf, i), c)
  PROVE  Typed(p)
<1> DEFINE g == Group(buf, i)
           V == [j \in g |-> Deserialize(net.coeff, buf[j].field)]
           W == [j \in g |-> buf[j].data]
<1>1. p = [head |-> h, seq |-> buf[Min(g)].seq,
           field |-> Serialize(net.coeff, Combination(g, c, V)),
           data |-> Combination(g, c, W),
           src |-> [d \in Heads |-> CombinedSrc(buf, g, d)],
           cnt |-> Max({buf[j].cnt : j \in g}),
           origin |-> UNION {buf[j].origin : j \in g},
           depth |-> Max({buf[j].depth : j \in g}) + 1]
  BY DEF DoRLNC
<1>2. g \subseteq 1..Len(buf) /\ i \in g /\ Min(g) \in g
  BY GroupProperties
<1>3. IsFiniteSet(g)
  <2>1. Len(buf) \in Nat
    BY SequenceProperties
  <2>2. IsFiniteSet(1..Len(buf))
    BY <2>1, FS_Interval
  <2>3. QED  BY <1>2, <2>2, FS_Subset
<1> HIDE DEF g
<1>4. ASSUME NEW j \in g
      PROVE  /\ buf[j].head \in Heads /\ buf[j].seq \in SeqNos /\ TypedField(buf[j].field)
             /\ buf[j].src \in [Heads -> SUBSET Nodes] /\ buf[j].cnt \in Nat
             /\ buf[j].data \in [Index -> Int] /\ buf[j].origin \subseteq Batches
             /\ buf[j].depth \in Nat /\ c[j] \in Int
  <2>1. buf[j] \in Packets /\ TypedField(buf[j].field)
    BY <1>2 DEF Typed
  <2>2. c[j] \in Int
    BY <1>2, CodingAssumption
  <2>3. QED  BY <2>1, <2>2 DEF Packets
<1>5. Combination(g, c, V) \in [Index -> Int]
  <2>1. \A j \in g : V[j] \in [Index -> Int]
    BY <1>4, TypedCodec
  <2> HIDE DEF V
  <2>2. QED  BY <1>3, <1>4, <2>1, CombinationType
<1>6. Combination(g, c, W) \in [Index -> Int]
  <2>1. \A j \in g : W[j] \in [Index -> Int]
    BY <1>4
  <2> HIDE DEF W
  <2>2. QED  BY <1>3, <1>4, <2>1, CombinationType
<1>7. TypedField(p.field) /\ p.field \in Fields
  BY <1>1, <1>5, TypedCodec
<1>8. ASSUME NEW d \in Heads
      PROVE  CombinedSrc(buf, g, d) \in SUBSET Nodes
  <2> DEFINE named == {j \in g : buf[j].src[d] # {}}
  <2>1. CASE named = {}
    BY <2>1 DEF CombinedSrc
  <2>2. CASE named # {}
    <3>1. named \subseteq 0..Len(buf) /\ Len(buf) \in Nat
      BY <1>2, SequenceProperties
    <3>2. Max(named) \in named
      <4> HIDE DEF named
      <4>1. QED  BY <2>2, <3>1, MaxIsElement
    <3>3. Max(named) \in g
      BY <3>2
    <3>4. buf[Max(named)].src[d] \in SUBSET Nodes
      <4> HIDE DEF named
      <4>1. QED  BY <1>4, <3>3
    <3>5. QED  BY <2>2, <3>4 DEF CombinedSrc
  <2>3. QED  BY <2>1, <2>2
<1>9. Max({buf[j].cnt : j \in g}) \in Nat
  <2> DEFINE C == {buf[j].cnt : j \in g}
             f == [j \in g |-> buf[j].cnt]
  <2>1. C = {f[j] : j \in g}
    OBVIOUS
  <2>2. IsFiniteSet({f[j] : j \in g})
    <3> HIDE DEF f
    <3>1. QED  BY <1>3, FiniteImage
  <2>3. C \subseteq Nat /\ C # {}
    BY <1>2, <1>4
  <2> HIDE DEF C, f
  <2>4. Max(C) \in Nat
    BY <2>1, <2>2, <2>3, MaxOfNumbers
  <2>5. QED  BY <2>4 DEF C
<1>10. Max({buf[j].depth : j \in g}) \in Nat
  <2> DEFINE C == {buf[j].depth : j \in g}
             f == [j \in g |-> buf[j].depth]
  <2>1. C = {f[j] : j \in g}
    OBVIOUS
  <2>2. IsFiniteSet({f[j] : j \in g})
    <3> HIDE DEF f
    <3>1. QED  BY <1>3, FiniteImage
  <2>3. C \subseteq Nat /\ C # {}
    BY <1>2, <1>4
  <2> HIDE DEF C, f
  <2>4. Max(C) \in Nat
    BY <2>1, <2>2, <2>3, MaxOfNumbers
  <2>5. QED  BY <2>4 DEF C
<1>11. UNION {buf[j].origin : j \in g} \subseteq Batches
  BY <1>4
<1>12. [d \in Heads |-> CombinedSrc(buf, g, d)] \in [Heads -> SUBSET Nodes]
  BY <1>8
<1>13. buf[Min(g)].seq \in SeqNos
  BY <1>2, <1>4
<1>14. p \in Packets
  <2> HIDE DEF V, W
  <2>1. QED  BY <1>1, <1>6, <1>7, <1>9, <1>10, <1>11, <1>12, <1>13 DEF Packets
<1>15. QED  BY <1>7, <1>14 DEF Typed

LEMMA RecombinedTyped ==
  ASSUME NEW h \in Heads, NEW buf, Sequence(buf), \A j \in 1..Len(buf) : Typed(buf[j]),
         NEW f \in Ascending(Leaders(buf)),
         NEW c \in [1..(Len(f) * NcPktPLink) -> [1..Len(buf) -> Coeffs]],
         NEW pkts, pkts = Recombined(h, buf, f, c)
  PROVE  \A p \in ToSet(pkts) : Typed(p)
<1> DEFINE m == Len(f) * NcPktPLink
           pos(n) == (n - 1) \div NcPktPLink + 1
<1>1. Len(buf) \in Nat /\ Leaders(buf) \subseteq 1..Len(buf)
  BY SequenceProperties DEF Leaders
<1>2. Len(f) \in Nat /\ f \in [1..Len(f) -> Leaders(buf)]
  BY <1>1, AscendingListsAll
<1>3. m \in Nat /\ \A r \in 1..m : pos(r) \in 1..Len(f)
  BY <1>2, CodingAssumption, Positions
<1>4. pkts = [n \in 1..m |-> DoRLNC(h, buf, Group(buf, f[pos(n)]), c[n])]
  BY DEF Recombined
<1>5. c \in [1..m -> [1..Len(buf) -> Coeffs]]
  OBVIOUS
<1> HIDE DEF m, pos
<1>6. DOMAIN pkts = 1..m
  BY <1>4
<1>7. ASSUME NEW n \in 1..m
      PROVE  Typed(pkts[n])
  <2>1. f[pos(n)] \in 1..Len(buf)
    BY <1>1, <1>2, <1>3
  <2>2. c[n] \in [1..Len(buf) -> Coeffs]
    BY <1>5
  <2>3. pkts[n] = DoRLNC(h, buf, Group(buf, f[pos(n)]), c[n])
    BY <1>4
  <2>4. QED  BY <2>1, <2>2, <2>3, DoRLNCTyped
<1>8. QED  BY <1>6, <1>7 DEF ToSet

(* Passing packets on brings no others into the network.                   *)
LEMMA PassHeld ==
  ASSUME Shape, NEW h \in Heads, NEW pkts, Sequence(pkts), NEW links, Channels(links),
         Pass(h, pkts, links)
  PROVE  \A p : Held(p, ncBuf', link') => Held(p, ncBuf, links) \/ p \in ToSet(pkts)
<1>1. CASE Buffering
  <2>1. /\ \A g \in Heads : g # h => ncBuf'[g] = ncBuf[g]
        /\ \A e \in Links : link'[e] = links[e]
        /\ ToSet(ncBuf'[h]) = ToSet(ncBuf[h]) \cup ToSet(pkts)
    BY <1>1, PassFlow
  <2>2. QED  BY <2>1 DEF Held
<1>2. CASE ~Buffering
  <2>1. /\ \A g \in Heads : ncBuf'[g] = ncBuf[g]
        /\ \A e \in Links : e[1] # h => link'[e] = links[e]
        /\ \A e \in Links : e[1] = h => ToSet(link'[e]) = ToSet(links[e]) \cup ToSet(pkts)
    BY <1>2, PassFlow
  <2>2. QED  BY <2>1 DEF Held
<1>3. QED  BY <1>1, <1>2

(* The invariant beside Inv that the types follow from.                    *)
BatchesTyped == \A h \in Heads : closed[h] \in Seq([seq : SeqNos, nodes : NodeSets[h]])
TransitTyped == \A p : Held(p, ncBuf, link) => Typed(p)
EventsTyped ==
  /\ idle \in [Heads -> 0..net.timeOut]
  /\ ncEvent \in [Heads -> {"pending", "timed out", "cancelled", "unused"}]

TypesInv == BatchesTyped /\ TransitTyped /\ EventsTyped /\ arrived \subseteq Batches

LEMMA TimeOutNumber == net \in Settings => net.timeOut \in Nat
  BY SettingsAssumption

LEMMA InitTypes == Init => TypesInv
<1> SUFFICES ASSUME Init
             PROVE  TypesInv
  OBVIOUS
<1>1. BatchesTyped
  <2>1. \A h \in Heads : closed[h] = <<>>
    BY DEF Init
  <2>2. QED  BY <2>1, EmptySeq DEF BatchesTyped
<1>2. TransitTyped
  BY EmptySequence DEF Init, TransitTyped, Held
<1>3. EventsTyped
  <2>1. net.timeOut \in Nat
    BY TimeOutNumber DEF Init
  <2>2. 0 \in 0..net.timeOut
    BY <2>1
  <2>3. QED  BY <2>2 DEF Init, EventsTyped
<1>4. arrived \subseteq Batches
  BY DEF Init
<1>5. QED  BY <1>1, <1>2, <1>3, <1>4 DEF TypesInv

LEMMA StartNewSeqTypes ==
  ASSUME Inv, TypesInv, NEW h \in Heads, StartNewSeq(h)
  PROVE  TypesInv'
<1>1. PICK k \in SeqNos, nodes \in NodeSets[h] : \E rows \in RowLists(h, nodes) :
        /\ closed' = [closed EXCEPT ![h] = Append(@, [seq |-> k, nodes |-> nodes])]
        /\ Pass(h, [n \in 1..Len(rows) |-> NewPacket(h, k, nodes, rows[n])], link)
  BY DEF StartNewSeq
<1>2. PICK rows \in RowLists(h, nodes) :
        /\ closed' = [closed EXCEPT ![h] = Append(@, [seq |-> k, nodes |-> nodes])]
        /\ Pass(h, [n \in 1..Len(rows) |-> NewPacket(h, k, nodes, rows[n])], link)
  BY <1>1
<1>3. PICK pkts : pkts = NewPackets(h, k, nodes, rows)
  OBVIOUS
<1>4. Pass(h, pkts, link)
  BY <1>2, <1>3 DEF NewPackets
<1>5. /\ Shape /\ net' = net /\ idle' = idle /\ ncEvent' = ncEvent /\ arrived' = arrived
  BY DEF Inv, StartNewSeq
<1>6. Sequence(pkts) /\ \A p \in ToSet(pkts) : Typed(p)
  <2>1. Sequence(pkts) /\ \A p \in ToSet(pkts) : \E i : p = NewPacket(h, k, nodes, i)
    BY <1>3, NewPacketsSequence
  <2>2. QED  BY <1>5, <2>1, NewPacketTyped
<1>7. BatchesTyped'
  <2> DEFINE S(d) == Seq([seq : SeqNos, nodes : NodeSets[d]])
             b == [seq |-> k, nodes |-> nodes]
  <2>1. /\ \A d \in Heads : closed[d] \in S(d)
        /\ b \in [seq : SeqNos, nodes : NodeSets[h]]
    BY DEF TypesInv, BatchesTyped
  <2>2. Append(closed[h], b) \in S(h)
    BY <2>1, AppendProperties
  <2>3. closed' = [d \in Heads |-> IF d = h THEN Append(closed[h], b) ELSE closed[d]]
    BY <1>2, <1>5 DEF Shape, Batched
  <2> HIDE DEF S, b
  <2>4. \A d \in Heads : closed'[d] \in S(d)
    BY <2>1, <2>2, <2>3
  <2>5. QED  BY <2>4 DEF S, BatchesTyped
<1>8. TransitTyped'
  <2>1. Channels(link)
    BY <1>5 DEF Shape
  <2>2. \A p : Held(p, ncBuf', link') => Held(p, ncBuf, link) \/ p \in ToSet(pkts)
    BY <1>4, <1>5, <1>6, <2>1, PassHeld
  <2>3. \A p : Held(p, ncBuf', link') => Typed(p)
    BY <1>6, <2>2 DEF TypesInv, TransitTyped
  <2>4. QED  BY <1>5, <2>3 DEF TransitTyped, Typed, TypedField
<1>9. QED  BY <1>5, <1>7, <1>8 DEF TypesInv, EventsTyped

LEMMA RLNetworkCodingTypes ==
  ASSUME Inv, TypesInv, NEW h \in Heads, RLNetworkCoding(h)
  PROVE  TypesInv'
<1> DEFINE buf == ncBuf[h]
<1>1. /\ Shape /\ net' = net /\ closed' = closed /\ arrived' = arrived /\ NcInterval(h)
  BY DEF Inv, RLNetworkCoding
<1>2. Sequence(buf) /\ \A p \in ToSet(buf) : Typed(p)
  BY DEF Inv, Shape, Buffers, TypesInv, TransitTyped, Held
<1>3. \A j \in 1..Len(buf) : Typed(buf[j])
  BY <1>2, SequenceProperties
<1>4. \E pkts : /\ link' = Sent(h, pkts, link)
                /\ Sequence(pkts) /\ \A p \in ToSet(pkts) : Typed(p)
  <2> HIDE DEF buf
  <2>1. ASSUME NEW pkts \in Regrouped(buf), link' = Sent(h, pkts, link)
        PROVE  Sequence(pkts) /\ \A p \in ToSet(pkts) : Typed(p)
    BY <1>2, RegroupedPackets
  <2>2. ASSUME NEW f \in Ascending(Leaders(buf)),
               NEW c \in [1..(Len(f) * NcPktPLink) -> [1..Len(buf) -> Coeffs]],
               NEW pkts, pkts = Recombined(h, buf, f, c)
        PROVE  Sequence(pkts) /\ \A p \in ToSet(pkts) : Typed(p)
    <3>1. Sequence(pkts)
      BY <1>2, <2>2, RecombinedPackets
    <3>2. \A p \in ToSet(pkts) : Typed(p)
      BY <1>2, <1>3, <2>2, RecombinedTyped
    <3>3. QED  BY <3>1, <3>2
  <2>3. \/ \E pkts \in Regrouped(buf) : link' = Sent(h, pkts, link)
        \/ \E f \in Ascending(Leaders(buf)) :
             \E c \in [1..(Len(f) * NcPktPLink) -> [1..Len(buf) -> Coeffs]] :
               link' = Sent(h, Recombined(h, buf, f, c), link)
    BY DEF RLNetworkCoding, buf
  <2>4. QED  BY <2>1, <2>2, <2>3
<1>5. PICK pkts : /\ link' = Sent(h, pkts, link)
                  /\ Sequence(pkts) /\ \A p \in ToSet(pkts) : Typed(p)
  BY <1>4
<1>6. TransitTyped'
  <2>1. \A e \in Links : /\ e[1] = h => ToSet(link'[e]) = ToSet(link[e]) \cup ToSet(pkts)
                         /\ e[1] # h => link'[e] = link[e]
    BY <1>1, <1>5, SentFlow DEF Shape
  <2>2. \A g \in Heads : ToSet(ncBuf'[g]) \subseteq ToSet(ncBuf[g])
    BY <1>1, EmptySequence DEF NcInterval, Shape, Buffers
  <2>3. \A p : Held(p, ncBuf', link') => Held(p, ncBuf, link) \/ p \in ToSet(pkts)
    BY <2>1, <2>2 DEF Held
  <2>4. \A p : Held(p, ncBuf', link') => Typed(p)
    BY <1>5, <2>3 DEF TypesInv, TransitTyped
  <2>5. QED  BY <1>1, <2>4 DEF TransitTyped, Typed, TypedField
<1>7. EventsTyped'
  <2>1. net.timeOut \in Nat /\ idle \in [Heads -> 0..net.timeOut]
    BY <1>1, TimeOutNumber DEF Shape, TypesInv, EventsTyped
  <2>2. NextIdle(h) \in 0..net.timeOut
    BY <2>1 DEF NextIdle
  <2>3. idle' = [idle EXCEPT ![h] = NextIdle(h)]
    BY <1>1 DEF NcInterval
  <2>4. idle' \in [Heads -> 0..net.timeOut]
    BY <2>1, <2>2, <2>3
  <2>5. ncEvent' \in [Heads -> {"pending", "timed out", "cancelled", "unused"}]
    BY <1>1 DEF NcInterval, TypesInv, EventsTyped
  <2>6. QED  BY <1>1, <2>4, <2>5 DEF EventsTyped
<1>8. QED  BY <1>1, <1>6, <1>7 DEF TypesInv, BatchesTyped

LEMMA DeliverTypes ==
  ASSUME Inv, TypesInv, NEW e \in Links, Deliver(e)
  PROVE  TypesInv'
<1>1. /\ Shape /\ net' = net /\ closed' = closed /\ idle' = idle /\ ncEvent' = ncEvent
      /\ link[e] # <<>>
  BY DEF Inv, Deliver
<1>2. PICK pkt, links : pkt = Head(link[e]) /\ links = Taken(e)
  OBVIOUS
<1>3. /\ Channels(links) /\ pkt \in ToSet(link[e])
      /\ \A f \in Links : ToSet(links[f]) \subseteq ToSet(link[f])
  BY <1>1, <1>2, TakenFlow DEF Shape
<1>4. Typed(pkt) /\ \A p : Held(p, ncBuf, links) => Typed(p)
  BY <1>3 DEF TypesInv, TransitTyped, Held
<1>5. /\ \A p : Held(p, ncBuf', link') => Held(p, ncBuf, links) \/ p = pkt
      /\ arrived' = arrived \/ arrived' = arrived \cup pkt.origin
  <2>1. CASE e[2] # Sink /\ Receive(e[2], pkt, links)
    <3>1. e[2] \in Heads /\ arrived' = arrived
      BY <2>1, LinkEnds DEF Receive
    <3>2. CASE Pass(e[2], <<pkt>>, links)
      <4>1. PICK pkts : pkts = <<pkt>>
        OBVIOUS
      <4>2. Pass(e[2], pkts, links) /\ Sequence(pkts) /\ ToSet(pkts) = {pkt}
        BY <3>2, <4>1, SingleSequence
      <4>3. \A p : Held(p, ncBuf', link') => Held(p, ncBuf, links) \/ p \in ToSet(pkts)
        BY <1>1, <1>3, <3>1, <4>2, PassHeld
      <4>4. QED  BY <3>1, <4>2, <4>3
    <3>3. CASE link' = links /\ ncBuf' = ncBuf
      BY <3>1, <3>3
    <3>4. QED  BY <2>1, <3>2, <3>3 DEF Receive
  <2>2. CASE ReceiveSink(pkt, links)
    BY <2>2 DEF ReceiveSink
  <2>3. QED  BY <1>2, <2>1, <2>2 DEF Deliver
<1>6. TransitTyped'
  <2>1. \A p : Held(p, ncBuf', link') => Typed(p)
    BY <1>4, <1>5
  <2>2. QED  BY <1>1, <2>1 DEF TransitTyped, Typed, TypedField
<1>7. arrived' \subseteq Batches
  BY <1>4, <1>5 DEF Typed, Packets, TypesInv
<1>8. QED  BY <1>1, <1>6, <1>7 DEF TypesInv, BatchesTyped, EventsTyped

LEMMA QuietTypes ==
  ASSUME Inv, TypesInv, \/ \E h \in Heads : StopApplication(h)
                        \/ \E e \in Links : Lose(e)
                        \/ UNCHANGED vars
  PROVE  TypesInv'
<1>1. /\ Shape /\ net' = net /\ closed' = closed /\ ncBuf' = ncBuf /\ idle' = idle
      /\ arrived' = arrived
      /\ link' = link \/ \E e \in Links : link[e] # <<>> /\ link' = Taken(e)
      /\ ncEvent' = ncEvent \/ \E h \in Heads : ncEvent' = [ncEvent EXCEPT ![h] = "cancelled"]
  BY DEF Inv, StopApplication, Lose, vars
<1>2. \A e \in Links : ToSet(link'[e]) \subseteq ToSet(link[e])
  BY <1>1, TakenFlow DEF Shape
<1>3. TransitTyped'
  <2>1. \A p : Held(p, ncBuf', link') => Typed(p)
    BY <1>1, <1>2 DEF TypesInv, TransitTyped, Held
  <2>2. QED  BY <1>1, <2>1 DEF TransitTyped, Typed, TypedField
<1>4. EventsTyped'
  <2>1. ncEvent' \in [Heads -> {"pending", "timed out", "cancelled", "unused"}]
    BY <1>1 DEF TypesInv, EventsTyped
  <2>2. QED  BY <1>1, <2>1 DEF TypesInv, EventsTyped
<1>5. QED  BY <1>1, <1>3, <1>4 DEF TypesInv, BatchesTyped

LEMMA NextTypes == Inv /\ TypesInv /\ [Next]_vars => TypesInv'
<1> SUFFICES ASSUME Inv, TypesInv, [Next]_vars
             PROVE  TypesInv'
  OBVIOUS
<1>1. CASE \E h \in Heads : StartNewSeq(h)
  BY <1>1, StartNewSeqTypes
<1>2. CASE \E h \in Heads : RLNetworkCoding(h)
  BY <1>2, RLNetworkCodingTypes
<1>3. CASE \E e \in Links : Deliver(e)
  BY <1>3, DeliverTypes
<1>4. CASE \/ \E h \in Heads : StopApplication(h)
           \/ \E e \in Links : Lose(e)
           \/ UNCHANGED vars
  BY <1>4, QuietTypes
<1>5. QED  BY <1>1, <1>2, <1>3, <1>4 DEF Next

LEMMA SequenceOfTyped ==
  ASSUME NEW s, Sequence(s), NEW S, ToSet(s) \subseteq S
  PROVE  s \in Seq(S)
  BY SeqMonotonic DEF Sequence

LEMMA TypesFollow == Inv /\ TypesInv => TypeOK
<1> SUFFICES ASSUME Inv, TypesInv
             PROVE  TypeOK
  OBVIOUS
<1>1. Shape
  BY DEF Inv
<1>2. \A h \in Heads : ncBuf[h] \in Seq(Packets)
  <2>1. ASSUME NEW h \in Heads
        PROVE  Sequence(ncBuf[h]) /\ ToSet(ncBuf[h]) \subseteq Packets
    BY <1>1 DEF Shape, Buffers, TypesInv, TransitTyped, Held, Typed
  <2>2. QED  BY <2>1, SequenceOfTyped
<1>3. \A e \in Links : link[e] \in Seq(Packets)
  <2>1. ASSUME NEW e \in Links
        PROVE  Sequence(link[e]) /\ ToSet(link[e]) \subseteq Packets
    BY <1>1 DEF Shape, Channels, TypesInv, TransitTyped, Held, Typed
  <2>2. QED  BY <2>1, SequenceOfTyped
<1>4. ncBuf \in [Heads -> Seq(Packets)] /\ link \in [Links -> Seq(Packets)]
  <2>1. ncBuf = [h \in Heads |-> ncBuf[h]] /\ link = [e \in Links |-> link[e]]
    BY <1>1 DEF Shape, Buffers, Channels
  <2>2. QED  BY <1>2, <1>3, <2>1
<1>5. QED  BY <1>1, <1>4 DEF TypeOK, Shape, TypesInv, BatchesTyped, EventsTyped

(* Every variable keeps its type; in particular what heads make of packets *)
(* by combining them, however often, is a packet again: TypeOK of the runs.*)
THEOREM NetworkTypeCorrect == Spec => []TypeOK
<1>1. Inv /\ TypesInv /\ [Next]_vars => (Inv /\ TypesInv)'
  BY NextInv, NextTypes
<1>2. Init => Inv /\ TypesInv
  BY InitInv, InitTypes
<1>3. QED  BY <1>1, <1>2, TypesFollow, PTL DEF Spec
=============================================================================
