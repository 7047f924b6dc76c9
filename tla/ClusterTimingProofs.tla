------------------------ MODULE ClusterTimingProofs ------------------------
(***************************************************************************)
(* Proofs about a cluster whose delays guarantee something: for every set  *)
(* of sources, number of measurements and range of sequence numbers.       *)
(***************************************************************************)
EXTENDS SensorClusterProofs

(* A sequence number is not above the measurement it stands for.           *)
LEMMA SeqNoBelow ==
  /\ \A k \in Nat : SeqNo(k) \in Nat /\ SeqNo(k) <= k
  /\ \A k \in Nat : (k + 1) % SeqSpace \in Nat /\ (k + 1) % SeqSpace <= k + 1
<1>1. ASSUME NEW k \in Nat
      PROVE  k % SeqSpace \in Nat /\ k % SeqSpace <= k
  <2>1. CASE k < SeqSpace
    BY <2>1, NumbersAssumption
  <2>2. CASE k >= SeqSpace
    <3>1. k % SeqSpace \in 0..(SeqSpace - 1)
      BY NumbersAssumption
    <3>2. QED  BY <2>2, <3>1, NumbersAssumption
  <2>3. QED  BY <2>1, <2>2, NumbersAssumption
<1>2. QED  BY <1>1 DEF SeqNo

(* What a head does to its sequence number and to the timeout.             *)
LEMMA ReceiveNumbers ==
  ASSUME HInv, NEW pkt \in Packets, ReceiveSrc(pkt)
  PROVE  /\ nextSeq' \in {nextSeq, SeqNo(pkt.meas)}
         /\ timer' = (nextSeq + 1) % SeqSpace
  BY DEF ReceiveSrc, RestartTimer, ReceiveNewer, ReceiveCurrent, ReceiveExpired,
         StartNewSeq, Closed

LEMMA TimeOutNumbers ==
  ASSUME TimeOut PROVE nextSeq' \in {nextSeq, timer} /\ timer' = Empty /\ timer # Empty
  BY DEF TimeOut, StartNewSeq, Closed
-----------------------------------------------------------------------------
(* Why only old packets expire when the timeout waits.  A link holds the   *)
(* measurements that follow those that have passed it, delivered or lost;  *)
(* and all nodes have taken what has passed any link.                      *)
Passed(n) == measured[n] - Len(link[n])

InTurn ==
  \A n \in Sources :
    /\ Passed(n) \in Nat
    /\ \A j \in 1..Len(link[n]) : link[n][j] = Passed(n) + j - 1

Together == \A m, n \in Sources : Passed(m) <= measured[n]

(* The number that the timeout would start is at most the one after what   *)
(* the head has heard, and what was measured before the timeout was        *)
(* restarted goes that far.  The number the head collects is one it has    *)
(* heard, or the one after: the timeout has started it, and nothing older  *)
(* can be on the way any more.                                             *)
HeardTaken   == \A n \in Sources : heard + 1 <= measured[n]
TimerHeard   ==
  timer # Empty => timer <= heard + 1 /\ \A n \in Sources : heard + 1 <= started[n]
NothingOlder == \A n \in Sources : \A j \in 1..Len(link[n]) : nextSeq <= link[n][j]
NextSeqHeard == nextSeq <= heard \/ (nextSeq <= heard + 1 /\ NothingOlder)

TInv == /\ FInv /\ InTurn /\ Together /\ HeardTaken
        /\ setting.timeoutWaits => TimerHeard /\ NextSeqHeard

LEMMA TimingTypes ==
  ASSUME TInv
  PROVE  /\ nextSeq \in Nat /\ (timer # Empty => timer \in Nat)
         /\ heard \in Int /\ heard + 1 \in Nat
         /\ \A n \in Sources : Passed(n) \in Nat /\ measured[n] \in Nat /\ Len(link[n]) \in Nat
                               /\ started[n] \in Nat
<1>0. heard \in Meas \cup {Empty} /\ \A n \in Sources : started[n] \in Meas
  BY DEF TInv, FInv, TypeOK
<1>1. \A n \in Sources : measured[n] \in Meas /\ link[n] \in Seq(Meas)
  BY DEF TInv, FInv, TypeOK
<1>2. nextSeq \in SeqNos /\ timer \in SeqNos \cup {Empty}
  BY DEF TInv, FInv, HInv, HeadTypeOK
<1>3. heard \in Int /\ heard + 1 \in Nat /\ \A n \in Sources : started[n] \in Nat
  BY <1>0, NumbersAssumption DEF Meas, Empty
<1>4. QED  BY <1>1, <1>2, <1>3, FlowTypes DEF TInv, InTurn, SeqNos

(* A packet that arrives is the next of its node: one more has passed.     *)
LEMMA ArrivesPassed ==
  ASSUME TInv, NEW n \in Sources, Arrives(n)
  PROVE  /\ Head(link[n]) = Passed(n) /\ Passed(n) \in Nat
         /\ link[n][1] = Head(link[n]) /\ 1 \in 1..Len(link[n])
         /\ \A m \in Sources : Passed(m)' = IF m = n THEN Passed(n) + 1 ELSE Passed(m)
         /\ \A m \in Sources : \A j \in 1..Len(link'[m]) :
              \E i \in 1..Len(link[m]) : link'[m][j] = link[m][i]
         /\ InTurn' /\ Together'
<1>1. /\ link[n] \in Seq(Meas) /\ link[n] # <<>> /\ link \in [Sources -> Seq(Meas)]
      /\ link' = [link EXCEPT ![n] = Tail(@)] /\ UNCHANGED measured
  BY FlowTypes DEF TInv, Arrives
<1>2. /\ Head(link[n]) = link[n][1] /\ 1 \in 1..Len(link[n]) /\ Head(link[n]) \in Meas
      /\ Len(link'[n]) = Len(link[n]) - 1
      /\ \A j \in 1..Len(link'[n]) : link'[n][j] = link[n][j + 1] /\ j + 1 \in 1..Len(link[n])
  BY <1>1
<1>3. Head(link[n]) = Passed(n) /\ Passed(n) \in Nat
  BY <1>2 DEF TInv, InTurn
<1>4. ASSUME NEW m \in Sources
      PROVE  Passed(m)' = IF m = n THEN Passed(n) + 1 ELSE Passed(m)
  <2>1. CASE m = n
    <3>1. Passed(n)' = measured[n] - Len(link'[n])
      BY <1>1 DEF Passed
    <3>2. measured[n] \in Nat /\ Len(link[n]) \in Nat
      BY TimingTypes
    <3>3. QED  BY <1>2, <2>1, <3>1, <3>2 DEF Passed
  <2>2. CASE m # n
    <3>1. link'[m] = link[m]
      BY <1>1, <2>2
    <3>2. QED  BY <1>1, <2>2, <3>1 DEF Passed
  <2>3. QED  BY <2>1, <2>2
<1>5. ASSUME NEW m \in Sources
      PROVE  /\ Passed(m)' \in Nat
             /\ \A j \in 1..Len(link'[m]) : link'[m][j] = Passed(m)' + j - 1
  <2>1. Passed(m)' \in Nat
    BY <1>4, TimingTypes
  <2>2. CASE m = n
    <3>1. \A j \in 1..Len(link'[n]) : link'[n][j] = Passed(n) + (j + 1) - 1
      BY <1>2 DEF TInv, InTurn
    <3>2. Passed(n)' = Passed(n) + 1
      BY <1>4
    <3>3. QED  BY <1>3, <2>1, <2>2, <3>1, <3>2
  <2>3. CASE m # n
    <3>1. link'[m] = link[m] /\ Passed(m)' = Passed(m)
      BY <1>1, <1>4, <2>3
    <3>2. QED  BY <2>1, <3>1 DEF TInv, InTurn
  <2>4. QED  BY <2>2, <2>3
<1>6. InTurn'
  BY <1>5 DEF InTurn
<1>7. \A m \in Sources : measured[m] >= Passed(n) + 1
  BY <1>3 DEF Arrives, AllTook
<1>8. Together'
  <2>1. ASSUME NEW m \in Sources, NEW s \in Sources
        PROVE  Passed(m)' <= measured'[s]
    BY <1>1, <1>4, <1>7, TimingTypes DEF TInv, Together
  <2>2. QED  BY <2>1 DEF Together
<1>9. ASSUME NEW m \in Sources, NEW j \in 1..Len(link'[m])
      PROVE  \E i \in 1..Len(link[m]) : link'[m][j] = link[m][i]
  <2>1. CASE m = n
    BY <1>2, <2>1
  <2>2. CASE m # n
    BY <1>1, <2>2
  <2>3. QED  BY <2>1, <2>2
<1>10. QED  BY <1>2, <1>3, <1>4, <1>6, <1>8, <1>9

(* A measurement that is taken has not passed yet.                         *)
LEMMA MeasurePassed ==
  ASSUME TInv, NEW n \in Sources, SrcMeasure(n)
  PROVE  /\ \A m \in Sources : Passed(m)' = Passed(m)
         /\ \A m \in Sources : measured'[m] \in Nat /\ measured[m] <= measured'[m]
         /\ \A m \in Sources : \A j \in 1..Len(link'[m]) :
              link'[m][j] = measured[m] \/ \E i \in 1..Len(link[m]) : link'[m][j] = link[m][i]
         /\ InTurn' /\ Together'
<1>1. /\ measured \in [Sources -> Meas] /\ link \in [Sources -> Seq(Meas)]
      /\ measured' = [measured EXCEPT ![n] = @ + 1]
      /\ link' = [link EXCEPT ![n] = Append(@, measured[n])]
  BY FlowTypes DEF TInv, SrcMeasure
<1>2. \A m \in Sources : Passed(m) \in Nat /\ measured[m] \in Nat /\ Len(link[m]) \in Nat
  BY TimingTypes
<1>3. /\ Len(link'[n]) = Len(link[n]) + 1
      /\ \A j \in 1..Len(link[n]) : link'[n][j] = link[n][j]
      /\ link'[n][Len(link[n]) + 1] = measured[n]
      /\ measured'[n] = measured[n] + 1
  <2>1. link[n] \in Seq(Meas) /\ measured[n] \in Meas
    BY <1>1
  <2>2. link'[n] = Append(link[n], measured[n]) /\ measured'[n] = measured[n] + 1
    BY <1>1
  <2>3. QED  BY <2>1, <2>2, AppendProperties
<1>4. \A m \in Sources : m # n => link'[m] = link[m] /\ measured'[m] = measured[m]
  BY <1>1
<1>5. ASSUME NEW m \in Sources
      PROVE  Passed(m)' = Passed(m) /\ measured'[m] >= measured[m]
  <2>1. CASE m = n
    <3>1. Passed(n)' = (measured[n] + 1) - (Len(link[n]) + 1)
      BY <1>3 DEF Passed
    <3>2. Passed(n) = measured[n] - Len(link[n])
      BY DEF Passed
    <3>3. QED  BY <1>2, <1>3, <2>1, <3>1, <3>2
  <2>2. CASE m # n
    BY <1>2, <1>4, <2>2 DEF Passed
  <2>3. QED  BY <2>1, <2>2
<1>6. ASSUME NEW m \in Sources, NEW j \in 1..Len(link'[m])
      PROVE  link'[m][j] = Passed(m)' + j - 1
  <2>1. CASE m = n /\ j = Len(link[n]) + 1
    <3>1. Passed(n) = measured[n] - Len(link[n])
      BY DEF Passed
    <3>2. QED  BY <1>2, <1>3, <1>5, <2>1, <3>1
  <2>2. CASE m # n \/ j # Len(link[n]) + 1
    <3>1. j \in 1..Len(link[m]) /\ link'[m][j] = link[m][j]
      BY <1>2, <1>3, <1>4, <2>2
    <3>2. QED  BY <1>5, <3>1 DEF TInv, InTurn
  <2>3. QED  BY <2>1, <2>2
<1>7. InTurn'
  BY <1>2, <1>5, <1>6 DEF InTurn
<1>8. Together'
  <2>1. ASSUME NEW m \in Sources, NEW s \in Sources
        PROVE  Passed(m)' <= measured'[s]
    <3>1. Passed(m) <= measured[s] /\ measured'[s] \in Nat
      BY <1>2, <1>3, <1>4 DEF TInv, Together
    <3>2. QED  BY <1>2, <1>5, <3>1
  <2>2. QED  BY <2>1 DEF Together
<1>9. ASSUME NEW m \in Sources, NEW j \in 1..Len(link'[m])
      PROVE  link'[m][j] = measured[m] \/ \E i \in 1..Len(link[m]) : link'[m][j] = link[m][i]
  <2>1. CASE m = n /\ j = Len(link[n]) + 1
    BY <1>3, <2>1
  <2>2. CASE m # n \/ j # Len(link[n]) + 1
    <3>1. j \in 1..Len(link[m]) /\ link'[m][j] = link[m][j]
      BY <1>2, <1>3, <1>4, <2>2
    <3>2. QED  BY <3>1
  <2>3. QED  BY <2>1, <2>2
<1>10. \A m \in Sources : measured'[m] \in Nat /\ measured[m] <= measured'[m]
  BY <1>2, <1>3, <1>4
<1>11. QED  BY <1>5, <1>7, <1>8, <1>9, <1>10

LEMMA NextTInv == TInv /\ [Next]_vars => TInv'
<1> SUFFICES ASSUME TInv, [Next]_vars
             PROVE  TInv'
  OBVIOUS
<1>1. FInv'
  BY NextFInv DEF TInv
<1>2. /\ nextSeq \in Nat /\ heard \in Int /\ heard + 1 \in Nat /\ (timer # Empty => timer \in Nat)
      /\ \A m \in Sources : measured[m] \in Nat /\ heard + 1 <= measured[m]
  BY TimingTypes DEF TInv, HeardTaken
<1>3. ASSUME NEW n \in Sources, Deliver(n)
      PROVE  TInv'
  <2> DEFINE k   == Head(link[n])
             pkt == [node |-> n, meas |-> k]
  <2>1. /\ Arrives(n) /\ ReceiveSrc(pkt) /\ UNCHANGED <<setting, measured>>
        /\ started' = measured /\ heard' = IF k > heard THEN k ELSE heard
    BY <1>3 DEF Deliver, Arrives
  <2>2. /\ link[n][1] = k /\ k \in Nat /\ pkt \in Packets /\ pkt.meas = k
        /\ InTurn' /\ Together'
    <3>1. link[n][1] = k /\ k \in Nat /\ InTurn' /\ Together'
      BY <2>1, ArrivesPassed
    <3>2. k \in Meas
      BY <2>1, ArrivesFlow DEF TInv
    <3>3. QED  BY <3>1, <3>2 DEF Packets
  <2>3. nextSeq' \in {nextSeq, SeqNo(k)} /\ timer' = (nextSeq + 1) % SeqSpace
    BY <2>1, <2>2, ReceiveNumbers DEF TInv, FInv
  <2>4. \A m \in Sources : measured[m] >= k + 1
    BY <2>1 DEF Arrives, AllTook
  <2> HIDE DEF k, pkt
  <2>5. heard' \in Int /\ heard <= heard' /\ k <= heard'
    BY <1>2, <2>1, <2>2
  <2>6. \A m \in Sources : heard' + 1 <= measured[m]
    BY <1>2, <2>1, <2>4
  <2>7. HeardTaken'
    BY <2>1, <2>6 DEF HeardTaken
  <2>8. SUFFICES ASSUME setting.timeoutWaits
                 PROVE  TimerHeard' /\ NextSeqHeard'
    BY <1>1, <2>1, <2>2, <2>7 DEF TInv
  <2>9. nextSeq <= heard'
    <3>1. CASE nextSeq <= heard
      BY <1>2, <2>5, <3>1
    <3>2. CASE NothingOlder
      <4>1. 1 \in 1..Len(link[n])
        BY <2>1, <2>2, ArrivesPassed
      <4>2. nextSeq <= k
        BY <2>2, <3>2, <4>1 DEF NothingOlder
      <4>3. QED  BY <1>2, <2>2, <2>5, <4>2
    <3>3. QED  BY <2>8, <3>1, <3>2 DEF TInv, NextSeqHeard
  <2>10. TimerHeard'
    <3>1. timer' \in Nat /\ timer' <= nextSeq + 1
      BY <1>2, <2>3, SeqNoBelow
    <3>2. timer' <= heard' + 1
      <4>1. \A t, a \in Nat, h \in Int : t <= a + 1 /\ a <= h => t <= h + 1
        OBVIOUS
      <4>2. QED  BY <1>2, <2>5, <2>9, <3>1, <4>1
    <3>3. QED  BY <2>1, <2>6, <3>2 DEF TimerHeard
  <2>11. SeqNo(k) <= heard'
    <3>1. SeqNo(k) \in Nat /\ SeqNo(k) <= k
      BY <2>2, SeqNoBelow
    <3>2. QED  BY <2>2, <2>5, <3>1
  <2>12. QED  BY <2>3, <2>9, <2>10, <2>11 DEF NextSeqHeard
<1>4. ASSUME NEW n \in Sources, Lose(n)
      PROVE  TInv'
  <2>1. Arrives(n) /\ UNCHANGED <<nextSeq, timer, setting, measured, started, heard>>
    BY <1>4 DEF Lose, Arrives, headVars
  <2>2. /\ InTurn' /\ Together'
        /\ \A m \in Sources : \A j \in 1..Len(link'[m]) :
             \E i \in 1..Len(link[m]) : link'[m][j] = link[m][i]
    BY <2>1, ArrivesPassed
  <2>3. (HeardTaken => HeardTaken') /\ (TimerHeard => TimerHeard')
    BY <2>1 DEF HeardTaken, TimerHeard
  <2>4. NothingOlder => NothingOlder'
    BY <2>1, <2>2 DEF NothingOlder
  <2>5. NextSeqHeard => NextSeqHeard'
    BY <2>1, <2>4 DEF NextSeqHeard
  <2>6. QED  BY <1>1, <2>1, <2>2, <2>3, <2>5 DEF TInv
<1>5. ASSUME NEW n \in Sources, SrcMeasure(n)
      PROVE  TInv'
  <2>1. /\ InTurn' /\ Together' /\ UNCHANGED <<nextSeq, timer, setting, started, heard>>
        /\ \A m \in Sources : measured'[m] \in Nat /\ measured[m] <= measured'[m]
        /\ \A m \in Sources : \A j \in 1..Len(link'[m]) :
             link'[m][j] = measured[m] \/ \E i \in 1..Len(link[m]) : link'[m][j] = link[m][i]
    BY <1>5, MeasurePassed DEF SrcMeasure, headVars
  <2>2. HeardTaken'
    BY <1>2, <2>1 DEF HeardTaken
  <2>3. TimerHeard => TimerHeard'
    BY <2>1 DEF TimerHeard
  <2>4. ASSUME NextSeqHeard PROVE NextSeqHeard'
    <3>1. CASE nextSeq <= heard
      BY <2>1, <3>1 DEF NextSeqHeard
    <3>2. CASE nextSeq <= heard + 1 /\ NothingOlder
      <4>1. \A m \in Sources : nextSeq <= measured[m]
        BY <1>2, <3>2
      <4>2. NothingOlder'
        BY <2>1, <3>2, <4>1 DEF NothingOlder
      <4>3. QED  BY <2>1, <3>2, <4>2 DEF NextSeqHeard
    <3>3. QED  BY <2>4, <3>1, <3>2 DEF NextSeqHeard
  <2>5. QED  BY <1>1, <2>1, <2>2, <2>3, <2>4 DEF TInv
(* The rest leaves sources and links alone.                                *)
<1>6. ASSUME UNCHANGED airVars
      PROVE  /\ InTurn' /\ Together' /\ HeardTaken'
             /\ UNCHANGED <<measured, link, setting, started, heard>>
  BY <1>6 DEF TInv, InTurn, Together, HeardTaken, Passed, airVars
<1>7. ASSUME UNCHANGED airVars, nextSeq' = nextSeq, timer' \in {timer, Empty}
      PROVE  TInv'
  <2>1. TimerHeard => TimerHeard'
    BY <1>6, <1>7 DEF TimerHeard
  <2>2. NextSeqHeard => NextSeqHeard'
    BY <1>6, <1>7 DEF NextSeqHeard, NothingOlder
  <2>3. QED  BY <1>1, <1>6, <1>7, <2>1, <2>2 DEF TInv
<1>8. ASSUME HeadTimeOut
      PROVE  TInv'
  <2>1. /\ UNCHANGED airVars /\ nextSeq' \in {nextSeq, timer}
        /\ timer' = Empty /\ timer # Empty
    BY <1>8, TimeOutNumbers DEF HeadTimeOut
  <2>2. CASE nextSeq' = nextSeq
    BY <1>7, <2>1, <2>2
  <2>3. CASE nextSeq' = timer
    <3>1. ASSUME setting.timeoutWaits
          PROVE  NextSeqHeard'
      <4>1. timer <= heard + 1 /\ \A m \in Sources : heard + 1 <= started[m]
        BY <2>1, <3>1 DEF TInv, TimerHeard
      <4>2. ASSUME NEW m \in Sources, NEW j \in 1..Len(link[m])
            PROVE  timer <= link[m][j]
        <5>1. /\ link[m] \in Seq(Meas) /\ Passed(m) \in Nat /\ started[m] \in Nat
              /\ link[m] # <<>> /\ 1 \in 1..Len(link[m])
          BY <4>2, FlowTypes, TimingTypes DEF TInv
        <5>2. Head(link[m]) = Passed(m) /\ link[m][j] = Passed(m) + j - 1
          BY <5>1 DEF TInv, InTurn
        <5>3. Head(link[m]) >= started[m]
          BY <1>8, <3>1, <5>1 DEF HeadTimeOut, NoneOnTheWay
        <5>4. QED  BY <1>2, <2>1, <4>1, <5>1, <5>2, <5>3
      <4>3. QED  BY <1>6, <2>1, <2>3, <4>1, <4>2 DEF NextSeqHeard, NothingOlder
    <3>2. TimerHeard'
      BY <2>1 DEF TimerHeard
    <3>3. QED  BY <1>1, <1>6, <2>1, <3>1, <3>2 DEF TInv
  <2>4. QED  BY <2>1, <2>2, <2>3
<1>9. ASSUME HeadMeasure \/ HeadStop \/ UNCHANGED vars
      PROVE  TInv'
  BY <1>7, <1>9 DEF HeadMeasure, Measure, HeadStop, StopApplication, vars, headVars
<1>10. QED
  BY <1>3, <1>4, <1>5, <1>8, <1>9 DEF Next

LEMMA InitTInv == Init => TInv
<1> SUFFICES ASSUME Init PROVE TInv
  OBVIOUS
<1>1. \A n \in Sources : link[n] = <<>> /\ measured[n] = 0
  BY DEF Init
<1>2. nextSeq = 0 /\ timer = Empty /\ heard = -1
  BY DEF Init, HeadInit, Empty
<1>3. \A n \in Sources : Passed(n) = 0
  BY <1>1 DEF Passed
<1>4. InTurn /\ Together /\ HeardTaken
  BY <1>1, <1>2, <1>3 DEF InTurn, Together, HeardTaken
<1>5. TimerHeard /\ NextSeqHeard
  BY <1>1, <1>2 DEF TimerHeard, NextSeqHeard, NothingOlder
<1>6. QED
  BY <1>4, <1>5, InitFInv DEF TInv

(* When the timeout is longer than any packet takes, a head drops a packet *)
(* as expired only if it has received one of a later measurement before:   *)
(* whatever is lost, however many measurements are on the way at once, and *)
(* although every packet restarts the timeout, as long as sequence numbers *)
(* do not wrap around.                                                     *)
THEOREM TimelyExpiry ==
  ASSUME MaxMeas <= SeqSpace
  PROVE  Spec => TimelyOnlyOldExpire
<1>1. TInv /\ [Next]_vars => [setting.timeoutWaits => ExpiresOld]_vars
  <2> SUFFICES ASSUME TInv, setting.timeoutWaits, NEW n \in Sources, Deliver(n),
                      SeqNo(Head(link[n])) < nextSeq
               PROVE  heard > Head(link[n])
    BY DEF ExpiresOld
  <2> DEFINE k == Head(link[n])
  <2>1. Arrives(n)
    BY DEF Deliver
  <2>2. k \in Nat /\ k + 1 <= measured[n] /\ measured[n] \in Meas
    <3>1. k \in Nat
      BY <2>1, ArrivesPassed
    <3>2. measured[n] >= k + 1
      BY <2>1 DEF Arrives, AllTook
    <3>3. measured[n] \in Meas
      BY DEF TInv, FInv, TypeOK
    <3>4. QED  BY <3>1, <3>2, <3>3
  <2>3. link[n][1] = k /\ 1 \in 1..Len(link[n])
    BY <2>1, ArrivesPassed
  <2> HIDE DEF k
  <2>4. k < MaxMeas
    BY <2>2, NumbersAssumption DEF Meas
  <2>5. k < nextSeq
    BY <2>2, <2>4, NoWrapSeqNo DEF k
  <2>6. ~NothingOlder
    BY <2>2, <2>3, <2>5, TimingTypes DEF NothingOlder
  <2>7. nextSeq <= heard
    BY <2>6 DEF TInv, NextSeqHeard
  <2>8. QED  BY <2>2, <2>5, <2>7, TimingTypes DEF k
<1>2. QED  BY <1>1, InitTInv, NextTInv, PTL DEF Spec, TimelyOnlyOldExpire
-----------------------------------------------------------------------------
(* Why batches are complete in an ideal run.  While the head runs, the     *)
(* cluster is always in one round, that of the first measurement that is   *)
(* not sent: nodes have taken it or are about to, Through are the sources  *)
(* whose packet has arrived, and everything the head holds is of this      *)
(* round.  The round cannot be left except by the timeout, and that waits  *)
(* until all packets are through: they were all on the way when it was     *)
(* first started, and nobody measures before it ran.                       *)
Complete(k) ==
  [seq  |-> SeqNo(k),
   rows |-> {[node |-> n, meas |-> k] : n \in (Sources \ Misfit) \cup {HeadNode}},
   rx   |-> Cardinality(Sources)]

Done    == Len(batches)
Through == {n \in Sources : Passed(n) > Done}

Round ==
  /\ BufferFull \notin failed /\ OneRowPerNode
  /\ nextSeq = SeqNo(Done)
  /\ own \in {Done, Done + 1}
  /\ \A n \in Sources : measured[n] \in {Done, Done + 1} /\ Passed(n) >= Done
  /\ yTemp = IF own = Done THEN Empty ELSE Done
  /\ Through # {} => own = Done + 1 /\ \A n \in Sources : started[n] = Done + 1
  /\ timer = IF Through = {} THEN Empty ELSE (nextSeq + 1) % SeqSpace
  /\ rxSrc = Cardinality(Through)
  /\ ToSet(srcBuf) = {[node |-> n, meas |-> Done] : n \in Through \ Misfit}
  /\ batches = [k \in 1..Done |-> Complete(k - 1)]

RInv == TInv /\ (Ideal /\ running /\ Sources # {} => Round)

(* The number after that of a measurement is the number of the next one.   *)
LEMMA NextSeqNo == \A k \in Nat : (SeqNo(k) + 1) % SeqSpace = SeqNo(k + 1)
<1> SUFFICES ASSUME NEW k \in Nat
             PROVE  (SeqNo(k) + 1) % SeqSpace = SeqNo(k + 1)
  OBVIOUS
<1>1. PICK N \in Nat \ {0} : N = SeqSpace
  BY NumbersAssumption
<1>2. ASSUME NEW q \in Int, NEW r \in 0..(N - 1)
      PROVE  (q * N + r) % N = r
  BY SMTT(30)
<1>3. PICK q \in Int, r \in 0..(N - 1) : k = q * N + r
  <2>1. k = (k \div N) * N + (k % N) /\ k \div N \in Int /\ k % N \in 0..(N - 1)
    BY SMTT(30)
  <2>2. QED  BY <2>1
<1>4. SeqNo(k) = r
  BY <1>1, <1>2, <1>3 DEF SeqNo
<1>5. CASE r + 1 < N
  <2>1. k + 1 = q * N + (r + 1) /\ r + 1 \in 0..(N - 1)
    BY <1>3, <1>5
  <2>2. (k + 1) % N = r + 1
    BY <1>2, <2>1
  <2>3. (r + 1) % N = r + 1
    BY <1>5
  <2>4. QED  BY <1>1, <1>4, <2>2, <2>3 DEF SeqNo
<1>6. CASE r + 1 = N
  <2>1. k + 1 = (q + 1) * N + 0 /\ 0 \in 0..(N - 1) /\ q + 1 \in Int
    BY <1>3, <1>6
  <2>2. (k + 1) % N = 0
    BY <1>2, <2>1
  <2>3. (r + 1) % N = 0
    BY <1>6
  <2>4. QED  BY <1>1, <1>4, <2>2, <2>3 DEF SeqNo
<1>7. QED  BY <1>5, <1>6

LEMMA RoundTypes ==
  ASSUME TInv
  PROVE  /\ Done \in Nat /\ SeqNo(Done) \in Nat
         /\ own \in Nat /\ HInv /\ srcBuf \in Seq(Rows) /\ batches \in Seq(Batches)
         /\ Through \subseteq Sources /\ IsFiniteSet(Through) /\ IsFiniteSet(Sources)
         /\ \A n \in Sources : /\ Passed(n) \in Nat /\ measured[n] \in Nat
                               /\ Len(link[n]) \in Nat
                               /\ Passed(n) <= measured[n]
<1>1. batches \in Seq(Batches) /\ own \in Nat
  BY BatchTypes DEF TInv
<1>2. Done \in Nat
  BY <1>1 DEF Done
<1>3. Through \subseteq Sources
  BY DEF Through
<1>4. IsFiniteSet(Through) /\ IsFiniteSet(Sources)
  BY <1>3, NodesAssumption, FS_Subset
<1>5. \A n \in Sources : Passed(n) <= measured[n]
  BY DEF TInv, Together
<1>6. QED
  BY <1>1, <1>2, <1>3, <1>4, <1>5, TimingTypes, SeqNoBelow, FlowTypes DEF TInv, FInv

(* It is not time for the measurement of the next round.                   *)
LEMMA RoundNotOver ==
  ASSUME TInv, Ideal, Round, Sources # {}, running
  PROVE  ~Turn(Done + 1)
<1> SUFFICES ASSUME Turn(Done + 1) PROVE FALSE
  OBVIOUS
<1>0. own \in {Done, Done + 1} /\ \A n \in Sources : measured[n] \in {Done, Done + 1}
  BY DEF Round
<1>1. ~SomeTookMore(Done + 1)
  BY <1>0, RoundTypes DEF SomeTookMore
<1>2. LinksEmpty /\ timer = Empty
  BY <1>1 DEF Turn, Ideal
<1>3. PICK n \in Sources : TRUE
  OBVIOUS
<1>4. Passed(n) = measured[n] /\ measured[n] >= Done + 1
  BY <1>2, <1>3, RoundTypes DEF Passed, LinksEmpty, Turn, AllTook
<1>5. n \in Through
  BY <1>4, RoundTypes DEF Through
<1>6. timer \in Nat
  BY <1>5, RoundTypes, SeqNoBelow DEF Round
<1>7. QED  BY <1>2, <1>6 DEF Empty

(* A source measures, or the head does.                                    *)
LEMMA SrcMeasureRound ==
  ASSUME TInv, Ideal, Round, Sources # {}, running, NEW n \in Sources, SrcMeasure(n)
  PROVE  Round'
<1>1. measured[n] = Done
  BY RoundNotOver DEF Round, SrcMeasure
<1>2. /\ measured' = [measured EXCEPT ![n] = @ + 1] /\ measured \in [Sources -> Meas]
      /\ UNCHANGED <<headVars, started>>
      /\ \A m \in Sources : Passed(m)' = Passed(m)
  BY MeasurePassed, FlowTypes DEF SrcMeasure, TInv
<1>3. /\ Done' = Done
      /\ UNCHANGED <<failed, srcBuf, nextSeq, own, yTemp, timer, rxSrc, batches, started>>
  BY <1>2 DEF headVars, Done
<1>4. Through' = Through
  BY <1>2, <1>3 DEF Through
<1>5. \A m \in Sources : measured'[m] \in {Done, Done + 1} /\ Passed(m)' >= Done
  BY <1>1, <1>2 DEF Round
<1>6. OneRowPerNode'
  BY <1>3 DEF Round, OneRowPerNode
<1>7. QED  BY <1>3, <1>4, <1>5, <1>6 DEF Round

LEMMA HeadMeasureRound ==
  ASSUME TInv, Ideal, Round, Sources # {}, running, HeadMeasure
  PROVE  Round'
<1>1. own = Done
  BY RoundNotOver DEF Round, HeadMeasure
<1>2. /\ own' = Done + 1 /\ yTemp' = Done /\ Done' = Done
      /\ UNCHANGED <<failed, srcBuf, nextSeq, timer, rxSrc, batches, measured, link, started>>
  BY <1>1 DEF HeadMeasure, Measure, Done, airVars
<1>3. Through' = Through /\ \A m \in Sources : Passed(m)' = Passed(m)
  BY <1>2 DEF Through, Passed
<1>4. own' # Done
  BY <1>2, RoundTypes
<1>5. OneRowPerNode'
  BY <1>2 DEF Round, OneRowPerNode
<1>6. QED  BY <1>2, <1>3, <1>4, <1>5 DEF Round

(* A packet that arrives is of this round, and the first of its node.      *)
LEMMA DeliverRound ==
  ASSUME TInv, Ideal, Round, Sources # {}, running, NEW n \in Sources, Deliver(n)
  PROVE  Round'
<1> DEFINE pkt == [node |-> n, meas |-> Head(link[n])]
<1>1. Arrives(n) /\ ReceiveSrc(pkt) /\ UNCHANGED <<own, measured>> /\ started' = measured
  BY DEF Deliver, Arrives, ReceiveSrc
<1>2. Head(link[n]) = Passed(n) /\ Passed(n) \in Nat
  BY <1>1, ArrivesPassed
<1>3. /\ \A m \in Sources : measured[m] >= Passed(n) + 1
      /\ own >= Passed(n) + 1
  BY <1>1, <1>2 DEF Arrives, AllTook
<1>4. Passed(n) = Done /\ own = Done + 1 /\ \A m \in Sources : measured[m] = Done + 1
  <2>1. Passed(n) >= Done /\ own <= Done + 1 /\ \A m \in Sources : measured[m] <= Done + 1
    <3>1. /\ own \in {Done, Done + 1} /\ Passed(n) >= Done
          /\ \A m \in Sources : measured[m] \in {Done, Done + 1}
      BY DEF Round
    <3>2. QED  BY <3>1, RoundTypes
  <2>2. Passed(n) = Done
    BY <1>2, <1>3, <2>1, RoundTypes
  <2>3. QED  BY <1>2, <1>3, <2>1, <2>2, RoundTypes
<1>5. n \notin Through
  BY <1>4, RoundTypes DEF Through
<1>6. /\ pkt \in Rows /\ pkt.node = n /\ pkt.meas = Done /\ SeqNo(pkt.meas) = nextSeq
      /\ pkt = [node |-> n, meas |-> Done]
  <2>1. Head(link[n]) \in Meas
    BY <1>1, ArrivesFlow DEF TInv
  <2>2. QED  BY <1>2, <1>4, <2>1 DEF Round, Rows
<1> HIDE DEF pkt
<1>7. ReceiveCurrent(pkt) /\ timer' = (nextSeq + 1) % SeqSpace
  <2>1. nextSeq \in Nat
    BY TimingTypes
  <2>2. QED
    BY <1>1, <1>6, <2>1 DEF ReceiveSrc, RestartTimer, ReceiveNewer, ReceiveExpired
<1>8. /\ Done' = Done /\ rxSrc' = rxSrc + 1 /\ WriteRow(pkt)
      /\ UNCHANGED <<nextSeq, yTemp, batches>>
  BY <1>7 DEF ReceiveCurrent, Done
<1>9. \A m \in Sources : Passed(m)' = IF m = n THEN Done + 1 ELSE Passed(m)
  BY <1>1, <1>4, ArrivesPassed
<1>10. Through' = Through \cup {n}
  <2>1. \A m \in Sources : Passed(m)' > Done <=> (Passed(m) > Done \/ m = n)
    BY <1>9, RoundTypes
  <2>2. QED  BY <1>8, <2>1 DEF Through
<1>11. rxSrc' = Cardinality(Through')
  BY <1>5, <1>8, <1>10, RoundTypes, FS_AddElement DEF Round
<1>12. ~IsFull(srcBuf)
  BY RoundTypes, RoomForOneMore DEF Round
<1> DEFINE RowOf(m) == [node |-> m, meas |-> Done]
<1>13. /\ BufferFull \notin failed' /\ OneRowPerNode'
       /\ ToSet(srcBuf') = {RowOf(m) : m \in Through' \ Misfit}
  <2>1. ToSet(srcBuf) = {RowOf(m) : m \in Through \ Misfit} /\ BufferFull \notin failed
        /\ OneRowPerNode
    BY DEF Round
  <2>2. CASE n \in Misfit
    <3>1. UNCHANGED <<srcBuf, failed>>
      BY <1>6, <1>8, <2>2 DEF WriteRow
    <3>2. Through' \ Misfit = Through \ Misfit
      BY <1>10, <2>2
    <3>3. OneRowPerNode'
      BY <2>1, <3>1 DEF OneRowPerNode
    <3>4. QED  BY <2>1, <3>1, <3>2, <3>3
  <2>3. CASE n \notin Misfit
    <3>1. srcBuf' = Append(srcBuf, pkt) /\ failed' = failed
      BY <1>6, <1>8, <1>12, <2>3 DEF WriteRow
    <3>2. /\ Len(srcBuf') = Len(srcBuf) + 1 /\ Len(srcBuf) \in Nat
          /\ \A i \in 1..Len(srcBuf) : srcBuf'[i] = srcBuf[i]
          /\ srcBuf'[Len(srcBuf) + 1] = pkt
      BY <1>6, <3>1, RoundTypes, AppendProperties
    <3>3. /\ \A i \in 1..Len(srcBuf') : i \in 1..Len(srcBuf) \/ i = Len(srcBuf) + 1
          /\ \A i \in 1..Len(srcBuf) : i \in 1..Len(srcBuf')
          /\ Len(srcBuf) + 1 \in 1..Len(srcBuf')
      BY <3>2
    <3>4. ToSet(srcBuf') = ToSet(srcBuf) \cup {pkt}
      BY <3>2, <3>3 DEF ToSet
    <3>5. Through' \ Misfit = (Through \ Misfit) \cup {n}
      BY <1>10, <2>3
    <3>6. ToSet(srcBuf') = {RowOf(m) : m \in Through' \ Misfit}
      BY <1>6, <2>1, <3>4, <3>5
    <3>7. \A i \in 1..Len(srcBuf) : srcBuf[i].node # n
      <4>1. ASSUME NEW i \in 1..Len(srcBuf)
            PROVE  srcBuf[i].node \in Through
        <5>1. srcBuf[i] \in ToSet(srcBuf)
          BY DEF ToSet
        <5>2. QED  BY <2>1, <5>1
      <4>2. QED  BY <1>5, <4>1
    <3>8. OneRowPerNode'
      BY <1>6, <2>1, <3>2, <3>3, <3>7 DEF OneRowPerNode
    <3>9. QED  BY <2>1, <3>1, <3>6, <3>8
  <2>4. QED  BY <2>2, <2>3
<1>14. \A m \in Sources : measured'[m] \in {Done, Done + 1} /\ Passed(m)' >= Done
  BY <1>1, <1>9, RoundTypes DEF Round
<1>15. own' # Done
  BY <1>1, <1>4, RoundTypes
<1>16. \A m \in Sources : started'[m] = Done' + 1
  BY <1>1, <1>4, <1>8
<1>17. QED
  BY <1>1, <1>4, <1>7, <1>8, <1>10, <1>11, <1>13, <1>14, <1>15, <1>16 DEF Round

(* The timeout ends the round: all packets are through, and the next round *)
(* begins with nothing taken.                                              *)
LEMMA TimeOutRound ==
  ASSUME TInv, Ideal, Round, Sources # {}, running, HeadTimeOut
  PROVE  Round'
<1>0. NoneOnTheWay /\ TimeOut /\ UNCHANGED <<measured, link, started>>
  BY DEF HeadTimeOut, Ideal, airVars
<1>1. Through # {} /\ own = Done + 1 /\ \A n \in Sources : started[n] = Done + 1
  BY <1>0 DEF TimeOut, Round
<1>2. LinksEmpty /\ TimeOut /\ UNCHANGED <<measured, link>>
  <2>1. ASSUME NEW n \in Sources, link[n] # <<>>
        PROVE  FALSE
    <3>1. /\ Len(link[n]) \in Nat /\ 1 \in 1..Len(link[n]) /\ Head(link[n]) = link[n][1]
          /\ Passed(n) \in Nat /\ measured[n] \in Nat
      BY <2>1, FlowTypes, TimingTypes DEF TInv
    <3>2. Head(link[n]) = Passed(n) /\ Passed(n) = measured[n] - Len(link[n])
      BY <3>1 DEF TInv, InTurn, Passed
    <3>3. Head(link[n]) >= started[n] /\ started[n] = Done + 1
      BY <1>0, <1>1, <2>1 DEF NoneOnTheWay
    <3>4. Done \in Nat /\ measured[n] \in {Done, Done + 1}
      BY RoundTypes DEF Round
    <3>5. Head(link[n]) >= Done + 1 /\ measured[n] <= Done + 1
      BY <3>3, <3>4
    <3>6. Len(link[n]) # 0
      BY <3>1
    <3>7. measured[n] - Len(link[n]) >= Done + 1
      BY <3>2, <3>5
    <3>8. QED  BY <3>1, <3>4, <3>5, <3>6, <3>7
  <2>2. QED  BY <1>0, <2>1 DEF LinksEmpty
<1>3. \A n \in Sources : Passed(n) = Done + 1 /\ measured[n] = Done + 1
  <2>1. PICK m \in Sources : Passed(m) > Done
    BY <1>1 DEF Through
  <2>2. \A n \in Sources : Passed(m) <= measured[n]
    BY DEF TInv, Together
  <2>3. \A n \in Sources : measured[n] = Done + 1
    BY <2>1, <2>2, RoundTypes DEF Round
  <2>4. \A n \in Sources : Passed(n) = measured[n]
    BY <1>2, RoundTypes DEF LinksEmpty, Passed
  <2>5. QED  BY <2>3, <2>4
<1>4. Through = Sources
  BY <1>3, RoundTypes DEF Through
<1>5. ~IsFull(srcBuf) /\ yTemp = Done /\ yTemp # Empty
  <2>1. own # Done
    BY <1>1, RoundTypes
  <2>2. yTemp = Done
    BY <2>1 DEF Round
  <2>3. QED  BY <2>2, RoundTypes, RoomForOneMore DEF Round, Empty
<1> DEFINE b == BatchOf(nextSeq, CompressNextSpat, rxSrc)
<1>6. /\ batches' = Append(batches, b) /\ nextSeq' = timer /\ srcBuf' = <<>>
      /\ yTemp' = Empty /\ rxSrc' = 0 /\ timer' = Empty /\ own' = own
      /\ failed' \subseteq failed \cup {SizeMismatch}
  BY <1>2, <1>5 DEF TimeOut, StartNewSeq, Closed
<1>7. b = Complete(Done)
  <2>1. OwnRow = [node |-> HeadNode, meas |-> Done] /\ OwnRow \in Rows
    BY <1>5, RoundTypes DEF OwnRow, Rows, HInv, HeadTypeOK
  <2> DEFINE s == Append(srcBuf, OwnRow)
  <2>2. /\ Len(s) = Len(srcBuf) + 1 /\ Len(srcBuf) \in Nat
        /\ \A i \in 1..Len(srcBuf) : s[i] = srcBuf[i]
        /\ s[Len(srcBuf) + 1] = OwnRow
    BY <2>1, RoundTypes, AppendProperties
  <2>3. CompressNextSpat = s
    BY <1>5 DEF CompressNextSpat
  <2> HIDE DEF s
  <2>4. /\ \A i \in 1..Len(s) : i \in 1..Len(srcBuf) \/ i = Len(srcBuf) + 1
        /\ \A i \in 1..Len(srcBuf) : i \in 1..Len(s)
        /\ Len(srcBuf) + 1 \in 1..Len(s)
    BY <2>2
  <2>5. ToSet(s) = ToSet(srcBuf) \cup {OwnRow}
    BY <2>2, <2>4 DEF ToSet
  <2> DEFINE RowOf(m) == [node |-> m, meas |-> Done]
  <2>6. ToSet(srcBuf) = {RowOf(n) : n \in Sources \ Misfit}
    BY <1>4 DEF Round
  <2>7. ToSet(s) = {RowOf(n) : n \in (Sources \ Misfit) \cup {HeadNode}}
    BY <2>1, <2>5, <2>6
  <2>8. nextSeq = SeqNo(Done) /\ rxSrc = Cardinality(Sources)
    BY <1>4 DEF Round
  <2>9. QED  BY <2>3, <2>7, <2>8 DEF BatchOf, Complete
<1> HIDE DEF b
<1>8. /\ Done' = Done + 1
      /\ batches' = [k \in 1..(Done + 1) |-> Complete(k - 1)]
  <2>1. b \in Batches
    <3>1. batches' \in Seq(Batches) /\ batches' = Append(batches, b)
      BY <1>2, <1>6, HeadNextHInv, RoundTypes DEF HInv, HeadTypeOK, HeadNext
    <3>2. Len(batches') = Len(batches) + 1 /\ batches'[Len(batches) + 1] = b
      BY <3>1, RoundTypes
    <3>3. Len(batches) + 1 \in 1..Len(batches')
      BY <3>2, RoundTypes DEF Done
    <3>4. QED  BY <3>1, <3>2, <3>3, ElementOfSeq
  <2>2. /\ batches' \in Seq(Batches) /\ Len(batches') = Done + 1
        /\ \A k \in 1..Done : batches'[k] = batches[k]
        /\ batches'[Done + 1] = b
    BY <1>6, <2>1, RoundTypes, AppendProperties DEF Done
  <2>3. \A k \in 1..Done : batches[k] = Complete(k - 1)
    BY DEF Round
  <2>4. \A k \in 1..(Done + 1) : batches'[k] = Complete(k - 1)
    <3>1. \A k \in 1..(Done + 1) : k \in 1..Done \/ (k = Done + 1 /\ k - 1 = Done)
      BY RoundTypes
    <3>2. QED  BY <1>7, <2>2, <2>3, <3>1
  <2>5. batches' = [k \in 1..Len(batches') |-> batches'[k]]
    BY <2>2
  <2>6. QED  BY <2>2, <2>4, <2>5 DEF Done
<1>9. Through' = {}
  <2>1. \A n \in Sources : Passed(n)' = Done + 1
    BY <1>2, <1>3 DEF Passed
  <2>2. \A n \in Sources : ~(Done + 1 > Done + 1)
    BY RoundTypes
  <2>3. QED  BY <1>8, <2>1, <2>2 DEF Through
<1>10. nextSeq' = SeqNo(Done + 1)
  BY <1>1, <1>6, RoundTypes, NextSeqNo DEF Round
<1>11. \A n \in Sources : measured'[n] = Done + 1 /\ Passed(n)' >= Done + 1
  BY <1>2, <1>3, RoundTypes DEF Passed
<1>12. /\ BufferFull \notin failed' /\ OneRowPerNode'
       /\ ToSet(srcBuf') = {} /\ rxSrc' = Cardinality({})
  <2>1. BufferFull \notin failed'
    BY <1>6 DEF Round, BufferFull, SizeMismatch
  <2>2. OneRowPerNode' /\ ToSet(srcBuf') = {}
    BY <1>6 DEF OneRowPerNode, ToSet
  <2>3. rxSrc' = Cardinality({})
    BY <1>6, FS_EmptySet
  <2>4. QED  BY <2>1, <2>2, <2>3
<1>13. QED
  BY <1>1, <1>6, <1>8, <1>9, <1>10, <1>11, <1>12 DEF Round

LEMMA NextRInv == RInv /\ [Next]_vars => RInv'
<1> SUFFICES ASSUME RInv, [Next]_vars
             PROVE  RInv'
  OBVIOUS
<1>1. TInv'
  BY NextTInv DEF RInv
<1>2. setting' = setting
  BY DEF Next, HeadMeasure, SrcMeasure, Deliver, Lose, Arrives, HeadTimeOut, HeadStop, vars,
         airVars
<1>3. SUFFICES ASSUME Ideal, running', Sources # {}
               PROVE  Round'
  BY <1>1, <1>2 DEF RInv, Ideal
<1>4. running /\ TInv /\ Round /\ ~HeadStop
  BY <1>3 DEF RInv, Next, HeadMeasure, SrcMeasure, Deliver, Lose, HeadTimeOut, HeadStop,
              vars, Measure, ReceiveSrc, TimeOut, StopApplication, headVars
<1>5. ASSUME UNCHANGED vars
      PROVE  Round'
  BY <1>4, <1>5 DEF vars, headVars, airVars, Round, OneRowPerNode, Through, Passed, Done
<1>6. ~\E n \in Sources : Lose(n)
  BY <1>3 DEF Lose, Ideal
<1>7. QED
  BY <1>3, <1>4, <1>5, <1>6, SrcMeasureRound, HeadMeasureRound, DeliverRound, TimeOutRound
     DEF Next

LEMMA InitRInv == Init => RInv
<1> SUFFICES ASSUME Init PROVE RInv
  OBVIOUS
<1>1. TInv
  BY InitTInv
<1>2. /\ nextSeq = 0 /\ srcBuf = <<>> /\ yTemp = Empty /\ own = 0 /\ timer = Empty
      /\ rxSrc = 0 /\ batches = <<>> /\ failed = {}
      /\ \A n \in Sources : measured[n] = 0 /\ link[n] = <<>>
  BY DEF Init, HeadInit
<1>3. Done = 0
  BY <1>2 DEF Done
<1>4. \A n \in Sources : Passed(n) = 0
  BY <1>2 DEF Passed
<1>5. Through = {}
  BY <1>3, <1>4 DEF Through
<1>6. SeqNo(0) = 0
  BY NumbersAssumption DEF SeqNo
<1>7. batches = [k \in 1..0 |-> Complete(k - 1)]
  BY <1>2
<1>8. ToSet(srcBuf) = {} /\ Cardinality(Through) = 0
  BY <1>2, <1>5, FS_EmptySet DEF ToSet
<1>9. Round
  BY <1>2, <1>3, <1>4, <1>5, <1>6, <1>7, <1>8 DEF Round, OneRowPerNode
<1>10. QED  BY <1>1, <1>9 DEF RInv

LEMMA RInvHolds == Spec => []RInv
  BY InitRInv, NextRInv, PTL DEF Spec

(* When no packet is lost, the timeout is longer than any packet takes and *)
(* the interval longer than both, every measurement is compressed exactly  *)
(* once, with the row of every node, under its own number and with the     *)
(* right count: for any number of sources and measurements, and across any *)
(* number of wrap-arounds of the sequence number.                          *)
THEOREM BatchesComplete == Spec => []CompleteBatches
<1>1. RInv => CompleteBatches
  <2> SUFFICES ASSUME RInv, Ideal, Quiet, Sources # {}
               PROVE  batches = [k \in 1..own |-> Complete(k - 1)]
    BY DEF CompleteBatches, Complete
  <2>1. TInv /\ Round
    BY DEF RInv, Quiet
  <2>2. Through = {}
    <3>1. SUFFICES ASSUME Through # {} PROVE FALSE
      OBVIOUS
    <3>2. timer \in Nat
      BY <2>1, <3>1, RoundTypes, SeqNoBelow DEF Round
    <3>3. QED  BY <3>2 DEF Quiet, Empty
  <2>3. PICK n \in Sources : TRUE
    OBVIOUS
  <2>4. Passed(n) = own
    BY <2>1, <2>3, RoundTypes DEF Quiet, LinksEmpty, Passed
  <2>5. own = Done
    BY <2>1, <2>2, <2>3, <2>4, RoundTypes DEF Through, Round
  <2>6. QED  BY <2>1, <2>5 DEF Round
<1>2. QED  BY <1>1, RInvHolds, PTL
-----------------------------------------------------------------------------
(* Why a batch matches its number in an ideal run.  The rows of sources    *)
(* always do; the head's own row is taken when the number of the round is  *)
(* the one being collected, and stays with it: whatever changes the number *)
(* sends the row.  A stopped head takes no more rows.  A head without      *)
(* sources never sends.                                                    *)
OwnFresh == yTemp # Empty => SeqNo(yTemp) = nextSeq
NoSender == Sources = {} => timer = Empty /\ batches = <<>>

SInv == RInv /\ NoSender /\ (Ideal /\ Sources # {} => OwnFresh /\ RowsMatchSeq)

(* A step sends what is held, or keeps it, with the number it is held for. *)
LEMMA SendsOrKeeps ==
  ASSUME TInv, [Next]_vars
  PROVE  \/ UNCHANGED batches /\ (HeadMeasure \/ UNCHANGED <<nextSeq, yTemp>>)
         \/ /\ yTemp' = Empty
            /\ \E cnt : batches' = Append(batches, BatchOf(nextSeq, CompressNextSpat, cnt))
<1>1. ASSUME NEW b, NEW seq, NEW buf, NEW cnt, b = BatchOf(nextSeq, CompressNextSpat, cnt),
             Closed(b, seq, buf)
      PROVE  \/ UNCHANGED <<batches, nextSeq, yTemp>>
             \/ /\ yTemp' = Empty
                /\ \E c : batches' = Append(batches, BatchOf(nextSeq, CompressNextSpat, c))
  BY <1>1 DEF Closed
<1>2. ASSUME NEW pkt, ReceiveSrc(pkt)
      PROVE  \/ UNCHANGED <<batches, nextSeq, yTemp>>
             \/ /\ yTemp' = Empty
                /\ \E c : batches' = Append(batches, BatchOf(nextSeq, CompressNextSpat, c))
  <2>1. CASE ReceiveNewer(pkt)
    BY <1>1, <2>1 DEF ReceiveNewer, StartNewSeq
  <2>2. CASE ReceiveCurrent(pkt) \/ ReceiveExpired(pkt)
    BY <2>2 DEF ReceiveCurrent, ReceiveExpired
  <2>3. QED  BY <1>2, <2>1, <2>2 DEF ReceiveSrc
<1>3. ASSUME TimeOut
      PROVE  \/ UNCHANGED <<batches, nextSeq, yTemp>>
             \/ /\ yTemp' = Empty
                /\ \E c : batches' = Append(batches, BatchOf(nextSeq, CompressNextSpat, c))
  BY <1>1, <1>3 DEF TimeOut, StartNewSeq
<1>4. HeadMeasure => UNCHANGED batches
  BY DEF HeadMeasure, Measure
<1>5. ASSUME HeadStop \/ UNCHANGED vars \/ \E n \in Sources : SrcMeasure(n) \/ Lose(n)
      PROVE  UNCHANGED <<batches, nextSeq, yTemp>>
  BY <1>5 DEF HeadStop, StopApplication, vars, headVars, SrcMeasure, Lose
<1>6. QED
  BY <1>2, <1>3, <1>4, <1>5 DEF Next, Deliver, HeadTimeOut

LEMMA NextSInv == SInv /\ [Next]_vars => SInv'
<1> SUFFICES ASSUME SInv, [Next]_vars
             PROVE  SInv'
  OBVIOUS
<1>1. RInv /\ RInv'
  BY NextRInv DEF SInv
<1>2. setting' = setting
  BY DEF Next, HeadMeasure, SrcMeasure, Deliver, Lose, Arrives, HeadTimeOut, HeadStop, vars,
         airVars
<1>3. NoSender'
  <2>1. SUFFICES ASSUME Sources = {} PROVE timer' = Empty /\ batches' = <<>>
    BY DEF NoSender
  <2>2. timer = Empty /\ batches = <<>> /\ ~HeadTimeOut
    BY <2>1 DEF SInv, NoSender, HeadTimeOut, TimeOut
  <2>3. HeadMeasure \/ HeadStop \/ UNCHANGED vars
    BY <2>1, <2>2 DEF Next
  <2>4. QED
    BY <2>2, <2>3 DEF HeadMeasure, Measure, HeadStop, StopApplication, vars, headVars
<1>4. SUFFICES ASSUME Ideal, Sources # {}
               PROVE  OwnFresh' /\ RowsMatchSeq'
  BY <1>1, <1>2, <1>3 DEF SInv, Ideal
<1>5. /\ TInv /\ HInv /\ OwnFresh /\ RowsMatchSeq
      /\ batches \in Seq(Batches) /\ Len(batches) \in Nat
  BY <1>1, <1>4, RoundTypes DEF SInv, RInv, Done
<1>6. CASE UNCHANGED batches /\ (HeadMeasure \/ UNCHANGED <<nextSeq, yTemp>>)
  <2>1. RowsMatchSeq'
    BY <1>5, <1>6 DEF RowsMatchSeq
  <2>2. CASE HeadMeasure
    <3>1. running' /\ running
      BY <2>2 DEF HeadMeasure, Measure
    <3>2. Round' /\ TInv' /\ Ideal'
      BY <1>1, <1>2, <1>4, <3>1 DEF RInv, Ideal
    <3>3. yTemp' # Empty => yTemp' = Done' /\ nextSeq' = SeqNo(Done)'
      BY <3>2 DEF Round
    <3>4. OwnFresh'
      BY <3>3 DEF OwnFresh, SeqNo
    <3>5. QED  BY <2>1, <3>4
  <2>3. CASE UNCHANGED <<nextSeq, yTemp>>
    <3>1. OwnFresh'
      BY <1>5, <2>3 DEF OwnFresh, SeqNo
    <3>2. QED  BY <2>1, <3>1
  <2>4. QED  BY <1>6, <2>2, <2>3
<1>7. ASSUME yTemp' = Empty,
             NEW cnt, batches' = Append(batches, BatchOf(nextSeq, CompressNextSpat, cnt))
      PROVE  OwnFresh' /\ RowsMatchSeq'
  <2>1. OwnFresh'
    BY <1>7 DEF OwnFresh
  <2> DEFINE b == BatchOf(nextSeq, CompressNextSpat, cnt)
  <2>2. b.seq = nextSeq /\ b.rows = ToSet(CompressNextSpat)
    BY DEF BatchOf
  <2>3. ASSUME NEW r \in ToSet(CompressNextSpat)
        PROVE  SeqNo(r.meas) = nextSeq
    <3>1. FInv /\ HeadTypeOK /\ SrcBufFresh
      BY <1>5 DEF TInv, HInv
    <3>2. CASE r \in ToSet(srcBuf) /\ r.node \in Sources
      BY <3>1, <3>2, CompressedRows, NodesAssumption
    <3>3. CASE r = OwnRow /\ yTemp # Empty
      BY <1>5, <3>3 DEF OwnFresh, OwnRow
    <3>4. QED  BY <3>1, <3>2, <3>3, RowsOfBatch
  <2> HIDE DEF b
  <2>4. batches' = Append(batches, b)
    BY <1>7 DEF b
  <2>5. /\ Len(batches') = Len(batches) + 1
        /\ \A i \in 1..Len(batches) : batches'[i] = batches[i]
        /\ batches'[Len(batches) + 1] = b
        /\ \A i \in 1..Len(batches') : i \in 1..Len(batches) \/ i = Len(batches) + 1
    BY <1>5, <2>4
  <2>6. RowsMatchSeq'
    BY <1>5, <2>2, <2>3, <2>5 DEF RowsMatchSeq, SeqNo
  <2>7. QED  BY <2>1, <2>6
<1>8. QED  BY <1>5, <1>6, <1>7, SendsOrKeeps

(* In an ideal run a batch holds data of the measurement its sequence      *)
(* number names, the head's own row included, across wrap-arounds and      *)
(* after the head was stopped.                                             *)
THEOREM RowsMatchIdeally == Spec => [](Ideal => RowsMatchSeq)
<1>1. Init => SInv
  <2> SUFFICES ASSUME Init PROVE SInv
    OBVIOUS
  <2>1. yTemp = Empty /\ timer = Empty /\ batches = <<>>
    BY DEF Init, HeadInit
  <2>2. QED  BY <2>1, InitRInv DEF SInv, NoSender, OwnFresh, RowsMatchSeq
<1>2. SInv => (Ideal => RowsMatchSeq)
  <2>1. SInv /\ Sources = {} => RowsMatchSeq
    BY DEF SInv, NoSender, RowsMatchSeq
  <2>2. QED  BY <2>1 DEF SInv
<1>3. QED  BY <1>1, <1>2, NextSInv, PTL DEF Spec
=============================================================================
