# A TLA+ model of ns3-CompressedSensing

The repository is an extension of the network simulator ns-3: sensor nodes take
measurements, compress them in time, send them to the head of their cluster, the
head compresses the rows of its nodes once more in space, combines packets with
random linear network coding and relays them, and a sink reconstructs the
measurements of all clusters. All of its own code is in
`src/src/compressed-sensing/{model,helper,util}`, `src/src/simple-network/` and
`src/scratch/*.cc`; the rest of `src/` is ns-3.26 and other vendored libraries.
Its test suite and its `.rst` document are unfilled templates: the
only statements of intent are Doxygen comments, attribute descriptions and
`NS_ASSERT` messages.

Paths below are relative to `src/src/compressed-sensing/model/` unless they say
otherwise.

## 1. Inventory

Everything is single threaded: the simulator runs one event at a time. What is hard
is the order of events, who cancels which event, what a packet finds when it
arrives, and what is lost.

| component | state | operations | properties that make it correct |
|---|---|---|---|
| `CsSrcApp`, transmit side (`cs-src-app.cc:163-171, 241-355`) | `m_bcPackets`, `m_sendEvent`, `m_schedEvent`, `m_running`, `m_sent` | `WriteBcPacketList` (2), `ScheduleBc`, `Broadcast`, `StopApplication` | FIFO order, but for what a stop leaves behind; no packet lost or sent twice; never stalls; drains; no assertion fails |
| `CsSrcApp`, measurement cycle (`cs-src-app.cc:175-237, 359-367`) | `m_nextSeq` (16 bit), `m_yTemp`, input stream | `Measure`, `CompressNextTemp`, `CreateCsPackets` | one measurement per interval, numbered in order |
| `CsClusterApp`, collecting (`cs-cluster-app.cc:177-225, 407-482, 514-538`) | `m_nextSeq`, `m_srcDataBuffer`, `m_timeoutEvent`, `m_nPktRxSeq_src`, the inherited `m_yTemp` | `ReceiveSrc`, timeout, `StartNewSeq`, `CompressNextSpat`, `StopApplication` | no mixed sequences, no overflow, nothing forgotten, nothing compressed twice, right number on every batch, numbers that go back one step at most, complete batches in an ideal run |
| `CsClusterApp`, network coding (`cs-cluster-app.cc:229-434, 486-510, 542-631`) | `m_ncPktBuffer`, `m_ncEvent`, `m_ncTimeOutCnt`, `m_nPktRxSeq_cl`, the NcCount field of packets | `CreateCsClusterPackets`, `Receive`, `ReceiveCluster`, `RLNetworkCoding`, `DoRLNC` | packets of one sequence only are combined; header and payload stay the same combination; SrcInfo names what is inside; recombinations are limited; buffered packets leave and none is forgotten |
| `CsSinkApp` + `Reconstructor` (`cs-sink-app.cc`, `reconstructor.cc`, `reconstructor.h`) | `m_seqCount`, `m_rxPacketsSeq`, `m_timeoutEvent`, `m_inBuf`, `m_ncMatrix`, one precoding matrix per cluster, counts stored | `Receive`, `BufferPacketData`, `StartNewSeq`, wait timeout, `ReconstructAll` | no reconstruction mixes sequences; everything accepted is decoded; the precoding fits the rows; counts belong to their sequence |
| `MySimpleNetDevice`, `MySimpleChannel` (`src/src/simple-network`) | device queue, transmit state | `Send`, transmit complete, delivery, receive error model | order kept, packets lost or delivered once |
| `CsHeader`, `CsClusterHeader` | serialised fields | `Serialize`, `Deserialize`, `SetNcInfoNew`, `IsSrcInfoSet` | what is read is what was written, for every number of coefficients |
| `SimpleSrcApp`, `SimpleSinkApp` | first prototype, used by one example | relay | - |
| `Compressor`, `RandomMatrix`, `TransMatrix`, `NcMatrix`, `CsAlgorithm*` | matrices of doubles | linear algebra, vendored KL1p solvers | numerical, not protocol |
| `CsNode`, `CsCluster`, buffers, streams, helpers, scripts, `MatFileHandler` | configuration and files | object creation, file I/O | - |
| ns-3 core | event list | `Schedule`, `Cancel`, `IsRunning` | assumed |

How they interact:

* `Measure` of a source -> `CreateCsPackets` -> `WriteBcPacketList` -> `ScheduleBc` ->
  `Broadcast` -> device -> channel -> the head's receive callback -> `ReceiveSrc`.
  The helper gives every source a channel of its own
  (`helper/cs-cluster-simple-helper.cc:65-107`), so packets of one source stay in
  order and those of different sources do not.
* `ReceiveSrc` and the timeout event -> `StartNewSeq` -> `CompressNextSpat` ->
  `CreateCsClusterPackets` -> `m_ncPktBuffer` or `WriteBcPacketList` -> other heads
  (`ReceiveCluster`) or the sink (`Receive`).
* `CsSinkApp::Receive` -> `BufferPacketData` -> `Reconstructor::WriteData`,
  `SetPrecodeEntries`; `StartNewSeq` -> `Reset`; timeout or packet -> `ReconstructNext`.

A head is a `CsSrcApp` too: it shares the transmit queue, the measurement cycle
and the variables `m_nextSeq` and `m_yTemp` with the base class.

Hard behaviours, each at its line with the properties that watch it, are the
`hazards` of `PROJECT.json`. In short: two event chains feeding from one queue; a
timeout argument computed before the packet that sets it has been looked at;
an expired packet that restarts the timeout; a cancelled handle that stands for an idle sender; state split between the sink's application
and its reconstructor; matrices that are never cleared; loss of whole rounds; the
wrap-around of the 16 bit sequence number; callbacks that outlive `StopApplication`;
a buffer in which packets of several heads and sequences meet; headers and payloads that are
recombined by separate loops over any number of hops.

## 2. Modules

| module | models | extends / uses |
|---|---|---|
| `LossyFifo` | abstract specification: what the transmit side promises the network | |
| `BroadcastQueue` | transmit side of `CsSrcApp`, event by event, and what it is as a `LossyFifo` | `INSTANCE LossyFifo` |
| `MCBroadcastQueue` | its instances | `BroadcastQueue` |
| `BroadcastQueueProofs` | theorems, and the refinement of `LossyFifo` | `BroadcastQueue` |
| `ClusterHead` | one head alone, any stream of packets | |
| `ClusterHeadProofs` | theorems of the head alone | `ClusterHead` |
| `SensorCluster` | sources, links and head composed, with the timing of a run | `ClusterHead` |
| `MCSensorCluster` | its instances | `SensorCluster` |
| `SensorClusterProofs` | `SensorCluster` implements `ClusterHead`; no overflow, nothing compressed twice | `SensorCluster`, `ClusterHeadProofs` |
| `ClusterTimingProofs` | what the delays of a run guarantee: only old packets expire, complete batches, rows under their number | `SensorClusterProofs` |
| `Sink` | sink application and reconstructor, any stream of packets | |
| `Uplinks` | heads, links and sink composed | `Sink` |
| `MCUplinks` | its instances | `Uplinks` |
| `SinkProofs` | theorems of the sink and of the network | `Uplinks` |
| `IdealUplinksProofs` | ideal runs: everything is decoded together, counts belong to their sequence | `SinkProofs` |
| `CsClusterHeader` | the coefficients in a header: layout, writing, reading | |
| `CsClusterHeaderProofs` | sums over finite sets; every row has its coefficient; reading what was written | `CsClusterHeader` |
| `NetworkCoding` | a network of heads: buffers, recombination, relaying | `CsClusterHeader` |
| `MCNetworkCoding` | its instances | `NetworkCoding` |
| `NetworkCodingProofs` | theorems for any network | `NetworkCoding`, `CsClusterHeaderProofs` |

The models form a chain of promises. `BroadcastQueue` refines `LossyFifo`: the
queue never duplicates, and reorders only what a stopped application left behind and passes by
writing again. Sources do not write after they stop, and the heads of `Uplinks` do not stop, so
`SensorCluster` and `Uplinks` take the way from one application to another to be a FIFO link that may lose
packets. `NetworkCoding` has heads that stop; nothing it claims depends on the order on a link, though its links are FIFOs.
`ClusterHead` and `Sink` are open components: they accept every packet at any
time, and what is proved of them holds in every composition that is shown to be
one of their behaviours (`ClusterHasHead`, `UplinksHasSink`).

### BroadcastQueue

`bcPackets` is `m_bcPackets`, packets numbered as they are written. `agenda` is the
part of the simulator's event list that belongs to the application, in the order
it will run. `sendEvent` is the handle `m_sendEvent`: the packet of the `Broadcast` scheduled last. Only that one is asked
for by `IsBroadcasting` and cancelled by `StopApplication`; after a skipped packet an older one may be
pending besides it, and survive (`orphaned`). `m_schedEvent` is only read to cancel it, and the retry scheduled last is
always the last in the agenda, so it needs no variable.

* `WriteBcPacketList(k)`: lines 248-275. Appends, and starts transmission unless the `Broadcast` of the handle is
  pending; an older one or a pending retry is not asked for, as in the code.
* `ScheduleBc`: lines 341-355, with the coin `m_ranTx` as a choice of `TxOutcomes`.
* `Broadcast`, `Reschedule`: the two events. `StopApplication`: lines 163-171.

The new `Broadcast` of `WriteBcPacketList` has delay zero. With `m_pktInterval` zero (`ZeroInterval`) it
runs after everything due at the same time; otherwise it may run before any event
that still waits, and the model leaves all positions open. That is how a stopped head, which takes its cancelled handle for an idle
sender, passes a packet whose `Broadcast` survived the stop. `Fifo` and `LossyFifo` allow exactly this (`MayPass`, `Passes`): a packet
left behind by the stop may be passed by one that was not, and only if the interval is positive.

### ClusterHead and SensorCluster

A measurement is its number; packets carry it modulo `SeqSpace` (2^16 in the code). A row
remembers the node and the measurement it came from, which the code cannot see
and the properties need. `batches` is the history of what `StartNewSeq` compressed.

* `ReceiveSrc` = restart of the timeout (lines 444-446), then newer, current or expired (448-481); `m_nPktRxSeq_src` counts before the
  sequence check, the size check (`Misfit`) comes after it, as in the code.
* `StartNewSeq` includes `CompressNextSpat`, the packet creation and every reset.
* `TimeOut` is the timeout event; `Measure` replaces `yTemp` and sends nothing, because the head overrides
  `CreateCsPackets`.
* In `SensorCluster`, `SrcMeasure` measures and sends, `Deliver` and `Lose` empty the links. `Turn` expresses that all
  applications start at 0 s and share one `MeasInterval`.
* Packets of sources of other clusters are only traced by the head; they are not in the model.
* The head stops (`HeadStop`), and its callback goes on working, as in the code.

`setting` says what links and delays of a run guarantee, and never changes: may packets be lost (`lossy`), is the
timeout longer than any packet takes from source to head (`timeoutWaits`), is the measurement interval longer than both
(`measureWaits`)? With all guarantees off the model covers every timing; a run looks at all its `Settings`.

`timeoutWaits` does not mean that the links are empty when the timeout runs. `started` remembers what every source had measured when
the timeout was last restarted; packets of those measurements have arrived or are lost by the time it runs (`NoneOnTheWay`), later ones may be on the way.
`heard` is the latest measurement of which the head *received* a packet: a lost packet tells it nothing.

`NumbersFollow` is what the head promises the network about the numbers of its batches. They are not increasing: a packet that skips numbers
restarts the timeout with the number after the *old* one, so the head may go back, and close a number it has closed before with other rows. It goes
back no further than that packet took it forward.

### Sink and Uplinks

`inBuf` is the row buffer of the `Reconstructor` and its network coding matrix, row by row, kept as
the packets they came from; `precode[c]` is the diagonal of the precoding
matrix of cluster c. `parts` is the SrcInfo field: one bitset per cluster, and `IsSrcInfoSet` is
`.any()` of it (`cs-cluster-header.cc:53-57`): a head that sends a batch without
rows looks like a head that is not in the packet. `rec` is the last reconstruction.

* `Receive` = `ReceiveNewer`, `ReceiveCurrent` or `ReceiveExpired`: `cs-sink-app.cc:104-160`, including `StartNewSeq`,
  `Reset`, `BufferPacketData`, and the immediate `ReconstructNext` or the restart of the timeout.
* `WaitTimeOut` is the timeout event.
* In `Uplinks`, `HeadSend` sends up to `MaxPerBatch` packets of the next batch of a head. Its number is any that `NumbersFollow`
  allows (`MayFollow`): numbers are left out, the head goes back, and a number is used twice with different nodes, up to `MaxSends` batches. `info` is the
  history of numbers and `m_srcInfo`. `Combined` is what `DoRLNC` does to SrcInfo: for each cluster the nodes of one of its batches with the number, since
  one overwrites the other, or nothing for another cluster. In an ideal run every measurement is one batch, as `CompleteBatches` has it.

Left out: packets that do not come from a cluster head are dropped before
anything changes (lines 126-130); `recAttempt` is only logged.

### CsClusterHeader and NetworkCoding

`CsClusterHeader` has no state. A field of Bernoulli coefficients is a function from bytes to the four two-bit places
of a byte; `WriteBern` and `ReadBern` are the loops of `Serialize` and `Deserialize` (`cs-cluster-header.cc:331-362`, `202-231`), with
the full bytes and the last byte as the code treats them. Normal and uniform coefficients are copied.

In `NetworkCoding` the topology is any graph (`Out`). A packet is its header (`head`, `seq`, `field`, `src`, `cnt`), its
payload (`data`), and a history the code does not have: the batches it was made from (`origin`) and how often it was
recombined (`depth`). The payload is a linear combination of rows of samples, so it is kept as the coefficients
of that combination: whether the header tells the truth is a comparison of two vectors.

* `net` holds the attributes of a simulation (`NcEnable` and `NcShuffle` as `mode`, coefficient type, spatial compression, `NcIntervalTimeOut`,
  packet sizes, loss). They never change; one run looks at several settings.
* `StartNewSeq` closes any number at any time, also one closed before: what `ClusterHead` allows. It takes `CreateCsClusterPackets` with it,
  and the counter that is reset here only without buffering (523-529).
* `RLNetworkCoding` (317-403): `Group` and `Leaders` are the loops that take the packets of one sequence out of the buffer;
  `DoRLNC` combines one group, `Recombined` makes `NcPktPerLink` packets for every group, `Regrouped` is the shuffle mode.
  `NextIdle`, `Again` and `NcInterval` are the counter and the next event. `m_ncTimeOutCnt` is not told apart beyond the time out it is compared with.
* `Receive` (407-434) with `ReceiveCluster` (486-510): the counter first, then the limit and the size, then the buffer or the transmit queue.
* `StopApplication` cancels the event; the callback stays, so packets go on arriving.

Left out: the factors of `NcCoeffNorm`, by which header and payload are multiplied alike; the byte that `Deserialize` writes behind
a Bernoulli field (`cs-cluster-header.cc:229`), the lowest one of a sample.

### Common conventions

The models are of the optimised build, in which `NS_ASSERT` is empty; `failed`
remembers which assertions would have stopped a debug build. Reading or writing
outside a container is undefined: the behaviour stops there (`Crashed`) and no
property claims anything after it. Definitions ending in `Wrong` are plausible
mistakes in the definition they precede; each property is known to catch the one
`PROJECT.json` pairs it with.

## 3. Runs

All runs set `CHECK_DEADLOCK FALSE`: input data ends, applications stop and the
bounds are reached, so the systems really come to rest.

| run | bounds | states | shows |
|---|---|---|---|
| `bq_lossy` | 6 packets, lists up to 3, both coin outcomes, positive interval, writes after stop | 9371 | order but for packets left behind by the stop, conservation, no stall, draining, refinement of `LossyFifo`; while nothing is skipped no assertion fails and a stopped source is silent |
| `bq_empty` | as `bq_lossy`, 5 packets | violated | a leftover retry finds the queue empty |
| `cl_lossy` | 2 sources, 3 measurements, 8 numbers, loss, without timing and with a timeout longer than any packet takes | 161766 | buffer fresh, rows have a timeout, right numbers, numbers that follow each other, no overflow, nothing twice, everything sent; with the long timeout only old packets expire |
| `cl_ideal` | 3 sources, one of a wrong size, 5 measurements, 3 numbers, no loss, both timings | 720 | complete batches across the wrap-around, every row under its number |
| `cl_late` | 2 sources, 3 measurements, no loss, long interval, timeout may be early | violated | a late packet makes the next round expire |
| `cl_owndata` | 2 sources, 3 measurements, loss, both timings | violated | the head's row under an earlier number |
| `sink` | 2 heads, 2 nodes each, 3 measurements, 2 and 3 batches of 1 packet each, 4 numbers, 2 packets to decode, all four modes | 282504 | fresh buffers, decoding, precoding but for numbers used twice, ideal counts, attempts only improve |
| `sink_waitall` | same, `WaitAllPackets` | violated | accepted packets reset before they are decoded |
| `sink_rxcount` | same, decode at once | violated | counts shifted after a lost sequence |
| `nc` | chain of 2 heads with 1 and 2 rows, 2 numbers, 2 and 1 batches, coefficients 1 and -1, five settings | 260674 | headers true, sequences apart, SrcInfo true, nothing forgotten, counts cover, all rows arrive |
| `nc_bern` | chain of 2 heads with 1 and 4 rows, Bernoulli | violated | a reader finds the coefficient of another row |
| `nc_max` | as `nc`, coding only, `NcMax` = 1 | violated | a packet recombined twice |

Why the bounds are enough. *Queue*: a list of three against a leftover retry is
more than the two packets the race of both chains needs, and six packets leave
room for a second list while both chains are active and for one after the stop: two chains with a `Broadcast` each, a stop that cancels
the younger, and a packet that passes the other (a run without the exception for packets left behind is violated). *Cluster*: three measurements are the shortest input in which the
timeout argument can be one behind and one ahead of a packet still on the way; two
sources give one early and one late link. With 3 numbers and 5 measurements `cl_ideal` passes
the wrap-around; with 8 numbers and 3 measurements the others never do, so a violation there is not an effect
of wrapping. *Sink*: one cluster may be slower than the other by a whole measurement,
stale precoding entries need a third one; three batches over three numbers are the shortest history in which a head goes back or uses a number twice (without that exception `PrecodeMatches` is violated); cluster a may send a batch without rows and
cluster b changes its nodes, the two ways in which entries become stale. `MinPackets` = 2 makes the first of two packets not enough. *Network coding*: a chain of two heads is the shortest network in which a packet is recombined
twice; the second buffer holds packets of both heads and of both numbers at once, and the first head may close a number twice
or close it without rows. With coefficients 1 and -1 rows cancel out. The five settings have every mode, every type of
coefficients, loss with a time out, and heads of unequal packet sizes. `NcPktPerLink` is 1; the proofs are for any.

Fairness. The simulator runs every event in its list, and a packet on a channel is
an event. So there is weak fairness on the queue's events, on the head's measurements and timeout, on the network coding event, on
a link's delivery-or-loss and on the sink's timeout: nothing else takes away an event that is due, and an event that is replaced
(the timeouts) is replaced by an event of the same kind. There is no fairness on stopping, on what applications write, nor on delivery against loss.

### What the violated runs say

1. `bq_empty`: with a transmission probability below one a skipped packet leaves a retry that
   `WriteBcPacketList` does not know of. A second chain can empty the queue first; the retry then takes the front of an
   empty vector (`cs-src-app.cc:344-347`). The proofs show that it cannot happen before a packet was skipped, so never with probability one, the default.
2. `cl_late`: an expired packet restarts the timeout with `m_nextSeq + 1`, so a head that is slightly too fast closes
   a sequence of which it has heard nothing and drops the next round as expired.
3. `cl_owndata`: after a round that is lost completely, the head's own row of a later measurement is sent under the earlier number.
4. `sink_waitall`: with `WaitAllPackets` a newer packet discards what was buffered before it was decoded.
5. `sink_rxcount`: the stream of packet counts skips sequences of which no packet arrived.
6. `nc_bern`: with more than four rows in the network, Bernoulli coefficients are read in reverse order in every full byte. Reading and
   writing twice restores them, so the sink is right or wrong depending on the number of hops (`FullBytesMirrored`, `TwiceIsTrue`).
7. `nc_max`: the counter of recombinations is copied and never incremented (`cs-cluster-app.cc:627`), so `NcMax` has no effect; `NeverCounted` proves
   that it is zero in every packet of every network.

Seen while reading, without a run: after the wrap-around the sink drops every packet as expired (no document
promises more than 65536 measurements); `Deserialize` writes a byte into the payload (`cs-cluster-header.cc:229`); the
drop cause for an unknown cluster is declared and never used; `cs-cluster-app.cc:385-386` shuffles a vector that is not
the one sent afterwards; a packet that starts a sequence is counted for the one it ends (`cs-cluster-app.cc:442`).

Two more departures show as the exceptions of properties that hold. A stopped head may send a packet before an older one (`MayPass`), although `m_bcPackets` is
called a FIFO (`cs-src-app.h:120, 130`): only with a transmission probability below one and a positive packet interval. And when a head closes a number
twice, the sink has one precoding for both batches and reconstructs the rows of one with the nodes of the other (`UsedTwice`).

## 4. Proofs

Proved with TLAPS for every value of the constants: every invariant and every action property that a passing run checks, and the
refinement. The named `ASSUME`s of the modules
say what kinds of values the constants have (bounds are naturals, `SeqSpace` is positive, the
sets of sources and clusters are finite, the head is not a source); TLC evaluates them in the passing runs.
Five theorems assume more, in their own statement, that sequence numbers do not wrap: `NeverOverflows` and `TimelyExpiry` that `MaxMeas <= SeqSpace`, and
`PrecodeCorrect` and the two of `IdealUplinksProofs` that `MaxBatches <= SeqSpace`. In the code this is up to 65536 measurements.
Beyond it the sink drops everything as expired, and two measurements of one source may share a number.

* **BroadcastQueueProofs.** The inductive invariant `IInv` is `TypeOK`, `Ordered` and `Handled`. `Ordered`: the packets sent, those
  in pending `Broadcast` events and those waiting are in the order of their numbers, but for packets left behind by the stop, which others may be before; those that wait are the last ones up to `written`. `Fifo` alone
  is not inductive, because it says nothing about packets not yet out. `Handled` says what `m_sendEvent` is good for: if any `Broadcast` that was not left behind is pending, then so is the one of
  the handle, and it is the youngest. Without it nothing would keep a new transmission from being started ahead of a running application's older packet. From `IInv`: `TypeCorrect`, `FifoHolds`. `NeverStalls` adds
  `NoStall` to it. `CertainTxSafe` and `StopIsSilent` need `OneSend`:
  as long as nothing is skipped the agenda is empty or holds one `Broadcast`. `NoneLostOrTwice` shows `Conserved`, which is inductive on top of `IInv`:
  every step moves packets from one place to another, and `Ordered` says that the packet it moves is in no other.
  `QueueIsLossyFifo` is the refinement: the abstract queue's pending packets are those that wait or are scheduled, its late ones those left behind. A `Broadcast` emits a packet that
  passes late ones only, because of `Ordered`; writing is a `Put`, skipping a loss, stopping a loss that leaves some behind, everything else is a stutter.
* **ClusterHeadProofs.** `HInv` is type, `SrcBufFresh` and `SourceRowsMatch`: the batch takes its number from `nextSeq`, so its rows are only right if the
  buffer's are. `CollectedRowsHaveTimer` adds `RowsHaveTimer`. `NumbersFollowAlways` adds that the number the head collects may follow the batches already sent (`MayFollow`), and so may the one the pending
  timeout would start, once the current one is sent (`TimerFollows`). No assumption on packets or timing.
* **SensorClusterProofs.** `ClusterHasHead` shows `Spec => HeadSpec`: each step of the cluster is a step of its head or
  leaves the head unchanged, and `ClusterBuffer` carries the head's theorems over. The rest is about the composition. `FInv` says that a
  link's measurements are increasing and not yet taken ones are later, and that buffered rows are *behind* the link: older than anything still on it. It holds however
  often sequence numbers wrap around. `NeverTwice` adds to it that all compressed rows are behind the links too, and the head's own older than the measurement it holds (`BInv`): so the next
  row the head compresses is new. `NeverOverflows` adds to `FInv` that a source has at most one row in the buffer (`OInv`); then an injection from rows into sources leaves room for the head's own
  row.
* **ClusterTimingProofs.** What is true only because of the delays. `TInv` adds to `FInv` that a link holds consecutive measurements (`InTurn`), that no node measures
  before all have measured what has passed any link (`Together`), and that what was `heard` has been measured by all; and, if the timeout waits, that the number the
  timeout would start is at most the one after what was heard, which all had measured when it was restarted (`TimerHeard`), and that the number collected is one that was heard, or the next with nothing older on any link
  (`NextSeqHeard`): the timeout started it, and what was on the way when it was restarted had arrived. `TimelyExpiry` follows: the head is ahead of a packet only if it heard of a later measurement. For runs that are ideal as well, `Round` describes a
  round from its first packet to its timeout: after `Done` batches the number is that of measurement `Done`, every node has measured that one or is about to, the buffer holds exactly the rows of those that passed, and
  the timeout is pending exactly if some are. `BatchesComplete` is the invariant `RInv` with it; numbers
  are compared only with their successors, so it holds across the wrap-around. `RowsMatchIdeally` adds that the head's own row, if it holds one, is of the number it collects (`SInv`), and covers a
  cluster without sources, where nothing is ever sent.
* **SinkProofs.** `SinkInv` is type, `BufferFresh`, both decoding properties and `TimerHasRows` (a pending timeout has rows
  to decode, without which "nothing is reconstructed from no rows" is not inductive). `AttemptsOnlyImprove` adds `RecBehind`: the last reconstruction is of an older sequence, or all it used is still buffered. `UplinksHasSink` carries it to the network. `PrecodeCorrect` needs `UInv`: every packet in
  the air or in the buffer is *truthful*, its SrcInfo of a cluster is that of a batch its head sent with the packet's number, and so is the precoding of every cluster with data in a buffered row (`PrecodeNamed`).
  `PrecodeMatches` itself is not inductive, for a number may be used a second time later. It follows because two different batches of one number are the exception it makes (`NamedMatches`).
* **IdealUplinksProofs.** In an ideal run there is a number `K` of measurements begun such that the run is `InStep(K)`: every head has sent `K` or `K - 1` batches, all packets made of the newest measurement are on the air
  or buffered at the sink, none of an older one is on the air, and the sink is at that measurement or the one before, with a count stored for every sequence that ended. None of these is inductive alone: a packet ends the sink's sequence only because
  nothing older can follow it, and that needs the heads in step. `CountsInStep` and `IdealDecodesAll` follow.
* **CsClusterHeaderProofs.** The library defines sums over finite sets by recursion over subsets and has no theorem about them, and an induction rule that takes a predicate cannot be instantiated here. So each fact about sums is
  proved from a smallest counterexample: among the sets for which it fails there is one of least cardinality (`SmallestSet`), which is not empty, and which without one of its elements is no counterexample. That gives existence, type and splitting of sums, and from those `RowsHavePlaces`: the
  index that `SetNcInfoNew` computes for a row is inside the field and no other row's. The size of the field is therefore proved to be a number; only that it is not zero is assumed.
  The rest is index arithmetic for any number of rows: an index is a byte and a place (`ByteLayout`, `PlaceOf`), and reading after writing takes
  it to its mirror image in a full byte and to itself in the last one.
* **NetworkCodingProofs.** `Inv` says of every packet in a buffer or on a link that it is `Good` (its count is zero, its header is true, its rows are of batches with its number, SrcInfo
  fits) and `Ahead`: every ranking of the heads that increases along the links ranks the head that made the packet no higher than the head that holds it or sent it. `Good` is preserved by a combination because all packets of a group
  are, and by new batches because `closed` only grows. `Ahead` is why, without cycles, a head never meets a packet of its own and therefore accepts all, on which `RowsStay` rests. The network, its size, the coefficients,
  the number of packets per group and the rows per head are arbitrary. `NetworkTypeCorrect` adds `TypesInv`: what a head makes of packets is a packet again, which is `DoRLNCTyped` with the sums of `CsClusterHeaderProofs`; a packet's field is as long as the type of coefficients of the
  simulation makes it (`TypedField`), without which combining would not preserve it.

Only model-checked:

* liveness (`Drains`, `RowsAreSent`, `EventuallyDecoded`, `AllArrive`): fairness and `ENABLED` are beyond the prover;
* the counterexamples of the runs that expect a violation, which are found and not proved.

## 5. Not modelled

* Sample values, noise, compression and solver arithmetic (`Compressor`, `RandomMatrix`, `TransMatrix`, `CsAlgorithm*`): numerics
  over doubles; no protocol decision depends on the values.
* Heads in `Uplinks` do not stop, and their links keep the order; what a stopped head does to the order of its packets is in `BroadcastQueue`.
* The values in payloads, the factors of `NcCoeffNorm`, and the headers' other fields as bytes: they are copied, and read in the order in which they are written.
* Device queue: `MySimpleNetDevice` takes a packet out of its queue in the call that puts it in, so the queue is always empty between
  events; packets of one node have one size and one rate, so they arrive in order.
* `MatFileHandler`, MATLAB scripts, helpers, scripts, configuration objects, `SimpleSrcApp`, ns-3: file I/O, set-up, prototype and external code.

## 6. Plan

Done: (1) `LossyFifo`, `BroadcastQueue`; (2) `ClusterHead`, `SensorCluster`; (3) `Sink`, `Uplinks`; (4) `CsClusterHeader`, `NetworkCoding`; their runs and the proofs above.

Next, in this order:

1. The sink behind `NetworkCoding` in place of the heads of `Uplinks`, for networks in which a packet takes several hops.
2. `TimelyExpiry` and `PrecodeCorrect` across the wrap-around: both compare numbers, so they would need a bound on how far apart two nodes can be.
3. `SimpleSrcApp`, if anything in the repository still uses it.
