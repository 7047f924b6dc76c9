--------------------------- MODULE MCNetworkCoding ---------------------------
(* NetworkCoding on small instances.                                       *)
EXTENDS NetworkCoding

(* Head 0 has one row and leads to head 1, which has two and leads to the  *)
(* sink.  A batch of head 0 may be without rows.                           *)
ChainRows   == [h \in 0..1 |-> h + 1]
ChainOut    == [h \in 0..1 |-> IF h = 0 THEN {1} ELSE {Sink}]
ChainNodes  == [h \in 0..1 |-> IF h = 0 THEN {{}, {0}} ELSE {{0, 1}}]
ChainClosed == [h \in 0..1 |-> 2 - h]

TwoNumbers == {0, 1}
Signs      == {1, -1}

Setting(mode, coeff, spatial, timeOut, lossy) ==
  [mode |-> mode, coeff |-> coeff, spatial |-> spatial, timeOut |-> timeOut,
   size |-> [h \in 0..1 |-> 1], lossy |-> lossy]

Coding == Setting("code", "NORMAL", TRUE, 0, FALSE)
ManySettings ==
  {Coding,
   Setting("code", "UNI", TRUE, 1, TRUE),
   Setting("shuffle", "BERN", TRUE, 0, FALSE),
   Setting("relay", "BERN", FALSE, 0, FALSE),
   [Coding EXCEPT !.size = [h \in 0..1 |-> h], !.spatial = FALSE]}
CodingOnly == {Coding}

(* Five rows take two bytes.                                               *)
FiveRows    == [h \in 0..1 |-> IF h = 0 THEN 1 ELSE 4]
Bernoulli   == {Setting("relay", "BERN", TRUE, 0, FALSE), Setting("code", "BERN", TRUE, 0, FALSE)}
=============================================================================
