------------------------- MODULE MCSensorCluster -------------------------
(* SensorCluster on small instances.                                       *)
EXTENDS SensorCluster

TwoSources   == {1, 2}
ThreeSources == {1, 2, 3}
OneMisfit    == {2}

Setting(lossy, timeout, measure) ==
  [lossy |-> lossy, timeoutWaits |-> timeout, measureWaits |-> measure]

Untimed == {Setting(TRUE, FALSE, FALSE)}
Lossy   == Untimed \cup {Setting(TRUE, TRUE, FALSE)}
Timed   == {Setting(TRUE, TRUE, TRUE)}
Late    == {Setting(FALSE, FALSE, TRUE)}
Perfect == {Setting(FALSE, TRUE, TRUE)}
=============================================================================
