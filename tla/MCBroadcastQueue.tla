-------------------------- MODULE MCBroadcastQueue --------------------------
(* BroadcastQueue on small instances.                                      *)
EXTENDS BroadcastQueue

Sometimes == {TRUE, FALSE}
=============================================================================
