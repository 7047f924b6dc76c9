----------------------------- MODULE MCUplinks -----------------------------
(* Uplinks on small instances.                                             *)
EXTENDS Uplinks

TwoClusters == {"a", "b"}
TwoNodes    == {1, 2}
(* One head may have nothing to send, the other one changes its nodes.     *)
TwoSets     == [c \in TwoClusters |-> IF c = "a" THEN {{}, {1}} ELSE {{1}, {2}}]
(* The other one may also use a number twice.                              *)
Sends       == [c \in TwoClusters |-> IF c = "a" THEN 2 ELSE 3]
Both        == {TRUE, FALSE}
Yes         == {TRUE}
No          == {FALSE}
=============================================================================
