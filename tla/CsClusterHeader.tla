--------------------------- MODULE CsClusterHeader ---------------------------
(***************************************************************************)
(* The NcInfo field of CsClusterHeader: the network coding coefficients of *)
(* a packet, one for each row of each cluster, and how they are written to *)
(* a packet and read from it.                                              *)
(*                                                                         *)
(* Coefficients are integers here.  Normal and uniform ones are copied as  *)
(* they are.  Bernoulli ones have two bits each, four to a byte: a byte is *)
(* a function of the places 0..3, from the least significant bits on, and  *)
(* the codes 00, 01 and 10 are written as the values 0, 1 and -1 that they *)
(* stand for.                                                              *)
(***************************************************************************)
EXTENDS Integers, FiniteSets, FiniteSetsExt

CONSTANT Lk   \* m_lk: the rows of every cluster; cluster ids begin at 0

ClusterIds == DOMAIN Lk

(* Setup: m_ncInfoSize, and the index at which the rows of cluster c begin.*)
RowsOf(cs) == MapThenSumSet(LAMBDA c : Lk[c], cs)
NcInfoSize == RowsOf(ClusterIds)
Offset(c)  == RowsOf({k \in ClusterIds : k < c})

ASSUME LkAssumption ==
  IsFiniteSet(ClusterIds) /\ ClusterIds \subseteq Nat /\ Lk \in [ClusterIds -> Nat]
ASSUME SizeAssumption == NcInfoSize # 0

Index      == 0..(NcInfoSize - 1)
CoeffTypes == {"NORMAL", "UNI", "BERN"}

(* SetNcInfoNew: row i of cluster c as it was before any recombination.    *)
UnitVector(c, i) == [k \in Index |-> IF k = Offset(c) + i THEN 1 ELSE 0]

PerByte    == 4                                         \* COEFF_BERN_PER_BYTE
NBytes     == 1 + (NcInfoSize * 2 - 1) \div 8
LastByte   == NBytes - 1
Remain     == NcInfoSize - PerByte * LastByte
Places     == 0..(PerByte - 1)
BernValues == {-1, 0, 1}

(* WriteBernCoeffToByte: of a coefficient only the sign is written.        *)
Sign(x) == IF x > 0 THEN 1 ELSE IF x < 0 THEN -1 ELSE 0

(* A full byte is filled from its least significant bits, the last one     *)
(* from its most significant.                                              *)
FullByte(v, j) == [i \in Places |-> Sign(v[PerByte * j + i])]
EndByte(v) ==
  [i \in Places |-> IF 3 - i < Remain THEN Sign(v[PerByte * LastByte + 3 - i]) ELSE 0]

WriteBern(v) == [j \in 0..LastByte |-> IF j < LastByte THEN FullByte(v, j) ELSE EndByte(v)]

ReadBernSamePlaceWrong(w) == [k \in Index |-> w[k \div PerByte][k % PerByte]]

(* Both branches of Deserialize take a byte's coefficients from its most   *)
(* significant bits on.                                                    *)
ReadBern(w) == [k \in Index |-> w[k \div PerByte][3 - (k % PerByte)]]

Serialize(type, v)   == IF type = "BERN" THEN WriteBern(v) ELSE v
Deserialize(type, w) == IF type = "BERN" THEN ReadBern(w) ELSE w

Fields == [Index -> Int] \cup [0..LastByte -> [Places -> BernValues]]
=============================================================================
