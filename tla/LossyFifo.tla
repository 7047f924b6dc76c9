----------------------------- MODULE LossyFifo -----------------------------
(***************************************************************************)
(* What the transmit side of CsSrcApp promises to the network: packets are *)
(* numbered in the order in which they are handed over, every packet is in *)
(* one place, and what comes out comes out in that order.  Any packet may  *)
(* be lost on the way (the transmission probability, a stopped             *)
(* application); none is duplicated or invented.  The sender may once,     *)
(* when it is stopped, leave some of the pending packets behind: these are *)
(* late, and packets that are not late may pass them.                      *)
(***************************************************************************)
EXTENDS Naturals, Sequences

CONSTANTS MaxPkts,     \* number of packets ever handed over (bound)
          MaxList      \* longest list handed over in one call (bound)

VARIABLES count,       \* packets handed over so far
          pending,     \* accepted, not lost and not yet out
          late,        \* packets left behind
          out          \* what came out, in order

fifoVars == <<count, pending, late, out>>

FifoInit == count = 0 /\ pending = {} /\ late = {} /\ out = <<>>

Put(k) ==
  /\ count + k <= MaxPkts
  /\ count' = count + k
  /\ pending' \in SUBSET (pending \cup ((count + 1)..(count + k)))
  /\ UNCHANGED <<late, out>>

(* The older of two packets has the lower number.                          *)
Passes(p, q) == q < p => q \in late /\ p \notin late

Emit ==
  \E p \in pending :
    /\ \A q \in pending : Passes(p, q)
    /\ out' = Append(out, p)
    /\ pending' \in SUBSET (pending \ {p})
    /\ UNCHANGED <<count, late>>

Lose ==
  /\ pending' \in SUBSET pending
  /\ UNCHANGED <<count, late, out>>

LeaveBehind ==
  /\ late = {}
  /\ pending' \in SUBSET pending
  /\ late' \in SUBSET pending'
  /\ UNCHANGED <<count, out>>

FifoNext == (\E k \in 1..MaxList : Put(k)) \/ Emit \/ Lose \/ LeaveBehind

FifoSpec == FifoInit /\ [][FifoNext]_fifoVars
=============================================================================
