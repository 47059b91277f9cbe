----------------------------- MODULE BlockChannel -----------------------------
(***************************************************************************)
(* What the block queue and the always reply promise the controller: the   *)
(* finished blocks arrive at most once, no number is used twice, and a     *)
(* block that is given up never comes back.  Which blocks are given up is  *)
(* left open (a full queue, a lost reply).                                 *)
(***************************************************************************)
EXTENDS Naturals

\* A block is a record with the end that counted it and its number n.
VARIABLES pending,     \* finished, neither delivered nor given up
          delivered

Init == pending = {} /\ delivered = {}

\* A newer block finishes; older ones may be given up for it.
Finish ==
    \E b \in pending' :
        /\ \A old \in pending \cup delivered : old.end = b.end => old.n < b.n
        /\ pending' \subseteq pending \cup {b}
        /\ UNCHANGED delivered

Deliver ==
    /\ delivered \subseteq delivered' /\ delivered' \subseteq delivered \cup pending
    /\ pending' = pending \ delivered'

GiveUp ==
    /\ pending' \subseteq pending
    /\ UNCHANGED delivered

Next == Finish \/ Deliver \/ GiveUp

Spec == Init /\ [][Next]_<<pending, delivered>>
=============================================================================
