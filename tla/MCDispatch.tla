------------------------------ MODULE MCDispatch ------------------------------
(***************************************************************************)
(* Instances of Dispatch for TLC.  The names na, nb, nc are nodes; nb2 is  *)
(* the spelling of nb that BIRD protocol names can carry.                  *)
(***************************************************************************)
EXTENDS Dispatch, TLC

CONSTANTS na, nb, nc, nb2, rb, iab, icb, iba

Link(f, t, i) == [from |-> f, to |-> t, interface |-> i]

\* Agents na and nc, both linked to nb: their tests would share nb.
StarAgents == {na, nc}
StarNames == {na, nb, nc}
StarKey   == [n \in StarNames |-> n]
StarLinks == {Link(na, nb, iab), Link(nc, nb, icb)}
StarIfs   == {iab, icb}
StarNoRid == [n \in StarAgents |-> NoRid]
StarPeers == [i \in StarIfs |-> NoRid]
StarReports == [n \in StarAgents |-> {{l \in StarLinks : l.from = n}}]

\* Agents na and nb and the tunnel between them: na reports nb under its BIRD
\* spelling, nb reports no links.
PairNames  == {na, nb}
PairPeers  == [i \in {iab} |-> NoRid]
SpeltNames  == {na, nb, nb2}
SpeltKey    == [n \in SpeltNames |-> IF n = nb2 THEN nb ELSE n]
SpeltLinks  == {Link(na, nb, iab), Link(na, nb2, iab)}
SpeltReports == [n \in PairNames |-> IF n = na THEN {{Link(na, nb2, iab)}} ELSE {{}}]
SpeltNoRid  == [n \in PairNames |-> NoRid]

\* The same, with nb reporting its end of the tunnel, which may go and come
\* back; nb has a router id, which na's end shows.
EndsLinks   == SpeltLinks \cup {Link(nb, na, iba)}
EndsReports == [n \in PairNames |->
    IF n = na THEN {{Link(na, nb2, iab)}} ELSE {{Link(nb, na, iba)}, {}}]
EndsRids    == [n \in PairNames |-> IF n = nb THEN rb ELSE NoRid]
EndsIfs     == {iab, iba}
EndsPeers   == [i \in EndsIfs |-> IF i = iab THEN rb ELSE NoRid]

\* Bound: costs are derived for the links of na.
CostsOfOneEnd == kvCost[Link(nb, na, iba)] = NoCost

IdSymmetry == Permutations(Ids)
ConnIdSymmetry == Permutations(Ids) \cup Permutations(Conns)
=============================================================================
