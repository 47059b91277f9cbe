------------------------------- MODULE MCGossip -------------------------------
(***************************************************************************)
(* Instances of Gossip for TLC.                                            *)
(***************************************************************************)
EXTENDS Gossip

CONSTANTS
    v,          \* what a dimension measures
    a, b, c     \* members

Only(d, x) == [e \in Dims |-> IF e = d THEN x ELSE NoVal]

OneReport == {Only("probe", v)}

EachOther == [m \in Members |-> Members \ {m}]

EveryPair == Members \X Members

\* A member that reports, a peer, and a peer no packet reaches.
Fan == [m \in Members |-> IF m = a THEN {b, c} ELSE {}]

OnePair == {<<a, b>>}
=============================================================================
