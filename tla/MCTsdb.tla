-------------------------------- MODULE MCTsdb --------------------------------
(***************************************************************************)
(* Instances of Tsdb for TLC.                                              *)
(***************************************************************************)
EXTENDS Tsdb

CONSTANT v      \* the value a dimension measures

Only(d) == [e \in Dims |-> IF e = d THEN v ELSE NoVal]

\* A probe, and the result that is joined onto its second.
TwoReports == {Only("probe"), Only("joined")}
=============================================================================
