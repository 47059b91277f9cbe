------------------------------ MODULE MCProbing ------------------------------
(***************************************************************************)
(* Instances of Probing for TLC: the tunnel i, whose name stands for       *)
(* nobody, and commands that test it.                                      *)
(***************************************************************************)
EXTENDS Probing

ToP == [i \in Ifaces |-> "p"]
NoToken == [i \in Ifaces |-> None]
TwoTests == {<<"c1", "i">>, <<"c2", "i">>}
=============================================================================
