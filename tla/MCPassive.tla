------------------------------- MODULE MCPassive -------------------------------
(***************************************************************************)
(* Instances of Passive for TLC.                                           *)
(***************************************************************************)
EXTENDS Passive
=============================================================================
