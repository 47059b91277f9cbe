---------------------------- MODULE MCCostControl ----------------------------
(***************************************************************************)
(* Instances of CostControl for TLC: the agent na with its link to nb.     *)
(***************************************************************************)
EXTENDS CostControl, TLC

CONSTANTS na, nb, iab

Only == [from |-> na, to |-> nb, interface |-> iab]

OnlyLink   == {Only}
OwnKey     == [n \in {na, nb} |-> n]
NoRouterId == [n \in {na} |-> NoRid]
NoPeerRid  == [i \in {iab} |-> NoRid]

Symmetry == Permutations(Ids) \cup Permutations(Costs)
=============================================================================
