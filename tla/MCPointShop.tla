----------------------------- MODULE MCPointShop ----------------------------
(* PointShop for TLC: three calls on one account that is one purchase away from the *)
(* limit of its inventory and of its trunk.                                         *)
EXTENDS PointShop, TLC

Symmetric == Permutations(Calls)
=============================================================================
