---------------------------- MODULE MCGenerations ----------------------------
(* Generations, for TLC.                                                   *)
EXTENDS Generations, TLC

CONSTANTS m1, m2

Symmetric == Permutations(Mems)
=============================================================================
