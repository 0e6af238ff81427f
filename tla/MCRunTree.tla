------------------------------ MODULE MCRunTree ------------------------------
(* TLC instances of RunTree: ids and calls as symmetric model values.      *)
EXTENDS RunTree, TLC

CONSTANTS c1, c2, c3, i1, i2, i3

MCCalls == {c1, c2, c3}
MCIds == {i1, i2, i3}
MCSymmetry == Permutations(MCCalls) \cup Permutations(MCIds)
==============================================================================
