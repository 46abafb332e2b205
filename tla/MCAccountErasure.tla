--------------------------- MODULE MCAccountErasure ---------------------------
(* Instances of AccountErasure: a personal document p, one of an           *)
(* organization k, and an export.                                          *)
EXTENDS AccountErasure, TLC

CONSTANTS e1, p, k, w1, w2

Symmetry == Permutations(Worker)
=============================================================================
