-------------------------- MODULE MCGenerationLease --------------------------
(* Instances of GenerationLease: a review of one or two rows.  The rows are *)
(* interchangeable.                                                        *)
EXTENDS GenerationLease, TLC

CONSTANTS r1, r2, c1

Symmetry == Permutations(Row)
=============================================================================
