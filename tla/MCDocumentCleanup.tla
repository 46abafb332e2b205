------------------------- MODULE MCDocumentCleanup -------------------------
(* Instances of DocumentCleanup: two versions of one document that share   *)
(* their first file (a legacy copy), and replacement uploads of the first. *)
EXTENDS DocumentCleanup, TLC

CONSTANTS v1, v2, a, b, c, r1, r2

Versions  == {v1, v2}
Shared    == [v \in Versions |-> a]
One       == [v \in {v1} |-> a]
ToFirst   == [u \in Replacement |-> v1]
Symmetry  == Permutations(Runner)
=============================================================================
