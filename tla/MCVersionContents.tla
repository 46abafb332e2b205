-------------------------- MODULE MCVersionContents ------------------------
(* Instances of VersionContents for TLC.                                   *)
EXTENDS VersionContents, TLC

Symmetry == Permutations(Edit) \cup Permutations(Request)
            \cup Permutations(Worker)
=============================================================================
