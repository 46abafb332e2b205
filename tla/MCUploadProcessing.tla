-------------------------- MODULE MCUploadProcessing --------------------------
(* Instances of UploadProcessing: a session of one or two files.           *)
EXTENDS UploadProcessing, TLC

CONSTANTS f1, f2, w1, w2

Symmetry == Permutations(File) \cup Permutations(Worker)
=============================================================================
