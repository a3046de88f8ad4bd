------------------------------ MODULE MCUpload ------------------------------
(* Upload on small sets, for TLC. *)
EXTENDS Upload, TLC

\* The files that need a multipart upload are interchangeable.
Symmetric == Permutations(Files \ Small)
=============================================================================
