---------------------------- MODULE MCTranscode ----------------------------
(* Transcode on small sets, for TLC. *)
EXTENDS Transcode, TLC

\* Requests, workers and job rows are interchangeable (safety runs only).
Symmetric == Permutations(Requests) \cup Permutations(Workers) \cup Permutations(Jobs)
=============================================================================
