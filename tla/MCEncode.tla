------------------------------ MODULE MCEncode ------------------------------
(* Encode on a few sources, for TLC. *)
EXTENDS Encode

\* A film of two hours behind a URL, of two rungs and so narrow that few of
\* its tiles fit under each other; and a source no sprite can be made of.
FewSources ==
    { [w |-> 480, h |-> 6000, dur |-> 7200, via |-> "url"],
      [w |-> 2, h |-> 1000, dur |-> 60, via |-> "local"] }
=============================================================================
