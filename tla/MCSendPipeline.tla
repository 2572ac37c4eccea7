--------------------------- MODULE MCSendPipeline ---------------------------
(* Instances of SendPipeline for TLC.                                       *)
EXTENDS SendPipeline, TLC

\* Rows are interchangeable, and so are processes and request slots.
RowSymmetry == Permutations(Emails) \cup Permutations(Procs) \cup Permutations(Requests)
=============================================================================
