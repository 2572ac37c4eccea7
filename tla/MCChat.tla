------------------------------- MODULE MCChat -------------------------------
(* Instances of Chat for TLC.                                               *)
EXTENDS Chat, TLC

\* Requests in progress are interchangeable.
WorkerSymmetry == Permutations(Workers)
=============================================================================
