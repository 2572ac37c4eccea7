------------------------------ MODULE MCBilling ------------------------------
(* Instances of Billing for TLC.                                            *)
EXTENDS Billing, TLC

\* Every top-up pays for exactly one renewal.
OnePrice == [t \in Topups |-> Price]

\* Workers are interchangeable, and so are top-ups of the same amount.
RequestSymmetry == Permutations(Workers) \cup Permutations(Topups)
=============================================================================
