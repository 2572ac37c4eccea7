-------------------------- MODULE MCSendRateLimit --------------------------
(* Instances of SendRateLimit for TLC.                                      *)
EXTENDS SendRateLimit, TLC

CONSTANTS c1, c2, c3, p1, p2, LimitHour, LimitDay

\* Which process each caller runs in: two requests of one process, one of another.
Placement == (c1 :> p1) @@ (c2 :> p1) @@ (c3 :> p2)
Limits    == [w \in Windows |-> IF w = "hour" THEN LimitHour ELSE LimitDay]
=============================================================================
