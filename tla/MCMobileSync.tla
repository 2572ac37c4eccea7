---------------------------- MODULE MCMobileSync ----------------------------
(* Instances of MobileSync for TLC.                                         *)
EXTENDS MobileSync, TLC
=============================================================================
