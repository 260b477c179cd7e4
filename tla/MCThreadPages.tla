---------------------------- MODULE MCThreadPages ----------------------------
(* Instances of ThreadPages for TLC.                                       *)
EXTENDS ThreadPages
=============================================================================
