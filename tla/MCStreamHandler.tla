--------------------------- MODULE MCStreamHandler ---------------------------
(* Instances of StreamHandler for TLC.                                     *)
EXTENDS StreamHandler
=============================================================================
