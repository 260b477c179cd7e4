------------------------------ MODULE MCSession ------------------------------
(* Instances of Session for TLC.                                           *)
EXTENDS Session

CONSTANTS bio, metadata, v

\* A text, or metadata that clears what was there.
MCForms ==
  {[NothingGiven EXCEPT ![bio] = v], [NothingGiven EXCEPT ![metadata] = Blank]}
=============================================================================
