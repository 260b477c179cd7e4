------------------------------- MODULE MCWire -------------------------------
(* Module Wire with a second version that extends a nested message, a        *)
(* request and an enum.                                                      *)
EXTENDS Wire

MCGrown == {"Thread", "CreatePostRequest", "EventType"}
=============================================================================
