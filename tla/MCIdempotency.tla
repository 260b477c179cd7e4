--------------------------- MODULE MCIdempotency -----------------------------
(* Instances of Idempotency for TLC.                                       *)
EXTENDS Idempotency

CONSTANTS a1, a2, k1, k2, o1, o2, o3, o4, o5

\* o1 and o2 are one write of a1, sent by two processes.  o3, o4 and o5 use
\* one key for two agents and for two kinds.
MCAgentOf == [o \in Requests |-> IF o \in {o1, o2, o4} THEN a1 ELSE a2]
MCKeyOf   == [o \in Requests |-> IF o \in {o1, o2} THEN k1 ELSE k2]
MCKindOf  == [o \in Requests |-> IF o \in {o3, o4} THEN "thread" ELSE "post"]
=============================================================================
