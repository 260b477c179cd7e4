------------------------------ MODULE MCInbox -------------------------------
(* Instances of Inbox for TLC.                                             *)
EXTENDS Inbox, TLC

CONSTANTS reader, writer, w1, w2

\* Every worker polls for the one reading agent.
MCAgentOf == [w \in Workers |-> reader]

AllReasons == Reasons

\* Bound: a third event or a fault, not both.
FewEventsOrNoFault == Len(log) <= 2 \/ faults = 0
=============================================================================
