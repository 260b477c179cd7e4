----------------------------- MODULE AtLeastOnce -----------------------------
(***************************************************************************)
(* What the inbox promises to one reader, whatever it is built from: an    *)
(* at-least-once feed over a growing log.  Events are numbered in the      *)
(* order they are posted.  Some are owed to the reader, until it no longer *)
(* wants them.  Events are delivered, in any order and any number of       *)
(* times, owed or not.  The reader can restart from its resume point at    *)
(* any time, so the resume point may go back as it likes, but forward only *)
(* over owed events that have been delivered.                              *)
(***************************************************************************)
EXTENDS Naturals

VARIABLES
  posted,     \* how many events there are
  owed,       \* the events owed to the reader
  delivered,  \* the events it has been given
  resume      \* it has no need of the events up to here

vars == <<posted, owed, delivered, resume>>

Init ==
  /\ posted = 0
  /\ owed = {}
  /\ delivered = {}
  /\ resume = 0

Post ==
  /\ posted' \in Nat
  /\ posted' > posted
  /\ owed \subseteq owed'
  /\ owed' \ owed \subseteq (posted + 1) .. posted'
  /\ UNCHANGED <<delivered, resume>>

Forget ==
  /\ owed' \subseteq owed
  /\ UNCHANGED <<posted, delivered, resume>>

Deliver ==
  /\ delivered \subseteq delivered'
  /\ delivered' \subseteq 1 .. posted
  /\ UNCHANGED <<posted, owed, resume>>

\* The resume point moves, possibly with the delivery that allows it.
MoveTo ==
  /\ delivered \subseteq delivered'
  /\ delivered' \subseteq 1 .. posted
  /\ resume' \in 0 .. posted
  /\ \A s \in owed : s <= resume' => s \in delivered'
  /\ UNCHANGED <<posted, owed>>

Next == Post \/ Forget \/ Deliver \/ MoveTo

Spec == Init /\ [][Next]_vars
=============================================================================
