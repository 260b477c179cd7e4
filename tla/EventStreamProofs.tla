------------------------- MODULE EventStreamProofs ---------------------------
(***************************************************************************)
(* Proofs about module EventStream: what a tab shows, what the ack button  *)
(* covers, and that the browser implements an at-least-once feed, for any  *)
(* number of tabs, topics, events and faults, and any size of a page.      *)
(***************************************************************************)
EXTENDS EventStream, FiniteSetTheorems, SequenceTheorems, TLAPS

-----------------------------------------------------------------------------
(* Pages and lists.                                                        *)

LEMMA PageEndIsThere ==
  ASSUME TypeOK, NEW n \in 0 .. Len(log)
  PROVE  PageEnd(n) \in n .. Len(log)
<1>1. Len(log) \in Nat
  BY DEF TypeOK
<1> QED BY <1>1, StreamAssumption DEF PageEnd

\* What a page has for an agent lies on it.
LEMMA FoundOnPage ==
  ASSUME TypeOK, NEW n \in 0 .. Len(log), NEW agent, NEW s \in Found(n, agent)
  PROVE  s \in Nat /\ n < s /\ s <= PageEnd(n)
<1>1. PageEnd(n) \in Int
  BY PageEndIsThere
<1> QED BY <1>1 DEF Found

\* A set of sequences in ascending order.
LEMMA AscendingIsSequence ==
  ASSUME NEW S \in SUBSET Nat, IsFiniteSet(S), NEW q \in Ascending(S)
  PROVE  /\ q \in Seq(Nat)
         /\ Elements(q) = S
         /\ \A i, j \in DOMAIN q : i < j => q[i] < q[j]
<1>1. Cardinality(S) \in Nat
  BY FS_CardinalityType
<1>2. q \in [1 .. Cardinality(S) -> S]
  BY DEF Ascending
<1>3. q \in [1 .. Cardinality(S) -> Nat]
  BY <1>2
<1>4. q \in Seq(Nat)
  BY <1>1, <1>3, SeqDef
<1> QED BY <1>4 DEF Ascending

\* One list behind another.
LEMMA ElementsOfBoth ==
  ASSUME NEW p \in Seq(Nat), NEW q \in Seq(Nat)
  PROVE  /\ p \o q \in Seq(Nat)
         /\ Elements(p \o q) = Elements(p) \cup Elements(q)
<1>1. /\ p \o q \in Seq(Nat)
      /\ Len(p \o q) = Len(p) + Len(q)
      /\ \A i \in 1 .. Len(p) + Len(q) :
           (p \o q)[i] = IF i <= Len(p) THEN p[i] ELSE q[i - Len(p)]
  OBVIOUS
<1>2. \A x \in Elements(p \o q) : x \in Elements(p) \cup Elements(q)
  BY <1>1 DEF Elements
<1>3. \A i \in DOMAIN p : p[i] = (p \o q)[i] /\ i \in DOMAIN (p \o q)
  BY <1>1
<1>4. ASSUME NEW i \in DOMAIN q
      PROVE  q[i] = (p \o q)[i + Len(p)] /\ i + Len(p) \in DOMAIN (p \o q)
  <2>1. i \in Nat /\ 1 <= i /\ i <= Len(q) /\ Len(p) \in Nat
    OBVIOUS
  <2>2. i + Len(p) \in 1 .. Len(p) + Len(q) /\ ~ (i + Len(p) <= Len(p))
        /\ (i + Len(p)) - Len(p) = i
    BY <2>1
  <2>3. DOMAIN (p \o q) = 1 .. Len(p) + Len(q)
    BY <1>1
  <2> QED BY <1>1, <2>2, <2>3
<1>5. \A x \in Elements(p) : x \in Elements(p \o q)
  BY <1>3 DEF Elements
<1>6. \A x \in Elements(q) : x \in Elements(p \o q)
  BY <1>4 DEF Elements
<1> QED BY <1>1, <1>2, <1>5, <1>6

LEMMA AscendingBoth ==
  ASSUME NEW p \in Seq(Nat), NEW q \in Seq(Nat),
         \A i, j \in DOMAIN p : i < j => p[i] < p[j],
         \A i, j \in DOMAIN q : i < j => q[i] < q[j],
         \A i \in DOMAIN p, j \in DOMAIN q : p[i] < q[j]
  PROVE  \A i, j \in DOMAIN (p \o q) : i < j => (p \o q)[i] < (p \o q)[j]
<1>1. /\ p \o q \in Seq(Nat)
      /\ Len(p \o q) = Len(p) + Len(q)
      /\ \A i \in 1 .. Len(p) + Len(q) :
           (p \o q)[i] = IF i <= Len(p) THEN p[i] ELSE q[i - Len(p)]
  OBVIOUS
<1> SUFFICES ASSUME NEW i \in 1 .. Len(p) + Len(q), NEW j \in 1 .. Len(p) + Len(q), i < j
             PROVE  (p \o q)[i] < (p \o q)[j]
  BY <1>1
<1>2. CASE j <= Len(p)
  BY <1>1, <1>2
<1>3. CASE i <= Len(p) /\ j > Len(p)
  <2>1. i \in DOMAIN p /\ j - Len(p) \in DOMAIN q
    BY <1>3
  <2> QED BY <1>1, <1>3, <2>1
<1>4. CASE i > Len(p)
  <2>1. i - Len(p) \in DOMAIN q /\ j - Len(p) \in DOMAIN q /\ i - Len(p) < j - Len(p)
    BY <1>4
  <2> QED BY <1>1, <1>4, <2>1
<1> QED BY <1>2, <1>3, <1>4

-----------------------------------------------------------------------------
(* Types.                                                                  *)

Frame == [events : SUBSET Nat, next : Nat]

\* The frame ingest takes, and what it adds to the list.
LEMMA FrameTaken ==
  ASSUME TypeOK, NEW t \in Tabs, WireOK(t), wire[t] # << >>
  PROVE  /\ Head(wire[t]) \in Frame
         /\ Head(wire[t]) = wire[t][1] /\ 1 \in DOMAIN wire[t]
         /\ Tail(wire[t]) \in Seq(Frame)
         /\ \A i \in DOMAIN Tail(wire[t]) :
              i + 1 \in DOMAIN wire[t] /\ Tail(wire[t])[i] = wire[t][i + 1]
         /\ \A i \in DOMAIN wire[t] : i # 1 =>
              i - 1 \in DOMAIN Tail(wire[t]) /\ Tail(wire[t])[i - 1] = wire[t][i]
         /\ Head(wire[t]).events \in SUBSET Events
         /\ Head(wire[t]).next \in Events
         /\ Head(wire[t]).next > cursor[t]
         /\ IsFiniteSet(Head(wire[t]).events)
<1>1. wire[t] \in Seq(Frame)
  BY DEF TypeOK, Frame
<1>2. /\ Head(wire[t]) \in Frame
      /\ Head(wire[t]) = wire[t][1] /\ 1 \in DOMAIN wire[t]
      /\ Tail(wire[t]) \in Seq(Frame)
      /\ \A i \in DOMAIN Tail(wire[t]) :
           i + 1 \in DOMAIN wire[t] /\ Tail(wire[t])[i] = wire[t][i + 1]
      /\ \A i \in DOMAIN wire[t] : i # 1 =>
           i - 1 \in DOMAIN Tail(wire[t]) /\ Tail(wire[t])[i - 1] = wire[t][i]
  BY <1>1
<1>3. /\ Len(log) \in Nat /\ cursor[t] \in Nat /\ position[t] \in 0 .. Len(log)
  BY DEF TypeOK
<1>4. /\ wire[t][1].events # {} /\ wire[t][1].next <= position[t]
      /\ \A s \in wire[t][1].events : cursor[t] < s /\ s <= wire[t][1].next
  BY <1>2 DEF WireOK
<1>5. wire[t][1].events \in SUBSET Nat /\ wire[t][1].next \in Nat
  BY <1>2 DEF Frame
<1>6. wire[t][1].next > cursor[t] /\ wire[t][1].next \in Events
  BY <1>3, <1>4, <1>5 DEF Events
<1>7. wire[t][1].events \in SUBSET Events
  BY <1>3, <1>4, <1>5 DEF Events
<1>8. IsFiniteSet(wire[t][1].events)
  <2>1. 1 \in Int /\ Len(log) \in Int
    BY <1>3
  <2>2. IsFiniteSet(1 .. Len(log))
    BY <2>1, FS_Interval, Zenon
  <2> QED BY <1>7, <2>2, FS_Subset, Zenon DEF Events
<1> QED BY <1>2, <1>6, <1>7, <1>8

\* Ingest: everything in the frame is new, whatever was rendered last.
LEMMA FrameIsFresh ==
  ASSUME TypeOK, NEW t \in Tabs, WireOK(t), ListOK(t), wire[t] # << >>
  PROVE  Fresh(t, Head(wire[t]).events) = Head(wire[t]).events
<1>1. \A s \in Head(wire[t]).events : s \in Nat /\ cursor[t] < s
  <2>1. /\ Head(wire[t]) = wire[t][1] /\ 1 \in DOMAIN wire[t]
        /\ Head(wire[t]).events \in SUBSET Nat
    BY FrameTaken DEF Frame
  <2>2. \A s \in wire[t][1].events : cursor[t] < s
    BY <2>1 DEF WireOK
  <2> QED BY <2>1, <2>2
<1>2. \A s \in rendered[t] : s \in Nat /\ s <= cursor[t]
  BY DEF ListOK, TypeOK
<1>3. cursor[t] \in Nat
  BY DEF TypeOK
<1> QED BY <1>1, <1>2, <1>3 DEF Fresh


\* What ingest makes of the list and the cursor: the frame's events are the list's
\* end, and the cursor is behind them.
LEMMA Ingested ==
  ASSUME TypeOK, NEW t \in Tabs, WireOK(t), ListOK(t), Ingest(t)
  PROVE  LET frame == Head(wire[t]) IN
         /\ wire' = [wire EXCEPT ![t] = Tail(@)]
         /\ cursor' = [cursor EXCEPT ![t] = frame.next]
         /\ saved' = frame.next
         /\ seen' = seen \cup frame.events
         /\ list' \in [Tabs -> Seq(Nat)]
         /\ \A u \in Tabs : u # t => list'[u] = list[u]
         /\ Elements(list'[t]) = Elements(list[t]) \cup frame.events
         /\ \A i, j \in DOMAIN list'[t] : i < j => list'[t][i] < list'[t][j]
<1> DEFINE frame == Head(wire[t])
<1>1. wire[t] # << >>
  BY DEF Ingest
<1>2. /\ frame.events \in SUBSET Events
      /\ frame.events \in SUBSET Nat
      /\ frame.next > cursor[t]
      /\ IsFiniteSet(frame.events)
  BY <1>1, FrameTaken DEF Frame
<1>3. Fresh(t, frame.events) = frame.events
  BY <1>1, FrameIsFresh
<1>4. PICK q \in Ascending(frame.events) : list' = [list EXCEPT ![t] = @ \o q]
  BY <1>3 DEF Ingest
<1>5. /\ q \in Seq(Nat)
      /\ Elements(q) = frame.events
      /\ \A i, j \in DOMAIN q : i < j => q[i] < q[j]
  BY <1>2, AscendingIsSequence
<1>6. list \in [Tabs -> Seq(Nat)] /\ list[t] \in Seq(Nat)
  BY DEF TypeOK
<1>7. list'[t] = list[t] \o q
  BY <1>4, <1>6
<1>8. /\ list[t] \o q \in Seq(Nat)
      /\ Elements(list[t] \o q) = Elements(list[t]) \cup Elements(q)
  BY <1>5, <1>6, ElementsOfBoth
<1>9. /\ \A i \in DOMAIN list[t] : list[t][i] \in Nat /\ list[t][i] <= cursor[t]
      /\ \A j \in DOMAIN q : q[j] \in Nat /\ cursor[t] < q[j]
  <2>1. \A i \in DOMAIN list[t] : list[t][i] \in Elements(list[t]) /\ list[t][i] \in Nat
    BY <1>6 DEF Elements
  <2>2. \A j \in DOMAIN q : q[j] \in frame.events /\ q[j] \in Nat
    BY <1>5 DEF Elements
  <2>3. \A s \in frame.events : cursor[t] < s
    <3>1. frame = wire[t][1] /\ 1 \in DOMAIN wire[t]
      BY <1>1, FrameTaken
    <3> QED BY <3>1 DEF WireOK
  <2> QED BY <2>1, <2>2, <2>3 DEF ListOK
<1>10. \A i \in DOMAIN list[t], j \in DOMAIN q : list[t][i] < q[j]
  <2>1. cursor[t] \in Nat
    BY DEF TypeOK
  <2> QED BY <1>9, <2>1
<1>11. \A i, j \in DOMAIN list[t] : i < j => list[t][i] < list[t][j]
  BY DEF ListOK
<1>12. \A i, j \in DOMAIN list'[t] : i < j => list'[t][i] < list'[t][j]
  BY <1>5, <1>6, <1>7, <1>10, <1>11, AscendingBoth
<1>13. /\ wire' = [wire EXCEPT ![t] = Tail(@)]
       /\ cursor' = [cursor EXCEPT ![t] = frame.next]
       /\ saved' = frame.next
       /\ seen' = seen \cup frame.events
  BY <1>2, <1>3 DEF Ingest
<1>14. list' \in [Tabs -> Seq(Nat)] /\ \A u \in Tabs : u # t => list'[u] = list[u]
  BY <1>4, <1>6, <1>8
<1> QED BY <1>5, <1>7, <1>8, <1>12, <1>13, <1>14

-----------------------------------------------------------------------------
(* Types.  The step of Ingest needs the invariant: only then is a frame a  *)
(* part of the log.                                                        *)

LEMMA TypeInit == Init => TypeOK
<1>1. ASSUME Init PROVE Len(log) = 0 /\ log \in Seq(Topics)
  BY <1>1 DEF Init
<1> QED BY <1>1, StreamAssumption DEF Init, TypeOK, Events

LEMMA TypePost ==
  ASSUME TypeOK, NEW x \in Topics, Post(x)
  PROVE  TypeOK'
<1>1. log' \in Seq(Topics) /\ Len(log') = Len(log) + 1 /\ Len(log) \in Nat
  BY DEF TypeOK, Post
<1>2. 0 .. Len(log) \subseteq 0 .. Len(log') /\ Events \subseteq Events'
  BY <1>1 DEF Events
<1>3. owed' \in SUBSET Events'
  <2>1. Len(log) + 1 \in Events'
    BY <1>1 DEF Events
  <2> QED BY <1>2, <2>1 DEF Post, TypeOK
<1>4. /\ position' \in [Tabs -> 0 .. Len(log')]
      /\ cursor' \in [Tabs -> 0 .. Len(log')]
      /\ start' \in [Tabs -> 0 .. Len(log')]
  BY <1>2 DEF Post, TypeOK, browser
<1>5. acked' \in 0 .. Len(log') /\ saved' \in 0 .. Len(log') /\ seen' \in SUBSET Events'
  BY <1>2 DEF Post, TypeOK, browser
<1> QED BY <1>1, <1>3, <1>4, <1>5 DEF Post, TypeOK, browser


LEMMA TypeStep ==
  ASSUME TypeOK, \A t \in Tabs : WireOK(t) /\ ListOK(t), [Next]_vars
  PROVE  TypeOK'
<1>1. ASSUME NEW x \in Topics, Post(x) PROVE TypeOK'
  BY <1>1, TypePost
<1>2. ASSUME NEW x \in Topics, Join(x) PROVE TypeOK'
  BY <1>2 DEF Join, TypeOK, browser, history, Events
<1>3. ASSUME NEW x \in Topics, Leave(x) PROVE TypeOK'
  BY <1>3 DEF Leave, TypeOK, browser, Events
<1>4. CASE ForgetToken
  BY <1>4, StreamAssumption DEF ForgetToken, TypeOK, server, history, Events
<1>5. CASE RegisterOther
  BY <1>5 DEF RegisterOther, TypeOK, server, history, Events
<1>6. ASSUME NEW t \in Tabs, Connect(t) PROVE TypeOK'
  <2>1. token \in {"own", "other"} /\ ConnectCursor(t) \in 0 .. Len(log)
    BY <1>6 DEF Connect, TypeOK, ConnectCursor
  <2> QED BY <1>6, <2>1 DEF Connect, TypeOK, server, Events
<1>7. ASSUME NEW t \in Tabs, Unauthenticated(t) PROVE TypeOK'
  BY <1>7 DEF Unauthenticated, TypeOK, server, history, Events
<1>8. ASSUME NEW t \in Tabs, Pass(t) PROVE TypeOK'
  <2> DEFINE n     == position[t]
             found == Found(n, serves[t])
             frame == [events |-> found, next |-> NextCursor(n)]
  <2>1. n \in 0 .. Len(log) /\ PageEnd(n) \in n .. Len(log) /\ Len(log) \in Nat
    BY PageEndIsThere DEF TypeOK
  <2>2. found \in SUBSET Nat
    BY <2>1, FoundOnPage
  <2>3. frame \in Frame
    BY <2>1, <2>2 DEF Frame, NextCursor
  <2>4. wire \in [Tabs -> Seq(Frame)]
    BY DEF TypeOK, Frame
  <2>5. wire' \in [Tabs -> Seq(Frame)]
    <3> HIDE DEF frame, found
    <3>1. wire' = wire \/ wire' = [wire EXCEPT ![t] = Append(@, frame)]
      BY <1>8 DEF Pass, frame, found
    <3> QED BY <2>3, <2>4, <3>1
  <2>6. position' \in [Tabs -> 0 .. Len(log)]
    BY <1>8, <2>1 DEF Pass, AfterPass, TypeOK
  <2> QED BY <1>8, <2>5, <2>6 DEF Pass, TypeOK, Frame, server, browser, history, Events
<1>9. ASSUME NEW t \in Tabs, Ingest(t) PROVE TypeOK'
  <2> DEFINE frame == Head(wire[t])
  <2>1. wire[t] # << >>
    BY <1>9 DEF Ingest
  <2>2. /\ frame.events \in SUBSET Events /\ frame.next \in Events
        /\ Tail(wire[t]) \in Seq(Frame)
    BY <2>1, FrameTaken
  <2>3. /\ wire' = [wire EXCEPT ![t] = Tail(@)]
        /\ cursor' = [cursor EXCEPT ![t] = frame.next]
        /\ saved' = frame.next
        /\ seen' = seen \cup frame.events
        /\ list' \in [Tabs -> Seq(Nat)]
    BY <1>9, Ingested
  <2>4. frame.next \in 0 .. Len(log)
    BY <2>2 DEF TypeOK, Events
  <2>5. wire' \in [Tabs -> Seq(Frame)]
    BY <2>2, <2>3 DEF TypeOK, Frame
  <2>6. cursor' \in [Tabs -> 0 .. Len(log)] /\ saved' \in 0 .. Len(log)
        /\ seen' \in SUBSET Events
    BY <2>2, <2>3, <2>4 DEF TypeOK
  <2> QED BY <1>9, <2>3, <2>5, <2>6 DEF Ingest, TypeOK, Frame, server, Events
<1>10. ASSUME NEW t \in Tabs, Retry(t) PROVE TypeOK'
  BY <1>10 DEF Retry, TypeOK, server, history, Events
<1>11. ASSUME NEW t \in Tabs, Render(t) PROVE TypeOK'
  <2>1. Elements(list[t]) \in SUBSET Nat
    BY DEF TypeOK, Elements
  <2> QED BY <1>11, <2>1 DEF Render, TypeOK, server, history, Events
<1>12. ASSUME NEW t \in Tabs, Ack(t) PROVE TypeOK'
  <2>1. AckThrough(t) \in 0 .. Len(log)
    <3>1. list[t] \in Seq(Nat) /\ cursor[t] \in 0 .. Len(log) /\ Len(log) \in Nat
      BY DEF TypeOK
    <3>2. Len(list[t]) \in DOMAIN list[t]
      BY <1>12, <3>1 DEF Ack
    <3>3. AckThrough(t) \in Nat /\ AckThrough(t) \in Elements(list[t])
      BY <3>1, <3>2 DEF AckThrough, Elements
    <3>4. AckThrough(t) <= cursor[t]
      BY <3>3 DEF ListOK
    <3> QED BY <3>1, <3>3, <3>4
  <2> QED BY <1>12, <2>1 DEF Ack, TypeOK, browser, history, Events
<1>13. ASSUME NEW t \in Tabs, OpenTab(t) PROVE TypeOK'
  BY <1>13 DEF OpenTab, TypeOK, server, Events
<1>14. ASSUME NEW t \in Tabs, CloseTab(t) PROVE TypeOK'
  <2>1. 0 \in 0 .. Len(log) /\ << >> \in Seq(Nat)
        /\ << >> \in Seq([events : SUBSET Nat, next : Nat])
    BY DEF TypeOK
  <2> QED BY <1>14, <2>1 DEF CloseTab, TypeOK, server, Events
<1>15. ASSUME NEW t \in Tabs, Disconnect(t) PROVE TypeOK'
  <2>1. 0 \in 0 .. Len(log) /\ << >> \in Seq([events : SUBSET Nat, next : Nat])
    BY DEF TypeOK
  <2> QED BY <1>15, <2>1, StreamAssumption
          DEF Disconnect, TypeOK, server, history, Events
<1>16. CASE UNCHANGED vars
  BY <1>16 DEF vars, server, browser, history, TypeOK, Events
<1> QED BY <1>1, <1>2, <1>3, <1>4, <1>5, <1>6, <1>7, <1>8, <1>9, <1>10, <1>11,
           <1>12, <1>13, <1>14, <1>15, <1>16 DEF Next, Stream


-----------------------------------------------------------------------------
(* The invariant.                                                          *)

\* The invariant's part about one tab.
TabOK(t) == WireOK(t) /\ ListOK(t) /\ CompleteOK(t) /\ ShownTo(start[t])

\* The invariant's part about the agent and the browser.
SharedOK ==
  /\ \A s \in owed : log[s] \in members
  /\ token = "own" => mixed = {}
  /\ mixed = {} => ShownTo(saved)
  /\ ShownTo(acked)

LEMMA InvParts == StreamInv <=> SharedOK /\ \A t \in Tabs : TabOK(t)
BY DEF StreamInv, SharedOK, TabOK

\* A tab that a step leaves alone, while nothing more is owed and nothing less is
\* shown.
LEMMA TabLeftAlone ==
  ASSUME NEW u \in Tabs, TabOK(u),
         phase'[u] = phase[u], wire'[u] = wire[u], cursor'[u] = cursor[u],
         position'[u] = position[u], serves'[u] = serves[u], list'[u] = list[u],
         rendered'[u] = rendered[u], start'[u] = start[u],
         owed' \subseteq owed, seen \subseteq seen', u \in mixed => u \in mixed'
  PROVE  TabOK(u)'
<1>1. WireOK(u)'
  BY DEF TabOK, WireOK
<1>2. ListOK(u)'
  BY DEF TabOK, ListOK, Elements
<1>3. CompleteOK(u)'
  BY DEF TabOK, CompleteOK, Elements
<1>4. ShownTo(start[u])'
  BY DEF TabOK, ShownTo
<1> QED BY <1>1, <1>2, <1>3, <1>4 DEF TabOK

\* Everything owed that an open tab has passed has been shown.
LEMMA PassedIsShown ==
  ASSUME TypeOK, NEW t \in Tabs, TabOK(t), t \notin mixed, phase[t] # "closed"
  PROVE  ShownTo(cursor[t])
<1> SUFFICES ASSUME NEW s \in owed, s <= cursor[t] PROVE s \in seen
  BY DEF ShownTo
<1>1. s \in Nat /\ start[t] \in Nat
  BY DEF TypeOK, Events
<1>2. CASE s <= start[t]
  BY <1>2 DEF TabOK, ShownTo
<1>3. CASE start[t] < s
  BY <1>3 DEF TabOK, CompleteOK, ListOK
<1> QED BY <1>1, <1>2, <1>3

LEMMA InvInit == Init => StreamInv
<1> SUFFICES ASSUME Init PROVE StreamInv
  OBVIOUS
<1>1. \A t \in Tabs : wire[t] = << >> /\ list[t] = << >> /\ rendered[t] = {}
  BY DEF Init
<1>2. \A t \in Tabs : DOMAIN wire[t] = {} /\ DOMAIN list[t] = {}
  BY <1>1
<1>3. ASSUME NEW t \in Tabs PROVE WireOK(t)
  BY <1>1, <1>2 DEF Init, WireOK
<1>4. ASSUME NEW t \in Tabs PROVE ListOK(t)
  BY <1>1, <1>2 DEF ListOK, Elements
<1> QED BY <1>3, <1>4 DEF Init, StreamInv, CompleteOK, ShownTo

\* Post: the new event is behind every cursor and every position.
LEMMA InvPost ==
  ASSUME TypeOK, StreamInv, NEW x \in Topics, Post(x)
  PROVE  StreamInv'
<1> DEFINE e == Len(log) + 1
<1>1. /\ Len(log) \in Nat
      /\ \A s \in owed : s \in 1 .. Len(log) /\ log'[s] = log[s]
      /\ log'[e] = x
  BY DEF TypeOK, Post, Events
<1>2. \A s \in owed' : s \in owed \/ (s = e /\ x \in members)
  BY DEF Post
<1>3. /\ acked < e /\ saved < e
      /\ \A t \in Tabs : cursor[t] < e /\ position[t] < e /\ start[t] < e
      /\ acked \in Nat /\ saved \in Nat
      /\ \A t \in Tabs : cursor[t] \in Nat /\ position[t] \in Nat /\ start[t] \in Nat
  BY <1>1 DEF TypeOK
<1>4. /\ UNCHANGED <<members, acked, position, serves, wire, token, saved, phase>>
      /\ UNCHANGED <<cursor, list, rendered, seen, start, mixed>>
  BY DEF Post, browser
<1>5. SharedOK'
  <2>1. \A s \in owed' : log'[s] \in members'
    BY <1>1, <1>2, <1>4 DEF StreamInv
  <2>2. \A n \in Nat : n < e /\ ShownTo(n) => \A s \in owed' : s <= n => s \in seen
    BY <1>1, <1>2 DEF ShownTo
  <2> QED BY <1>3, <1>4, <2>1, <2>2 DEF StreamInv, SharedOK, ShownTo
<1>6. ASSUME NEW t \in Tabs PROVE TabOK(t)'
  <2>1. WireOK(t)' /\ ListOK(t)'
    BY <1>4 DEF StreamInv, WireOK, ListOK, Elements
  <2>2. CompleteOK(t)'
    BY <1>1, <1>2, <1>3, <1>4 DEF StreamInv, CompleteOK, Elements
  <2>3. ShownTo(start[t])'
    BY <1>1, <1>2, <1>3, <1>4 DEF StreamInv, ShownTo
  <2> QED BY <2>1, <2>2, <2>3 DEF TabOK
<1> QED BY <1>5, <1>6 DEF StreamInv, SharedOK, TabOK

\* The server, the token and the button of the inbox: no tab changes.
LEMMA InvShared ==
  ASSUME TypeOK, StreamInv,
         \/ \E x \in Topics : Join(x) \/ Leave(x)
         \/ ForgetToken \/ RegisterOther
         \/ \E t \in Tabs : Ack(t)
         \/ UNCHANGED vars
  PROVE  StreamInv'
<1>1. /\ owed' \subseteq owed /\ mixed' = mixed /\ seen' = seen /\ log' = log
      /\ saved' = saved
      /\ UNCHANGED <<position, serves, wire, phase, cursor, list, rendered, start>>
  BY DEF Join, Leave, ForgetToken, RegisterOther, Ack, vars, server, browser, history
<1>2. ASSUME NEW t \in Tabs PROVE TabOK(t)'
  BY <1>1, TabLeftAlone DEF StreamInv, TabOK
<1>3. \A s \in owed' : log'[s] \in members'
  <2>1. CASE \E x \in Topics : Leave(x)
    BY <2>1 DEF Leave, StreamInv
  <2>2. CASE members \subseteq members'
    BY <1>1, <2>2 DEF StreamInv
  <2> QED BY <2>1, <2>2
          DEF Join, ForgetToken, RegisterOther, Ack, vars, server, browser, history
<1>4. token' = "own" => mixed' = {}
  BY <1>1 DEF Join, Leave, ForgetToken, RegisterOther, Ack, vars, browser, StreamInv
<1>5. mixed' = {} => ShownTo(saved)'
  BY <1>1 DEF StreamInv, ShownTo
<1>6. ShownTo(acked)'
  <2>1. CASE acked' = acked
    BY <1>1, <2>1 DEF StreamInv, ShownTo
  <2>2. ASSUME NEW t \in Tabs, Ack(t), token = "own" PROVE ShownTo(acked)'
    <3>1. list[t] \in Seq(Nat) /\ list[t] # << >> /\ cursor[t] \in Nat
      BY <2>2 DEF Ack, TypeOK
    <3>2. phase[t] # "closed" /\ t \notin mixed
      BY <2>2, <3>1 DEF StreamInv, ListOK
    <3>3. ShownTo(cursor[t])
      BY <3>2, PassedIsShown DEF StreamInv, TabOK
    <3>4. Len(list[t]) \in DOMAIN list[t] /\ AckThrough(t) \in Nat
      BY <3>1 DEF AckThrough
    <3>5. AckThrough(t) <= cursor[t]
      BY <3>4 DEF AckThrough, StreamInv, ListOK, Elements
    <3>6. acked' = AckThrough(t)
      BY <2>2 DEF Ack
    <3> QED
      <4>1. \A s \in owed : s \in Nat
        BY DEF TypeOK, Events
      <4> QED BY <1>1, <3>1, <3>3, <3>4, <3>5, <3>6, <4>1 DEF ShownTo
  <2> QED BY <2>1, <2>2
          DEF Join, Leave, ForgetToken, RegisterOther, Ack, vars, server, browser, history
<1> QED BY <1>2, <1>3, <1>4, <1>5, <1>6 DEF StreamInv, TabOK


\* A connection begins, or cannot be opened, or ends; a tab waits, renders, is
\* opened or closed.
LEMMA InvLifecycle ==
  ASSUME TypeOK, StreamInv, NEW t \in Tabs,
         \/ Connect(t) \/ Unauthenticated(t) \/ Retry(t) \/ Disconnect(t)
         \/ Render(t) \/ OpenTab(t) \/ CloseTab(t)
  PROVE  StreamInv'
<1>1. /\ UNCHANGED <<log, members, acked, token, saved, owed, seen>>
      /\ mixed \subseteq mixed'
      /\ token = "own" => mixed' = mixed
  BY DEF Connect, Unauthenticated, Retry, Disconnect, Render, OpenTab, CloseTab,
         server, history
<1>2. SharedOK'
  BY <1>1 DEF StreamInv, SharedOK, ShownTo
<1>3. TabOK(t) /\ wire[t] \in Seq(Frame) /\ list[t] \in Seq(Nat)
  BY DEF StreamInv, TabOK, TypeOK, Frame
<1>4. ASSUME NEW u \in Tabs, u # t PROVE TabOK(u)'
  <2>1. /\ phase'[u] = phase[u] /\ wire'[u] = wire[u] /\ cursor'[u] = cursor[u]
        /\ position'[u] = position[u] /\ serves'[u] = serves[u]
        /\ list'[u] = list[u] /\ rendered'[u] = rendered[u] /\ start'[u] = start[u]
    BY <1>4 DEF TypeOK, Connect, Unauthenticated, Retry, Disconnect, Render, OpenTab,
                CloseTab, server, history
  <2> QED BY <1>1, <2>1, TabLeftAlone DEF StreamInv, TabOK
<1> SUFFICES TabOK(t)'
  BY <1>2, <1>4, InvParts DEF StreamInv, SharedOK, TabOK
<1>5. CASE Connect(t)
  <2>1. /\ phase'[t] = "streaming" /\ position'[t] = cursor[t] /\ serves'[t] = token
        /\ UNCHANGED <<wire, cursor, list, rendered, start>>
        /\ wire[t] = << >> /\ phase[t] = "opening"
    BY <1>3, <1>5 DEF Connect, ConnectCursor, TypeOK, TabOK, WireOK
  <2>2. cursor[t] \in Nat /\ \A s \in owed : s \in Nat
    BY DEF TypeOK, Events
  <2>3. WireOK(t)'
    BY <2>1, <2>2 DEF WireOK
  <2>4. ListOK(t)'
    BY <1>1, <1>3, <2>1 DEF TabOK, ListOK, Elements
  <2>5. t \notin mixed' => token = "own" /\ t \notin mixed
    BY <1>5 DEF Connect
  <2>6. CompleteOK(t)'
    BY <1>1, <1>3, <2>1, <2>2, <2>5 DEF TabOK, CompleteOK, Elements
  <2> QED BY <1>1, <1>3, <2>1, <2>3, <2>4, <2>6 DEF TabOK, ShownTo
<1>6. CASE Unauthenticated(t) \/ Retry(t)
  <2>1. /\ phase[t] \in {"opening", "waiting"} /\ phase'[t] \in {"opening", "waiting"}
        /\ UNCHANGED <<position, serves, wire, cursor, list, rendered, start, mixed>>
    BY <1>6 DEF Unauthenticated, Retry, TypeOK, history
  <2>2. WireOK(t)'
    BY <1>3, <2>1 DEF TabOK, WireOK
  <2>3. ListOK(t)'
    BY <1>1, <1>3, <2>1 DEF TabOK, ListOK, Elements
  <2>4. CompleteOK(t)'
    BY <1>1, <1>3, <2>1 DEF TabOK, CompleteOK, Elements
  <2> QED BY <1>1, <1>3, <2>1, <2>2, <2>3, <2>4 DEF TabOK, ShownTo
<1>7. CASE Disconnect(t)
  <2>1. /\ phase[t] # "closed" /\ phase'[t] = "waiting" /\ wire'[t] = << >>
        /\ UNCHANGED <<cursor, list, rendered, start, mixed>>
    BY <1>7 DEF Disconnect, TypeOK, history
  <2>2. WireOK(t)'
    BY <2>1 DEF WireOK
  <2>3. ListOK(t)'
    BY <1>1, <1>3, <2>1 DEF TabOK, ListOK, Elements
  <2>4. CompleteOK(t)'
    BY <1>1, <1>3, <2>1 DEF TabOK, CompleteOK, Elements
  <2> QED BY <1>1, <1>3, <2>1, <2>2, <2>3, <2>4 DEF TabOK, ShownTo
<1>8. CASE Render(t)
  <2>1. /\ rendered'[t] = Elements(list[t]) /\ phase' = phase
        /\ UNCHANGED <<position, serves, wire, cursor, list, start, mixed>>
    BY <1>8 DEF Render, TypeOK, history
  <2>2. WireOK(t)'
    BY <1>3, <2>1 DEF TabOK, WireOK
  <2>3. ListOK(t)'
    BY <1>1, <1>3, <2>1 DEF TabOK, ListOK, Elements
  <2>4. CompleteOK(t)'
    BY <1>1, <1>3, <2>1 DEF TabOK, CompleteOK, Elements
  <2> QED BY <1>1, <1>3, <2>1, <2>2, <2>3, <2>4 DEF TabOK, ShownTo
<1>9. CASE OpenTab(t)
  <2>1. /\ phase[t] = "closed" /\ phase'[t] = "opening" /\ token = "own"
        /\ cursor'[t] = saved /\ start'[t] = saved
        /\ UNCHANGED <<position, serves, wire, list, rendered, mixed>>
    BY <1>9 DEF OpenTab, TypeOK
  <2>2. wire[t] = << >> /\ list[t] = << >> /\ Elements(list[t]) = {}
    BY <1>3, <2>1 DEF TabOK, WireOK, ListOK, Elements
  <2>3. saved \in Nat /\ \A s \in owed : s \in Nat
    BY DEF TypeOK, Events
  <2>4. WireOK(t)'
    BY <2>1, <2>2 DEF WireOK
  <2>5. ListOK(t)'
    BY <1>1, <1>3, <2>1, <2>2 DEF TabOK, ListOK, Elements
  <2>6. CompleteOK(t)'
    BY <1>1, <2>1, <2>3 DEF CompleteOK
  <2>7. ShownTo(start[t])'
    BY <1>1, <2>1 DEF StreamInv, ShownTo
  <2> QED BY <2>4, <2>5, <2>6, <2>7 DEF TabOK
<1>10. CASE CloseTab(t)
  <2>1. /\ phase'[t] = "closed" /\ list'[t] = << >> /\ rendered'[t] = {}
        /\ cursor'[t] = 0 /\ start'[t] = 0 /\ position'[t] = 0
        /\ wire'[t] = << >>
    BY <1>10 DEF CloseTab, TypeOK
  <2>2. Elements(list[t])' = {}
    BY <2>1 DEF Elements
  <2>3. WireOK(t)'
    BY <2>1 DEF WireOK
  <2>4. ListOK(t)'
    BY <2>1, <2>2 DEF ListOK
  <2>5. CompleteOK(t)'
    BY <2>1 DEF CompleteOK
  <2>6. ShownTo(start[t])'
    BY <1>1, <2>1 DEF ShownTo, TypeOK, Events
  <2> QED BY <2>3, <2>4, <2>5, <2>6 DEF TabOK
<1> QED BY <1>5, <1>6, <1>7, <1>8, <1>9, <1>10


\* Pass: what the page has for the agent is behind the cursor and behind every frame
\* that is still on the wire.
LEMMA InvPass ==
  ASSUME TypeOK, StreamInv, NEW t \in Tabs, Pass(t)
  PROVE  StreamInv'
<1> DEFINE n     == position[t]
           found == Found(n, serves[t])
           frame == [events |-> found, next |-> PageEnd(n)]
<1>1. /\ UNCHANGED <<log, members, acked, serves, token, saved, phase, cursor>>
      /\ UNCHANGED <<list, rendered, owed, seen, start, mixed>>
      /\ phase[t] = "streaming"
      /\ position' = [position EXCEPT ![t] = PageEnd(n)]
  BY DEF Pass, AfterPass, server, browser, history
<1>2. SharedOK'
  BY <1>1 DEF StreamInv, SharedOK, ShownTo
<1>3. ASSUME NEW u \in Tabs, u # t PROVE TabOK(u)'
  <2>1. wire'[u] = wire[u] /\ position'[u] = position[u]
    BY <1>1, <1>3 DEF TypeOK, Pass
  <2> QED BY <1>1, <2>1, TabLeftAlone DEF StreamInv, TabOK
<1>4. /\ Len(log) \in Nat /\ n \in 0 .. Len(log) /\ PageEnd(n) \in n .. Len(log)
      /\ position'[t] = PageEnd(n)
      /\ cursor[t] \in 0 .. Len(log)
      /\ wire[t] \in Seq(Frame)
      /\ n < PageEnd(n)
  BY <1>1, PageEndIsThere DEF TypeOK, Frame, Pass
<1>5. \A s \in found : s \in Nat /\ n < s /\ s <= PageEnd(n)
  BY <1>4, FoundOnPage
<1> SUFFICES TabOK(t)'
  BY <1>2, <1>3, InvParts DEF StreamInv, SharedOK, TabOK
<1>6. WireOK(t) /\ ListOK(t) /\ CompleteOK(t) /\ ShownTo(start[t])
  BY DEF StreamInv
<1>7. /\ \A i \in DOMAIN wire[t] :
           /\ wire[t][i].events # {}
           /\ wire[t][i].next \in Nat /\ wire[t][i].next <= n
           /\ \A s \in wire[t][i].events : cursor[t] < s /\ s <= wire[t][i].next
      /\ \A i, j \in DOMAIN wire[t] :
           i < j => \A s \in wire[t][j].events : wire[t][i].next < s
      /\ cursor[t] <= n
  <2>1. \A i \in DOMAIN wire[t] : wire[t][i] \in Frame
    BY <1>4
  <2>2. \A i \in DOMAIN wire[t] : wire[t][i].next \in Nat
    BY <2>1 DEF Frame
  <2> QED BY <1>1, <1>6, <2>2 DEF WireOK
<1>8. frame \in Frame /\ frame.events = found /\ frame.next = PageEnd(n)
  BY <1>4, <1>5 DEF Frame
<1>9. ListOK(t)' /\ ShownTo(start[t])'
  BY <1>1, <1>6 DEF ListOK, Elements, ShownTo
<1>10. ASSUME NEW s \in owed, serves[t] = "own", n < s, s <= PageEnd(n)
      PROVE  s \in found
  <2>1. s \in Nat /\ PageEnd(n) \in Nat /\ n \in Nat
    BY <1>4 DEF TypeOK, Events
  <2>2. s \in (n + 1) .. PageEnd(n)
    BY <1>10, <2>1
  <2>3. log[s] \in TopicsOf(serves[t])
    BY <1>10 DEF TopicsOf, StreamInv
  <2> QED BY <2>2, <2>3 DEF Found
<1>11. CASE found = {}
  <2>1. wire' = wire
    BY <1>11 DEF Pass
  <2>2. WireOK(t)'
    BY <1>1, <1>4, <1>6, <1>7, <2>1 DEF WireOK
  <2>3. CompleteOK(t)'
    <3> SUFFICES ASSUME t \notin mixed
                 PROVE  \A s \in owed : cursor[t] < s /\ s <= PageEnd(n) =>
                          \E i \in DOMAIN wire[t] : s \in wire[t][i].events
      BY <1>1, <1>4, <1>6, <2>1 DEF CompleteOK, Elements
    <3>1. serves[t] = "own"
      BY <1>1, <1>6 DEF CompleteOK
    <3>2. ASSUME NEW s \in owed, n < s, s <= PageEnd(n) PROVE FALSE
      BY <1>11, <1>10, <3>1, <3>2
    <3>3. \A s \in owed : s \in Nat
      BY DEF TypeOK, Events
    <3>4. \A s \in owed : cursor[t] < s /\ s <= n =>
            \E i \in DOMAIN wire[t] : s \in wire[t][i].events
      BY <1>1, <1>6 DEF CompleteOK
    <3> QED BY <1>4, <3>2, <3>3, <3>4
  <2> QED BY <1>9, <2>2, <2>3 DEF TabOK
<1>12. CASE found # {}
  <2> DEFINE k == Len(wire[t]) + 1
  <2>1. wire'[t] = Append(wire[t], frame)
    BY <1>12, <1>4 DEF Pass, NextCursor, TypeOK
  <2>2. /\ DOMAIN wire'[t] = DOMAIN wire[t] \cup {k}
        /\ \A i \in DOMAIN wire[t] : wire'[t][i] = wire[t][i] /\ i < k /\ i \in Nat
        /\ wire'[t][k] = frame /\ k \in Nat
    <3> HIDE DEF frame
    <3>1. frame \in Frame
      BY <1>8
    <3> QED BY <1>4, <2>1, <3>1
  <2>3. WireOK(t)'
    <3> HIDE DEF frame, found, n, k
    <3>1. ASSUME NEW i \in DOMAIN wire'[t]
          PROVE  /\ wire'[t][i].events # {}
                 /\ wire'[t][i].next <= position'[t]
                 /\ \A s \in wire'[t][i].events : cursor'[t] < s /\ s <= wire'[t][i].next
      <4>1. CASE i \in DOMAIN wire[t]
        BY <1>1, <1>4, <1>7, <2>2, <4>1
      <4>2. CASE i = k
        BY <1>1, <1>4, <1>5, <1>7, <1>8, <1>12, <2>2, <4>2
      <4> QED BY <2>2, <4>1, <4>2
    <3>2. ASSUME NEW i \in DOMAIN wire'[t], NEW j \in DOMAIN wire'[t], i < j,
                 NEW s \in wire'[t][j].events
          PROVE  wire'[t][i].next < s
      <4>1. i \in DOMAIN wire[t]
        BY <2>2, <3>2
      <4>2. CASE j \in DOMAIN wire[t]
        BY <1>7, <2>2, <3>2, <4>1, <4>2
      <4>3. CASE j = k
        BY <1>4, <1>5, <1>7, <1>8, <2>2, <4>1, <4>3
      <4> QED BY <2>2, <4>2, <4>3
    <3>3. cursor'[t] <= position'[t] /\ phase'[t] = "streaming"
      BY <1>1, <1>4, <1>7
    <3> QED BY <3>1, <3>2, <3>3 DEF WireOK
  <2>4. CompleteOK(t)'
    <3> SUFFICES ASSUME t \notin mixed, NEW s \in owed, cursor[t] < s, s <= PageEnd(n)
                 PROVE  \E i \in DOMAIN wire'[t] : s \in wire'[t][i].events
      BY <1>1, <1>4, <1>6 DEF CompleteOK, Elements
    <3>1. serves[t] = "own"
      BY <1>1, <1>6 DEF CompleteOK
    <3>2. CASE s <= n
      <4>1. PICK i \in DOMAIN wire[t] : s \in wire[t][i].events
        BY <1>1, <1>6, <3>2 DEF CompleteOK
      <4> QED BY <2>2, <4>1
    <3>3. CASE n < s
      <4>1. s \in found
        BY <1>10, <3>1, <3>3
      <4> QED BY <1>8, <2>2, <4>1
    <3> QED BY <1>4, <3>2, <3>3 DEF TypeOK, Events
  <2> QED BY <1>9, <2>3, <2>4 DEF TabOK
<1> QED BY <1>11, <1>12


\* Ingest: what is owed up to the frame's end is in the frame, in the list, or
\* older than the tab.
LEMMA InvIngest ==
  ASSUME TypeOK, StreamInv, NEW t \in Tabs, Ingest(t)
  PROVE  StreamInv'
<1> DEFINE frame == Head(wire[t])
<1>1. WireOK(t) /\ ListOK(t) /\ CompleteOK(t) /\ ShownTo(start[t])
  BY DEF StreamInv
<1>2. phase[t] = "streaming" /\ wire[t] # << >>
  BY DEF Ingest
<1>3. /\ wire' = [wire EXCEPT ![t] = Tail(@)]
      /\ cursor' = [cursor EXCEPT ![t] = frame.next]
      /\ saved' = frame.next
      /\ seen' = seen \cup frame.events
      /\ \A u \in Tabs : u # t => list'[u] = list[u]
      /\ Elements(list'[t]) = Elements(list[t]) \cup frame.events
      /\ \A i, j \in DOMAIN list'[t] : i < j => list'[t][i] < list'[t][j]
  BY <1>1, Ingested
<1>4. /\ UNCHANGED <<log, members, acked, position, serves, token, phase>>
      /\ UNCHANGED <<rendered, owed, start, mixed>>
  BY DEF Ingest, server
<1>5. /\ wire'[t] = Tail(wire[t]) /\ cursor'[t] = frame.next
      /\ \A u \in Tabs : u # t => wire'[u] = wire[u] /\ cursor'[u] = cursor[u]
  BY <1>3 DEF TypeOK
<1>6. ASSUME NEW u \in Tabs, u # t PROVE TabOK(u)'
  BY <1>3, <1>4, <1>5, <1>6, TabLeftAlone DEF StreamInv, TabOK
<1>7. /\ frame = wire[t][1] /\ 1 \in DOMAIN wire[t]
      /\ \A i \in DOMAIN Tail(wire[t]) :
           i + 1 \in DOMAIN wire[t] /\ Tail(wire[t])[i] = wire[t][i + 1]
      /\ \A i \in DOMAIN wire[t] : i # 1 =>
           i - 1 \in DOMAIN Tail(wire[t]) /\ Tail(wire[t])[i - 1] = wire[t][i]
      /\ frame.events \in SUBSET Nat /\ frame.next \in Nat /\ frame.next > cursor[t]
      /\ \A i \in DOMAIN wire[t] : i \in Nat /\ i >= 1 /\ wire[t][i] \in Frame
      /\ \A i \in DOMAIN Tail(wire[t]) : i \in Nat /\ i >= 1
  <2>1. wire[t] \in Seq(Frame) /\ Tail(wire[t]) \in Seq(Frame)
    BY <1>1, <1>2, FrameTaken DEF TypeOK, Frame
  <2>2. /\ \A i \in DOMAIN wire[t] : i \in Nat /\ i >= 1 /\ wire[t][i] \in Frame
        /\ \A i \in DOMAIN Tail(wire[t]) : i \in Nat /\ i >= 1
    <3> HIDE DEF Frame
    <3> QED BY <2>1
  <2>3. frame.events \in SUBSET Nat /\ frame.next \in Nat
    BY <1>1, <1>2, FrameTaken DEF Frame
  <2> QED BY <1>1, <1>2, <2>2, <2>3, FrameTaken
<1>8. /\ cursor[t] \in Nat /\ position[t] \in Nat /\ start[t] \in Nat
      /\ \A s \in owed : s \in Nat
  BY DEF TypeOK, Events
<1>9. /\ frame.next <= position[t]
      /\ \A s \in frame.events : s <= frame.next
      /\ \A j \in DOMAIN wire[t] : 1 < j => \A s \in wire[t][j].events : frame.next < s
  BY <1>1, <1>7 DEF WireOK
\* What is owed between the cursor and the frame's end.
<1>10. ASSUME t \notin mixed, NEW s \in owed, cursor[t] < s, s <= frame.next
       PROVE  s \in frame.events
  <2>1. s <= position[t]
    BY <1>7, <1>8, <1>9, <1>10
  <2>2. PICK i \in DOMAIN wire[t] : s \in wire[t][i].events
    BY <1>1, <1>2, <1>10, <2>1 DEF CompleteOK
  <2>3. CASE i = 1
    BY <1>7, <2>2, <2>3
  <2>4. CASE i # 1
    <3>1. 1 < i
      BY <1>7, <2>4
    <3> QED BY <1>7, <1>8, <1>9, <1>10, <2>2, <3>1
  <2> QED BY <2>3, <2>4
<1>11. WireOK(t)'
  <2>1. ASSUME NEW i \in DOMAIN wire'[t]
        PROVE  /\ wire'[t][i].events # {}
               /\ wire'[t][i].next <= position[t]
               /\ \A s \in wire'[t][i].events : frame.next < s /\ s <= wire'[t][i].next
    <3>1. /\ i + 1 \in DOMAIN wire[t] /\ wire'[t][i] = wire[t][i + 1] /\ 1 < i + 1
      BY <1>5, <1>7, <2>1
    <3> QED BY <1>1, <1>9, <3>1 DEF WireOK
  <2>2. ASSUME NEW i \in DOMAIN wire'[t], NEW j \in DOMAIN wire'[t], i < j,
               NEW s \in wire'[t][j].events
        PROVE  wire'[t][i].next < s
    <3>1. /\ i + 1 \in DOMAIN wire[t] /\ wire'[t][i] = wire[t][i + 1]
          /\ j + 1 \in DOMAIN wire[t] /\ wire'[t][j] = wire[t][j + 1]
          /\ i + 1 < j + 1
      BY <1>5, <1>7, <2>2
    <3> QED BY <1>1, <2>2, <3>1 DEF WireOK
  <2> QED BY <1>2, <1>4, <1>5, <1>9, <2>1, <2>2 DEF WireOK
<1>12. ListOK(t)'
  <2>1. Elements(list'[t]) \subseteq seen'
    BY <1>1, <1>3 DEF ListOK
  <2>2. \A s \in Elements(list'[t]) : s <= cursor'[t]
    <3>1. ASSUME NEW s \in Elements(list[t]) PROVE s <= frame.next
      <4>1. s \in Nat /\ s <= cursor[t]
        BY <1>1 DEF ListOK, Elements, TypeOK
      <4> QED BY <1>7, <1>8, <4>1
    <3> QED BY <1>3, <1>5, <1>9, <3>1
  <2>3. rendered'[t] \subseteq Elements(list'[t])
    BY <1>1, <1>3, <1>4 DEF ListOK
  <2>4. Elements(list[t])' = Elements(list'[t])
    BY DEF Elements
  <2> QED BY <1>2, <1>3, <1>4, <2>1, <2>2, <2>3, <2>4 DEF ListOK
<1>13. CompleteOK(t)'
  <2> SUFFICES ASSUME t \notin mixed PROVE CompleteOK(t)'
    BY <1>4 DEF CompleteOK
  <2>1. ASSUME NEW s \in owed, start[t] < s, s <= frame.next
        PROVE  s \in Elements(list'[t])
    <3>1. CASE s <= cursor[t]
      BY <1>1, <1>2, <1>3, <2>1, <3>1 DEF CompleteOK
    <3>2. CASE cursor[t] < s
      BY <1>3, <1>10, <2>1, <3>2
    <3> QED BY <1>8, <3>1, <3>2
  <2>2. ASSUME NEW s \in owed, frame.next < s, s <= position[t]
        PROVE  \E i \in DOMAIN wire'[t] : s \in wire'[t][i].events
    <3>1. cursor[t] < s
      BY <1>7, <1>8, <2>2
    <3>2. PICK i \in DOMAIN wire[t] : s \in wire[t][i].events
      BY <1>1, <1>2, <2>2, <3>1 DEF CompleteOK
    <3>3. i # 1
      BY <1>7, <1>8, <1>9, <2>2, <3>2
    <3>4. i - 1 \in DOMAIN wire'[t] /\ wire'[t][i - 1] = wire[t][i]
      BY <1>5, <1>7, <3>2, <3>3
    <3> QED BY <3>2, <3>4
  <2>3. Elements(list[t])' = Elements(list'[t])
    BY DEF Elements
  <2> QED BY <1>1, <1>2, <1>4, <1>5, <2>1, <2>2, <2>3 DEF CompleteOK
<1>14. ShownTo(start[t])'
  BY <1>1, <1>3, <1>4 DEF ShownTo
<1>15. mixed = {} => ShownTo(saved)'
  <2> SUFFICES ASSUME mixed = {}, NEW s \in owed, s <= frame.next PROVE s \in seen'
    BY <1>3, <1>4 DEF ShownTo
  <2>1. CASE s <= cursor[t]
    BY <1>1, <1>2, <1>3, <2>1, PassedIsShown DEF TabOK, ShownTo
  <2>2. CASE cursor[t] < s
    BY <1>3, <1>10, <2>2
  <2> QED BY <1>8, <2>1, <2>2
<1>16. SharedOK'
  BY <1>3, <1>4, <1>15 DEF StreamInv, SharedOK, ShownTo
<1> QED BY <1>6, <1>11, <1>12, <1>13, <1>14, <1>16 DEF StreamInv, SharedOK, TabOK

LEMMA InvStep ==
  ASSUME TypeOK, StreamInv, [Next]_vars
  PROVE  StreamInv'
BY InvPost, InvShared, InvLifecycle, InvPass, InvIngest DEF Next, Stream


-----------------------------------------------------------------------------
(* What tabs show and what is acknowledged.                                *)

\* Types and invariant are inductive together.
LEMMA Inductive == Spec => [](TypeOK /\ StreamInv)
<1>1. Init => TypeOK /\ StreamInv
  BY TypeInit, InvInit
<1>2. ASSUME TypeOK, StreamInv, [Next]_vars PROVE TypeOK' /\ StreamInv'
  BY <1>2, TypeStep, InvStep DEF StreamInv
<1>3. TypeOK /\ StreamInv /\ [Next]_vars => (TypeOK /\ StreamInv)'
  BY <1>2
<1> QED BY <1>1, <1>3, PTL DEF Spec

\* In every reachable state the variables have their types, and nothing in the
\* browser or under way to it is beyond the end of the log: cursors, positions,
\* durable ack, what is owed and what has been shown.
THEOREM TypeCorrect == Spec => []TypeOK
BY Inductive, PTL

\* The invariant of all tabs, connections and handlers together: frames under way
\* lie between a tab's cursor and its handler's position and in order, a list is
\* what has been shown up to the cursor, and what is owed is shown, under way or
\* older than the tab.
THEOREM InvariantHolds == Spec => []StreamInv
BY Inductive, PTL

\* A tab shows the agent's part of the log from the cursor it started with, whole,
\* in order and each event once, however many tabs share the saved cursor and
\* however often its connection breaks (useEventStream's ingest and the server's
\* page loop).
THEOREM TabsFollowTheLog == Spec => []TabFollowsLog
<1>1. StreamInv => TabFollowsLog
  BY DEF StreamInv, TabFollowsLog, TabIsComplete, ListInOrder, CompleteOK, ListOK
<1> QED BY <1>1, InvariantHolds, PTL

\* The acknowledge button never covers an event owed to the agent that no tab has
\* shown (lastSeq of EventsScreen, which overwrites the durable ack).
THEOREM AckedIsShown == Spec => []AckCoversShown
<1>1. StreamInv => AckCoversShown
  BY DEF StreamInv, ShownTo, AckCoversShown
<1> QED BY <1>1, InvariantHolds, PTL

-----------------------------------------------------------------------------
(* The browser implements AtLeastOnce.                                     *)

\* A step is one of the feed's, or changes nothing the feed knows.
LEMMA FeedStep ==
  ASSUME TypeOK, StreamInv, StreamInv', [Next]_vars
  PROVE  [Feed!Next]_(Feed!vars)
<1>1. \A s \in owed : s \in Nat
  BY DEF TypeOK, Events
<1>2. ASSUME NEW x \in Topics, Post(x) PROVE Feed!Post
  <2>1. Len(log') = Len(log) + 1 /\ Len(log) \in Nat
    BY <1>2 DEF Post, TypeOK
  <2>2. owed \subseteq owed' /\ owed' \ owed \subseteq {Len(log) + 1}
    BY <1>2 DEF Post
  <2>3. seen' = seen /\ saved' = saved /\ mixed' = mixed
    BY <1>2 DEF Post, browser
  <2> QED BY <2>1, <2>2, <2>3 DEF Feed!Post
<1>3. ASSUME NEW x \in Topics, Leave(x) PROVE Feed!Forget
  BY <1>3 DEF Leave, browser, Feed!Forget
<1>4. ASSUME NEW t \in Tabs, Connect(t) PROVE Feed!Forget
  BY <1>4 DEF Connect, server, Feed!Forget
<1>5. ASSUME NEW t \in Tabs, Ingest(t) PROVE Feed!MoveTo
  <2>1. WireOK(t) /\ ListOK(t) /\ wire[t] # << >>
    BY <1>5 DEF StreamInv, Ingest
  <2>2. /\ Head(wire[t]).events \in SUBSET Events /\ Head(wire[t]).next \in Events
        /\ saved' = Head(wire[t]).next
        /\ seen' = seen \cup Head(wire[t]).events
    BY <1>5, <2>1, FrameTaken, Ingested
  <2>3. log' = log /\ owed' = owed /\ mixed' = mixed /\ Len(log) \in Nat
    BY <1>5 DEF Ingest, server, TypeOK
  <2>4. seen \subseteq seen' /\ seen' \subseteq 1 .. Len(log) /\ saved' \in 0 .. Len(log)
    <3>1. Events = 1 .. Len(log) /\ seen \subseteq Events
      BY DEF TypeOK, Events
    <3>2. Head(wire[t]).next \in 0 .. Len(log)
      BY <2>2, <2>3, <3>1
    <3> QED BY <2>2, <3>1, <3>2
  <2>5. mixed = {} => \A s \in owed : s <= saved' => s \in seen'
    BY <2>3 DEF StreamInv, ShownTo
  <2> QED BY <2>3, <2>4, <2>5 DEF Feed!MoveTo
<1>6. ASSUME UNCHANGED <<log, owed, seen, saved, mixed>> PROVE UNCHANGED Feed!vars
  BY <1>6 DEF Feed!vars
<1>7. ASSUME NEW x \in Topics, Join(x) PROVE UNCHANGED Feed!vars
  BY <1>6, <1>7 DEF Join, browser, history
<1>8. CASE ForgetToken \/ RegisterOther
  BY <1>6, <1>8 DEF ForgetToken, RegisterOther, server, history
<1>9. ASSUME NEW t \in Tabs,
             \/ Unauthenticated(t) \/ Pass(t) \/ Retry(t) \/ Render(t) \/ Ack(t)
             \/ OpenTab(t) \/ CloseTab(t) \/ Disconnect(t)
      PROVE  UNCHANGED Feed!vars
  BY <1>6, <1>9 DEF Unauthenticated, Pass, Retry, Render, Ack, OpenTab, CloseTab,
                    Disconnect, server, browser, history
<1>10. CASE UNCHANGED vars
  BY <1>6, <1>10 DEF vars, server, browser, history
<1> QED BY <1>2, <1>3, <1>4, <1>5, <1>7, <1>8, <1>9, <1>10
        DEF Next, Stream, Feed!Next

\* The browser as a whole, with the cursor that its tabs save in one place, is an
\* at-least-once feed: the cursor moves forward only over events that some tab has
\* shown.
THEOREM BrowserImplementsFeed == Spec => SavedCursorIsSafe
<1>1. Init => Feed!Init
  <2>1. ASSUME Init PROVE Len(log) = 0
    BY <2>1 DEF Init
  <2> QED BY <2>1 DEF Init, Feed!Init
<1>2. TypeOK /\ StreamInv /\ StreamInv' /\ [Next]_vars => [Feed!Next]_(Feed!vars)
  BY FeedStep
<1> QED BY <1>1, <1>2, TypeCorrect, InvariantHolds, PTL
        DEF Spec, SavedCursorIsSafe, Feed!Spec

=============================================================================
