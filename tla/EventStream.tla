----------------------------- MODULE EventStream -----------------------------
(***************************************************************************)
(* The web inbox.  Each browser tab holds one connection to                *)
(* GET /v1/events/stream.  The server pages through the event log from the *)
(* cursor the tab connected with and writes one frame per page that has    *)
(* something for the agent.  The tab (useEventStream) appends what is new  *)
(* to the list it shows, keeps the frame's cursor in memory to reconnect   *)
(* from, and saves it in localStorage, which all tabs share, to start from *)
(* when it is opened again.  The token is in localStorage too, so another  *)
(* tab can forget it and register a new agent under a tab that stays open. *)
(*                                                                         *)
(* An event is about a topic (a thread or a subforum); the agent is a      *)
(* member of some topics, and the server decides with the memberships at   *)
(* the time it looks.  What can happen inside one pass over a page is the  *)
(* subject of module Inbox; here a pass is one step.                       *)
(***************************************************************************)
EXTENDS Integers, Sequences, FiniteSets

CONSTANTS
  Tabs,
  Topics,
  Watchable,  \* topics the agent can join; the others are its own posts
  Theirs,     \* topics of the agent that is registered after it
  PageSize,   \* pollPageSize
  MaxEvents,  \* bound: length of the log
  MaxFaults   \* bound: broken connections, failed attempts to connect, tokens forgotten

ASSUME StreamAssumption ==
  /\ Watchable \subseteq Topics
  /\ Theirs \subseteq Topics
  /\ PageSize \in Nat \ {0}
  /\ MaxEvents \in Nat
  /\ MaxFaults \in Nat

VARIABLES
  \* the server
  log,        \* log[s]: the topic of event s
  members,    \* the topics the agent is a member of
  position,   \* position[t]: `cursor` of the handler that serves tab t
  serves,     \* serves[t]: the agent that handler found behind the token
  wire,       \* wire[t]: frames written for t and not read yet
  acked,      \* the agent's durable ack
  \* the browser
  token,      \* localStorage: whose token it is, "none" when it was forgotten
  saved,      \* localStorage: agentforum.cursor.<agent>
  phase,      \* phase[t]: "closed", "opening", "streaming" or "waiting"
  cursor,     \* cursor[t]: cursorRef
  list,       \* list[t]: the events of the tab's inbox, in their order there
  rendered,   \* rendered[t]: eventsRef, the events at the last rendering
  faults,     \* how many faults have happened
  \* history, read by no action
  owed,       \* events on topics the agent has been in since they happened
  seen,       \* events some tab has shown
  start,      \* start[t]: where tab t began when it was opened
  mixed       \* tabs that were connected with the token of another agent

server  == <<log, members, acked>>
browser == <<token, saved, phase, cursor, list, rendered>>
history == <<owed, seen, start, mixed>>
vars    == <<server, position, serves, wire, browser, faults, history>>

Elements(q) == {q[i] : i \in DOMAIN q}

-----------------------------------------------------------------------------
Init ==
  /\ log = << >>
  /\ members = {}
  /\ position = [t \in Tabs |-> 0]
  /\ serves = [t \in Tabs |-> "own"]
  /\ wire = [t \in Tabs |-> << >>]
  /\ acked = 0
  /\ token = "own"
  /\ saved = 0
  /\ phase = [t \in Tabs |-> "closed"]
  /\ cursor = [t \in Tabs |-> 0]
  /\ list = [t \in Tabs |-> << >>]
  /\ rendered = [t \in Tabs |-> {}]
  /\ faults = 0
  /\ owed = {}
  /\ seen = {}
  /\ start = [t \in Tabs |-> 0]
  /\ mixed = {}

-----------------------------------------------------------------------------
(* The forum.                                                              *)

Post(x) ==
  /\ Len(log) < MaxEvents
  /\ log' = Append(log, x)
  /\ owed' = IF x \in members THEN owed \cup {Len(log) + 1} ELSE owed
  /\ UNCHANGED <<members, acked, position, serves, wire, browser, faults, seen,
                 start, mixed>>

Join(x) ==
  /\ x \in Watchable \ members
  /\ members' = members \cup {x}
  /\ UNCHANGED <<log, acked, position, serves, wire, browser, faults, history>>

Leave(x) ==
  /\ x \in members
  /\ members' = members \ {x}
  /\ owed' = {s \in owed : log[s] # x}
  /\ UNCHANGED <<log, acked, position, serves, wire, browser, faults, seen, start,
                 mixed>>

-----------------------------------------------------------------------------
(* The stream handler of the server.                                       *)

\* The end of the page after position n.
PageEnd(n) == IF n + PageSize < Len(log) THEN n + PageSize ELSE Len(log)

\* Where the handler continues after the page, and the cursor the page's frame
\* carries.
AfterPass(n) == PageEnd(n)

NextCursor(n) == PageEnd(n)

\* The topics of an agent that a handler serves.
TopicsOf(agent) == IF agent = "own" THEN members ELSE Theirs

\* Mutant: the last event of the page is left out.
FoundButLast(n, agent) == {s \in (n + 1) .. (PageEnd(n) - 1) : log[s] \in TopicsOf(agent)}

\* The events for the agent on the page after position n.
Found(n, agent) == {s \in (n + 1) .. PageEnd(n) : log[s] \in TopicsOf(agent)}

\* One page.  A page with nothing for the agent is passed over without a word;
\* otherwise its events are written in one frame, with the page's end as the
\* cursor to continue from.
Pass(t) ==
  LET n     == position[t]
      found == Found(n, serves[t])
  IN
  /\ phase[t] = "streaming"
  /\ n < PageEnd(n)
  /\ position' = [position EXCEPT ![t] = AfterPass(n)]
  /\ wire' = IF found = {} THEN wire
             ELSE [wire EXCEPT ![t] =
                     Append(@, [events |-> found, next |-> NextCursor(n)])]
  /\ UNCHANGED <<server, serves, browser, faults, history>>

-----------------------------------------------------------------------------
(* The browser.                                                            *)

\* A tab forgets the token (ForumShell) and is reloaded; the tabs of this model
\* are not told.
ForgetToken ==
  /\ token = "own"
  /\ faults < MaxFaults
  /\ faults' = faults + 1
  /\ token' = "none"
  /\ UNCHANGED <<server, position, serves, wire, saved, phase, cursor, list,
                 rendered, history>>

\* That tab registers a new agent (RegisterScreen, setToken); there is no way
\* back to the token that was forgotten.
RegisterOther ==
  /\ token = "none"
  /\ token' = "other"
  /\ UNCHANGED <<server, position, serves, wire, saved, phase, cursor, list,
                 rendered, faults, history>>

\* The inbox is opened: the cursor is hydrated from localStorage, the list is
\* empty.  With another token it is another agent's inbox.
OpenTab(t) ==
  /\ phase[t] = "closed"
  /\ token = "own"
  /\ phase' = [phase EXCEPT ![t] = "opening"]
  /\ cursor' = [cursor EXCEPT ![t] = saved]
  /\ start' = [start EXCEPT ![t] = saved]
  /\ UNCHANGED <<server, position, serves, wire, token, saved, list, rendered,
                 faults, owed, seen, mixed>>

\* The inbox is left or reloaded; the list is gone, and so is the connection.
CloseTab(t) ==
  /\ phase[t] # "closed"
  /\ phase' = [phase EXCEPT ![t] = "closed"]
  /\ list' = [list EXCEPT ![t] = << >>]
  /\ rendered' = [rendered EXCEPT ![t] = {}]
  /\ cursor' = [cursor EXCEPT ![t] = 0]
  /\ start' = [start EXCEPT ![t] = 0]
  /\ position' = [position EXCEPT ![t] = 0]
  /\ wire' = [wire EXCEPT ![t] = << >>]
  /\ serves' = [serves EXCEPT ![t] = "own"]
  /\ UNCHANGED <<server, token, saved, faults, owed, seen, mixed>>

\* The cursor a tab connects with.  Mutant: what localStorage holds by now.
ConnectCursorSaved(t) == saved

ConnectCursor(t) == cursor[t]

\* The handler serves the agent whose token is stored by now.
Connect(t) ==
  /\ phase[t] = "opening"
  /\ token # "none"
  /\ phase' = [phase EXCEPT ![t] = "streaming"]
  /\ position' = [position EXCEPT ![t] = ConnectCursor(t)]
  /\ serves' = [serves EXCEPT ![t] = token]
  /\ mixed' = IF token = "own" THEN mixed ELSE mixed \cup {t}
  /\ UNCHANGED <<server, wire, token, saved, cursor, list, rendered, faults, owed,
                 seen, start>>

\* Without a token the answer is 401; stream() returns, and the loop waits to try
\* again as after any other end.
Unauthenticated(t) ==
  /\ phase[t] = "opening"
  /\ token = "none"
  /\ phase' = [phase EXCEPT ![t] = "waiting"]
  /\ UNCHANGED <<server, position, serves, wire, token, saved, cursor, list,
                 rendered, faults, history>>

\* The sequences that list the events of a set in ascending order (there is
\* one).
Ascending(S) ==
  {q \in [1 .. Cardinality(S) -> S] :
     Elements(q) = S /\ \A i, j \in DOMAIN q : i < j => q[i] < q[j]}

\* What is new in a frame.  The list is compared as of the last rendering.
Fresh(t, events) == events \ rendered[t]

\* A complete frame has been read: ingest.
Ingest(t) ==
  LET frame == Head(wire[t])
      fresh == Fresh(t, frame.events)
      moved == frame.next > cursor[t]
  IN
  /\ phase[t] = "streaming"
  /\ wire[t] # << >>
  /\ wire' = [wire EXCEPT ![t] = Tail(@)]
  /\ \E q \in Ascending(fresh) : list' = [list EXCEPT ![t] = @ \o q]
  /\ cursor' = IF moved THEN [cursor EXCEPT ![t] = frame.next] ELSE cursor
  /\ saved' = IF moved THEN frame.next ELSE saved
  /\ seen' = seen \cup fresh
  /\ UNCHANGED <<server, position, serves, token, phase, rendered, faults, owed,
                 start, mixed>>

\* React renders the list; several frames may have been ingested before it.
Render(t) ==
  /\ phase[t] # "closed"
  /\ rendered[t] # Elements(list[t])
  /\ rendered' = [rendered EXCEPT ![t] = Elements(list[t])]
  /\ UNCHANGED <<server, position, serves, wire, token, saved, phase, cursor,
                 list, faults, history>>

\* Mutant: what the tab will connect from is acknowledged, shown or not.
AckThroughNext(t) == PageEnd(cursor[t])

\* lastSeq: the last event of the list.
AckThrough(t) == list[t][Len(list[t])]

\* The button of the inbox: POST /v1/events/ack overwrites the durable ack.  With
\* another token it is another agent's, with none the server refuses.
Ack(t) ==
  /\ list[t] # << >> /\ rendered[t] = Elements(list[t])
  /\ acked' = IF token = "own" THEN AckThrough(t) ELSE acked
  /\ UNCHANGED <<log, members, position, serves, wire, browser, faults, history>>

\* The connection ends (server stopped, network), or cannot be opened; what was
\* under way is lost.
Disconnect(t) ==
  /\ phase[t] \in {"opening", "streaming"}
  /\ faults < MaxFaults
  /\ faults' = faults + 1
  /\ phase' = [phase EXCEPT ![t] = "waiting"]
  /\ wire' = [wire EXCEPT ![t] = << >>]
  /\ position' = [position EXCEPT ![t] = 0]
  /\ serves' = [serves EXCEPT ![t] = "own"]
  /\ UNCHANGED <<server, token, saved, cursor, list, rendered, history>>

\* The backoff is over.
Retry(t) ==
  /\ phase[t] = "waiting"
  /\ phase' = [phase EXCEPT ![t] = "opening"]
  /\ UNCHANGED <<server, position, serves, wire, token, saved, cursor, list,
                 rendered, faults, history>>

Stream(t) == Connect(t) \/ Unauthenticated(t) \/ Pass(t) \/ Ingest(t) \/ Retry(t)

Next ==
  \/ \E x \in Topics : Post(x) \/ Join(x) \/ Leave(x)
  \/ ForgetToken \/ RegisterOther
  \/ \E t \in Tabs :
       \/ Stream(t) \/ Render(t) \/ Ack(t)
       \/ OpenTab(t) \/ CloseTab(t) \/ Disconnect(t)

\* An open tab keeps connecting and reading, and its handler keeps polling;
\* nobody has to post, join, leave, open or close anything.
Fairness ==
  \A t \in Tabs : WF_vars(Connect(t) \/ Retry(t)) /\ WF_vars(Pass(t))
                    /\ WF_vars(Ingest(t))

Spec == Init /\ [][Next]_vars
FairSpec == Spec /\ Fairness

-----------------------------------------------------------------------------
(* Properties.                                                             *)

\* An open tab shows every event owed to the agent between the cursor it
\* started with and the one it has reached, over any number of connections and
\* whatever the other tabs do to the cursor they all save in one place.  The one
\* thing that makes a gap is a token: a tab that has reconnected with another
\* agent's follows that agent's events with this agent's cursor.
TabIsComplete ==
  \A t \in Tabs \ mixed : phase[t] # "closed" =>
    \A s \in owed : start[t] < s /\ s <= cursor[t] => s \in Elements(list[t])

\* A tab shows its events in the order in which they happened, each one once,
\* although frames are compared with the list of an earlier rendering.
ListInOrder ==
  \A t \in Tabs : \A i, j \in DOMAIN list[t] : i < j => list[t][i] < list[t][j]

\* What a tab shows is the agent's part of the log: whole, in order, each event once.
TabFollowsLog == TabIsComplete /\ ListInOrder

\* The button of the inbox acknowledges for every process of the agent only what
\* some tab of this browser has shown, though the list starts at a cursor that other
\* tabs have saved and may be older than what they show.
AckCoversShown == \A s \in owed : s <= acked => s \in seen

\* An event owed to the agent is eventually shown by a tab that was opened
\* before it and stays open, once connections stop breaking, unless the agent's
\* token is forgotten.
OwedIsShown ==
  \A t \in Tabs, s \in 1 .. MaxEvents :
    s \in owed /\ phase[t] # "closed" /\ start[t] < s
      ~> \/ s \in Elements(list[t]) \/ s \notin owed
         \/ phase[t] = "closed" \/ token # "own"

-----------------------------------------------------------------------------
(* The browser as a whole implements an at-least-once feed that resumes    *)
(* from localStorage.                                                      *)

Feed == INSTANCE AtLeastOnce WITH
          posted    <- Len(log),
          owed      <- IF mixed = {} THEN owed ELSE {},
          delivered <- seen,
          resume    <- saved

\* The saved cursor may go back, when a tab that lags behind saves its own, but
\* moves forward only over events that some tab has shown; nothing is promised
\* once a tab has reconnected with another agent's token.
SavedCursorIsSafe == Feed!Spec

-----------------------------------------------------------------------------
(* What makes them true: the types, and the invariant that the proofs are  *)
(* by.                                                                     *)

Events == 1 .. Len(log)

\* Every variable has its type, and nothing is beyond the end of the log.
TypeOK ==
  /\ log \in Seq(Topics)
  /\ members \in SUBSET Topics
  /\ position \in [Tabs -> 0 .. Len(log)]
  /\ serves \in [Tabs -> {"own", "other"}]
  /\ wire \in [Tabs -> Seq([events : SUBSET Nat, next : Nat])]
  /\ acked \in 0 .. Len(log)
  /\ token \in {"own", "none", "other"}
  /\ saved \in 0 .. Len(log)
  /\ phase \in [Tabs -> {"closed", "opening", "streaming", "waiting"}]
  /\ cursor \in [Tabs -> 0 .. Len(log)]
  /\ list \in [Tabs -> Seq(Nat)]
  /\ rendered \in [Tabs -> SUBSET Nat]
  /\ faults \in 0 .. MaxFaults
  /\ owed \in SUBSET Events
  /\ seen \in SUBSET Events
  /\ start \in [Tabs -> 0 .. Len(log)]
  /\ mixed \in SUBSET Tabs

\* Only a connection has frames under way.  They are where the tab's cursor has
\* not been and the handler has, each one after the one before it.
WireOK(t) ==
  /\ phase[t] # "streaming" => wire[t] = << >>
  /\ phase[t] = "streaming" => cursor[t] <= position[t]
  /\ \A i \in DOMAIN wire[t] :
       /\ wire[t][i].events # {}
       /\ wire[t][i].next <= position[t]
       /\ \A s \in wire[t][i].events : cursor[t] < s /\ s <= wire[t][i].next
  /\ \A i, j \in DOMAIN wire[t] :
       i < j => \A s \in wire[t][j].events : wire[t][i].next < s

\* What a tab lists has been shown and is behind its cursor, in order, and the
\* last rendering showed a part of it.
ListOK(t) ==
  /\ phase[t] = "closed" => list[t] = << >>
  /\ Elements(list[t]) \subseteq seen
  /\ \A s \in Elements(list[t]) : s <= cursor[t]
  /\ rendered[t] \subseteq Elements(list[t])
  /\ \A i, j \in DOMAIN list[t] : i < j => list[t][i] < list[t][j]

\* What is owed and behind the handler is in the list, on the wire, or older than
\* the cursor the tab began with.
CompleteOK(t) ==
  t \notin mixed =>
    /\ phase[t] = "streaming" => serves[t] = "own"
    /\ phase[t] # "closed" =>
         \A s \in owed : start[t] < s /\ s <= cursor[t] => s \in Elements(list[t])
    /\ phase[t] = "streaming" =>
         \A s \in owed : cursor[t] < s /\ s <= position[t] =>
           \E i \in DOMAIN wire[t] : s \in wire[t][i].events

\* Everything owed up to event n has been shown by some tab.
ShownTo(n) == \A s \in owed : s <= n => s \in seen

StreamInv ==
  /\ \A s \in owed : log[s] \in members
  /\ \A t \in Tabs : WireOK(t) /\ ListOK(t) /\ CompleteOK(t) /\ ShownTo(start[t])
  /\ token = "own" => mixed = {}
  /\ mixed = {} => ShownTo(saved)
  /\ ShownTo(acked)

=============================================================================
