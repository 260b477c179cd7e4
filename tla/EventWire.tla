------------------------------ MODULE EventWire ------------------------------
(***************************************************************************)
(* The event stream between a server and a browser tab of different        *)
(* versions: what the handler writes, what the network makes of it, and    *)
(* what the tab reads.  The text is cut into chunks anywhere, connections  *)
(* break, the server is replaced by a newer one or by the older one again, *)
(* and a tab keeps the code it was loaded with.  Of an event only its type *)
(* is followed, an enum that a version may not know.                       *)
(***************************************************************************)
EXTENDS SSE

CONSTANTS
  Grown,      \* the messages and enums that version 2 extends
  MaxEvents,  \* bound: length of the event log
  MaxBreaks   \* bound: connections that break

ASSUME EventWireAssumption == MaxEvents \in Nat /\ MaxBreaks \in Nat

Versions == {1, 2}

\* An enum by the number of its values after UNSPECIFIED: thread and post
\* created; involved, watching, watched subforum.
EventType   == 2
EventReason == 3

\* The highest value of enum e in version v.
Highest(e, v) ==
  [EventType |-> EventType, EventReason |-> EventReason][e]
    + (IF v = 2 /\ e \in Grown THEN 1 ELSE 0)

VARIABLES
  server,  \* the version of the server that runs
  tab,     \* the version of the code the tab was loaded with
  log,     \* log[s]: the type of event s, as stored
  cursor,  \* the tab's cursorRef, kept in localStorage
  list,    \* the types of the events the tab has shown
  conn,    \* the connection of the event stream
  breaks   \* how many connections have broken

stream   == <<log, cursor, list, conn, breaks>>
wireVars == <<server, tab, stream>>

Closed == [open |-> FALSE]

WireInit ==
  /\ server = 1
  /\ tab = 1
  /\ log = << >>
  /\ cursor = 0
  /\ list = << >>
  /\ conn = Closed
  /\ breaks = 0

\* The server is replaced; its connections end.
Replace ==
  /\ server' = 3 - server
  /\ conn' = Closed
  /\ UNCHANGED <<tab, log, cursor, list, breaks>>

\* The tab is loaded again: the server hands out the code it embeds.  (Loading
\* the same code again is a connection that breaks.)
Load ==
  /\ tab # server
  /\ tab' = server
  /\ conn' = Closed
  /\ UNCHANGED <<server, log, cursor, list, breaks>>

\* An event of a type the server knows happens.
Happen(type) ==
  /\ Len(log) < MaxEvents
  /\ type <= Highest("EventType", server)
  /\ log' = Append(log, type)
  /\ UNCHANGED <<server, tab, cursor, list, conn, breaks>>

-----------------------------------------------------------------------------
(* The server's side.                                                      *)

\* Mutant: the stored type as it is.
StoredType(type) == type

\* eventTypeToProto: a stored type this server does not know is UNSPECIFIED.
eventTypeToProto(type) == IF type <= Highest("EventType", server) THEN type ELSE 0

\* The frame with the events after position n.
FrameAfter(n) ==
  [types |-> [i \in 1 .. Len(log) - n |-> eventTypeToProto(log[n + i])],
   nextCursor |-> Len(log)]

\* The loop of useEventStream opens the stream at its cursor.
Connect ==
  /\ ~ conn.open
  /\ log # << >>
  /\ conn' = [open |-> TRUE, position |-> cursor, wire |-> Padding, rest |-> << >>,
              written |-> << >>, read |-> 0]
  /\ UNCHANGED <<server, tab, log, cursor, list, breaks>>

\* The handler writes a frame; payload n of the wire stands for written[n].
WriteFrame ==
  /\ conn.open
  /\ conn.position < Len(log)
  /\ conn' = [conn EXCEPT !.position = Len(log),
                          !.written = Append(@, FrameAfter(conn.position)),
                          !.wire = @ \o DataFrame(Len(conn.written) + 1)]
  /\ UNCHANGED <<server, tab, log, cursor, list, breaks>>

\* The heartbeat (one in flight at a time, a bound).
WritePing ==
  /\ conn.open
  /\ \A i \in DOMAIN conn.wire : conn.wire[i] # Colon
  /\ conn' = [conn EXCEPT !.wire = @ \o Ping]
  /\ UNCHANGED <<server, tab, log, cursor, list, breaks>>

-----------------------------------------------------------------------------
(* The tab's side.                                                         *)

\* fromJson throws: the name of an enum value is not in the tab's schema.
Refused(frame) == \E i \in DOMAIN frame.types : frame.types[i] > Highest("EventType", tab)

\* ingest: the events are shown, and the cursor moves on, never back.
Ingest(shown, frame) ==
  [shown EXCEPT !.list = @ \o frame.types,
                !.cursor = IF frame.nextCursor > @ THEN frame.nextCursor ELSE @]

\* A frame is taken in, unless it or one before it is refused.
TakeIn(shown, frame) ==
  IF ~ shown.fine THEN shown
  ELSE IF Refused(frame) THEN [shown EXCEPT !.fine = FALSE]
  ELSE Ingest(shown, frame)

\* The frames of a chunk are taken in one by one.
Ingested(frames) ==
  LET upTo[n \in 0 .. Len(frames)] ==
        IF n = 0 THEN [list |-> list, cursor |-> cursor, fine |-> TRUE]
        ELSE TakeIn(upTo[n - 1], frames[n])
  IN upTo[Len(frames)]

\* The frames that payloads of the wire stand for.
FramesOf(payloads) == [i \in DOMAIN payloads |-> conn.written[payloads[i][1]]]

\* reader.read() gives k tokens.  When fromJson throws, stream() ends, and the loop
\* connects again with the cursor it has then.
ReadChunk(k) ==
  /\ conn.open
  /\ k \in 1 .. Len(conn.wire)
  /\ \E parsed \in {ParseSSEChunk(SubSeq(conn.wire, 1, k), conn.rest)} :
     \E shown \in {Ingested(FramesOf(parsed.frames))} :
       /\ list' = shown.list
       /\ cursor' = shown.cursor
       /\ conn' = IF ~ shown.fine THEN Closed
                  ELSE [conn EXCEPT !.wire = SubSeq(@, k + 1, Len(@)),
                                    !.rest = parsed.rest,
                                    !.read = @ + Len(parsed.frames)]
  /\ UNCHANGED <<server, tab, log, breaks>>

Break ==
  /\ conn.open
  /\ breaks < MaxBreaks
  /\ breaks' = breaks + 1
  /\ conn' = Closed
  /\ UNCHANGED <<server, tab, log, cursor, list>>

\* Bound: no more tokens than this are ever on the wire.
MaxChunk == 1 + 4 * MaxEvents + 3

StreamStep ==
  \/ Connect
  \/ WriteFrame
  \/ WritePing
  \/ \E k \in 1 .. MaxChunk : ReadChunk(k)
  \/ Break

WireNext ==
  \/ Replace
  \/ Load
  \/ \E type \in 1 .. (EventType + 1) : Happen(type)
  \/ StreamStep

WireSpec == WireInit /\ [][WireNext]_wireVars

-----------------------------------------------------------------------------
(* Properties.                                                             *)

\* The cursor moves only over events the tab has shown, each as its own type or,
\* by a server that did not know it, as unspecified.
CursorIsRead ==
  /\ Len(list) = cursor
  /\ \A s \in 1 .. cursor : list[s] \in {log[s], 0}

\* However the text is cut into chunks, what is left of the last one and what is
\* still on the wire hold exactly the frames written and not taken in.
FramesSurviveCutting ==
  conn.open =>
    ParseSSEChunk(conn.wire, conn.rest).frames
      = [i \in 1 .. Len(conn.written) - conn.read |-> <<conn.read + i>>]

\* Neither the cutting of the stream into chunks nor its breaking loses, repeats or
\* changes an event.
StreamArrivesWhole == CursorIsRead /\ FramesSurviveCutting

-----------------------------------------------------------------------------
(* Types, and the inductive invariant behind StreamArrivesWhole.           *)

EventFrames == [types : Seq(Nat), nextCursor : Nat]

Connections ==
  [open : {TRUE}, position : Nat, wire : Seq(Int), rest : Seq(Int),
   written : Seq(EventFrames), read : Nat]

WireTypeOK ==
  /\ server \in Versions /\ tab \in Versions
  /\ log \in Seq(Nat) /\ list \in Seq(Nat)
  /\ cursor \in Nat
  /\ conn \in {Closed} \cup Connections
  /\ breaks \in 0 .. MaxBreaks

\* The cursor once the tab has taken in the first n frames of the connection.
Reached(n) == IF n = conn.read THEN cursor ELSE conn.written[n].nextCursor

\* Each frame that is on its way begins where the one before it ends, and holds
\* the events of the log up to where it ends; the last ends at the position.
FramesLineUp ==
  /\ conn.read <= Len(conn.written)
  /\ Reached(Len(conn.written)) = conn.position
  /\ \A n \in conn.read + 1 .. Len(conn.written) :
       LET types == conn.written[n].types
       IN /\ Reached(n) = Reached(n - 1) + Len(types)
          /\ Reached(n) <= Len(log)
          /\ \A i \in 1 .. Len(types) : types[i] \in {log[Reached(n - 1) + i], 0}

\* After the frames on their way at most the padding is left over, on which the
\* next frame may follow.
WireIsClean ==
  LET parsed == ParseSSEChunk(conn.wire, conn.rest)
  IN /\ parsed.frames = [i \in 1 .. Len(conn.written) - conn.read |-> <<conn.read + i>>]
     /\ parsed.rest \in {<< >>, Padding}

WireInv ==
  /\ CursorIsRead
  /\ cursor <= Len(log)
  /\ conn.open => FramesLineUp /\ WireIsClean
=============================================================================
