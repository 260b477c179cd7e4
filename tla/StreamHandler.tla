---------------------------- MODULE StreamHandler ----------------------------
(***************************************************************************)
(* One connection to GET /v1/events/stream on the server: the handler      *)
(* ("data"), which polls and writes frames, the heartbeat goroutine        *)
(* ("beat"), which writes comment frames, and net/http, which takes the    *)
(* response back as soon as the handler returns.  Every write goes through *)
(* one mutex.  The deferred calls of the handler tell the goroutine to     *)
(* stop, stop the ticker and wait for the goroutine, in this order.        *)
(*                                                                         *)
(* The client may be slow, so that a write blocks, and may go away, which  *)
(* makes writes fail and, some time later, cancels the request's context.  *)
(***************************************************************************)
EXTENDS Integers

CONSTANT Buffer  \* what the connection takes in before a write blocks

ASSUME BufferAssumption == Buffer \in Nat \ {0}

VARIABLES
  data,      \* what the handler does next
  beat,      \* what the heartbeat goroutine does next
  mutex,     \* who holds mu
  half,      \* goroutines in the middle of a write to the response
  unread,    \* frames written and not read by the client yet
  tick,      \* the ticker's channel holds a tick
  ticking,   \* the ticker runs
  done,      \* channel done is closed
  beatDone,  \* channel hbDone is closed
  connected, \* the client is there
  cancelled  \* the request's context is done

channels == <<tick, ticking, done, beatDone>>
client     == <<unread, connected, cancelled>>
vars     == <<data, beat, mutex, half, channels, client>>

Goroutines == {"data", "beat"}
Nobody == "nobody"

\* A write is under way: waiting for the mutex, writing, or just done.
WriteSteps == {"lock", "write", "written", "failed"}
Unwinding  == {"close", "stop", "join"}
DataSteps  == {"padding", "poll", "frame", "check", "returned"}
                \cup Unwinding \cup WriteSteps
BeatSteps  == {"unborn", "select", "exited"} \cup WriteSteps

-----------------------------------------------------------------------------
Init ==
  /\ data = "padding"
  /\ beat = "unborn"
  /\ mutex = Nobody
  /\ half = {}
  /\ unread = 0
  /\ tick = FALSE
  /\ ticking = FALSE
  /\ done = FALSE
  /\ beatDone = FALSE
  /\ connected = TRUE
  /\ cancelled = FALSE

-----------------------------------------------------------------------------
(* writeFrame, for either goroutine.                                       *)

Step(g) == IF g = "data" THEN data ELSE beat

Goto(g, from, to) ==
  /\ Step(g) = from
  /\ IF g = "data" THEN data' = to /\ UNCHANGED beat
                   ELSE beat' = to /\ UNCHANGED data

\* Mutant: the frame is written without the mutex.
LockFree(g) == mutex' = mutex

LockMutex(g) == mutex = Nobody /\ mutex' = g

Lock(g) ==
  /\ Goto(g, "lock", "write")
  /\ LockMutex(g)
  /\ half' = half \cup {g}
  /\ UNCHANGED <<channels, client>>

\* The connection takes in another frame.
Room == unread < Buffer

\* Mutant: after a failed write the mutex stays locked.
UnlockOnSuccess(ok) == IF ok THEN Nobody ELSE mutex

Unlock(ok) == Nobody

\* The write and the flush get through; while the connection takes nothing in
\* they wait.  When the client is gone they fail, or seem to succeed as long as
\* nobody has noticed: Flush returns no error.
Write(g) ==
  /\ \/ /\ connected /\ Room
        /\ Goto(g, "write", "written")
        /\ unread' = unread + 1
        /\ mutex' = Unlock(TRUE)
     \/ /\ ~connected
        /\ Goto(g, "write", "written")
        /\ UNCHANGED unread
        /\ mutex' = Unlock(TRUE)
     \/ /\ ~connected
        /\ Goto(g, "write", "failed")
        /\ UNCHANGED unread
        /\ mutex' = Unlock(FALSE)
  /\ half' = half \ {g}
  /\ UNCHANGED <<channels, connected, cancelled>>

-----------------------------------------------------------------------------
(* The handler.                                                            *)

Idle == UNCHANGED <<mutex, half, client>>

\* The padding frame, before the goroutine exists: its result is ignored, and
\* nobody competes for the mutex.
WritePadding ==
  /\ Goto("data", "padding", "lock")
  /\ Idle /\ UNCHANGED channels

\* After the padding: the ticker and the goroutine are started.
StartBeat ==
  /\ beat = "unborn"
  /\ data \in {"written", "failed"}
  /\ data' = "poll"
  /\ beat' = "select"
  /\ ticking' = TRUE
  /\ Idle /\ UNCHANGED <<tick, done, beatDone>>

\* PollEvents found something, or its second is over.
PollReturns ==
  /\ \E to \in {"frame", "check"} : Goto("data", "poll", to)
  /\ Idle /\ UNCHANGED channels

\* PollEvents fails: the context is done, or the store has an error.
PollFails ==
  /\ Goto("data", "poll", "close")
  /\ Idle /\ UNCHANGED channels

\* Names and titles are added and the frame is written, or that fails.
Frame ==
  /\ \E to \in {"lock", "close"} : Goto("data", "frame", to)
  /\ Idle /\ UNCHANGED channels

FrameWritten ==
  /\ beat # "unborn"
  /\ Goto("data", "written", "check") \/ Goto("data", "failed", "close")
  /\ Idle /\ UNCHANGED channels

CheckContext ==
  /\ Goto("data", "check", IF cancelled THEN "close" ELSE "poll")
  /\ Idle /\ UNCHANGED channels

\* The deferred calls, last first.
CloseDone ==
  /\ Goto("data", "close", "stop")
  /\ done' = TRUE
  /\ Idle /\ UNCHANGED <<tick, ticking, beatDone>>

StopTicker ==
  /\ Goto("data", "stop", "join")
  /\ ticking' = FALSE
  /\ Idle /\ UNCHANGED <<tick, done, beatDone>>

\* Mutant: the handler does not wait for the goroutine.
JoinNot ==
  /\ Goto("data", "join", "returned")
  /\ Idle /\ UNCHANGED channels

Join ==
  /\ Goto("data", "join", "returned")
  /\ beatDone
  /\ Idle /\ UNCHANGED channels

-----------------------------------------------------------------------------
(* The heartbeat goroutine.                                                *)

\* Mutant: a timer instead of a ticker.
TickOnce ==
  /\ ticking /\ ~tick
  /\ tick' = TRUE
  /\ ticking' = FALSE
  /\ Idle /\ UNCHANGED <<data, beat, done, beatDone>>

\* time.Ticker: a tick is dropped when the last one has not been taken.
Tick ==
  /\ ticking /\ ~tick
  /\ tick' = TRUE
  /\ Idle /\ UNCHANGED <<data, beat, ticking, done, beatDone>>

\* Any case of the select that is ready may be chosen.
Beat ==
  /\ tick
  /\ Goto("beat", "select", "lock")
  /\ tick' = FALSE
  /\ Idle /\ UNCHANGED <<ticking, done, beatDone>>

ToldToStop == done \/ cancelled

Exit ==
  /\ \/ ToldToStop /\ Goto("beat", "select", "exited")
     \/ Goto("beat", "failed", "exited")
  /\ beatDone' = TRUE
  /\ Idle /\ UNCHANGED <<tick, ticking, done>>

BeatWritten ==
  /\ Goto("beat", "written", "select")
  /\ Idle /\ UNCHANGED channels

-----------------------------------------------------------------------------
(* The client and net/http.                                                *)

Read ==
  /\ unread > 0
  /\ unread' = unread - 1
  /\ UNCHANGED <<data, beat, mutex, half, channels, connected, cancelled>>

Leave ==
  /\ connected
  /\ connected' = FALSE
  /\ unread' = 0
  /\ UNCHANGED <<data, beat, mutex, half, channels, cancelled>>

\* net/http notices that the client is gone, or the handler has returned.
CancelContext ==
  /\ ~connected \/ data = "returned"
  /\ ~cancelled
  /\ cancelled' = TRUE
  /\ UNCHANGED <<data, beat, mutex, half, channels, unread, connected>>

Handler ==
  \/ WritePadding \/ StartBeat \/ Frame \/ FrameWritten \/ CheckContext
  \/ CloseDone \/ StopTicker \/ Join

Heartbeat == Beat \/ BeatWritten \/ Exit

Next ==
  \/ \E g \in Goroutines : Lock(g) \/ Write(g)
  \/ Handler \/ PollReturns \/ PollFails \/ Heartbeat \/ Tick
  \/ Read \/ Leave \/ CancelContext

\* Goroutines run.  A mutex that is free again and again is got, as Go's mutex
\* hands itself over to a goroutine that has waited too long.  PollEvents
\* returns when the context is done; nothing else is assumed of how long it
\* takes.  A client that is gone is noticed.  No client has to read or leave.
Fairness ==
  /\ \A g \in Goroutines : SF_vars(Lock(g)) /\ WF_vars(Write(g))
  /\ WF_vars(Handler)
  /\ WF_vars(cancelled /\ (PollReturns \/ PollFails))
  /\ WF_vars(Heartbeat)
  /\ WF_vars(Tick)
  /\ WF_vars(CancelContext)

Spec == Init /\ [][Next]_vars
FairSpec == Spec /\ Fairness

-----------------------------------------------------------------------------
(* Properties.                                                             *)

\* Every variable has its type.
TypeOK ==
  /\ data \in DataSteps
  /\ beat \in BeatSteps
  /\ mutex \in Goroutines \cup {Nobody}
  /\ half \in SUBSET Goroutines
  /\ unread \in 0 .. Buffer
  /\ tick \in BOOLEAN
  /\ ticking \in BOOLEAN
  /\ done \in BOOLEAN
  /\ beatDone \in BOOLEAN
  /\ connected \in BOOLEAN
  /\ cancelled \in BOOLEAN

\* Frames never mix: at most one goroutine is in the middle of a write, and a
\* goroutine is only while it holds the mutex.
FramesAreWhole ==
  \A g \in half : mutex = g

\* The response is not touched once the handler has returned it to net/http,
\* whichever way the handler ended: the goroutine has exited by then.
NoWriteAfterReturn == data = "returned" => half = {} /\ beat = "exited"

\* The inductive invariant behind both: a goroutine holds the mutex exactly
\* while it writes, and the handler is past its last step only after the
\* goroutine has closed hbDone, which it does when it exits.
HandlerInv ==
  /\ \A g \in Goroutines : Step(g) = "write" <=> mutex = g
  /\ half = {g \in Goroutines : mutex = g}
  /\ beatDone <=> beat = "exited"
  /\ data = "returned" => beatDone

\* Whatever both goroutines are doing when the client goes away, the handler
\* returns (and the goroutine has exited): no connection leaks a goroutine, and
\* nobody waits for a mutex or a channel forever.
HandlerReturns == ~connected ~> data = "returned"

\* The same if the handler ends by itself and the client stays, unless the
\* client stops reading for good: the goroutine is told to stop and does not
\* have to be woken by a tick.
UnwindingEnds ==
  data \in Unwinding ~> (data = "returned" \/ [](unread = Buffer))

\* The handler ends and takes its goroutine with it, whoever ends the connection.
HandlerEnds == HandlerReturns /\ UnwindingEnds

\* A heartbeat is never starved, however long a poll takes: until the
\* connection ends or the client stops reading, another ping is on its way.
PingsGoOn ==
  \/ <>[](unread = Buffer)
  \/ []<>(beat = "written" \/ ~connected \/ data \in Unwinding \cup {"returned"})

=============================================================================
