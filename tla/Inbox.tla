-------------------------------- MODULE Inbox --------------------------------
(***************************************************************************)
(* The unified inbox: one append-only event log in SQLite, the memberships *)
(* that make an event relevant to an agent, and the processes ("workers")  *)
(* that poll the log on behalf of an agent, handle what they get and       *)
(* acknowledge it.                                                         *)
(*                                                                         *)
(* A write is one SQLite transaction and therefore one action.  A poll is  *)
(* NOT one transaction: PollEvents reads the page, the participations, the *)
(* thread watches and the subforum watches in four separate queries, and   *)
(* anything may be committed between two of them.  Each query is an action *)
(* of its own here.                                                        *)
(***************************************************************************)
EXTENDS Integers, Sequences, FiniteSets

CONSTANTS
  Agents,       \* registered agents
  Threads,      \* thread ids that may be created
  Subforums,    \* the existing subforums
  NoSubforum,   \* home of a thread that does not exist yet
  Workers,      \* processes that poll; several may share an agent
  AgentOf,      \* AgentOf[w] is the identity whose token worker w holds
  AckWorkers,   \* workers that run `events poll --since-ack` and ack
  Scope,        \* the reasons the workers' polls accept (--scope)
  PageSize,     \* pollPageSize
  MaxEvents,    \* bound: length of the log
  MaxFaults     \* bound: crashes, lost replies and cancelled polls together

Reasons == {"participating", "watching", "watched_subforum"}

ASSUME InboxAssumption ==
  /\ NoSubforum \notin Subforums
  /\ AgentOf \in [Workers -> Agents]
  /\ AckWorkers \subseteq Workers
  /\ Scope \subseteq Reasons
  /\ PageSize \in Nat \ {0}
  /\ MaxEvents \in Nat
  /\ MaxFaults \in Nat

VARIABLES
  \* the database
  log,             \* table events; the sequence number is the index
  home,            \* threads.subforum_key
  participants,    \* participants[a]: threads agent a created or posted in
  watches,         \* watches[a]: threads agent a watches
  subforumWatches, \* subforumWatches[a]: subforums agent a watches
  acks,            \* event_acks.through_sequence, 0 when there is no row
  \* the workers
  pc,              \* what worker w does next
  cursor,          \* the resume point w keeps (persisted next_cursor)
  pos,             \* `cursor` inside PollEvents; next_cursor once it returned
  pageEnd,         \* last sequence of the page read in this pass
  partThreads,     \* the participations read in this pass
  watchThreads,    \* the thread watches read in this pass
  batch,           \* events returned and not yet handled
  last,            \* the event w handled last, 0 if none of this batch
  faults,          \* how many faults have happened
  \* history, read by no action
  handled,         \* handled[a]: events some worker of a has handled
  owed,            \* owed[a]: <<s, k>> such that event s was relevant to a
                   \* for reason k when it was appended and ever since
  held,            \* held[w]: <<s, k>> such that event s of w's page has been
                   \* relevant for reason k since the page was read
  steady,          \* steady[w]: events of w's page that have been relevant,
                   \* for one reason or another, since the page was read
  topAck           \* topAck[a]: the highest sequence a ever acknowledged

store   == <<log, home, participants, watches, subforumWatches>>
poll    == <<pos, pageEnd, partThreads, watchThreads>>
client  == <<cursor, batch, last>>
history == <<handled, owed, held, steady, topAck>>
vars    == <<store, acks, pc, poll, client, faults, history>>

-----------------------------------------------------------------------------
(* Eligibility.                                                            *)

Event == [type : {"thread.created", "post.created"},
          actor : Agents, thread : Threads, subforum : Subforums]

\* Event e is relevant to agent a for reason k in the current state.
Holds(a, e, k) ==
  /\ e.actor # a
  /\ \/ k = "participating" /\ e.thread \in participants[a]
     \/ k = "watching" /\ e.thread \in watches[a]
     \/ k = "watched_subforum" /\ e.subforum \in subforumWatches[a]

\* The reason an event is delivered for, "" when it is not relevant.  The
\* first membership that applies wins.
EventReason(e, parts, watched, subs) ==
  IF e.thread \in parts THEN "participating"
  ELSE IF e.thread \in watched THEN "watching"
  ELSE IF e.subforum \in subs THEN "watched_subforum"
  ELSE ""

\* The reasons with at least the precedence of k.
AtLeast(k) ==
  CASE k = "participating" -> {"participating"}
    [] k = "watching"      -> {"participating", "watching"}
    [] OTHER               -> Reasons

\* A poll delivers every event relevant for reason k: the reason PollEvents
\* computes may be k or a stronger one, and Scope has to accept it.
Promised(k) == AtLeast(k) \subseteq Scope

-----------------------------------------------------------------------------
Init ==
  /\ log = << >>
  /\ home = [t \in Threads |-> NoSubforum]
  /\ participants = [a \in Agents |-> {}]
  /\ watches = [a \in Agents |-> {}]
  /\ subforumWatches = [a \in Agents |-> {}]
  /\ acks = [a \in Agents |-> 0]
  /\ pc = [w \in Workers |-> "idle"]
  /\ cursor = [w \in Workers |-> 0]
  /\ pos = [w \in Workers |-> 0]
  /\ pageEnd = [w \in Workers |-> 0]
  /\ partThreads = [w \in Workers |-> {}]
  /\ watchThreads = [w \in Workers |-> {}]
  /\ batch = [w \in Workers |-> {}]
  /\ last = [w \in Workers |-> 0]
  /\ faults = 0
  /\ handled = [a \in Agents |-> {}]
  /\ owed = [a \in Agents |-> {}]
  /\ held = [w \in Workers |-> {}]
  /\ steady = [w \in Workers |-> {}]
  /\ topAck = [a \in Agents |-> 0]

-----------------------------------------------------------------------------
(* Writers.  Each is one committed transaction; a transaction that fails   *)
(* rolls back and changes nothing.                                         *)

\* Append the events and note to whom they are owed from now on.
Emit(events) ==
  LET n == Len(log) IN
  /\ log' = log \o events
  /\ owed' = [a \in Agents |-> owed[a] \cup
                {p \in ((n + 1) .. (n + Len(events))) \X Reasons :
                   Holds(a, events[p[1] - n], p[2])}]

\* A membership of agent a has been withdrawn: what was owed to a or held for
\* one of a's workers because of it no longer is.
Withdraw(a) ==
  /\ owed' = [owed EXCEPT ![a] = {p \in @ : Holds(a, log[p[1]], p[2])'}]
  /\ held' = [w \in Workers |->
                {p \in held[w] : AgentOf[w] = a => Holds(a, log[p[1]], p[2])'}]
  /\ steady' = [w \in Workers |->
                {s \in steady[w] :
                   AgentOf[w] = a => \E k \in Reasons : Holds(a, log[s], k)'}]

\* CreateThread: thread, opening post, participant, two events and, on
\* request, the creator's watch.
CreateThread(a, t, f, watch) ==
  LET created(type) ==
        [type |-> type, actor |-> a, thread |-> t, subforum |-> f]
  IN
  /\ home[t] = NoSubforum
  /\ Len(log) + 2 <= MaxEvents
  /\ home' = [home EXCEPT ![t] = f]
  /\ participants' = [participants EXCEPT ![a] = @ \cup {t}]
  /\ Emit(<<created("thread.created"), created("post.created")>>)
  /\ watches' = [watches EXCEPT ![a] = IF watch THEN @ \cup {t} ELSE @]
  /\ UNCHANGED <<subforumWatches, acks, pc, poll, client, faults,
                 handled, held, steady, topAck>>

\* CreatePost in an existing thread makes its author a participant.
CreatePost(a, t) ==
  /\ home[t] # NoSubforum
  /\ Len(log) + 1 <= MaxEvents
  /\ participants' = [participants EXCEPT ![a] = @ \cup {t}]
  /\ Emit(<<[type |-> "post.created", actor |-> a, thread |-> t,
             subforum |-> home[t]]>>)
  /\ UNCHANGED <<home, watches, subforumWatches, acks, pc, poll, client,
                 faults, handled, held, steady, topAck>>

WatchThread(a, t) ==
  /\ home[t] # NoSubforum
  /\ watches' = [watches EXCEPT ![a] = @ \cup {t}]
  /\ UNCHANGED <<log, home, participants, subforumWatches, acks, pc, poll,
                 client, faults, history>>

UnwatchThread(a, t) ==
  /\ watches' = [watches EXCEPT ![a] = @ \ {t}]
  /\ UNCHANGED <<log, home, participants, subforumWatches, acks, pc, poll,
                 client, faults, handled, topAck>>
  /\ Withdraw(a)

WatchSubforum(a, f) ==
  /\ subforumWatches' = [subforumWatches EXCEPT ![a] = @ \cup {f}]
  /\ UNCHANGED <<log, home, participants, watches, acks, pc, poll, client,
                 faults, history>>

UnwatchSubforum(a, f) ==
  /\ subforumWatches' = [subforumWatches EXCEPT ![a] = @ \ {f}]
  /\ UNCHANGED <<log, home, participants, watches, acks, pc, poll, client,
                 faults, handled, topAck>>
  /\ Withdraw(a)

\* Only the memberships of an agent some worker polls for are ever read, and
\* only they are withdrawn: the other agents' watches make no difference.
Readers == {AgentOf[w] : w \in Workers}

Write ==
  \/ \E a \in Agents, t \in Threads, f \in Subforums, watch \in BOOLEAN :
       (watch => a \in Readers) /\ CreateThread(a, t, f, watch)
  \/ \E a \in Agents, t \in Threads : CreatePost(a, t)
  \/ \E a \in Readers, t \in Threads : WatchThread(a, t) \/ UnwatchThread(a, t)
  \/ \E a \in Readers, f \in Subforums :
       WatchSubforum(a, f) \/ UnwatchSubforum(a, f)

-----------------------------------------------------------------------------
(* PollEvents, one action per query.                                       *)

Goto(w, from, to) ==
  /\ pc[w] = from
  /\ pc' = [pc EXCEPT ![w] = to]

\* The poll starts from the durable ack or from the worker's own cursor.
StartPoll(w) ==
  /\ Goto(w, "idle", "page")
  /\ pos' = [pos EXCEPT ![w] =
               IF w \in AckWorkers THEN acks[AgentOf[w]] ELSE cursor[w]]
  /\ UNCHANGED <<store, acks, pageEnd, partThreads, watchThreads, client,
                 faults, history>>

\* ListEventsAfter: up to PageSize events after pos.
ReadPage(w) ==
  LET a    == AgentOf[w]
      end  == IF pos[w] + PageSize < Len(log) THEN pos[w] + PageSize
              ELSE Len(log)
      page == (pos[w] + 1) .. end
  IN
  /\ Goto(w, "page", "participants")
  /\ pageEnd' = [pageEnd EXCEPT ![w] = end]
  /\ held' = [held EXCEPT ![w] =
                {p \in page \X Reasons : Holds(a, log[p[1]], p[2])}]
  /\ steady' = [steady EXCEPT ![w] =
                {s \in page : \E k \in Reasons : Holds(a, log[s], k)}]
  /\ UNCHANGED <<store, acks, pos, partThreads, watchThreads, client, faults,
                 handled, owed, topAck>>

ReadParticipants(w) ==
  /\ Goto(w, "participants", "watches")
  /\ partThreads' = [partThreads EXCEPT ![w] = participants[AgentOf[w]]]
  /\ UNCHANGED <<store, acks, pos, pageEnd, watchThreads, client, faults,
                 history>>

ReadWatches(w) ==
  /\ Goto(w, "watches", "subforums")
  /\ watchThreads' = [watchThreads EXCEPT ![w] = watches[AgentOf[w]]]
  /\ UNCHANGED <<store, acks, pos, pageEnd, partThreads, client, faults,
                 history>>

\* Mutant: the page's last event is left out.
EligibleButLast(w) ==
  {s \in (pos[w] + 1) .. (pageEnd[w] - 1) :
     /\ log[s].actor # AgentOf[w]
     /\ EventReason(log[s], partThreads[w], watchThreads[w],
                    subforumWatches[AgentOf[w]]) \in Scope}

\* The events of the page that are delivered, with the subforum watches read
\* now, by the last query of the pass.
Eligible(w) ==
  {s \in (pos[w] + 1) .. pageEnd[w] :
     /\ log[s].actor # AgentOf[w]
     /\ EventReason(log[s], partThreads[w], watchThreads[w],
                    subforumWatches[AgentOf[w]]) \in Scope}

\* The pass is over: its memberships are forgotten.
EndPass(w) ==
  /\ partThreads' = [partThreads EXCEPT ![w] = {}]
  /\ watchThreads' = [watchThreads EXCEPT ![w] = {}]
  /\ held' = [held EXCEPT ![w] = {}]
  /\ steady' = [steady EXCEPT ![w] = {}]

\* Mutant: a page with nothing eligible is not passed over.
AdvanceIfFound(w) == IF Eligible(w) = {} THEN pos[w] ELSE pageEnd[w]

\* Where the next pass continues.
Advance(w) == pageEnd[w]

\* The last query, the evaluation of the page and the decision: return what is
\* eligible; with nothing eligible, look at the next page, or, when caught up
\* (a short page), return empty if the wait is over and sleep otherwise.
Decide(w) ==
  LET found == Eligible(w)
      full  == pageEnd[w] - pos[w] = PageSize
  IN
  /\ \/ found # {} /\ Goto(w, "subforums", "reply")
     \/ found = {} /\ ~full /\ Goto(w, "subforums", "reply")
     \/ found = {} /\ Goto(w, "subforums", "page")
  /\ pos' = [pos EXCEPT ![w] = Advance(w)]
  /\ batch' = [batch EXCEPT ![w] = found]
  /\ EndPass(w)
  /\ UNCHANGED <<store, acks, pageEnd, cursor, last, faults, handled, owed,
                 topAck>>

-----------------------------------------------------------------------------
(* The worker.                                                             *)

Receive(w) ==
  /\ Goto(w, "reply", "handling")
  /\ UNCHANGED <<store, acks, poll, client, faults, history>>

\* Events are handled one by one in the order they were returned.  A worker
\* that acks does so after each of them, as the shared-identity recipe does.
Handle(w) ==
  /\ batch[w] # {}
  /\ Goto(w, "handling", IF w \in AckWorkers THEN "acking" ELSE "handling")
  /\ \E s \in batch[w] :
       /\ \A r \in batch[w] : s <= r
       /\ batch' = [batch EXCEPT ![w] = @ \ {s}]
       /\ last' = [last EXCEPT ![w] = s]
       /\ handled' = [handled EXCEPT ![AgentOf[w]] = @ \cup {s}]
  /\ UNCHANGED <<store, acks, poll, cursor, faults, owed, held, steady, topAck>>

\* Mutant: the upsert keeps the lower of the two sequences.
AckEventsLower(a, through) ==
  /\ acks' = [acks EXCEPT ![a] = IF through > @ THEN @ ELSE through]
  /\ topAck' = [topAck EXCEPT ![a] = IF through > @ THEN through ELSE @]

\* AckEvents: an upsert that overwrites whatever was stored.
AckEvents(a, through) ==
  /\ acks' = [acks EXCEPT ![a] = through]
  /\ topAck' = [topAck EXCEPT ![a] = IF through > @ THEN through ELSE @]

Ack(w) ==
  /\ Goto(w, "acking", "handling")
  /\ AckEvents(AgentOf[w], last[w])
  /\ UNCHANGED <<store, poll, client, faults, handled, owed, held, steady>>

\* The batch is done; a worker with a cursor of its own keeps next_cursor.
Finish(w) ==
  /\ batch[w] = {}
  /\ Goto(w, "handling", "idle")
  /\ cursor' = [cursor EXCEPT ![w] = IF w \in AckWorkers THEN @ ELSE pos[w]]
  /\ last' = [last EXCEPT ![w] = 0]
  /\ UNCHANGED <<store, acks, poll, batch, faults, history>>

WorkerStep(w) ==
  \/ StartPoll(w)
  \/ ReadPage(w)
  \/ ReadParticipants(w)
  \/ ReadWatches(w)
  \/ Decide(w)
  \/ Receive(w)
  \/ Handle(w)
  \/ Ack(w)
  \/ Finish(w)

-----------------------------------------------------------------------------
(* Faults.                                                                 *)

Polling == {"page", "participants", "watches", "subforums"}

Fault ==
  /\ faults < MaxFaults
  /\ faults' = faults + 1

\* The cursor an aborted poll answers with.  Mutant: the end of the page, whose
\* events have not been looked at.
AbortCursorPageEnd(w) == pageEnd[w]

AbortCursor(w) == pos[w]

\* The poll's context ends or a query fails.  A context that ended is answered
\* with no events and the cursor reached so far; any other error is an error
\* status, and the worker polls again from where it was.
PollAborted(w) ==
  /\ Fault
  /\ pc[w] \in Polling
  /\ \E to \in {"reply", "idle"} : pc' = [pc EXCEPT ![w] = to]
  /\ pos' = [pos EXCEPT ![w] = AbortCursor(w)]
  /\ EndPass(w)
  /\ UNCHANGED <<store, acks, pageEnd, client, handled, owed, topAck>>

\* The answer never reaches the worker.
LoseReply(w) ==
  /\ Fault
  /\ Goto(w, "reply", "idle")
  /\ batch' = [batch EXCEPT ![w] = {}]
  /\ UNCHANGED <<store, acks, poll, cursor, last, history>>

\* The worker stops and is started again: from the cursor it had persisted,
\* from nothing, or (follow --since-ack) from the ack.
Crash(w) ==
  /\ Fault
  /\ pc' = [pc EXCEPT ![w] = "idle"]
  /\ batch' = [batch EXCEPT ![w] = {}]
  /\ last' = [last EXCEPT ![w] = 0]
  /\ \E c \in IF w \in AckWorkers THEN {0}
              ELSE {cursor[w], 0, acks[AgentOf[w]]} :
       cursor' = [cursor EXCEPT ![w] = c]
  /\ EndPass(w)
  /\ UNCHANGED <<store, acks, pos, pageEnd, handled, owed, topAck>>

Next ==
  \/ Write
  \/ \E w \in Workers : WorkerStep(w)
  \/ \E w \in Workers : PollAborted(w) \/ LoseReply(w) \/ Crash(w)

\* A worker is a running process: it takes its next step.  Nothing makes an
\* agent write, and nothing makes a fault happen.
Fairness == \A w \in Workers : WF_vars(WorkerStep(w))

Spec == Init /\ [][Next]_vars
FairSpec == Spec /\ Fairness

-----------------------------------------------------------------------------
(* Properties.                                                             *)

\* Every variable has its type, and no position lies beyond the log.
TypeOK ==
  /\ log \in Seq(Event)
  /\ home \in [Threads -> Subforums \cup {NoSubforum}]
  /\ participants \in [Agents -> SUBSET Threads]
  /\ watches \in [Agents -> SUBSET Threads]
  /\ subforumWatches \in [Agents -> SUBSET Subforums]
  /\ acks \in [Agents -> 0 .. Len(log)]
  /\ pc \in [Workers -> Polling \cup {"idle", "reply", "handling", "acking"}]
  /\ cursor \in [Workers -> 0 .. Len(log)]
  /\ pos \in [Workers -> 0 .. Len(log)]
  /\ pageEnd \in [Workers -> 0 .. Len(log)]
  /\ partThreads \in [Workers -> SUBSET Threads]
  /\ watchThreads \in [Workers -> SUBSET Threads]
  /\ batch \in [Workers -> SUBSET (1 .. Len(log))]
  /\ last \in [Workers -> 0 .. Len(log)]
  /\ faults \in 0 .. MaxFaults
  /\ handled \in [Agents -> SUBSET (1 .. Len(log))]
  /\ owed \in [Agents -> SUBSET ((1 .. Len(log)) \X Reasons)]
  /\ held \in [Workers -> SUBSET ((1 .. Len(log)) \X Reasons)]
  /\ steady \in [Workers -> SUBSET (1 .. Len(log))]
  /\ topAck \in [Agents -> 0 .. Len(log)]

\* An acknowledgement never covers an event nobody handled: every event up to
\* an agent's ack that has been relevant to the agent since it was appended
\* (for a reason the polls accept) was handled by one of its workers, whatever
\* the other workers, lost replies and crashes do.  This is what makes
\* "durable acks make restarts lossless" true of --since-ack.
AckedMeansHandled ==
  \A a \in Agents : \A p \in owed[a] :
    Promised(p[2]) /\ p[1] <= acks[a] => p[1] \in handled[a]

\* The same for the cursor a worker keeps: resuming from it loses nothing.
CursorLosesNothing ==
  \A w \in Workers : \A p \in owed[AgentOf[w]] :
    Promised(p[2]) /\ p[1] <= cursor[w] => p[1] \in handled[AgentOf[w]]

\* A pass that moves past an event returns it if, from the moment the page was
\* read, one and the same membership made it relevant.  Memberships may be
\* added and withdrawn between the queries of the pass.
NeverPassesHeld ==
  [][\A w \in Workers : pc[w] = "subforums" =>
       \A p \in held[w] :
         p[1] <= pos'[w] /\ Promised(p[2]) => p[1] \in batch'[w]]_vars

\* PollEvents' comment: "eligible events are always delivered before being
\* advanced past".  An event that was eligible at every moment of the pass,
\* though not for the same reason throughout, is delivered too.
EligibleAlwaysDelivered ==
  [][\A w \in Workers : pc[w] = "subforums" =>
       \A s \in steady[w] : s <= pos'[w] => s \in batch'[w]]_vars

\* Nobody but w moves the point that w resumes from.
Sole(w) ==
  w \in AckWorkers => \A v \in AckWorkers \ {w} : AgentOf[v] # AgentOf[w]

\* A process that shares its ack with no other never gets back what it has
\* acknowledged, over crashes, cancelled polls and acks whose reply is lost: its next
\* poll starts at or after everything the agent ever acknowledged.  A second process
\* that acks can take the shared ack back.
AckAvoidsReplay ==
  [][\A w \in AckWorkers :
       Sole(w) /\ pc[w] = "idle" /\ pc'[w] = "page"
         => pos'[w] >= topAck[AgentOf[w]]]_vars

\* The same event is not returned twice to a worker that resumes from its own
\* cursor, unless the worker lost it: what a poll returns lies after it.
NoReplayAfterCursor ==
  \A w \in Workers \ AckWorkers : \A s \in batch[w] : s > cursor[w]

\* Nobody is handed an event again without a reason.
NoReplay == AckAvoidsReplay /\ []NoReplayAfterCursor

-----------------------------------------------------------------------------
(* The inductive invariant behind AckedMeansHandled, CursorLosesNothing    *)
(* and NeverPassesHeld.                                                    *)

\* Everything owed to a up to n has been handled, or is in the set batched.
Covered(a, n, batched) ==
  \A p \in owed[a] :
    Promised(p[2]) /\ p[1] <= n => p[1] \in handled[a] \cup batched

\* What is owed to a is relevant to a now.
OwedHolds == \A a \in Agents : \A p \in owed[a] : Holds(a, log[p[1]], p[2])

\* In a pass the page lies after pos, what is owed for it is held, what is
\* held holds now, and each membership already read contains what is held
\* because of it.
PassInv(w) ==
  /\ pc[w] \in Polling \ {"page"} =>
       /\ pos[w] <= pageEnd[w]
       /\ \A p \in owed[AgentOf[w]] :
            pos[w] < p[1] /\ p[1] <= pageEnd[w] => p \in held[w]
  /\ pc[w] \notin Polling \ {"page"} => held[w] = {}
  /\ \A p \in held[w] :
       /\ pos[w] < p[1] /\ p[1] <= pageEnd[w]
       /\ Holds(AgentOf[w], log[p[1]], p[2])
       /\ pc[w] \in {"watches", "subforums"} /\ p[2] = "participating"
            => log[p[1]].thread \in partThreads[w]
       /\ pc[w] = "subforums" /\ p[2] = "watching"
            => log[p[1]].thread \in watchThreads[w]

\* Every position a worker may resume or acknowledge from is covered.
WorkerInv(w) ==
  /\ Covered(AgentOf[w], cursor[w], {})
  /\ pc[w] \in Polling => Covered(AgentOf[w], pos[w], {})
  /\ pc[w] \in {"reply", "handling", "acking"} =>
       /\ Covered(AgentOf[w], pos[w], batch[w])
       /\ \A s \in batch[w] : s <= pos[w]
  /\ pc[w] \notin {"reply", "handling", "acking"} => batch[w] = {}
  /\ pc[w] \in {"handling", "acking"} =>
       last[w] <= pos[w] /\ \A s \in batch[w] : last[w] < s
  /\ pc[w] \notin {"handling", "acking"} => last[w] = 0

InboxInv ==
  /\ OwedHolds
  /\ \A a \in Agents : Covered(a, acks[a], {})
  /\ \A w \in Workers : PassInv(w) /\ WorkerInv(w)

-----------------------------------------------------------------------------
\* The events agent a is entitled to.
OwedTo(a) == {p[1] : p \in {q \in owed[a] : Promised(q[2])}}

\* An event that stays relevant is eventually handled, even if replies are
\* lost and workers crash, as long as that stops happening.
OwedIsHandled ==
  \A a \in Readers, s \in 1 .. MaxEvents :
    s \in OwedTo(a) ~> s \in handled[a] \/ s \notin OwedTo(a)

-----------------------------------------------------------------------------
(* What all this implements: an at-least-once feed for every worker.  Its  *)
(* resume point is where the worker's next poll starts.                    *)

ResumeOf(w) == IF w \in AckWorkers THEN acks[AgentOf[w]] ELSE cursor[w]

Feed(w) == INSTANCE AtLeastOnce WITH
             posted    <- Len(log),
             owed      <- OwedTo(AgentOf[w]),
             delivered <- handled[AgentOf[w]],
             resume    <- ResumeOf(w)

\* Whoever reads through a worker sees an at-least-once feed: whatever the
\* worker, the other workers of its agent, faults and membership changes do,
\* the point it resumes from moves forward only over events that have been
\* handled.
ImplementsFeed ==
  /\ \A w \in Workers : Feed(w)!Init
  /\ [][\A w \in Workers : [Feed(w)!Next]_(Feed(w)!vars)]_vars

-----------------------------------------------------------------------------
(* The inductive invariant behind NoReplay.                                *)

\* The poll of such a worker has started at or after its resume point, which
\* comes before whatever is still in the worker's hands; for the agent of a
\* worker that acks it is the highest acknowledgement there has been.
ReplayInv(w) ==
  /\ pc[w] = "acking" => w \in AckWorkers
  /\ Sole(w) =>
       /\ pc[w] \in Polling => ResumeOf(w) <= pos[w]
       /\ \A s \in batch[w] : ResumeOf(w) < s
       /\ pc[w] = "acking" => ResumeOf(w) <= last[w]
       /\ w \in AckWorkers => acks[AgentOf[w]] = topAck[AgentOf[w]]

NoReplayInv == \A w \in Workers : ReplayInv(w)

=============================================================================
