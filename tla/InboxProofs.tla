----------------------------- MODULE InboxProofs -----------------------------
(* Proofs about Inbox, for every value of its constants.                   *)
EXTENDS Inbox, TLAPS

USE InboxAssumption

-----------------------------------------------------------------------------
(* Type correctness.                                                       *)

LEMMA EmitLog ==
  ASSUME log \in Seq(Event), NEW events \in Seq(Event), Emit(events)
  PROVE  /\ log' \in Seq(Event)
         /\ Len(log') = Len(log) + Len(events)
         /\ Len(log) \in Nat /\ Len(events) \in Nat
         /\ \A i \in 1 .. Len(log) : log'[i] = log[i]
         /\ \A i \in 1 .. Len(events) : log'[Len(log) + i] = events[i]
  BY DEF Emit

LEMMA EmitOwed ==
  ASSUME TypeOK, NEW events \in Seq(Event), Emit(events)
  PROVE  owed' \in [Agents -> SUBSET ((1 .. Len(log')) \X Reasons)]
<1> DEFINE added(a) == {p \in ((Len(log) + 1) .. (Len(log) + Len(events))) \X Reasons :
                          Holds(a, events[p[1] - Len(log)], p[2])}
<1>1. /\ Len(log') = Len(log) + Len(events)
      /\ Len(log) \in Nat /\ Len(events) \in Nat
  BY EmitLog DEF TypeOK
<1>2. owed' = [a \in Agents |-> owed[a] \cup added(a)]
  BY DEF Emit
<1>3. ASSUME NEW a \in Agents
      PROVE  owed[a] \cup added(a) \subseteq (1 .. Len(log')) \X Reasons
  <2>1. owed[a] \subseteq (1 .. Len(log)) \X Reasons
    BY DEF TypeOK
  <2>2. (1 .. Len(log)) \X Reasons \subseteq (1 .. Len(log')) \X Reasons
    BY <1>1
  <2>3. added(a) \subseteq (1 .. Len(log')) \X Reasons
    BY <1>1
  <2> QED BY <2>1, <2>2, <2>3
<1> QED BY <1>2, <1>3

(* A longer log keeps every position and set of positions well typed.      *)
LEMMA LongerLog ==
  ASSUME TypeOK, log' \in Seq(Event), Len(log') >= Len(log),
         UNCHANGED <<acks, pc, poll, client, faults, handled, held, steady,
                     topAck>>
  PROVE  /\ acks' \in [Agents -> 0 .. Len(log')]
         /\ pc' \in [Workers -> Polling \cup {"idle", "reply", "handling", "acking"}]
         /\ cursor' \in [Workers -> 0 .. Len(log')]
         /\ pos' \in [Workers -> 0 .. Len(log')]
         /\ pageEnd' \in [Workers -> 0 .. Len(log')]
         /\ partThreads' \in [Workers -> SUBSET Threads]
         /\ watchThreads' \in [Workers -> SUBSET Threads]
         /\ batch' \in [Workers -> SUBSET (1 .. Len(log'))]
         /\ last' \in [Workers -> 0 .. Len(log')]
         /\ faults' \in 0 .. MaxFaults
         /\ handled' \in [Agents -> SUBSET (1 .. Len(log'))]
         /\ held' \in [Workers -> SUBSET ((1 .. Len(log')) \X Reasons)]
         /\ steady' \in [Workers -> SUBSET (1 .. Len(log'))]
         /\ topAck' \in [Agents -> 0 .. Len(log')]
<1>1. Len(log) \in Nat /\ Len(log') \in Nat
  BY DEF TypeOK
<1>2. 1 .. Len(log) \subseteq 1 .. Len(log') /\ 0 .. Len(log) \subseteq 0 .. Len(log')
  BY <1>1
<1>3. (1 .. Len(log)) \X Reasons \subseteq (1 .. Len(log')) \X Reasons
  BY <1>2
<1>4. SUBSET ((1 .. Len(log)) \X Reasons) \subseteq SUBSET ((1 .. Len(log')) \X Reasons)
  BY <1>3
<1>5. held \in [Workers -> SUBSET ((1 .. Len(log')) \X Reasons)]
  BY <1>4 DEF TypeOK
<1>6. SUBSET (1 .. Len(log)) \subseteq SUBSET (1 .. Len(log'))
  BY <1>2
<1> QED BY <1>2, <1>5, <1>6 DEF TypeOK, poll, client

LEMMA TypeStep == TypeOK /\ [Next]_vars => TypeOK'
<1> SUFFICES ASSUME TypeOK, [Next]_vars PROVE TypeOK'
  OBVIOUS
<1>1. ASSUME NEW a \in Agents, NEW t \in Threads, NEW f \in Subforums,
             NEW watch \in BOOLEAN, CreateThread(a, t, f, watch)
      PROVE  TypeOK'
  <2> DEFINE e(type) == [type |-> type, actor |-> a, thread |-> t, subforum |-> f]
             events == <<e("thread.created"), e("post.created")>>
  <2>1. events \in Seq(Event) /\ Emit(events)
    BY <1>1 DEF Event, CreateThread
  <2> HIDE DEF events
  <2>2. log' \in Seq(Event) /\ Len(log') >= Len(log)
    BY <2>1, EmitLog DEF TypeOK
  <2>3. owed' \in [Agents -> SUBSET ((1 .. Len(log')) \X Reasons)]
    BY <2>1, EmitOwed
  <2>4. UNCHANGED <<subforumWatches, acks, pc, poll, client, faults, handled,
                    held, steady, topAck>>
    BY <1>1 DEF CreateThread
  <2>5. /\ home' \in [Threads -> Subforums \cup {NoSubforum}]
        /\ participants' \in [Agents -> SUBSET Threads]
        /\ watches' \in [Agents -> SUBSET Threads]
    BY <1>1 DEF CreateThread, TypeOK
  <2> QED BY <2>2, <2>3, <2>4, <2>5, LongerLog DEF TypeOK
<1>2. ASSUME NEW a \in Agents, NEW t \in Threads, CreatePost(a, t)
      PROVE  TypeOK'
  <2> DEFINE events == <<[type |-> "post.created", actor |-> a, thread |-> t,
                          subforum |-> home[t]]>>
  <2>1. events \in Seq(Event) /\ Emit(events)
    BY <1>2 DEF Event, CreatePost, TypeOK
  <2> HIDE DEF events
  <2>2. log' \in Seq(Event) /\ Len(log') >= Len(log)
    BY <2>1, EmitLog DEF TypeOK
  <2>3. owed' \in [Agents -> SUBSET ((1 .. Len(log')) \X Reasons)]
    BY <2>1, EmitOwed
  <2>4. UNCHANGED <<home, watches, subforumWatches, acks, pc, poll, client,
                    faults, handled, held, steady, topAck>>
    BY <1>2 DEF CreatePost
  <2>5. participants' \in [Agents -> SUBSET Threads]
    BY <1>2 DEF CreatePost, TypeOK
  <2> QED BY <2>2, <2>3, <2>4, <2>5, LongerLog DEF TypeOK
<1> USE DEF TypeOK, Polling, poll, client, store, history
<1>3. ASSUME NEW a \in Agents, NEW t \in Threads, WatchThread(a, t)
      PROVE  TypeOK'
  BY <1>3 DEF WatchThread
<1>4. ASSUME NEW a \in Agents, NEW t \in Threads, UnwatchThread(a, t)
      PROVE  TypeOK'
  BY <1>4 DEF UnwatchThread, Withdraw
<1>5. ASSUME NEW a \in Agents, NEW f \in Subforums, WatchSubforum(a, f)
      PROVE  TypeOK'
  BY <1>5 DEF WatchSubforum
<1>6. ASSUME NEW a \in Agents, NEW f \in Subforums, UnwatchSubforum(a, f)
      PROVE  TypeOK'
  BY <1>6 DEF UnwatchSubforum, Withdraw
<1>7. ASSUME NEW w \in Workers, StartPoll(w)
      PROVE  TypeOK'
  BY <1>7 DEF StartPoll, Goto
<1>8. ASSUME NEW w \in Workers, ReadPage(w)
      PROVE  TypeOK'
  <2> DEFINE end == IF pos[w] + PageSize < Len(log) THEN pos[w] + PageSize ELSE Len(log)
  <2>1. end \in 0 .. Len(log)
    OBVIOUS
  <2>2. pageEnd' = [pageEnd EXCEPT ![w] = end]
    BY <1>8 DEF ReadPage
  <2>3. /\ held' \in [Workers -> SUBSET ((1 .. Len(log)) \X Reasons)]
        /\ steady' \in [Workers -> SUBSET (1 .. Len(log))]
    BY <1>8, <2>1 DEF ReadPage
  <2> HIDE DEF end
  <2>4. pc' \in [Workers -> Polling \cup {"idle", "reply", "handling", "acking"}]
    BY <1>8 DEF ReadPage, Goto
  <2>5. UNCHANGED <<store, acks, pos, partThreads, watchThreads, client, faults,
                    handled, owed, topAck>>
    BY <1>8 DEF ReadPage
  <2>6. pageEnd' \in [Workers -> 0 .. Len(log)]
    BY <2>1, <2>2
  <2> QED BY <2>3, <2>4, <2>5, <2>6
<1>9. ASSUME NEW w \in Workers, ReadParticipants(w)
      PROVE  TypeOK'
  BY <1>9 DEF ReadParticipants, Goto
<1>10. ASSUME NEW w \in Workers, ReadWatches(w)
       PROVE  TypeOK'
  BY <1>10 DEF ReadWatches, Goto
<1>11. ASSUME NEW w \in Workers, Decide(w)
       PROVE  TypeOK'
  <2>1. Eligible(w) \in SUBSET (1 .. Len(log))
    BY DEF Eligible
  <2> QED BY <1>11, <2>1 DEF Decide, Advance, EndPass, Goto
<1>12. ASSUME NEW w \in Workers, Receive(w)
       PROVE  TypeOK'
  BY <1>12 DEF Receive, Goto
<1>13. ASSUME NEW w \in Workers, Handle(w)
       PROVE  TypeOK'
  <2>1. PICK s \in batch[w] :
          /\ batch' = [batch EXCEPT ![w] = @ \ {s}]
          /\ last' = [last EXCEPT ![w] = s]
          /\ handled' = [handled EXCEPT ![AgentOf[w]] = @ \cup {s}]
    BY <1>13 DEF Handle
  <2>2. s \in 1 .. Len(log)
    OBVIOUS
  <2>3. pc' \in [Workers -> Polling \cup {"idle", "reply", "handling", "acking"}]
    BY <1>13 DEF Handle, Goto
  <2>4. /\ batch' \in [Workers -> SUBSET (1 .. Len(log))]
        /\ last' \in [Workers -> 0 .. Len(log)]
        /\ handled' \in [Agents -> SUBSET (1 .. Len(log))]
    BY <2>1, <2>2
  <2>5. UNCHANGED <<store, acks, poll, cursor, faults, owed, held, steady, topAck>>
    BY <1>13 DEF Handle
  <2> QED BY <2>3, <2>4, <2>5
<1>14. ASSUME NEW w \in Workers, Ack(w)
       PROVE  TypeOK'
  BY <1>14 DEF Ack, AckEvents, Goto
<1>15. ASSUME NEW w \in Workers, Finish(w)
       PROVE  TypeOK'
  <2>1. pc' \in [Workers -> Polling \cup {"idle", "reply", "handling", "acking"}]
    BY <1>15 DEF Finish, Goto
  <2>2. /\ cursor' \in [Workers -> 0 .. Len(log)]
        /\ last' \in [Workers -> 0 .. Len(log)]
    BY <1>15 DEF Finish
  <2>3. UNCHANGED <<store, acks, poll, batch, faults, history>>
    BY <1>15 DEF Finish
  <2> QED BY <2>1, <2>2, <2>3
<1>16. ASSUME NEW w \in Workers, PollAborted(w)
       PROVE  TypeOK'
  BY <1>16 DEF PollAborted, AbortCursor, Fault, EndPass
<1>17. ASSUME NEW w \in Workers, LoseReply(w)
       PROVE  TypeOK'
  BY <1>17 DEF LoseReply, Fault, Goto
<1>18. ASSUME NEW w \in Workers, Crash(w)
       PROVE  TypeOK'
  BY <1>18 DEF Crash, Fault, EndPass
<1>19. CASE UNCHANGED vars
  BY <1>19 DEF vars
<1> HIDE DEF TypeOK, Polling, poll, client, store, history
<1> QED
  BY <1>1, <1>2, <1>3, <1>4, <1>5, <1>6, <1>7, <1>8, <1>9, <1>10, <1>11, <1>12,
     <1>13, <1>14, <1>15, <1>16, <1>17, <1>18, <1>19
  DEF Next, Write, WorkerStep, Readers

\* Every reachable state is well typed: in particular no cursor, page, batch or
\* ack ever points beyond the log.
THEOREM TypeCorrect == Spec => []TypeOK
<1>1. Init => TypeOK
  BY DEF Init, TypeOK, Polling, Reasons
<1> QED BY <1>1, TypeStep, PTL DEF Spec
-----------------------------------------------------------------------------
(* The inductive invariant.                                                *)

(* The reason computed for a relevant event is accepted when polls promise *)
(* the reason it is relevant for, though it may be a stronger one.         *)
LEMMA PromisedIsAccepted ==
  ASSUME NEW e \in Event, NEW k \in Reasons, Promised(k),
         NEW parts, NEW watched, NEW subs,
         k = "participating" => e.thread \in parts,
         k = "watching" => e.thread \in watched,
         k = "watched_subforum" => e.subforum \in subs
  PROVE  EventReason(e, parts, watched, subs) \in Scope
  BY DEF Promised, AtLeast, EventReason, Reasons

(* What a pass holds is in the set it delivers.                            *)
LEMMA HeldIsEligible ==
  ASSUME TypeOK, InboxInv, NEW w \in Workers, pc[w] = "subforums",
         NEW p \in held[w], Promised(p[2])
  PROVE  p[1] \in Eligible(w)
<1>1. p \in (1 .. Len(log)) \X Reasons
  BY DEF TypeOK
<1>2. PassInv(w)
  BY DEF InboxInv
<1>3. /\ pos[w] < p[1] /\ p[1] <= pageEnd[w]
      /\ Holds(AgentOf[w], log[p[1]], p[2])
      /\ p[2] = "participating" => log[p[1]].thread \in partThreads[w]
      /\ p[2] = "watching" => log[p[1]].thread \in watchThreads[w]
  BY <1>2 DEF PassInv
<1>4. log[p[1]] \in Event
  BY <1>1 DEF TypeOK
<1>5. p[2] = "watched_subforum"
        => log[p[1]].subforum \in subforumWatches[AgentOf[w]]
  BY <1>3 DEF Holds
<1>6. EventReason(log[p[1]], partThreads[w], watchThreads[w],
                  subforumWatches[AgentOf[w]]) \in Scope
  BY <1>1, <1>3, <1>4, <1>5, PromisedIsAccepted
<1>7. p[1] \in (pos[w] + 1) .. pageEnd[w]
  BY <1>1, <1>3 DEF TypeOK
<1> QED BY <1>3, <1>6, <1>7 DEF Eligible, Holds

(* Writes that only add events and memberships.                            *)
LEMMA GrowInv ==
  ASSUME TypeOK, TypeOK', InboxInv,
         \A i \in 1 .. Len(log) : log'[i] = log[i],
         \A a \in Agents : /\ participants[a] \subseteq participants'[a]
                           /\ watches[a] \subseteq watches'[a]
                           /\ subforumWatches[a] \subseteq subforumWatches'[a],
         \A a \in Agents : \A p \in owed'[a] :
           \/ p \in owed[a]
           \/ p[1] > Len(log) /\ Holds(a, log[p[1]], p[2])',
         UNCHANGED <<acks, pc, poll, client, handled, held>>
  PROVE  InboxInv'
<1>1. ASSUME NEW a \in Agents, NEW s \in 1 .. Len(log), NEW k,
             Holds(a, log[s], k)
      PROVE  Holds(a, log[s], k)'
  BY <1>1 DEF Holds
<1>2. OwedHolds'
  <2> SUFFICES ASSUME NEW a \in Agents, NEW p \in owed'[a]
               PROVE  Holds(a, log[p[1]], p[2])'
    BY DEF OwedHolds
  <2>1. CASE p \in owed[a]
    <3>1. p \in (1 .. Len(log)) \X Reasons
      BY <2>1 DEF TypeOK
    <3>2. Holds(a, log[p[1]], p[2])
      BY <2>1 DEF InboxInv, OwedHolds
    <3>3. p[1] \in 1 .. Len(log)
      BY <3>1
    <3> QED BY <1>1, <3>2, <3>3
  <2> QED BY <2>1
<1>3. ASSUME NEW a \in Agents, NEW n \in 0 .. Len(log), NEW S, Covered(a, n, S)
      PROVE  \A p \in owed'[a] :
               Promised(p[2]) /\ p[1] <= n => p[1] \in handled[a] \cup S
  <2> SUFFICES ASSUME NEW p \in owed'[a], Promised(p[2]), p[1] <= n
               PROVE  p[1] \in handled[a] \cup S
    OBVIOUS
  <2>1. p \in (1 .. Len(log')) \X Reasons /\ Len(log) \in Nat
    BY DEF TypeOK
  <2>2. ~(p[1] > Len(log))
    BY <2>1
  <2> QED BY <1>3, <2>2 DEF Covered
<1>4. ASSUME NEW a \in Agents
      PROVE  Covered(a, acks[a], {})'
  BY <1>3 DEF Covered, TypeOK, InboxInv
<1>5. ASSUME NEW w \in Workers
      PROVE  PassInv(w)'
  <2>1. PassInv(w) /\ AgentOf[w] \in Agents /\ pageEnd[w] \in 0 .. Len(log)
    BY DEF InboxInv, TypeOK
  <2>2. ASSUME NEW p \in owed'[AgentOf[w]], p[1] <= pageEnd[w]
        PROVE  p \in owed[AgentOf[w]]
    <3>1. p \in (1 .. Len(log')) \X Reasons /\ Len(log) \in Nat
      BY <2>1 DEF TypeOK
    <3> QED BY <2>1, <2>2, <3>1
  <2>3. ASSUME NEW p \in held[w]
        PROVE  /\ log'[p[1]] = log[p[1]]
               /\ Holds(AgentOf[w], log[p[1]], p[2])'
    <3>1. p[1] \in 1 .. Len(log)
      BY <2>3 DEF TypeOK
    <3>2. Holds(AgentOf[w], log[p[1]], p[2])
      BY <2>1, <2>3 DEF PassInv
    <3>3. Holds(AgentOf[w], log[p[1]], p[2])'
      BY <1>1, <2>1, <3>1, <3>2
    <3> QED BY <3>1, <3>3
  <2> QED BY <2>1, <2>2, <2>3 DEF PassInv, poll
<1>6. ASSUME NEW w \in Workers
      PROVE  WorkerInv(w)'
  <2>1. /\ WorkerInv(w) /\ AgentOf[w] \in Agents
        /\ cursor[w] \in 0 .. Len(log) /\ pos[w] \in 0 .. Len(log)
    BY DEF InboxInv, TypeOK
  <2>2. Covered(AgentOf[w], cursor[w], {})'
    BY <2>1, <1>3 DEF WorkerInv, Covered, client
  <2>3. pc[w] \in Polling => Covered(AgentOf[w], pos[w], {})'
    BY <2>1, <1>3 DEF WorkerInv, Covered, poll
  <2>4. pc[w] \in {"reply", "handling", "acking"}
          => Covered(AgentOf[w], pos[w], batch[w])'
    BY <2>1, <1>3 DEF WorkerInv, Covered, poll, client
  <2> QED BY <2>1, <2>2, <2>3, <2>4 DEF WorkerInv, poll, client
<1> QED BY <1>2, <1>4, <1>5, <1>6 DEF InboxInv

(* Withdrawing memberships of one agent.                                   *)
LEMMA WithdrawInv ==
  ASSUME TypeOK, InboxInv, NEW a \in Agents, Withdraw(a),
         UNCHANGED <<log, acks, pc, poll, client, handled>>,
         \A b \in Agents \ {a} : /\ participants'[b] = participants[b]
                                 /\ watches'[b] = watches[b]
                                 /\ subforumWatches'[b] = subforumWatches[b]
  PROVE  InboxInv'
<1>1. ASSUME NEW b \in Agents \ {a}, NEW e, NEW k
      PROVE  Holds(b, e, k)' <=> Holds(b, e, k)
  BY DEF Holds
<1>2. ASSUME NEW b \in Agents
      PROVE  owed'[b] = IF b = a THEN {p \in owed[b] : Holds(b, log[p[1]], p[2])'}
                        ELSE owed[b]
  BY DEF Withdraw, TypeOK
<1>3. ASSUME NEW w \in Workers
      PROVE  held'[w] = {p \in held[w] : AgentOf[w] = a => Holds(a, log[p[1]], p[2])'}
  BY DEF Withdraw
<1>4. OwedHolds'
  BY <1>1, <1>2 DEF InboxInv, OwedHolds
<1>5. ASSUME NEW b \in Agents, NEW n, NEW S, Covered(b, n, S)
      PROVE  Covered(b, n, S)'
  BY <1>2, <1>5 DEF Covered
<1>6. \A b \in Agents : Covered(b, acks[b], {})'
  BY <1>2 DEF InboxInv, Covered
<1>7. ASSUME NEW w \in Workers
      PROVE  PassInv(w)'
  <2>1. PassInv(w) /\ AgentOf[w] \in Agents
    BY DEF InboxInv
  <2>2. ASSUME NEW p \in owed'[AgentOf[w]], p \in held[w]
        PROVE  p \in held'[w]
    BY <1>2, <1>3, <2>1, <2>2
  <2>3. ASSUME NEW p \in held'[w]
        PROVE  p \in held[w] /\ Holds(AgentOf[w], log[p[1]], p[2])'
    BY <1>1, <1>3, <2>1, <2>3 DEF PassInv
  <2>4. owed'[AgentOf[w]] \subseteq owed[AgentOf[w]]
    BY <1>2, <2>1
  <2> QED BY <2>1, <2>2, <2>3, <2>4 DEF PassInv, poll
<1>8. ASSUME NEW w \in Workers
      PROVE  WorkerInv(w)'
  <2>1. WorkerInv(w) /\ AgentOf[w] \in Agents
    BY DEF InboxInv
  <2>2. owed'[AgentOf[w]] \subseteq owed[AgentOf[w]]
    BY <1>2, <2>1
  <2> QED BY <2>1, <2>2 DEF WorkerInv, Covered, poll, client
<1> QED BY <1>4, <1>6, <1>7, <1>8 DEF InboxInv

(* A step of one worker leaves the others' invariants alone.               *)
LEMMA WorkerFrame ==
  ASSUME TypeOK, InboxInv, NEW w \in Workers,
         UNCHANGED <<store, owed>>,
         \A a \in Agents : handled[a] \subseteq handled'[a],
         \A v \in Workers \ {w} :
           /\ pc'[v] = pc[v] /\ cursor'[v] = cursor[v] /\ pos'[v] = pos[v]
           /\ pageEnd'[v] = pageEnd[v] /\ partThreads'[v] = partThreads[v]
           /\ watchThreads'[v] = watchThreads[v] /\ batch'[v] = batch[v]
           /\ last'[v] = last[v] /\ held'[v] = held[v],
         \A a \in Agents : Covered(a, acks[a], {})',
         PassInv(w)', WorkerInv(w)'
  PROVE  InboxInv'
<1>1. OwedHolds'
  BY DEF InboxInv, OwedHolds, Holds, store
<1>2. ASSUME NEW v \in Workers \ {w}
      PROVE  PassInv(v)' /\ WorkerInv(v)'
  <2>1. PassInv(v) /\ WorkerInv(v) /\ AgentOf[v] \in Agents
    BY DEF InboxInv
  <2>2. PassInv(v)'
    BY <2>1 DEF PassInv, Holds, store
  <2>3. WorkerInv(v)'
    BY <2>1 DEF WorkerInv, Covered
  <2> QED BY <2>2, <2>3
<1> QED BY <1>1, <1>2 DEF InboxInv

LEMMA AcksStayCovered ==
  ASSUME InboxInv, UNCHANGED <<owed, acks>>,
         \A a \in Agents : handled[a] \subseteq handled'[a]
  PROVE  \A a \in Agents : Covered(a, acks[a], {})'
  BY DEF InboxInv, Covered

(* The steps of a poll and of its worker.                                  *)
LEMMA WorkerStepInv ==
  ASSUME TypeOK, InboxInv, NEW w \in Workers, WorkerStep(w)
  PROVE  InboxInv'
<1> DEFINE a == AgentOf[w]
<1>0. PassInv(w) /\ WorkerInv(w) /\ a \in Agents
  BY DEF InboxInv
<1>a. Covered(a, acks[a], {})
  BY <1>0 DEF InboxInv
<1>1. CASE StartPoll(w)
  <2> USE <1>1 DEF StartPoll, Goto, TypeOK, client, poll, history, store, Polling
  <2>1. PassInv(w)'
    BY <1>0 DEF PassInv, Holds
  <2>2. WorkerInv(w)'
    BY <1>0, <1>a DEF WorkerInv, Covered
  <2> QED BY <2>1, <2>2, AcksStayCovered, WorkerFrame
<1>2. CASE ReadPage(w)
  <2> USE <1>2 DEF ReadPage, Goto, TypeOK, client, store, Polling
  <2> DEFINE end == IF pos[w] + PageSize < Len(log) THEN pos[w] + PageSize
                    ELSE Len(log)
             page == {p \in ((pos[w] + 1) .. end) \X Reasons :
                        Holds(a, log[p[1]], p[2])}
  <2>1. /\ pc[w] = "page" /\ pc'[w] = "participants" /\ pos' = pos
        /\ pageEnd'[w] = end /\ held'[w] = page
        /\ pos[w] <= end /\ end \in Nat /\ pos[w] \in Nat
    OBVIOUS
  <2>2. ASSUME NEW p \in page
        PROVE  pos[w] < p[1] /\ p[1] <= end /\ Holds(a, log[p[1]], p[2])
    BY <2>1
  <2>3. ASSUME NEW p \in owed[a], pos[w] < p[1], p[1] <= end
        PROVE  p \in page
    <3>1. p \in (1 .. Len(log)) \X Reasons /\ Holds(a, log[p[1]], p[2])
      BY <1>0, <2>3 DEF InboxInv, OwedHolds
    <3>2. p \in ((pos[w] + 1) .. end) \X Reasons
      BY <3>1, <2>1, <2>3
    <3> QED BY <3>1, <3>2
  <2> HIDE DEF page, end
  <2>4. PassInv(w)'
    BY <2>1, <2>2, <2>3 DEF PassInv, Holds
  <2>5. WorkerInv(w)'
    BY <1>0, <2>1 DEF WorkerInv, Covered
  <2> QED BY <2>4, <2>5, AcksStayCovered, WorkerFrame
<1>3. CASE ReadParticipants(w)
  <2> USE <1>3 DEF ReadParticipants, Goto, TypeOK, client, history, store, Polling
  <2>1. PassInv(w)'
    BY <1>0 DEF PassInv, Holds
  <2>2. WorkerInv(w)'
    BY <1>0 DEF WorkerInv, Covered
  <2> QED BY <2>1, <2>2, AcksStayCovered, WorkerFrame
<1>4. CASE ReadWatches(w)
  <2> USE <1>4 DEF ReadWatches, Goto, TypeOK, client, history, store, Polling
  <2>1. PassInv(w)'
    BY <1>0 DEF PassInv, Holds
  <2>2. WorkerInv(w)'
    BY <1>0 DEF WorkerInv, Covered
  <2> QED BY <2>1, <2>2, AcksStayCovered, WorkerFrame
<1>5. CASE Decide(w)
  <2>1. /\ pc[w] = "subforums" /\ pc'[w] \in {"reply", "page"}
        /\ pc'[w] = "page" => Eligible(w) = {}
        /\ pos'[w] = pageEnd[w] /\ pageEnd' = pageEnd
        /\ batch'[w] = Eligible(w) /\ held'[w] = {}
        /\ cursor' = cursor /\ last' = last
        /\ UNCHANGED <<store, acks, handled, owed>>
    BY <1>5 DEF Decide, Advance, Goto, EndPass, TypeOK
  <2>2. PassInv(w)'
    BY <2>1 DEF PassInv, Polling
  <2>3. ASSUME NEW p \in owed[a], Promised(p[2]), p[1] <= pageEnd[w]
        PROVE  p[1] \in handled[a] \cup Eligible(w)
    <3>1. p \in (1 .. Len(log)) \X Reasons /\ pos[w] \in Nat
      BY <1>0, <2>3 DEF TypeOK
    <3>2. CASE p[1] <= pos[w]
      BY <1>0, <2>1, <2>3, <3>2 DEF WorkerInv, Covered, Polling
    <3>3. CASE pos[w] < p[1]
      BY <1>0, <2>1, <2>3, <3>3, HeldIsEligible DEF PassInv, Polling
    <3> QED BY <3>1, <3>2, <3>3
  <2>4. WorkerInv(w)'
    <3>1. \A s \in Eligible(w) : s <= pageEnd[w]
      BY DEF Eligible, TypeOK
    <3>2. last[w] = 0 /\ Covered(a, cursor[w], {})
      BY <1>0, <2>1 DEF WorkerInv
    <3>3. Covered(a, pos[w], batch[w])'
      BY <2>1, <2>3 DEF Covered
    <3>4. Covered(a, cursor[w], {})'
      BY <2>1, <3>2 DEF Covered
    <3>5. pc'[w] = "page" => Covered(a, pos[w], {})'
      BY <2>1, <3>3 DEF Covered
    <3> QED BY <2>1, <3>1, <3>2, <3>3, <3>4, <3>5 DEF WorkerInv, Polling
  <2> QED
    BY <1>5, <2>1, <2>2, <2>4, AcksStayCovered, WorkerFrame
    DEF Decide, Advance, Goto, EndPass, TypeOK
<1>6. CASE Receive(w)
  <2> USE <1>6 DEF Receive, Goto, TypeOK, client, poll, history, store, Polling
  <2>1. PassInv(w)'
    BY <1>0 DEF PassInv, Holds
  <2>2. WorkerInv(w)'
    BY <1>0 DEF WorkerInv, Covered
  <2> QED BY <2>1, <2>2, AcksStayCovered, WorkerFrame
<1>7. CASE Handle(w)
  <2>1. PICK s \in batch[w] :
          /\ \A r \in batch[w] : s <= r
          /\ batch' = [batch EXCEPT ![w] = @ \ {s}]
          /\ last' = [last EXCEPT ![w] = s]
          /\ handled' = [handled EXCEPT ![AgentOf[w]] = @ \cup {s}]
    BY <1>7 DEF Handle
  <2>2. /\ pc[w] = "handling" /\ pc'[w] \in {"handling", "acking"}
        /\ pc' = [pc EXCEPT ![w] = pc'[w]]
        /\ UNCHANGED <<store, acks, poll, cursor, owed, held>>
    BY <1>7 DEF Handle, Goto, TypeOK
  <2>3. /\ batch'[w] = batch[w] \ {s} /\ last'[w] = s
        /\ handled'[a] = handled[a] \cup {s}
        /\ \A b \in Agents : handled[b] \subseteq handled'[b]
        /\ batch[w] \subseteq Nat /\ s \in Nat
    BY <1>0, <2>1 DEF TypeOK
  <2>4. PassInv(w)'
    BY <1>0, <2>2 DEF PassInv, Holds, Polling, store, poll
  <2>5. \A r \in batch'[w] : s < r
    BY <2>1, <2>3
  <2>6. WorkerInv(w)'
    <3>1. s <= pos[w]
      BY <1>0, <2>1, <2>2 DEF WorkerInv
    <3> QED BY <1>0, <2>2, <2>3, <2>5, <3>1 DEF WorkerInv, Covered, Polling, poll
  <2> QED
    BY <2>1, <2>2, <2>3, <2>4, <2>6, AcksStayCovered, WorkerFrame
    DEF TypeOK, poll, client
<1>8. CASE Ack(w)
  <2>1. /\ pc[w] = "acking" /\ pc'[w] = "handling"
        /\ acks' = [acks EXCEPT ![a] = last[w]]
        /\ UNCHANGED <<store, poll, client, handled, owed, held>>
    BY <1>8 DEF Ack, AckEvents, Goto, TypeOK
  <2>2. Covered(a, last[w], {})
    <3> SUFFICES ASSUME NEW p \in owed[a], Promised(p[2]), p[1] <= last[w]
                 PROVE  p[1] \in handled[a]
      BY DEF Covered
    <3>1. /\ p[1] \in Nat /\ last[w] \in Nat /\ pos[w] \in Nat
          /\ batch[w] \subseteq Nat
      BY <1>0 DEF TypeOK
    <3>2. /\ Covered(a, pos[w], batch[w]) /\ last[w] <= pos[w]
          /\ \A s \in batch[w] : last[w] < s
      BY <1>0, <2>1 DEF WorkerInv
    <3>3. p[1] <= pos[w] /\ p[1] \notin batch[w]
      BY <3>1, <3>2
    <3> QED BY <3>2, <3>3 DEF Covered
  <2>3. \A b \in Agents : Covered(b, acks[b], {})'
    BY <1>0, <2>1, <2>2 DEF InboxInv, Covered, TypeOK
  <2>4. PassInv(w)'
    BY <1>0, <2>1 DEF PassInv, Holds, Polling, store, poll
  <2>5. WorkerInv(w)'
    BY <1>0, <2>1 DEF WorkerInv, Covered, Polling, poll, client
  <2> QED
    BY <1>8, <2>1, <2>3, <2>4, <2>5, WorkerFrame
    DEF Ack, Goto, TypeOK, poll, client
<1>9. CASE Finish(w)
  <2> USE <1>9 DEF Finish, Goto, TypeOK, poll, history, store, Polling
  <2>1. PassInv(w)'
    BY <1>0 DEF PassInv, Holds
  <2>2. WorkerInv(w)'
    BY <1>0 DEF WorkerInv, Covered
  <2> QED BY <2>1, <2>2, AcksStayCovered, WorkerFrame
<1> QED
  BY <1>1, <1>2, <1>3, <1>4, <1>5, <1>6, <1>7, <1>8, <1>9 DEF WorkerStep

LEMMA FaultInv ==
  ASSUME TypeOK, InboxInv, NEW w \in Workers,
         PollAborted(w) \/ LoseReply(w) \/ Crash(w)
  PROVE  InboxInv'
<1> DEFINE a == AgentOf[w]
<1>0. PassInv(w) /\ WorkerInv(w) /\ a \in Agents
  BY DEF InboxInv
<1>a. Covered(a, acks[a], {}) /\ Covered(a, 0, {})
  BY <1>0 DEF InboxInv, Covered, TypeOK
<1>1. CASE PollAborted(w)
  <2> USE <1>1 DEF PollAborted, AbortCursor, EndPass, TypeOK, client, store, Polling
  <2>1. PassInv(w)'
    BY <1>0 DEF PassInv, Holds
  <2>2. WorkerInv(w)'
    BY <1>0 DEF WorkerInv, Covered
  <2> QED BY <2>1, <2>2, AcksStayCovered, WorkerFrame
<1>2. CASE LoseReply(w)
  <2> USE <1>2 DEF LoseReply, Goto, TypeOK, poll, history, store, Polling
  <2>1. PassInv(w)'
    BY <1>0 DEF PassInv, Holds
  <2>2. WorkerInv(w)'
    BY <1>0 DEF WorkerInv, Covered
  <2> QED BY <2>1, <2>2, AcksStayCovered, WorkerFrame
<1>3. CASE Crash(w)
  <2> USE <1>3 DEF Crash, EndPass, TypeOK, store, Polling
  <2>1. PassInv(w)'
    BY <1>0 DEF PassInv, Holds
  <2>2. WorkerInv(w)'
    BY <1>0, <1>a DEF WorkerInv, Covered
  <2> QED BY <2>1, <2>2, AcksStayCovered, WorkerFrame
<1> QED BY <1>1, <1>2, <1>3

LEMMA InvStep == TypeOK /\ InboxInv /\ [Next]_vars => InboxInv'
<1> SUFFICES ASSUME TypeOK, InboxInv, [Next]_vars PROVE InboxInv'
  OBVIOUS
<1>0. TypeOK'
  BY TypeStep
<1>e. ASSUME NEW events \in Seq(Event), Emit(events),
             UNCHANGED subforumWatches,
             \A a \in Agents : /\ participants[a] \subseteq participants'[a]
                               /\ watches[a] \subseteq watches'[a],
             UNCHANGED <<acks, pc, poll, client, handled, held>>
      PROVE  InboxInv'
  <2>1. /\ Len(log) \in Nat /\ Len(events) \in Nat
        /\ \A i \in 1 .. Len(log) : log'[i] = log[i]
        /\ \A i \in 1 .. Len(events) : log'[Len(log) + i] = events[i]
    BY <1>e, EmitLog DEF TypeOK
  <2>2. ASSUME NEW a \in Agents, NEW p \in owed'[a], p \notin owed[a]
        PROVE  p[1] > Len(log) /\ Holds(a, log[p[1]], p[2])'
    <3>1. /\ p \in ((Len(log) + 1) .. (Len(log) + Len(events))) \X Reasons
          /\ Holds(a, events[p[1] - Len(log)], p[2])
      BY <1>e, <2>2 DEF Emit
    <3>2. p[1] > Len(log) /\ p[1] - Len(log) \in 1 .. Len(events)
      BY <2>1, <3>1
    <3>3. log'[p[1]] = events[p[1] - Len(log)]
      BY <2>1, <3>1, <3>2
    <3>4. Holds(a, log[p[1]], p[2])'
      BY <1>e, <3>1, <3>3 DEF Holds
    <3> QED BY <3>2, <3>4
  <2> QED BY <1>0, <1>e, <2>1, <2>2, GrowInv
<1>1. ASSUME NEW a \in Agents, NEW t \in Threads, NEW f \in Subforums,
             NEW watch \in BOOLEAN, CreateThread(a, t, f, watch)
      PROVE  InboxInv'
  <2> DEFINE e(type) == [type |-> type, actor |-> a, thread |-> t, subforum |-> f]
             events == <<e("thread.created"), e("post.created")>>
  <2>1. events \in Seq(Event) /\ Emit(events)
    BY <1>1 DEF Event, CreateThread
  <2> HIDE DEF events
  <2>2. \A b \in Agents : /\ participants[b] \subseteq participants'[b]
                          /\ watches[b] \subseteq watches'[b]
    BY <1>1 DEF CreateThread, TypeOK
  <2> QED BY <1>1, <1>e, <2>1, <2>2 DEF CreateThread
<1>2. ASSUME NEW a \in Agents, NEW t \in Threads, CreatePost(a, t)
      PROVE  InboxInv'
  <2> DEFINE events == <<[type |-> "post.created", actor |-> a, thread |-> t,
                          subforum |-> home[t]]>>
  <2>1. events \in Seq(Event) /\ Emit(events)
    BY <1>2 DEF Event, CreatePost, TypeOK
  <2> HIDE DEF events
  <2>2. \A b \in Agents : /\ participants[b] \subseteq participants'[b]
                          /\ watches[b] \subseteq watches'[b]
    BY <1>2 DEF CreatePost, TypeOK
  <2> QED BY <1>2, <1>e, <2>1, <2>2 DEF CreatePost
<1>3. ASSUME NEW a \in Agents, NEW t \in Threads, WatchThread(a, t)
      PROVE  InboxInv'
  <2>1. \A b \in Agents : /\ participants[b] \subseteq participants'[b]
                          /\ watches[b] \subseteq watches'[b]
                          /\ subforumWatches[b] \subseteq subforumWatches'[b]
    BY <1>3 DEF WatchThread, TypeOK
  <2> QED BY <1>0, <1>3, <2>1, GrowInv DEF WatchThread, history
<1>4. ASSUME NEW a \in Agents, NEW t \in Threads, UnwatchThread(a, t)
      PROVE  InboxInv'
  <2>1. \A b \in Agents \ {a} : /\ participants'[b] = participants[b]
                                /\ watches'[b] = watches[b]
                                /\ subforumWatches'[b] = subforumWatches[b]
    BY <1>4 DEF UnwatchThread, TypeOK
  <2> QED BY <1>4, <2>1, WithdrawInv DEF UnwatchThread
<1>5. ASSUME NEW a \in Agents, NEW f \in Subforums, WatchSubforum(a, f)
      PROVE  InboxInv'
  <2>1. \A b \in Agents : /\ participants[b] \subseteq participants'[b]
                          /\ watches[b] \subseteq watches'[b]
                          /\ subforumWatches[b] \subseteq subforumWatches'[b]
    BY <1>5 DEF WatchSubforum, TypeOK
  <2> QED BY <1>0, <1>5, <2>1, GrowInv DEF WatchSubforum, history
<1>6. ASSUME NEW a \in Agents, NEW f \in Subforums, UnwatchSubforum(a, f)
      PROVE  InboxInv'
  <2>1. \A b \in Agents \ {a} : /\ participants'[b] = participants[b]
                                /\ watches'[b] = watches[b]
                                /\ subforumWatches'[b] = subforumWatches[b]
    BY <1>6 DEF UnwatchSubforum, TypeOK
  <2> QED BY <1>6, <2>1, WithdrawInv DEF UnwatchSubforum
<1>7. CASE UNCHANGED vars
  BY <1>7
  DEF vars, store, poll, client, history, InboxInv, OwedHolds, PassInv,
      WorkerInv, Covered, Holds
<1> QED
  BY <1>1, <1>2, <1>3, <1>4, <1>5, <1>6, <1>7, WorkerStepInv, FaultInv
  DEF Next, Write, Readers

LEMMA InitInv == Init => InboxInv
  BY DEF Init, InboxInv, OwedHolds, PassInv, WorkerInv, Covered, Polling

-----------------------------------------------------------------------------
(* The results.                                                            *)

\* The inductive invariant: at every moment each position from which a worker
\* may resume or ack is one up to which everything owed has been handled, or
\* sits in the batch the worker is handling.
THEOREM InvariantHolds == Spec => []InboxInv
  BY InitInv, InvStep, TypeCorrect, PTL DEF Spec

\* An ack never covers an event that has been relevant to the agent since it
\* was appended and that none of the agent's workers has handled.
THEOREM AcksAreSafe == Spec => []AckedMeansHandled
<1>1. TypeOK /\ InboxInv => AckedMeansHandled
  BY DEF InboxInv, AckedMeansHandled, Covered
<1> QED BY <1>1, InvariantHolds, TypeCorrect, PTL

\* Nor does the cursor from which a worker resumes.
THEOREM CursorsAreSafe == Spec => []CursorLosesNothing
<1>1. TypeOK /\ InboxInv => CursorLosesNothing
  BY DEF InboxInv, CursorLosesNothing, WorkerInv, Covered, TypeOK
<1> QED BY <1>1, InvariantHolds, TypeCorrect, PTL

\* A pass never moves past an event that one membership kept relevant from the
\* moment the page was read without returning it.
THEOREM PassesDeliver == Spec => NeverPassesHeld
<1> DEFINE Step == \A w \in Workers : pc[w] = "subforums" =>
                     \A p \in held[w] :
                       p[1] <= pos'[w] /\ Promised(p[2]) => p[1] \in batch'[w]
<1>1. TypeOK /\ InboxInv /\ [Next]_vars => [Step]_vars
  <2> SUFFICES ASSUME TypeOK, InboxInv, Next,
                      NEW w \in Workers, pc[w] = "subforums",
                      NEW p \in held[w], p[1] <= pos'[w], Promised(p[2])
               PROVE  p[1] \in batch'[w]
    OBVIOUS
  <2>1. pos'[w] = pos[w] \/ Decide(w)
    <3>1. CASE Write
      BY <3>1 DEF Write, CreateThread, CreatePost, WatchThread, UnwatchThread,
         WatchSubforum, UnwatchSubforum, poll
    <3>2. ASSUME NEW v \in Workers, WorkerStep(v)
          PROVE  pos'[w] = pos[w] \/ Decide(w)
      <4>1. CASE StartPoll(v)
        BY <4>1 DEF StartPoll, Goto, TypeOK
      <4>2. CASE Decide(v)
        BY <4>2 DEF Decide, TypeOK
      <4>3. CASE ~StartPoll(v) /\ ~Decide(v)
        BY <3>2, <4>3 DEF WorkerStep, ReadPage, ReadParticipants, ReadWatches,
           Receive, Handle, Ack, Finish, poll
      <4> QED BY <4>1, <4>2, <4>3
    <3>3. ASSUME NEW v \in Workers, PollAborted(v) \/ LoseReply(v) \/ Crash(v)
          PROVE  pos'[w] = pos[w]
      BY <3>3 DEF PollAborted, AbortCursor, LoseReply, Crash, TypeOK, poll
    <3> QED BY <3>1, <3>2, <3>3 DEF Next
  <2>2. CASE pos'[w] = pos[w]
    <3>1. pos[w] < p[1] /\ p[1] \in Nat /\ pos[w] \in Nat
      BY DEF InboxInv, PassInv, TypeOK
    <3> QED BY <2>2, <3>1
  <2>3. CASE Decide(w)
    BY <2>3, HeldIsEligible DEF Decide, TypeOK
  <2> QED BY <2>1, <2>2, <2>3
<1> QED BY <1>1, InvariantHolds, TypeCorrect, PTL DEF Spec, NeverPassesHeld

-----------------------------------------------------------------------------
(* Refinement of AtLeastOnce.                                              *)

LEMMA FeedInit == ASSUME NEW w \in Workers, Init PROVE Feed(w)!Init
<1>1. AgentOf[w] \in Agents
  OBVIOUS
<1>2. Len(log) = 0
  BY DEF Init
<1>3. OwedTo(AgentOf[w]) = {}
  BY <1>1 DEF Init, OwedTo
<1> QED BY <1>1, <1>2, <1>3 DEF Init, Feed!Init, ResumeOf

(* A step that neither appends, withdraws nor handles can only move the    *)
(* resume point, and the invariant says that it did so safely.             *)
LEMMA FeedMoves ==
  ASSUME NEW w \in Workers, TypeOK', InboxInv', UNCHANGED <<log, owed, handled>>
  PROVE  Feed(w)!MoveTo
<1> DEFINE a == AgentOf[w]
<1>1. a \in Agents
  OBVIOUS
<1>2. ResumeOf(w)' \in 0 .. Len(log)
  BY <1>1 DEF TypeOK, ResumeOf
<1>3. Covered(a, ResumeOf(w), {})'
  BY <1>1 DEF InboxInv, WorkerInv, ResumeOf, Covered
<1>4. \A s \in OwedTo(a) : s <= ResumeOf(w)' => s \in handled[a]
  BY <1>3 DEF Covered, OwedTo, Promised
<1>5. UNCHANGED <<Len(log), OwedTo(a), handled[a]>>
  BY DEF OwedTo, Promised
<1>6. handled[a]' \subseteq 1 .. Len(log)
  BY <1>1 DEF TypeOK
<1> QED BY <1>2, <1>4, <1>5, <1>6 DEF Feed!MoveTo

LEMMA FeedPosts ==
  ASSUME NEW w \in Workers, TypeOK, NEW events \in Seq(Event), Len(events) > 0,
         Emit(events), UNCHANGED <<acks, cursor, handled>>
  PROVE  Feed(w)!Post
<1> DEFINE a == AgentOf[w]
<1>1. a \in Agents
  OBVIOUS
<1>2. /\ Len(log') = Len(log) + Len(events)
      /\ Len(log) \in Nat /\ Len(events) \in Nat
  BY EmitLog DEF TypeOK
<1>3. owed'[a] = owed[a] \cup
        {p \in ((Len(log) + 1) .. (Len(log) + Len(events))) \X Reasons :
           Holds(a, events[p[1] - Len(log)], p[2])}
  BY <1>1 DEF Emit
<1>4. OwedTo(a) \subseteq OwedTo(a)'
  BY <1>3 DEF OwedTo, Promised
<1>5. OwedTo(a)' \ OwedTo(a) \subseteq (Len(log) + 1) .. Len(log')
  BY <1>2, <1>3 DEF OwedTo, Promised
<1>6. UNCHANGED <<handled[a], ResumeOf(w)>>
  BY DEF ResumeOf
<1> QED BY <1>2, <1>4, <1>5, <1>6 DEF Feed!Post

LEMMA FeedForgets ==
  ASSUME NEW w \in Workers, TypeOK, NEW b \in Agents, Withdraw(b),
         UNCHANGED <<log, acks, cursor, handled>>
  PROVE  Feed(w)!Forget
<1> DEFINE a == AgentOf[w]
<1>1. a \in Agents
  OBVIOUS
<1>2. owed'[a] \subseteq owed[a]
  BY <1>1 DEF Withdraw, TypeOK
<1>3. OwedTo(a)' \subseteq OwedTo(a)
  BY <1>2 DEF OwedTo, Promised
<1>4. UNCHANGED <<Len(log), handled[a], ResumeOf(w)>>
  BY DEF ResumeOf
<1> QED BY <1>3, <1>4 DEF Feed!Forget

LEMMA FeedDelivers ==
  ASSUME NEW w \in Workers, TypeOK, TypeOK', NEW v \in Workers, Handle(v)
  PROVE  Feed(w)!Deliver
<1> DEFINE a == AgentOf[w]
<1>1. a \in Agents /\ AgentOf[v] \in Agents
  OBVIOUS
<1>2. UNCHANGED <<log, owed, acks, cursor>>
  BY DEF Handle, store
<1>3. handled[a] \subseteq handled'[a]
  BY <1>1 DEF Handle, TypeOK
<1>4. handled'[a] \subseteq 1 .. Len(log)
  BY <1>1, <1>2 DEF TypeOK
<1>5. UNCHANGED <<Len(log), OwedTo(a), ResumeOf(w)>>
  BY <1>2 DEF OwedTo, ResumeOf, Promised
<1> QED BY <1>3, <1>4, <1>5 DEF Feed!Deliver

LEMMA FeedStep ==
  ASSUME NEW w \in Workers, TypeOK, TypeOK', InboxInv', [Next]_vars
  PROVE  [Feed(w)!Next]_(Feed(w)!vars)
<1>1. ASSUME NEW a \in Agents, NEW t \in Threads, NEW f \in Subforums,
             NEW watch \in BOOLEAN, CreateThread(a, t, f, watch)
      PROVE  Feed(w)!Post
  <2> DEFINE first  == [type |-> "thread.created", actor |-> a, thread |-> t,
                        subforum |-> f]
             second == [type |-> "post.created", actor |-> a, thread |-> t,
                        subforum |-> f]
             events == <<first, second>>
  <2>1. first \in Event /\ second \in Event
    BY DEF Event
  <2>2. Emit(events) /\ UNCHANGED <<acks, cursor, handled>>
    BY <1>1 DEF CreateThread, client
  <2> HIDE DEF first, second
  <2>3. events \in Seq(Event) /\ Len(events) > 0
    BY <2>1
  <2> HIDE DEF events
  <2> QED BY <2>2, <2>3, FeedPosts
<1>2. ASSUME NEW a \in Agents, NEW t \in Threads, CreatePost(a, t)
      PROVE  Feed(w)!Post
  <2> DEFINE events == <<[type |-> "post.created", actor |-> a, thread |-> t,
                          subforum |-> home[t]]>>
  <2>1. home[t] \in Subforums
    BY <1>2 DEF CreatePost, TypeOK
  <2>2. events \in Seq(Event) /\ Len(events) = 1
    BY <2>1 DEF Event
  <2>3. Emit(events) /\ UNCHANGED <<acks, cursor, handled>>
    BY <1>2 DEF CreatePost, client
  <2> HIDE DEF events
  <2> QED BY <2>2, <2>3, FeedPosts
<1>3. ASSUME NEW a \in Agents, NEW t \in Threads,
             WatchThread(a, t) \/ UnwatchThread(a, t)
      PROVE  Feed(w)!Next
  <2>1. CASE WatchThread(a, t)
    BY <2>1, FeedMoves DEF WatchThread, history, Feed!Next
  <2>2. CASE UnwatchThread(a, t)
    BY <2>2, FeedForgets DEF UnwatchThread, client, Feed!Next
  <2> QED BY <1>3, <2>1, <2>2
<1>4. ASSUME NEW a \in Agents, NEW f \in Subforums,
             WatchSubforum(a, f) \/ UnwatchSubforum(a, f)
      PROVE  Feed(w)!Next
  <2>1. CASE WatchSubforum(a, f)
    BY <2>1, FeedMoves DEF WatchSubforum, history, Feed!Next
  <2>2. CASE UnwatchSubforum(a, f)
    BY <2>2, FeedForgets DEF UnwatchSubforum, client, Feed!Next
  <2> QED BY <1>4, <2>1, <2>2
<1>5. ASSUME NEW v \in Workers, WorkerStep(v) PROVE Feed(w)!Next
  <2>1. CASE Handle(v)
    BY <2>1, FeedDelivers DEF Feed!Next
  <2>2. CASE ~Handle(v)
    <3>1. UNCHANGED <<log, owed, handled>>
      BY <1>5, <2>2 DEF WorkerStep, StartPoll, ReadPage, ReadParticipants,
         ReadWatches, Decide, Receive, Ack, Finish, store, history
    <3> QED BY <3>1, FeedMoves DEF Feed!Next
  <2> QED BY <2>1, <2>2
<1>6. ASSUME NEW v \in Workers, PollAborted(v) \/ LoseReply(v) \/ Crash(v)
      PROVE  Feed(w)!Next
  <2>1. UNCHANGED <<log, owed, handled>>
    BY <1>6 DEF PollAborted, LoseReply, Crash, store, history
  <2> QED BY <2>1, FeedMoves DEF Feed!Next
<1>7. CASE UNCHANGED vars
  <2>1. UNCHANGED <<log, owed, handled>>
    BY <1>7 DEF vars, store, history
  <2> QED BY <2>1, FeedMoves DEF Feed!Next
<1> QED BY <1>1, <1>2, <1>3, <1>4, <1>5, <1>6, <1>7
    DEF Next, Write, Readers, Feed!Next

(* To whoever reads through worker w the inbox is an at-least-once feed,   *)
(* for any page size, scope and number of workers.                         *)
THEOREM WorkerFeed == ASSUME NEW w \in Workers PROVE Spec => Feed(w)!Spec
<1>1. Init => Feed(w)!Init
  BY FeedInit
<1>2. TypeOK /\ TypeOK' /\ InboxInv' /\ [Next]_vars
        => [Feed(w)!Next]_(Feed(w)!vars)
  BY FeedStep
<1> QED BY <1>1, <1>2, TypeCorrect, InvariantHolds, PTL DEF Spec, Feed!Spec

(* ImplementsFeed: the same of all workers at once, in the form TLC checks. *)
THEOREM FeedIsImplemented == Spec => ImplementsFeed
<1>1. Init => \A w \in Workers : Feed(w)!Init
  BY FeedInit
<1>2. TypeOK /\ TypeOK' /\ InboxInv' /\ [Next]_vars
        => [\A w \in Workers : [Feed(w)!Next]_(Feed(w)!vars)]_vars
  BY FeedStep
<1> QED
  BY <1>1, <1>2, TypeCorrect, InvariantHolds, PTL DEF Spec, ImplementsFeed

-----------------------------------------------------------------------------
(* Nothing is handed out twice.                                            *)

\* What ReplayInv(w) speaks of has not changed.
LEMMA ReplayFrame ==
  ASSUME NEW w \in Workers, ReplayInv(w),
         pc'[w] = pc[w], cursor'[w] = cursor[w], pos'[w] = pos[w],
         batch'[w] = batch[w], last'[w] = last[w],
         w \in AckWorkers /\ Sole(w) =>
           /\ acks'[AgentOf[w]] = acks[AgentOf[w]]
           /\ topAck'[AgentOf[w]] = topAck[AgentOf[w]]
  PROVE  ReplayInv(w)'
<1>1. Sole(w)' <=> Sole(w)
  BY DEF Sole
<1>2. Sole(w) => ResumeOf(w)' = ResumeOf(w)
  BY DEF ResumeOf
<1> QED BY <1>1, <1>2 DEF ReplayInv

\* A step of the worker itself.
LEMMA OwnReplay ==
  ASSUME TypeOK, InboxInv, NEW w \in Workers, ReplayInv(w),
         WorkerStep(w) \/ PollAborted(w) \/ LoseReply(w) \/ Crash(w)
  PROVE  ReplayInv(w)'
<1> DEFINE a == AgentOf[w]
<1>0. /\ PassInv(w) /\ WorkerInv(w) /\ a \in Agents
      /\ Sole(w)' <=> Sole(w)
      /\ acks[a] \in Nat /\ topAck[a] \in Nat /\ cursor[w] \in Nat
      /\ pos[w] \in Nat /\ pageEnd[w] \in Nat /\ last[w] \in Nat
      /\ batch[w] \subseteq Nat /\ ResumeOf(w) \in Nat
  BY DEF InboxInv, TypeOK, Sole, ResumeOf
<1>1. CASE StartPoll(w)
  <2>1. /\ pc'[w] = "page" /\ pos'[w] = ResumeOf(w) /\ batch[w] = {}
        /\ UNCHANGED <<acks, client, topAck>>
    BY <1>0, <1>1 DEF StartPoll, Goto, ResumeOf, TypeOK, WorkerInv, history
  <2>2. ResumeOf(w)' = ResumeOf(w)
    BY <2>1 DEF ResumeOf, client
  <2> QED BY <1>0, <2>1, <2>2 DEF ReplayInv, Polling, client
<1>2. CASE ReadPage(w) \/ ReadParticipants(w) \/ ReadWatches(w)
  <2>1. /\ pc[w] \in Polling /\ pc'[w] \in Polling /\ pos' = pos
        /\ UNCHANGED <<acks, client, topAck>>
    BY <1>2 DEF ReadPage, ReadParticipants, ReadWatches, Goto, TypeOK, Polling,
                history
  <2>2. ResumeOf(w)' = ResumeOf(w)
    BY <2>1 DEF ResumeOf, client
  <2> QED BY <1>0, <2>1, <2>2 DEF ReplayInv, Polling, client
<1>3. CASE Decide(w)
  <2>1. /\ pc[w] = "subforums" /\ pc'[w] \in {"reply", "page"}
        /\ pos'[w] = pageEnd[w] /\ batch'[w] = Eligible(w)
        /\ UNCHANGED <<acks, cursor, topAck>>
    BY <1>3 DEF Decide, Advance, Goto, TypeOK
  <2>2. ResumeOf(w)' = ResumeOf(w)
    BY <2>1 DEF ResumeOf
  <2>3. pos[w] <= pageEnd[w] /\ \A s \in Eligible(w) : s \in Nat /\ pos[w] < s
    BY <1>0, <2>1 DEF PassInv, Polling, Eligible
  <2>4. Sole(w) => ResumeOf(w) <= pos[w]
    BY <2>1 DEF ReplayInv, Polling
  <2> QED BY <1>0, <2>1, <2>2, <2>3, <2>4 DEF ReplayInv
<1>4. CASE Receive(w)
  <2>1. /\ pc'[w] = "handling" /\ UNCHANGED <<acks, client, topAck>>
    BY <1>4 DEF Receive, Goto, TypeOK, history
  <2>2. ResumeOf(w)' = ResumeOf(w)
    BY <2>1 DEF ResumeOf, client
  <2> QED BY <1>0, <2>1, <2>2 DEF ReplayInv, Polling, client
<1>5. CASE Handle(w)
  <2>1. PICK s \in batch[w] : batch' = [batch EXCEPT ![w] = @ \ {s}]
                              /\ last' = [last EXCEPT ![w] = s]
    BY <1>5 DEF Handle
  <2>2. /\ pc'[w] = IF w \in AckWorkers THEN "acking" ELSE "handling"
        /\ batch'[w] = batch[w] \ {s} /\ last'[w] = s
        /\ UNCHANGED <<acks, cursor, topAck>>
    BY <1>5, <2>1 DEF Handle, Goto, TypeOK
  <2>3. ResumeOf(w)' = ResumeOf(w)
    BY <2>2 DEF ResumeOf
  <2>4. Sole(w) => ResumeOf(w) < s
    BY DEF ReplayInv
  <2> QED BY <1>0, <2>2, <2>3, <2>4 DEF ReplayInv, Polling
<1>6. CASE Ack(w)
  <2>1. /\ pc[w] = "acking" /\ pc'[w] = "handling" /\ UNCHANGED client
        /\ acks'[a] = last[w]
        /\ topAck'[a] = IF last[w] > topAck[a] THEN last[w] ELSE topAck[a]
    BY <1>0, <1>6 DEF Ack, AckEvents, Goto, TypeOK
  <2>2. w \in AckWorkers
    BY <2>1 DEF ReplayInv
  <2>3. ResumeOf(w)' = last[w] /\ ResumeOf(w) = acks[a]
    BY <2>1, <2>2 DEF ResumeOf
  <2>4. Sole(w) => acks[a] <= last[w] /\ acks[a] = topAck[a]
    BY <2>1, <2>2, <2>3 DEF ReplayInv
  <2>5. Sole(w) => acks'[a] = topAck'[a]
    BY <1>0, <2>1, <2>4
  <2>6. \A s \in batch[w] : last[w] < s
    BY <1>0, <2>1 DEF WorkerInv
  <2> QED BY <1>0, <2>1, <2>2, <2>3, <2>5, <2>6 DEF ReplayInv, Polling, client
<1>7. CASE Finish(w)
  <2>1. pc'[w] = "idle" /\ batch'[w] = {} /\ UNCHANGED <<acks, topAck>>
    BY <1>7 DEF Finish, Goto, TypeOK, history
  <2> QED BY <1>0, <2>1 DEF ReplayInv, Polling
<1>8. CASE PollAborted(w)
  <2>1. /\ pc[w] \in Polling /\ pc'[w] \in {"reply", "idle"}
        /\ UNCHANGED <<acks, client, topAck>>
    BY <1>8 DEF PollAborted, TypeOK
  <2>2. batch'[w] = {}
    BY <1>0, <2>1 DEF WorkerInv, Polling, client
  <2> QED BY <1>0, <2>1, <2>2 DEF ReplayInv, Polling
<1>9. CASE LoseReply(w) \/ Crash(w)
  <2>1. pc'[w] = "idle" /\ batch'[w] = {} /\ UNCHANGED <<acks, topAck>>
    BY <1>9 DEF LoseReply, Crash, Goto, TypeOK, history
  <2> QED BY <1>0, <2>1 DEF ReplayInv, Polling
<1> QED BY <1>1, <1>2, <1>3, <1>4, <1>5, <1>6, <1>7, <1>8, <1>9 DEF WorkerStep

\* A step of another worker leaves it alone: that worker moves the ack only when
\* both ack for one agent.
LEMMA OthersReplay ==
  ASSUME TypeOK, NEW w \in Workers, NEW v \in Workers \ {w},
         ReplayInv(w), ReplayInv(v),
         WorkerStep(v) \/ PollAborted(v) \/ LoseReply(v) \/ Crash(v)
  PROVE  ReplayInv(w)'
<1>1. pc'[w] = pc[w]
  <2>1. CASE WorkerStep(v)
    BY <2>1 DEF WorkerStep, StartPoll, ReadPage, ReadParticipants, ReadWatches,
       Decide, Receive, Handle, Ack, Finish, Goto, TypeOK
  <2>2. CASE PollAborted(v) \/ LoseReply(v) \/ Crash(v)
    BY <2>2 DEF PollAborted, LoseReply, Crash, Goto, TypeOK
  <2> QED BY <2>1, <2>2
<1>2. pos'[w] = pos[w]
  <2>1. CASE WorkerStep(v)
    BY <2>1 DEF WorkerStep, StartPoll, ReadPage, ReadParticipants, ReadWatches,
       Decide, Receive, Handle, Ack, Finish, TypeOK, poll
  <2>2. CASE PollAborted(v) \/ LoseReply(v) \/ Crash(v)
    BY <2>2 DEF PollAborted, LoseReply, Crash, TypeOK, poll
  <2> QED BY <2>1, <2>2
<1>3. cursor'[w] = cursor[w] /\ batch'[w] = batch[w] /\ last'[w] = last[w]
  <2>1. CASE WorkerStep(v)
    BY <2>1 DEF WorkerStep, StartPoll, ReadPage, ReadParticipants, ReadWatches,
       Decide, Receive, Handle, Ack, Finish, TypeOK, client
  <2>2. CASE PollAborted(v) \/ LoseReply(v) \/ Crash(v)
    BY <2>2 DEF PollAborted, LoseReply, Crash, TypeOK, client
  <2> QED BY <2>1, <2>2
<1>4. CASE Ack(v)
  <2>1. v \in AckWorkers
    BY <1>4 DEF Ack, Goto, ReplayInv
  <2>2. w \in AckWorkers /\ Sole(w) => AgentOf[v] # AgentOf[w]
    BY <2>1 DEF Sole
  <2>3. AgentOf[v] # AgentOf[w] => /\ acks'[AgentOf[w]] = acks[AgentOf[w]]
                                   /\ topAck'[AgentOf[w]] = topAck[AgentOf[w]]
    BY <1>4, InboxAssumption DEF Ack, AckEvents, TypeOK
  <2> QED BY <1>1, <1>2, <1>3, <2>2, <2>3, ReplayFrame
<1>5. CASE ~ Ack(v)
  <2>1. UNCHANGED <<acks, topAck>>
    <3>1. CASE WorkerStep(v)
      BY <1>5, <3>1 DEF WorkerStep, StartPoll, ReadPage, ReadParticipants,
         ReadWatches, Decide, Receive, Handle, Finish, history
    <3>2. CASE PollAborted(v) \/ LoseReply(v) \/ Crash(v)
      BY <3>2 DEF PollAborted, LoseReply, Crash, history
    <3> QED BY <3>1, <3>2
  <2> QED BY <1>1, <1>2, <1>3, <2>1, ReplayFrame
<1> QED BY <1>4, <1>5

LEMMA ReplayStep ==
  TypeOK /\ InboxInv /\ NoReplayInv /\ [Next]_vars => NoReplayInv'
<1> SUFFICES ASSUME TypeOK, InboxInv, NoReplayInv, [Next]_vars, NEW w \in Workers
             PROVE  ReplayInv(w)'
  BY DEF NoReplayInv
<1>1. \A v \in Workers : ReplayInv(v)
  BY DEF NoReplayInv
<1>2. CASE Write
  <2>1. UNCHANGED <<acks, topAck, pc, poll, client>>
    BY <1>2 DEF Write, CreateThread, CreatePost, WatchThread, UnwatchThread,
       WatchSubforum, UnwatchSubforum, history
  <2> QED BY <1>1, <2>1, ReplayFrame DEF poll, client
<1>3. CASE UNCHANGED vars
  BY <1>1, <1>3, ReplayFrame DEF vars, poll, client, history
<1>4. ASSUME NEW v \in Workers,
             WorkerStep(v) \/ PollAborted(v) \/ LoseReply(v) \/ Crash(v)
      PROVE  ReplayInv(w)'
  BY <1>1, <1>4, OwnReplay, OthersReplay
<1> QED BY <1>2, <1>3, <1>4 DEF Next

\* NoReplayInv: the resume point of a worker that alone moves it comes before
\* whatever the worker still holds, and it never goes back.
THEOREM NoReplayHolds == Spec => []NoReplayInv
<1>1. Init => NoReplayInv
  BY DEF Init, NoReplayInv, ReplayInv, Polling
<1> QED BY <1>1, ReplayStep, InvariantHolds, TypeCorrect, PTL DEF Spec

\* NoReplay: a worker with a cursor of its own is never handed an event that its
\* cursor has passed, and a process that alone acks for its agent never starts a
\* poll before anything it ever acknowledged, over lost replies, cancelled polls
\* and restarts.
THEOREM NothingIsReplayed == Spec => NoReplay
<1> DEFINE Starts == \A w \in AckWorkers :
                       Sole(w) /\ pc[w] = "idle" /\ pc'[w] = "page"
                         => pos'[w] >= topAck[AgentOf[w]]
<1>1. TypeOK /\ NoReplayInv => NoReplayAfterCursor
  <2> SUFFICES ASSUME TypeOK, NoReplayInv, NEW w \in Workers \ AckWorkers,
                      NEW s \in batch[w]
               PROVE  s > cursor[w]
    BY DEF NoReplayAfterCursor
  <2>1. ResumeOf(w) < s /\ ResumeOf(w) = cursor[w]
    BY DEF NoReplayInv, ReplayInv, Sole, ResumeOf
  <2>2. s \in Nat /\ cursor[w] \in Nat
    BY DEF TypeOK
  <2> QED BY <2>1, <2>2
<1>2. TypeOK /\ NoReplayInv /\ [Next]_vars => [Starts]_vars
  <2> SUFFICES ASSUME TypeOK, NoReplayInv, Next, NEW w \in AckWorkers,
                      Sole(w), pc[w] = "idle", pc'[w] = "page"
               PROVE  pos'[w] >= topAck[AgentOf[w]]
    OBVIOUS
  <2>1. w \in Workers /\ AgentOf[w] \in Agents
    BY InboxAssumption
  <2>2. StartPoll(w)
    <3>1. CASE Write
      BY <3>1 DEF Write, CreateThread, CreatePost, WatchThread, UnwatchThread,
         WatchSubforum, UnwatchSubforum
    <3>2. ASSUME NEW v \in Workers, WorkerStep(v)
          PROVE  StartPoll(w)
      <4>1. CASE v = w
        BY <3>2, <4>1 DEF WorkerStep, ReadPage, ReadParticipants, ReadWatches,
           Decide, Receive, Handle, Ack, Finish, Goto, TypeOK
      <4>2. CASE v # w
        <5>1. pc'[w] = pc[w]
          BY <2>1, <3>2, <4>2 DEF WorkerStep, StartPoll, ReadPage,
             ReadParticipants, ReadWatches, Decide, Receive, Handle, Ack, Finish,
             Goto, TypeOK
        <5> QED BY <5>1
      <4> QED BY <4>1, <4>2
    <3>3. ASSUME NEW v \in Workers, PollAborted(v) \/ LoseReply(v) \/ Crash(v)
          PROVE  FALSE
      BY <2>1, <3>3 DEF PollAborted, LoseReply, Crash, Goto, TypeOK
    <3> QED BY <3>1, <3>2, <3>3 DEF Next
  <2>3. pos'[w] = acks[AgentOf[w]]
    BY <2>1, <2>2 DEF StartPoll, TypeOK
  <2>4. acks[AgentOf[w]] = topAck[AgentOf[w]] /\ topAck[AgentOf[w]] \in Nat
    BY <2>1 DEF NoReplayInv, ReplayInv, TypeOK
  <2> QED BY <2>3, <2>4
<1>3. Spec => []NoReplayAfterCursor
  BY <1>1, NoReplayHolds, TypeCorrect, PTL
<1>4. Spec => [][Starts]_vars
  BY <1>2, NoReplayHolds, TypeCorrect, PTL DEF Spec
<1> QED BY <1>3, <1>4 DEF NoReplay, AckAvoidsReplay

=============================================================================
