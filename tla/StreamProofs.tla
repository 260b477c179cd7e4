---------------------------- MODULE StreamProofs ----------------------------
(* Proofs about the event stream, for every value of the constants: about  *)
(* StreamHandler, which writes it, for every capacity of the connection;   *)
(* and about EventWire, which takes it from the server to the tab, for     *)
(* every log and every way to cut the text into chunks.                    *)
EXTENDS StreamHandler, EventWire, FiniteSetTheorems, SequenceTheorems,
        WellFoundedInduction, TLAPS

USE BufferAssumption

-----------------------------------------------------------------------------
(* Type correctness.                                                       *)

\* What Goto does for each goroutine.
LEMMA GotoEffect ==
  ASSUME NEW from, NEW to
  PROVE  /\ Goto("data", from, to) => data = from /\ data' = to /\ beat' = beat
         /\ Goto("beat", from, to) => beat = from /\ beat' = to /\ data' = data
  BY DEF Goto, Step

\* What a write does, whatever its outcome.
LEMMA WriteEffect ==
  ASSUME NEW g \in Goroutines, Write(g)
  PROVE  /\ \E to \in {"written", "failed"} : Goto(g, "write", to)
         /\ (unread < Buffer /\ unread' = unread + 1) \/ unread' = unread
         /\ mutex' = Nobody /\ half' = half \ {g}
         /\ UNCHANGED <<channels, connected, cancelled>>
  BY Zenon DEF Write, Room, Unlock

\* A goroutine that goes on stays in its own steps.
LEMMA GotoType ==
  ASSUME TypeOK, NEW g \in Goroutines, NEW from, NEW to, Goto(g, from, to),
         to \in IF g = "data" THEN DataSteps ELSE BeatSteps
  PROVE  data' \in DataSteps /\ beat' \in BeatSteps
  BY DEF TypeOK, Goto, Goroutines

LEMMA TypeStep == TypeOK /\ [Next]_vars => TypeOK'
<1> SUFFICES ASSUME TypeOK, [Next]_vars PROVE TypeOK'
  OBVIOUS
<1> USE DEF TypeOK, Idle, channels, client
<1>1. ASSUME NEW g \in Goroutines, Lock(g) PROVE TypeOK'
  <2>1. data' \in DataSteps /\ beat' \in BeatSteps
    BY <1>1, GotoType DEF Lock, DataSteps, BeatSteps, WriteSteps
  <2>2. mutex' = g /\ half' = half \cup {g} /\ UNCHANGED <<channels, client>>
    BY <1>1 DEF Lock, LockMutex
  <2> QED BY <2>1, <2>2
<1>2. ASSUME NEW g \in Goroutines, Write(g) PROVE TypeOK'
  <2>1. data' \in DataSteps /\ beat' \in BeatSteps
    BY <1>2, WriteEffect, GotoType DEF DataSteps, BeatSteps, WriteSteps
  <2>2. unread' \in 0 .. Buffer
    <3>1. (unread < Buffer /\ unread' = unread + 1) \/ unread' = unread
      BY <1>2, WriteEffect
    <3>2. unread \in 0 .. Buffer
      OBVIOUS
    <3> HIDE DEF TypeOK
    <3> QED BY <3>1, <3>2
  <2>3. /\ mutex' = Nobody /\ half' = half \ {g}
        /\ UNCHANGED <<channels, connected, cancelled>>
    BY <1>2, WriteEffect
  <2> QED BY <2>1, <2>2, <2>3
<1>3. CASE Handler \/ PollReturns \/ PollFails
  <2>1. data' \in DataSteps /\ beat' \in BeatSteps
    BY <1>3 DEF Handler, WritePadding, StartBeat, Frame, FrameWritten, CheckContext,
       CloseDone, StopTicker, Join, PollReturns, PollFails, Goto,
       DataSteps, BeatSteps, WriteSteps, Unwinding
  <2>2. UNCHANGED <<mutex, half, client>>
    BY <1>3 DEF Handler, WritePadding, StartBeat, Frame, FrameWritten, CheckContext,
       CloseDone, StopTicker, Join, PollReturns, PollFails
  <2>3. /\ tick' \in BOOLEAN /\ ticking' \in BOOLEAN
        /\ done' \in BOOLEAN /\ beatDone' \in BOOLEAN
    BY <1>3 DEF Handler, WritePadding, StartBeat, Frame, FrameWritten, CheckContext,
       CloseDone, StopTicker, Join, PollReturns, PollFails
  <2> QED BY <2>1, <2>2, <2>3
<1>4. CASE Heartbeat \/ Tick
  <2>1. data' \in DataSteps /\ beat' \in BeatSteps
    BY <1>4 DEF Heartbeat, Beat, BeatWritten, Exit, Tick, Goto,
       DataSteps, BeatSteps, WriteSteps
  <2>2. UNCHANGED <<mutex, half, client>>
    BY <1>4 DEF Heartbeat, Beat, BeatWritten, Exit, Tick
  <2>3. /\ tick' \in BOOLEAN /\ ticking' \in BOOLEAN
        /\ done' \in BOOLEAN /\ beatDone' \in BOOLEAN
    BY <1>4 DEF Heartbeat, Beat, BeatWritten, Exit, Tick
  <2> QED BY <2>1, <2>2, <2>3
<1>5. CASE Read \/ Leave \/ CancelContext
  <2>1. /\ UNCHANGED <<data, beat, mutex, half, channels>>
        /\ (unread > 0 /\ unread' = unread - 1) \/ unread' \in {0, unread}
        /\ connected' \in {FALSE, connected} /\ cancelled' \in {TRUE, cancelled}
    BY <1>5, Zenon DEF Read, Leave, CancelContext
  <2>2. unread' \in 0 .. Buffer
    <3>1. unread \in 0 .. Buffer
      OBVIOUS
    <3> HIDE DEF TypeOK
    <3> QED BY <2>1, <3>1
  <2> QED BY <2>1, <2>2
<1>6. CASE UNCHANGED vars
  BY <1>6 DEF vars
<1> QED BY <1>1, <1>2, <1>3, <1>4, <1>5, <1>6 DEF Next

\* Every variable of the handler keeps its type.
THEOREM TypeCorrect == Spec => []TypeOK
<1>1. Init => TypeOK
  <2> SUFFICES ASSUME Init PROVE TypeOK
    OBVIOUS
  <2>1. unread \in 0 .. Buffer
    BY DEF Init
  <2>2. /\ data \in DataSteps /\ beat \in BeatSteps
        /\ mutex \in Goroutines \cup {Nobody} /\ half \in SUBSET Goroutines
    BY DEF Init, DataSteps, BeatSteps
  <2> QED BY <2>1, <2>2, Zenon DEF Init, TypeOK
<1> QED BY <1>1, TypeStep, PTL DEF Spec

-----------------------------------------------------------------------------
(* The mutex and the end of the handler.                                   *)

\* Steps that leave the mutex alone and neither enter nor leave a write.
LEMMA MutexKept ==
  ASSUME HandlerInv, UNCHANGED <<mutex, half>>,
         data = "write" <=> data' = "write", beat = "write" <=> beat' = "write"
  PROVE  /\ \A g \in Goroutines : Step(g)' = "write" <=> mutex' = g
         /\ half' = {g \in Goroutines : mutex' = g}
  BY DEF HandlerInv, Step, Goroutines

LEMMA HandlerStep == TypeOK /\ HandlerInv /\ [Next]_vars => HandlerInv'
<1> SUFFICES ASSUME TypeOK, HandlerInv, [Next]_vars PROVE HandlerInv'
  OBVIOUS
<1> USE DEF Idle, channels, client
<1>1. ASSUME NEW g \in Goroutines, Lock(g) PROVE HandlerInv'
  <2>1. /\ mutex = Nobody /\ mutex' = g /\ half' = half \cup {g}
        /\ Step(g) = "lock" /\ Step(g)' = "write"
        /\ UNCHANGED beatDone
    BY <1>1 DEF Lock, LockMutex, Goto, Step, Goroutines
  <2>2. \A h \in Goroutines : h # g => Step(h)' = Step(h)
    BY <1>1 DEF Lock, Goto, Step, Goroutines
  <2>3. \A h \in Goroutines : Step(h)' = "write" <=> mutex' = h
    BY <2>1, <2>2 DEF HandlerInv, Goroutines, Nobody
  <2>4. half' = {h \in Goroutines : mutex' = h}
    BY <2>1 DEF HandlerInv, Goroutines, Nobody
  <2>5. /\ beatDone' <=> beat' = "exited"
        /\ data' = "returned" => beatDone'
    BY <1>1, <2>1 DEF Lock, Goto, Step, HandlerInv, Goroutines
  <2> QED BY <2>3, <2>4, <2>5 DEF HandlerInv
<1>2. ASSUME NEW g \in Goroutines, Write(g) PROVE HandlerInv'
  <2>1. /\ mutex' = Nobody /\ half' = half \ {g}
        /\ Step(g) = "write" /\ Step(g)' \in {"written", "failed"}
        /\ UNCHANGED beatDone
    BY <1>2, WriteEffect DEF Goto, Step, Goroutines
  <2>2. \A h \in Goroutines : h # g => Step(h)' = Step(h)
    BY <1>2, WriteEffect DEF Goto, Step, Goroutines
  <2>3. mutex = g
    BY <2>1 DEF HandlerInv
  <2>4. \A h \in Goroutines : Step(h)' = "write" <=> mutex' = h
    BY <2>1, <2>2, <2>3 DEF HandlerInv, Goroutines, Nobody
  <2>5. half' = {h \in Goroutines : mutex' = h}
    BY <2>1, <2>3 DEF HandlerInv, Goroutines, Nobody
  <2>6. /\ beatDone' <=> beat' = "exited"
        /\ data' = "returned" => beatDone'
    BY <1>2, <2>1, WriteEffect DEF Goto, Step, HandlerInv, Goroutines
  <2> QED BY <2>4, <2>5, <2>6 DEF HandlerInv
<1>3. CASE Handler \/ PollReturns \/ PollFails
  <2>1. /\ UNCHANGED <<mutex, half, beatDone>>
        /\ data # "write" /\ data' # "write"
        /\ (beat' = beat) \/ (beat = "unborn" /\ beat' = "select")
        /\ data' = "returned" => data = "returned" \/ beatDone
    <3>1. CASE StartBeat
      BY <3>1 DEF StartBeat
    <3>2. CASE ~StartBeat
      <4>1. /\ UNCHANGED <<mutex, half, beatDone>>
            /\ \E from \in DataSteps \ {"write"}, to \in DataSteps \ {"write"} :
                 Goto("data", from, to) /\ (to = "returned" => beatDone)
        BY <1>3, <3>2
           DEF Handler, WritePadding, Frame, FrameWritten, CheckContext, CloseDone,
               StopTicker, Join, PollReturns, PollFails,
               DataSteps, WriteSteps, Unwinding
      <4>2. PICK from \in DataSteps \ {"write"}, to \in DataSteps \ {"write"} :
              Goto("data", from, to) /\ (to = "returned" => beatDone)
        BY <4>1
      <4>3. data = from /\ data' = to /\ beat' = beat
        BY <4>2, GotoEffect
      <4>4. data # "write" /\ data' # "write"
        BY <4>2, <4>3
      <4>5. data' = "returned" => beatDone
        BY <4>2, <4>3, Zenon
      <4> QED BY <4>1, <4>3, <4>4, <4>5, Zenon
    <3> QED BY <3>1, <3>2
  <2>2. /\ \A g \in Goroutines : Step(g)' = "write" <=> mutex' = g
        /\ half' = {g \in Goroutines : mutex' = g}
    BY <2>1, MutexKept
  <2> QED BY <2>1, <2>2 DEF HandlerInv
<1>4. CASE Heartbeat \/ Tick
  <2>1. UNCHANGED <<data, mutex, half>> /\ (beat = "write" <=> beat' = "write")
    BY <1>4, GotoEffect DEF Heartbeat, Beat, BeatWritten, Exit, Tick
  <2>2. /\ \A g \in Goroutines : Step(g)' = "write" <=> mutex' = g
        /\ half' = {g \in Goroutines : mutex' = g}
    BY <2>1, MutexKept
  <2>3. /\ beatDone' <=> beat' = "exited"
        /\ beatDone => beatDone'
    BY <1>4, GotoEffect DEF Heartbeat, Beat, BeatWritten, Exit, Tick, HandlerInv
  <2> QED BY <2>1, <2>2, <2>3 DEF HandlerInv
<1>5. CASE Read \/ Leave \/ CancelContext \/ UNCHANGED vars
  <2>1. UNCHANGED <<data, beat, mutex, half, beatDone>>
    BY <1>5 DEF Read, Leave, CancelContext, vars
  <2>2. /\ \A g \in Goroutines : Step(g)' = "write" <=> mutex' = g
        /\ half' = {g \in Goroutines : mutex' = g}
    BY <2>1, MutexKept
  <2> QED BY <2>1, <2>2 DEF HandlerInv
<1> QED BY <1>1, <1>2, <1>3, <1>4, <1>5 DEF Next

(* HandlerInv: the mutex is held exactly while a frame is written, and the *)
(* handler returns only after the heartbeat goroutine has exited.          *)
THEOREM InvariantHolds == Spec => []HandlerInv
<1>1. Init => HandlerInv
  BY DEF Init, HandlerInv, Step, Goroutines, Nobody
<1> QED BY <1>1, TypeCorrect, HandlerStep, PTL DEF Spec

(* FramesAreWhole: data frames and heartbeats never mix on the wire.       *)
THEOREM FramesStayWhole == Spec => []FramesAreWhole
<1>1. HandlerInv => FramesAreWhole
  BY DEF HandlerInv, FramesAreWhole
<1> QED BY <1>1, InvariantHolds, PTL

(* NoWriteAfterReturn: once the handler has returned, nothing writes to    *)
(* the response, because the heartbeat goroutine has exited.               *)
THEOREM ResponseIsReleased == Spec => []NoWriteAfterReturn
<1>1. TypeOK /\ HandlerInv => NoWriteAfterReturn
  <2> SUFFICES ASSUME HandlerInv, data = "returned" PROVE half = {} /\ beat = "exited"
    BY DEF NoWriteAfterReturn
  <2>1. beat = "exited"
    BY DEF HandlerInv
  <2>2. \A g \in Goroutines : mutex # g
    BY <2>1 DEF HandlerInv, Step, Goroutines
  <2> QED BY <2>1, <2>2 DEF HandlerInv
<1> QED BY <1>1, TypeCorrect, InvariantHolds, PTL

HIDE BufferAssumption

-----------------------------------------------------------------------------
(* Numbers.                                                                *)

\* A set of numbers that is not empty has a least one.
LEMMA LeastNumber ==
  ASSUME NEW T \in SUBSET Nat, T # {}
  PROVE  \E m \in T : \A n \in T : m <= n
<1> DEFINE R == OpToRel(<, Nat)
<1>1. IsWellFoundedOn(R, Nat)
  BY NatLessThanWellFounded
<1>2. \A m, n \in Nat : m < n => <<m, n>> \in R
  BY DEF OpToRel
<1> HIDE DEF R
<1>3. PICK m \in T : \A n \in T : ~ (<<n, m>> \in R)
  BY <1>1, WFMin
<1>4. \A n \in T : n \in Nat /\ m \in Nat /\ ~ (n < m)
  BY <1>2, <1>3
<1> QED BY <1>4

-----------------------------------------------------------------------------
(* Definitions by recursion.                                               *)

\* A recursion in which each place asks for the value at one smaller place, and a
\* function that solves it.
Recursion(S, V, stop, base, next, size, join) ==
  /\ stop \in SUBSET S /\ base \in [S -> V]
  /\ next \in [S -> S] /\ size \in [S -> Nat]
  /\ join \in [S -> [V -> V]]
  /\ \A s \in S \ stop : size[next[s]] < size[s]

Solves(f, S, V, stop, base, next, join) ==
  /\ f \in [S -> V]
  /\ \A s \in S : f[s] = IF s \in stop THEN base[s] ELSE join[s][f[next[s]]]

\* A recursion has a solution: the solutions below each size agree, and the next is
\* made from them.
LEMMA RecursionHasSolution ==
  ASSUME NEW S, NEW V, NEW stop, NEW base, NEW next, NEW size, NEW join,
         Recursion(S, V, stop, base, next, size, join)
  PROVE  \E f : Solves(f, S, V, stop, base, next, join)
<1>0. /\ stop \in SUBSET S /\ base \in [S -> V]
      /\ next \in [S -> S] /\ size \in [S -> Nat]
      /\ join \in [S -> [V -> V]]
      /\ \A s \in S \ stop : size[next[s]] < size[s]
  BY DEF Recursion
<1> DEFINE Below(n) == {s \in S : size[s] < n}
           Partial(h, n) ==
             /\ h \in [Below(n) -> V]
             /\ \A s \in Below(n) :
                  h[s] = IF s \in stop THEN base[s] ELSE join[s][h[next[s]]]
<1>1. \A s \in S : size[s] \in Nat /\ next[s] \in S
  BY <1>0
<1>2. ASSUME NEW m \in Nat, NEW n \in Nat, NEW g, NEW h, Partial(g, m), Partial(h, n)
      PROVE  \A s \in Below(m) \cap Below(n) : g[s] = h[s]
  <2> DEFINE differ == {s \in Below(m) \cap Below(n) : g[s] # h[s]}
             sizes == {size[s] : s \in differ}
  <2>1. SUFFICES ASSUME differ # {} PROVE FALSE
    OBVIOUS
  <2>2. sizes \in SUBSET Nat /\ sizes # {}
    BY <1>1, <2>1
  <2>3. PICK s \in differ : \A t \in differ : size[s] <= size[t]
    <3>1. PICK k \in sizes : \A l \in sizes : k <= l
      BY <2>2, LeastNumber
    <3> QED BY <3>1
  <2>4. s \in S /\ s \in Below(m) /\ s \in Below(n) /\ g[s] # h[s]
    OBVIOUS
  <2>5. s \notin stop
    BY <1>2, <2>4
  <2>6. size[next[s]] < size[s] /\ next[s] \in S
    BY <1>0, <1>1, <2>4, <2>5
  <2>7. next[s] \in Below(m) /\ next[s] \in Below(n)
    BY <1>1, <2>4, <2>6
  <2>8. next[s] \notin differ
    BY <1>1, <2>3, <2>4, <2>6
  <2>9. g[next[s]] = h[next[s]]
    BY <2>7, <2>8
  <2> QED BY <1>2, <2>4, <2>5, <2>9
<1>3. \A n \in Nat : \E h : Partial(h, n)
  <2> DEFINE missing == {n \in Nat : ~ \E h : Partial(h, n)}
  <2>1. SUFFICES ASSUME missing # {} PROVE FALSE
    OBVIOUS
  <2>2. PICK n \in missing : \A m \in missing : n <= m
    <3> HIDE DEF Partial
    <3> QED BY <2>1, LeastNumber
  <2>3. n \in Nat /\ ~ \E h : Partial(h, n)
    OBVIOUS
  <2>4. CASE n = 0
    <3>1. Below(0) = {}
      BY <1>1
    <3>2. Partial([s \in {} |-> s], 0)
      BY <3>1
    <3> QED BY <2>3, <2>4, <3>2
  <2>5. CASE n # 0
    <3>1. n - 1 \in Nat /\ n - 1 \notin missing
      <4>1. n \in Nat
        BY <2>3
      <4> HIDE DEF missing
      <4> QED BY <2>2, <2>5, <4>1
    <3>2. PICK h : Partial(h, n - 1)
      BY <3>1
    <3> DEFINE g == [s \in Below(n) |-> IF s \in stop THEN base[s] ELSE join[s][h[next[s]]]]
    <3>3. ASSUME NEW s \in Below(n), s \notin stop
          PROVE  next[s] \in Below(n - 1) /\ next[s] \in Below(n) /\ h[next[s]] \in V
      <4>1. size[s] \in Nat /\ size[next[s]] \in Nat /\ size[next[s]] < size[s] /\ size[s] < n
        BY <1>0, <1>1, <3>3
      <4> QED BY <1>1, <2>3, <3>2, <4>1
    <3>4. g \in [Below(n) -> V]
      <4>1. \A s \in Below(n) : s \in S
        OBVIOUS
      <4>2. ASSUME NEW s \in Below(n)
            PROVE  (IF s \in stop THEN base[s] ELSE join[s][h[next[s]]]) \in V
        BY <1>0, <3>3, <4>1, <4>2
      <4> QED BY <4>2
    <3>5. ASSUME NEW s \in Below(n), s \notin stop PROVE g[next[s]] = h[next[s]]
      <4>1. next[s] \in Below(n - 1) /\ next[s] \in Below(n)
        BY <3>3, <3>5
      <4>2. h[next[s]] = IF next[s] \in stop THEN base[next[s]] ELSE join[next[s]][h[next[next[s]]]]
        BY <3>2, <4>1
      <4> QED BY <4>1, <4>2
    <3>6. Partial(g, n)
      <4>1. ASSUME NEW s \in Below(n)
            PROVE  g[s] = IF s \in stop THEN base[s] ELSE join[s][g[next[s]]]
        <5>1. g[s] = IF s \in stop THEN base[s] ELSE join[s][h[next[s]]]
          BY <4>1
        <5> HIDE DEF g
        <5> QED BY <3>5, <4>1, <5>1
      <4> HIDE DEF g
      <4> QED BY <3>4, <4>1
    <3> HIDE DEF Partial, g
    <3> QED BY <2>3, <3>6
  <2> QED BY <2>4, <2>5
<1> DEFINE part == [n \in Nat |-> CHOOSE h : Partial(h, n)]
           f == [s \in S |-> part[size[s] + 1][s]]
<1>4. \A n \in Nat : Partial(part[n], n)
  <2> HIDE DEF Partial
  <2> QED BY <1>3
<1>5. \A s \in S : size[s] + 1 \in Nat /\ s \in Below(size[s] + 1)
  BY <1>1
<1> HIDE DEF part
<1>6. f \in [S -> V]
  <2>1. ASSUME NEW s \in S PROVE part[size[s] + 1][s] \in V
    <3>1. Partial(part[size[s] + 1], size[s] + 1) /\ s \in Below(size[s] + 1)
      BY <1>4, <1>5, <2>1
    <3> HIDE DEF Below
    <3> QED BY <3>1
  <2> QED BY <2>1
<1>7. ASSUME NEW s \in S
      PROVE  f[s] = IF s \in stop THEN base[s] ELSE join[s][f[next[s]]]
  <2> DEFINE n == size[s] + 1
  <2>1. n \in Nat /\ s \in Below(n) /\ Partial(part[n], n) /\ f[s] = part[n][s]
    BY <1>4, <1>5, <1>7
  <2>2. f[s] = IF s \in stop THEN base[s] ELSE join[s][part[n][next[s]]]
    <3> HIDE DEF f, Below, n
    <3> QED BY <2>1
  <2>3. CASE s \notin stop
    <3> DEFINE t == next[s]
               k == size[t] + 1
    <3>1. t \in S /\ k \in Nat /\ t \in Below(k) /\ Partial(part[k], k) /\ f[t] = part[k][t]
      BY <1>1, <1>4, <1>5, <1>7
    <3>2. t \in Below(n)
      BY <1>0, <1>1, <1>7, <2>3
    <3> HIDE DEF f, Below, n, k, t, Partial
    <3>3. part[n][t] = part[k][t]
      BY <1>2, <2>1, <3>1, <3>2
    <3>4. f[t] = part[n][t]
      BY <3>1, <3>3
    <3> QED BY <2>2, <2>3, <3>4 DEF t
  <2> HIDE DEF f, n
  <2> QED BY <2>2, <2>3
<1> HIDE DEF f
<1> QED BY <1>6, <1>7 DEF Solves

-----------------------------------------------------------------------------
(* The frames of a text.                                                   *)

\* What Frames returns.
Texts    == Seq(Int)
Payloads == {Payload(SubSeq(buf, 1, FirstBlank(buf) - 1)) : buf \in Texts}
Parsed   == [frames : Seq(Payloads), rest : Texts]

\* The first blank line of a text is one.
LEMMA FirstBlankIsFirst ==
  ASSUME NEW buf \in Texts, Blanks(buf) # {}
  PROVE  /\ FirstBlank(buf) \in Blanks(buf)
         /\ \A i \in Blanks(buf) : FirstBlank(buf) <= i
<1>1. Blanks(buf) \in SUBSET Nat
  BY DEF Blanks, Texts
<1>2. \E i \in Blanks(buf) : \A j \in Blanks(buf) : i <= j
  BY <1>1, LeastNumber
<1> QED BY <1>2 DEF FirstBlank

\* What is beyond the first frame is a shorter text, the end of the one before.
LEMMA BeyondIsShorter ==
  ASSUME NEW buf \in Texts, Blanks(buf) # {}
  PROVE  /\ FirstBlank(buf) \in 1 .. Len(buf) - 1
         /\ Beyond(buf) \in Texts
         /\ Len(Beyond(buf)) = Len(buf) - FirstBlank(buf) - 1
         /\ Len(Beyond(buf)) \in Nat
         /\ \A i \in 1 .. Len(Beyond(buf)) : Beyond(buf)[i] = buf[FirstBlank(buf) + 1 + i]
<1>1. FirstBlank(buf) \in 1 .. Len(buf) - 1
  BY FirstBlankIsFirst DEF Blanks
<1> DEFINE m == FirstBlank(buf) + 2
<1>2. m \in 1 .. Len(buf) + 1 /\ Len(buf) \in Nat /\ buf \in Seq(Int)
  BY <1>1 DEF Texts
<1> HIDE DEF m
<1>3. /\ SubSeq(buf, m, Len(buf)) \in Seq(Int)
      /\ Len(SubSeq(buf, m, Len(buf))) = IF m <= Len(buf) THEN Len(buf) - m + 1 ELSE 0
      /\ \A i \in 1 .. Len(buf) - m + 1 : SubSeq(buf, m, Len(buf))[i] = buf[m + i - 1]
  BY <1>2, SubSeqProperties
<1>4. Len(buf) - m + 1 = Len(buf) - FirstBlank(buf) - 1 /\ Len(buf) - m + 1 \in Nat
      /\ (m > Len(buf) => Len(buf) - m + 1 = 0)
  BY <1>1, <1>2 DEF m
<1>5. Beyond(buf) = SubSeq(buf, m, Len(buf))
  BY DEF Beyond, m
<1>6. \A i \in 1 .. Len(buf) - m + 1 : m + i - 1 = FirstBlank(buf) + 1 + i
  BY <1>1 DEF m
<1>7. Len(Beyond(buf)) = Len(buf) - m + 1
  BY <1>1, <1>2, <1>3, <1>4, <1>5
<1> QED BY <1>1, <1>3, <1>4, <1>5, <1>6, <1>7 DEF Texts

\* The first frame shows one payload or none.
LEMMA FirstFrameType ==
  ASSUME NEW buf \in Texts
  PROVE  FirstFrame(buf) \in Seq(Payloads)
<1> DEFINE payload == Payload(SubSeq(buf, 1, FirstBlank(buf) - 1))
<1>1. payload \in Payloads /\ FirstFrame(buf) = IF payload = << >> THEN << >> ELSE <<payload>>
  BY DEF Payloads, FirstFrame
<1> HIDE DEF payload
<1> QED BY <1>1

\* Frames is what its definition says: it stops where no blank line is left.
LEMMA FramesEquation ==
  ASSUME NEW buf \in Texts
  PROVE  /\ Frames[buf] \in Parsed
         /\ Blanks(buf) = {} => Frames[buf] = [frames |-> << >>, rest |-> buf]
         /\ Blanks(buf) # {} =>
              Frames[buf] = [frames |-> FirstFrame(buf) \o Frames[Beyond(buf)].frames,
                             rest |-> Frames[Beyond(buf)].rest]
<1> DEFINE stop == {b \in Texts : Blanks(b) = {}}
           base == [b \in Texts |-> [frames |-> << >>, rest |-> b]]
           next == [b \in Texts |-> IF b \in stop THEN b ELSE Beyond(b)]
           size == [b \in Texts |-> Len(b)]
           Add(b, p) == [frames |-> FirstFrame(b) \o p.frames, rest |-> p.rest]
           join == [b \in Texts |-> [p \in Parsed |-> Add(b, p)]]
           Value(f, b) == IF Blanks(b) = {} THEN [frames |-> << >>, rest |-> b]
                          ELSE Add(b, f[Beyond(b)])
           Solution(f) == f = [b \in Texts |-> Value(f, b)]
<1>1. base \in [Texts -> Parsed]
  BY DEF Parsed
<1>2. next \in [Texts -> Texts]
  BY BeyondIsShorter
<1>3. size \in [Texts -> Nat]
  BY DEF Texts
<1>4. \A b \in Texts, p \in Parsed : Add(b, p) \in Parsed
  <2>1. ASSUME NEW b \in Texts, NEW p \in Parsed PROVE Add(b, p) \in Parsed
    <3>1. FirstFrame(b) \in Seq(Payloads) /\ p.frames \in Seq(Payloads) /\ p.rest \in Texts
      BY <2>1, FirstFrameType DEF Parsed
    <3>2. FirstFrame(b) \o p.frames \in Seq(Payloads)
      BY <3>1, ConcatProperties
    <3> QED BY <3>1, <3>2 DEF Parsed
  <2> QED BY <2>1
<1>5. join \in [Texts -> [Parsed -> Parsed]]
  <2> HIDE DEF Add
  <2> QED BY <1>4
<1>6. \A b \in Texts \ stop : size[next[b]] < size[b]
  <2>1. ASSUME NEW b \in Texts, b \notin stop PROVE size[next[b]] < size[b]
    <3>1. next[b] = Beyond(b) /\ Beyond(b) \in Texts
      BY <2>1, BeyondIsShorter
    <3>2. Len(Beyond(b)) < Len(b)
      BY <2>1, BeyondIsShorter DEF Texts
    <3> QED BY <2>1, <3>1, <3>2
  <2> QED BY <2>1
<1>7. stop \in SUBSET Texts
  OBVIOUS
<1>8. \E f : Solves(f, Texts, Parsed, stop, base, next, join)
  <2>1. Recursion(Texts, Parsed, stop, base, next, size, join)
    <3> HIDE DEF stop, base, next, size, join
    <3> QED BY <1>1, <1>2, <1>3, <1>5, <1>6, <1>7 DEF Recursion
  <2> HIDE DEF stop, base, next, size, join
  <2> QED BY <2>1, RecursionHasSolution
<1>9. \E f : Solution(f)
  <2>1. PICK f \in [Texts -> Parsed] :
        \A b \in Texts : f[b] = IF b \in stop THEN base[b] ELSE join[b][f[next[b]]]
    <3> HIDE DEF stop, base, next, join
    <3> QED BY <1>8 DEF Solves
  <2>2. ASSUME NEW b \in Texts PROVE f[b] = Value(f, b)
    <3>1. CASE Blanks(b) = {}
      <4>1. b \in stop /\ base[b] = [frames |-> << >>, rest |-> b]
        BY <2>2, <3>1
      <4> QED BY <2>1, <2>2, <3>1, <4>1
    <3>2. CASE Blanks(b) # {}
      <4>1. Beyond(b) \in Texts /\ next[b] = Beyond(b) /\ b \notin stop
        BY <2>2, <3>2, BeyondIsShorter
      <4>2. f[Beyond(b)] \in Parsed
        BY <2>1, <4>1
      <4>3. f[b] = join[b][f[Beyond(b)]]
        BY <2>1, <2>2, <4>1
      <4> HIDE DEF Add
      <4>4. f[b] = Add(b, f[Beyond(b)])
        BY <2>2, <4>2, <4>3
      <4> QED BY <3>2, <4>4
    <3> QED BY <3>1, <3>2
  <2> HIDE DEF Value
  <2> QED BY <2>1, <2>2
<1>10. Solution(Frames)
  <2>1. Frames = CHOOSE f : Solution(f)
    BY DEF Frames, Texts
  <2> HIDE DEF Solution
  <2> QED BY <1>9, <2>1
<1>11. \A b \in Texts : Frames[b] = Value(Frames, b)
  <2> HIDE DEF Value
  <2> QED BY <1>10
<1>12. \A b \in Texts : Frames[b] \in Parsed
  <2> DEFINE bad == {b \in Texts : Frames[b] \notin Parsed}
             sizes == {Len(b) : b \in bad}
  <2>1. SUFFICES ASSUME bad # {} PROVE FALSE
    OBVIOUS
  <2>2. sizes \in SUBSET Nat /\ sizes # {}
    <3>1. \A b \in bad : Len(b) \in Nat
      BY DEF Texts
    <3> HIDE DEF bad
    <3> QED BY <2>1, <3>1
  <2>3. PICK b \in bad : \A c \in bad : Len(b) <= Len(c)
    <3>1. PICK k \in sizes : \A l \in sizes : k <= l
      BY <2>2, LeastNumber
    <3> QED BY <3>1
  <2>4. b \in Texts /\ Frames[b] \notin Parsed /\ Frames[b] = Value(Frames, b)
    BY <1>11
  <2>5. Blanks(b) # {}
    <3>1. [frames |-> << >>, rest |-> b] \in Parsed
      BY <2>4 DEF Parsed
    <3> QED BY <2>4, <3>1
  <2>6. Beyond(b) \in Texts /\ Len(Beyond(b)) < Len(b)
    BY <2>4, <2>5, BeyondIsShorter DEF Texts
  <2>7. Len(b) \in Nat /\ Len(Beyond(b)) \in Nat
    BY <2>4, <2>6 DEF Texts
  <2>8. Frames[Beyond(b)] \in Parsed
    BY <2>3, <2>6, <2>7
  <2> HIDE DEF Add
  <2> QED BY <1>4, <2>4, <2>5, <2>8
<1> HIDE DEF Solution
<1> QED BY <1>11, <1>12

\* A text that goes on has the frames it had, and then those of what was left of it
\* together with what follows.
THEOREM FramesOfConcat ==
  ASSUME NEW a \in Texts, NEW b \in Texts
  PROVE  /\ Frames[Frames[a].rest \o b] \in Parsed
         /\ Frames[a \o b] =
              [frames |-> Frames[a].frames \o Frames[Frames[a].rest \o b].frames,
               rest |-> Frames[Frames[a].rest \o b].rest]
<1> DEFINE After(t) == Frames[Frames[t].rest \o b]
           Claim(t) == Frames[t \o b] = [frames |-> Frames[t].frames \o After(t).frames,
                                         rest |-> After(t).rest]
           bad == {t \in Texts : ~ Claim(t)}
           sizes == {Len(t) : t \in bad}
<1>1. \A t \in Texts : After(t) \in Parsed
  <2>1. ASSUME NEW t \in Texts PROVE Frames[t].rest \o b \in Texts
    <3>1. Frames[t].rest \in Texts
      BY <2>1, FramesEquation DEF Parsed
    <3> QED BY <3>1 DEF Texts
  <2> QED BY <2>1, FramesEquation
<1>2. SUFFICES ASSUME bad # {} PROVE FALSE
  <2> HIDE DEF Claim
  <2>1. Claim(a)
    BY <1>2
  <2> QED BY <1>1, <2>1 DEF Claim
<1>3. PICK t \in bad : \A u \in bad : Len(t) <= Len(u)
  <2>1. sizes \in SUBSET Nat /\ sizes # {}
    <3>1. \A u \in bad : Len(u) \in Nat
      BY DEF Texts
    <3> HIDE DEF bad
    <3> QED BY <1>2, <3>1
  <2>2. PICK k \in sizes : \A l \in sizes : k <= l
    BY <2>1, LeastNumber
  <2> QED BY <2>2
<1>4. t \in Texts /\ ~ Claim(t) /\ t \o b \in Texts
  BY DEF Texts
<1>5. CASE Blanks(t) = {}
  <2>1. Frames[t] = [frames |-> << >>, rest |-> t]
    BY <1>4, <1>5, FramesEquation
  <2>2. After(t) = Frames[t \o b] /\ After(t) \in Parsed
    BY <1>1, <1>4, <2>1
  <2>3. << >> \o After(t).frames = After(t).frames
    BY <2>2, ConcatEmptySeq DEF Parsed
  <2> HIDE DEF After
  <2>4. After(t) = [frames |-> After(t).frames, rest |-> After(t).rest]
    BY <2>2 DEF Parsed
  <2> QED BY <1>4, <2>1, <2>2, <2>3, <2>4
<1>6. CASE Blanks(t) # {}
  <2> DEFINE f == FirstBlank(t)
             u == Beyond(t)
  <2>1. /\ f \in 1 .. Len(t) - 1
        /\ u \in Texts /\ Len(u) = Len(t) - f - 1 /\ Len(t) \in Nat
        /\ \A i \in 1 .. Len(u) : u[i] = t[f + 1 + i]
        /\ f \in Blanks(t) /\ \A i \in Blanks(t) : f <= i
    BY <1>4, <1>6, BeyondIsShorter, FirstBlankIsFirst DEF Texts
  <2>2. /\ Len(t \o b) = Len(t) + Len(b) /\ Len(b) \in Nat
        /\ \A i \in 1 .. Len(t) : (t \o b)[i] = t[i]
        /\ \A i \in 1 .. Len(b) : (t \o b)[Len(t) + i] = b[i]
    BY <1>4 DEF Texts
  <2>3. f \in Blanks(t \o b) /\ \A i \in Blanks(t \o b) : f <= i
    <3>1. f \in Blanks(t \o b)
      BY <2>1, <2>2 DEF Blanks
    <3>2. ASSUME NEW i \in Blanks(t \o b), i < f PROVE i \in Blanks(t)
      BY <2>1, <2>2, <3>2 DEF Blanks
    <3>3. \A i \in Blanks(t \o b) : i \in Int /\ f \in Int
      BY <2>1 DEF Blanks
    <3> QED BY <2>1, <3>1, <3>2, <3>3
  <2>4. FirstBlank(t \o b) = f
    <3>1. FirstBlank(t \o b) \in Blanks(t \o b) /\ \A i \in Blanks(t \o b) : FirstBlank(t \o b) <= i
      BY <1>4, <2>3, FirstBlankIsFirst
    <3>2. FirstBlank(t \o b) \in Int /\ f \in Int
      BY <2>1, <3>1 DEF Blanks
    <3> QED BY <2>3, <3>1, <3>2
  <2> HIDE DEF f
  <2>5. FirstFrame(t \o b) = FirstFrame(t)
    <3>1. SubSeq(t \o b, 1, f - 1) = SubSeq(t, 1, f - 1)
      BY <1>4, <2>1, SubSeqOfConcat1 DEF Texts
    <3> QED BY <2>4, <3>1 DEF FirstFrame, f
  <2>6. Beyond(t \o b) = u \o b
    <3>1. /\ Beyond(t \o b) \in Texts
          /\ Len(Beyond(t \o b)) = Len(t \o b) - f - 1
          /\ \A i \in 1 .. Len(Beyond(t \o b)) : Beyond(t \o b)[i] = (t \o b)[f + 1 + i]
      BY <1>4, <2>3, <2>4, BeyondIsShorter
    <3> HIDE DEF u
    <3>2. /\ u \o b \in Texts /\ Len(u \o b) = Len(u) + Len(b)
          /\ \A i \in 1 .. Len(u) : (u \o b)[i] = u[i]
          /\ \A i \in 1 .. Len(b) : (u \o b)[Len(u) + i] = b[i]
      <4>1. u \in Seq(Int) /\ b \in Seq(Int)
        BY <2>1 DEF Texts
      <4> QED BY <4>1 DEF Texts
    <3>3. Len(Beyond(t \o b)) = Len(u \o b) /\ Len(u \o b) \in Nat
      BY <2>1, <2>2, <3>1, <3>2
    <3>4. ASSUME NEW i \in 1 .. Len(u \o b) PROVE Beyond(t \o b)[i] = (u \o b)[i]
      <4>1. Beyond(t \o b)[i] = (t \o b)[f + 1 + i]
        BY <3>1, <3>3, <3>4
      <4>2. CASE i <= Len(u)
        <5>1. i \in 1 .. Len(u) /\ f + 1 + i \in 1 .. Len(t)
          BY <2>1, <3>3, <3>4, <4>2
        <5> QED BY <2>1, <2>2, <3>2, <4>1, <5>1
      <4>3. CASE ~ (i <= Len(u))
        <5> DEFINE k == i - Len(u)
        <5>1. k \in 1 .. Len(b) /\ f + 1 + i = Len(t) + k /\ i = Len(u) + k
          BY <2>1, <2>2, <3>2, <3>3, <3>4, <4>3
        <5> HIDE DEF k
        <5> QED BY <2>2, <3>2, <4>1, <5>1
      <4> QED BY <4>2, <4>3
    <3> QED BY <3>1, <3>2, <3>3, <3>4, SeqEqual DEF Texts
  <2>7. Claim(u)
    <3>1. Len(u) < Len(t) /\ Len(u) \in Nat
      BY <2>1 DEF Texts
    <3> HIDE DEF Claim, u
    <3> QED BY <1>3, <2>1, <3>1
  <2>8. Frames[t] = [frames |-> FirstFrame(t) \o Frames[u].frames, rest |-> Frames[u].rest]
    BY <1>4, <1>6, FramesEquation
  <2>9. Frames[t \o b] = [frames |-> FirstFrame(t) \o Frames[u \o b].frames,
                          rest |-> Frames[u \o b].rest]
    <3>1. Blanks(t \o b) # {}
      BY <2>3
    <3> HIDE DEF u, Claim, After
    <3> QED BY <1>4, <2>5, <2>6, <3>1, FramesEquation
  <2>10. After(t) = After(u)
    BY <2>8
  <2>11. /\ FirstFrame(t) \in Seq(Payloads) /\ Frames[u].frames \in Seq(Payloads)
         /\ After(u).frames \in Seq(Payloads)
    BY <1>1, <1>4, <2>1, FramesEquation, FirstFrameType DEF Parsed
  <2> HIDE DEF After, u
  <2>12. FirstFrame(t) \o (Frames[u].frames \o After(u).frames)
           = (FirstFrame(t) \o Frames[u].frames) \o After(u).frames
    <3>1. \A x, y, z \in Seq(Payloads) : (x \o y) \o z = x \o (y \o z)
      BY ConcatAssociative
    <3> QED BY <2>11, <3>1
  <2>13. /\ Frames[u \o b].frames = Frames[u].frames \o After(u).frames
         /\ Frames[u \o b].rest = After(u).rest
    <3> DEFINE v == Frames[u \o b]
               w == Frames[u].frames \o After(u).frames
               r == After(u).rest
    <3>1. v = [frames |-> w, rest |-> r]
      BY <2>7
    <3> HIDE DEF v, w, r
    <3>2. v.frames = w /\ v.rest = r
      BY <3>1
    <3> QED BY <3>2 DEF v, w, r
  <2>14. Frames[t].frames = FirstFrame(t) \o Frames[u].frames
    BY <2>8
  <2>15. Frames[t \o b] = [frames |-> Frames[t].frames \o After(t).frames,
                            rest |-> After(t).rest]
    BY <2>9, <2>10, <2>12, <2>13, <2>14
  <2> QED BY <1>4, <2>15
<1> QED BY <1>5, <1>6

\* The payload of a frame with one line that has the prefix.
LEMMA PayloadOfOne ==
  ASSUME NEW frame \in Texts, NEW i \in 1 .. Len(frame),
         \A j \in 1 .. Len(frame) : IsPayload(frame, j) <=> j = i
  PROVE  Payload(frame) = <<frame[i]>>
<1> DEFINE shown == {j \in DOMAIN frame : IsPayload(frame, j)}
<1>1. shown = {i} /\ i \in Int
  <2>1. DOMAIN frame = 1 .. Len(frame) /\ i \in Int
    BY DEF Texts
  <2> QED BY <2>1
<1>2. Cardinality({i}) = 1
  BY FS_Singleton
<1>3. Nth({i}, 1) = i
  <2>1. {j \in {i} : j < i} = {}
    BY <1>1
  <2>2. Cardinality({j \in {i} : j < i}) = 1 - 1
    BY <2>1, FS_EmptySet
  <2>3. \E k \in {i} : Cardinality({j \in {i} : j < k}) = 1 - 1
    BY <2>2
  <2> QED BY <2>3 DEF Nth
<1> HIDE DEF shown
<1>4. Payload(frame) = [n \in 1 .. Cardinality(shown) |-> frame[Nth(shown, n)]]
  BY DEF Payload, shown
<1>5. Payload(frame) = [n \in 1 .. 1 |-> frame[Nth({i}, n)]]
  BY <1>1, <1>2, <1>4
<1>6. \A n \in 1 .. 1 : frame[Nth({i}, n)] = frame[i]
  BY <1>3
<1>7. [n \in 1 .. 1 |-> frame[Nth({i}, n)]] = [n \in 1 .. 1 |-> frame[i]]
  BY <1>6
<1>8. [n \in 1 .. 1 |-> frame[i]] = <<frame[i]>>
  OBVIOUS
<1> QED BY <1>5, <1>7, <1>8

\* A frame without such a line has no payload.
LEMMA PayloadOfNone ==
  ASSUME NEW frame \in Texts, \A j \in 1 .. Len(frame) : ~ IsPayload(frame, j)
  PROVE  Payload(frame) = << >>
<1> DEFINE shown == {j \in DOMAIN frame : IsPayload(frame, j)}
<1>1. shown = {}
  <2>1. DOMAIN frame = 1 .. Len(frame)
    BY DEF Texts
  <2> QED BY <2>1
<1>2. Cardinality({}) = 0
  BY FS_EmptySet
<1> HIDE DEF shown
<1>3. Payload(frame) = [n \in 1 .. Cardinality(shown) |-> frame[Nth(shown, n)]]
  BY DEF Payload, shown
<1>4. Payload(frame) = [n \in 1 .. 0 |-> frame[Nth({}, n)]]
  BY <1>1, <1>2, <1>3
<1> QED BY <1>4

\* A text that ends with its only blank line is one frame.
LEMMA OneFrame ==
  ASSUME NEW t \in Texts, NEW f \in Nat, Len(t) = f + 1, Blanks(t) = {f}
  PROVE  /\ Frames[t] = [frames |-> FirstFrame(t), rest |-> << >>]
         /\ FirstBlank(t) = f
<1>1. FirstBlank(t) = f
  BY FirstBlankIsFirst
<1>2. Beyond(t) = << >>
  <2>1. Beyond(t) \in Texts /\ Len(Beyond(t)) = 0
    BY <1>1, BeyondIsShorter
  <2> QED BY <2>1, EmptySeq DEF Texts
<1>3. Frames[<< >>] = [frames |-> << >>, rest |-> << >>]
  <2>1. << >> \in Texts /\ Len(<< >>) = 0
    BY DEF Texts
  <2>2. Blanks(<< >>) = {}
    BY <2>1 DEF Blanks
  <2> QED BY <2>1, <2>2, FramesEquation
<1>4. FirstFrame(t) \o << >> = FirstFrame(t)
  BY FirstFrameType, ConcatEmptySeq
<1>5. Frames[t] = [frames |-> FirstFrame(t) \o Frames[<< >>].frames, rest |-> Frames[<< >>].rest]
  BY <1>2, FramesEquation
<1> QED BY <1>1, <1>3, <1>4, <1>5

\* What the server writes is read frame by frame: the padding is held back.
LEMMA FramesOfPadding == Frames[Padding] = [frames |-> << >>, rest |-> Padding]
<1>1. Padding \in Texts /\ Len(Padding) = 1
  BY DEF Padding, Texts, NL
<1>2. Blanks(Padding) = {}
  BY <1>1 DEF Blanks
<1> QED BY <1>1, <1>2, FramesEquation

\* A payload is one frame, also after the padding.
LEMMA FramesOfData ==
  ASSUME NEW n \in Nat \ {0}, NEW r \in {<< >>, Padding}
  PROVE  Frames[r \o DataFrame(n)] = [frames |-> << <<n>> >>, rest |-> << >>]
<1> DEFINE t == r \o DataFrame(n)
           f == Len(t) - 1
<1>1. /\ t \in Texts /\ f \in 3 .. 4 /\ Len(t) = f + 1 /\ f \in Nat
      /\ t[f - 2] = Data /\ t[f - 1] = n
      /\ f = 4 => t[1] = NL
      /\ Blanks(t) = {f}
  <2>1. CASE r = << >>
    <3>1. t = <<Data, n, NL, NL>> /\ t \in Texts /\ Len(t) = 4
      BY <2>1 DEF DataFrame, Data, NL, Texts
    <3>2. t[1] = -1 /\ t[2] = n /\ t[3] = 0 /\ t[4] = 0
      BY <3>1 DEF Data, NL
    <3> HIDE DEF t
    <3>3. \A i \in 1 .. 3 : (t[i] = NL /\ t[i + 1] = NL) <=> i = 3
      <4>1. \A i \in 1 .. 3 : i = 1 \/ i = 2 \/ i = 3
        OBVIOUS
      <4> QED BY <3>2, <4>1 DEF NL
    <3>4. Blanks(t) = {3}
      BY <3>1, <3>3 DEF Blanks
    <3> QED BY <3>1, <3>2, <3>4 DEF Data
  <2>2. CASE r = Padding
    <3>1. /\ t \in Texts /\ Len(t) = 5
          /\ t[1] = 0 /\ t[2] = -1 /\ t[3] = n /\ t[4] = 0 /\ t[5] = 0
      <4> DEFINE d == <<-1, n, 0, 0>>
                 p == <<0>>
      <4>1. /\ d \in Seq(Int) /\ Len(d) = 4
            /\ d[1] = -1 /\ d[2] = n /\ d[3] = 0 /\ d[4] = 0
        OBVIOUS
      <4>2. p \in Seq(Int) /\ Len(p) = 1 /\ p[1] = 0
        OBVIOUS
      <4>3. t = p \o d
        BY <2>2 DEF Padding, DataFrame, NL, Data
      <4> HIDE DEF t, d, p
      <4>4. /\ p \o d \in Seq(Int) /\ Len(p \o d) = Len(p) + Len(d)
            /\ \A i \in 1 .. Len(p) + Len(d) :
                 (p \o d)[i] = IF i <= Len(p) THEN p[i] ELSE d[i - Len(p)]
        BY <4>1, <4>2, ConcatProperties
      <4>5. Len(t) = 5 /\ t[1] = p[1] /\ \A i \in 1 .. 4 : t[i + 1] = d[i]
        <5>1. Len(p) = 1 /\ Len(d) = 4
          BY <4>1, <4>2
        <5>2. Len(t) = 5 /\ t[1] = p[1]
          BY <4>3, <4>4, <5>1
        <5>3. ASSUME NEW i \in 1 .. 4 PROVE t[i + 1] = d[i]
          <6> DEFINE m == i + 1
          <6>1. m \in 1 .. 1 + 4 /\ ~ (m <= 1) /\ m - 1 = i
            OBVIOUS
          <6> HIDE DEF m
          <6>2. (p \o d)[m] = IF m <= 1 THEN p[m] ELSE d[m - 1]
            BY <4>4, <5>1, <6>1
          <6>3. t[m] = d[i]
            BY <4>3, <6>1, <6>2
          <6> QED BY <6>3 DEF m
        <5> QED BY <5>2, <5>3
      <4>6. t[2] = d[1] /\ t[3] = d[2] /\ t[4] = d[3] /\ t[5] = d[4]
        BY <4>5
      <4> QED BY <4>1, <4>2, <4>3, <4>4, <4>5, <4>6 DEF Texts
    <3> HIDE DEF t
    <3>3. \A i \in 1 .. 4 : (t[i] = NL /\ t[i + 1] = NL) <=> i = 4
      <4>1. \A i \in 1 .. 4 : i = 1 \/ i = 2 \/ i = 3 \/ i = 4
        OBVIOUS
      <4> QED BY <3>1, <4>1 DEF NL
    <3>4. Blanks(t) = {4}
      BY <3>1, <3>3 DEF Blanks
    <3> QED BY <3>1, <3>4 DEF Data, NL
  <2> QED BY <2>1, <2>2
<1> HIDE DEF t, f
<1>2. Frames[t] = [frames |-> FirstFrame(t), rest |-> << >>] /\ FirstBlank(t) = f
  BY <1>1, OneFrame
<1> DEFINE frame == SubSeq(t, 1, f - 1)
<1>3. /\ frame \in Texts /\ Len(frame) = f - 1
      /\ \A i \in 1 .. f - 1 : frame[i] = t[i]
  <2>1. \A i \in 1 .. f - 1 : t[i] \in Int
    BY <1>1 DEF Texts
  <2>2. /\ frame \in Seq(Int) /\ Len(frame) = f - 1
        /\ \A i \in 1 .. f - 1 : frame[i] = t[1 + i - 1]
    BY <1>1, <2>1, SubSeqProperties
  <2> QED BY <1>1, <2>2 DEF Texts
<1>4. frame[f - 2] = Data /\ frame[f - 1] = n /\ (f = 4 => frame[1] = NL)
  BY <1>1, <1>3
<1> HIDE DEF frame
<1>5. \A j \in 1 .. Len(frame) : IsPayload(frame, j) <=> j = f - 1
  <2>1. ASSUME NEW j \in 1 .. Len(frame), j # f - 1 PROVE ~ IsPayload(frame, j)
    <3>1. frame[j] \in {Data, NL}
      BY <1>1, <1>3, <1>4, <2>1
    <3> QED BY <3>1 DEF IsPayload, Data, NL
  <2>2. IsPayload(frame, f - 1)
    <3>1. \A k \in f - 2 .. f - 1 : frame[k] # NL
      BY <1>1, <1>4 DEF Data, NL
    <3>2. f - 2 = 1 \/ frame[f - 2 - 1] = NL
      BY <1>1, <1>4
    <3>3. f - 2 \in 1 .. f - 1 /\ frame[f - 1] > 0
      BY <1>1, <1>4
    <3> QED BY <1>4, <3>1, <3>2, <3>3 DEF IsPayload
  <2> QED BY <2>1, <2>2
<1>6. Payload(frame) = <<n>>
  <2>1. f - 1 \in 1 .. Len(frame)
    BY <1>1, <1>3
  <2> QED BY <1>3, <1>4, <1>5, <2>1, PayloadOfOne
<1>7. FirstFrame(t) = << <<n>> >>
  BY <1>2, <1>6 DEF FirstFrame, frame
<1> QED BY <1>2, <1>7 DEF t

\* A heartbeat is none, also after the padding.
LEMMA FramesOfPing ==
  ASSUME NEW r \in {<< >>, Padding}
  PROVE  Frames[r \o Ping] = [frames |-> << >>, rest |-> << >>]
<1> DEFINE t == r \o Ping
           f == Len(t) - 1
<1>1. /\ t \in Texts /\ f \in 2 .. 3 /\ Len(t) = f + 1 /\ f \in Nat
      /\ \A i \in 1 .. f + 1 : t[i] <= 0
      /\ Blanks(t) = {f}
  <2>1. CASE r = << >>
    <3>1. t = <<Colon, NL, NL>> /\ t \in Texts /\ Len(t) = 3
      BY <2>1 DEF Ping, Colon, NL, Texts
    <3>2. t[1] = -2 /\ t[2] = 0 /\ t[3] = 0
      BY <3>1 DEF Colon, NL
    <3> HIDE DEF t
    <3>3. \A i \in 1 .. 2 : (t[i] = NL /\ t[i + 1] = NL) <=> i = 2
      <4>1. \A i \in 1 .. 2 : i = 1 \/ i = 2
        OBVIOUS
      <4> QED BY <3>2, <4>1 DEF NL
    <3>4. Blanks(t) = {2}
      BY <3>1, <3>3 DEF Blanks
    <3> QED BY <3>1, <3>2, <3>4
  <2>2. CASE r = Padding
    <3>1. /\ t \in Texts /\ Len(t) = 4
          /\ t[1] = 0 /\ t[2] = -2 /\ t[3] = 0 /\ t[4] = 0
      <4> DEFINE d == <<-2, 0, 0>>
                 p == <<0>>
      <4>1. d \in Seq(Int) /\ Len(d) = 3 /\ d[1] = -2 /\ d[2] = 0 /\ d[3] = 0
        OBVIOUS
      <4>2. p \in Seq(Int) /\ Len(p) = 1 /\ p[1] = 0
        OBVIOUS
      <4>3. t = p \o d
        BY <2>2 DEF Padding, Ping, NL, Colon
      <4> HIDE DEF t, d, p
      <4>4. /\ p \o d \in Seq(Int) /\ Len(p \o d) = Len(p) + Len(d)
            /\ \A i \in 1 .. Len(p) + Len(d) :
                 (p \o d)[i] = IF i <= Len(p) THEN p[i] ELSE d[i - Len(p)]
        BY <4>1, <4>2, ConcatProperties
      <4>5. Len(t) = 4 /\ t[1] = p[1] /\ \A i \in 1 .. 3 : t[i + 1] = d[i]
        <5>1. Len(p) = 1 /\ Len(d) = 3
          BY <4>1, <4>2
        <5>2. Len(t) = 4 /\ t[1] = p[1]
          BY <4>3, <4>4, <5>1
        <5>3. ASSUME NEW i \in 1 .. 3 PROVE t[i + 1] = d[i]
          <6> DEFINE m == i + 1
          <6>1. m \in 1 .. 1 + 3 /\ ~ (m <= 1) /\ m - 1 = i
            OBVIOUS
          <6> HIDE DEF m
          <6>2. (p \o d)[m] = IF m <= 1 THEN p[m] ELSE d[m - 1]
            BY <4>4, <5>1, <6>1
          <6>3. t[m] = d[i]
            BY <4>3, <6>1, <6>2
          <6> QED BY <6>3 DEF m
        <5> QED BY <5>2, <5>3
      <4>6. t[2] = d[1] /\ t[3] = d[2] /\ t[4] = d[3]
        BY <4>5
      <4> QED BY <4>1, <4>2, <4>3, <4>4, <4>5, <4>6 DEF Texts
    <3> HIDE DEF t
    <3>3. \A i \in 1 .. 3 : (t[i] = NL /\ t[i + 1] = NL) <=> i = 3
      <4>1. \A i \in 1 .. 3 : i = 1 \/ i = 2 \/ i = 3
        OBVIOUS
      <4> QED BY <3>1, <4>1 DEF NL
    <3>4. Blanks(t) = {3}
      BY <3>1, <3>3 DEF Blanks
    <3> QED BY <3>1, <3>4
  <2> QED BY <2>1, <2>2
<1> HIDE DEF t, f
<1>2. Frames[t] = [frames |-> FirstFrame(t), rest |-> << >>] /\ FirstBlank(t) = f
  BY <1>1, OneFrame
<1> DEFINE frame == SubSeq(t, 1, f - 1)
<1>3. /\ frame \in Texts /\ Len(frame) = f - 1
      /\ \A i \in 1 .. f - 1 : frame[i] <= 0
  <2>1. \A i \in 1 .. f - 1 : t[i] \in Int /\ t[i] <= 0
    BY <1>1 DEF Texts
  <2>2. /\ frame \in Seq(Int) /\ Len(frame) = f - 1
        /\ \A i \in 1 .. f - 1 : frame[i] = t[1 + i - 1]
    BY <1>1, <2>1, SubSeqProperties
  <2> QED BY <1>1, <2>1, <2>2 DEF Texts
<1> HIDE DEF frame
<1>4. \A j \in 1 .. Len(frame) : ~ IsPayload(frame, j)
  BY <1>1, <1>3 DEF IsPayload, Texts
<1>5. Payload(frame) = << >>
  BY <1>3, <1>4, PayloadOfNone
<1>6. FirstFrame(t) = << >>
  BY <1>2, <1>5 DEF FirstFrame, frame
<1> QED BY <1>2, <1>6 DEF t

-----------------------------------------------------------------------------
(* What the tab makes of the frames of a chunk.                            *)

Shown == [list : Seq(Nat), cursor : Nat, fine : BOOLEAN]

\* A frame is taken in with its events.
LEMMA TakeInType ==
  ASSUME NEW shown \in Shown, NEW frame \in EventFrames
  PROVE  TakeIn(shown, frame) \in Shown
<1>1. /\ shown = [list |-> shown.list, cursor |-> shown.cursor, fine |-> shown.fine]
      /\ shown.list \in Seq(Nat) /\ shown.cursor \in Nat /\ shown.fine \in BOOLEAN
      /\ frame.types \in Seq(Nat) /\ frame.nextCursor \in Nat
  BY DEF Shown, EventFrames
<1>2. shown.list \o frame.types \in Seq(Nat)
  BY <1>1, ConcatProperties
<1>3. Ingest(shown, frame) \in Shown
  BY <1>1, <1>2 DEF Ingest, Shown
<1>4. [shown EXCEPT !.fine = FALSE] \in Shown
  BY <1>1 DEF Shown
<1> QED BY <1>3, <1>4 DEF TakeIn

\* The frames are taken in one after the other.
LEMMA IngestedEquation ==
  ASSUME NEW frames \in Seq(EventFrames), list \in Seq(Nat), cursor \in Nat
  PROVE  \E upTo :
           /\ upTo[0] = [list |-> list, cursor |-> cursor, fine |-> TRUE]
           /\ \A n \in 1 .. Len(frames) : upTo[n] = TakeIn(upTo[n - 1], frames[n])
           /\ Ingested(frames) = upTo[Len(frames)]
<1> DEFINE N == 0 .. Len(frames)
           first == [list |-> list, cursor |-> cursor, fine |-> TRUE]
           stop == {0}
           base == [n \in N |-> first]
           next == [n \in N |-> IF n = 0 THEN 0 ELSE n - 1]
           size == [n \in N |-> n]
           Add(n, p) == IF n = 0 THEN p ELSE TakeIn(p, frames[n])
           join == [n \in N |-> [p \in Shown |-> Add(n, p)]]
           Value(f, n) == IF n = 0 THEN first ELSE TakeIn(f[n - 1], frames[n])
           Solution(f) == f = [n \in N |-> Value(f, n)]
<1>0. Len(frames) \in Nat
  OBVIOUS
<1>1. first \in Shown
  BY DEF Shown
<1>2. base \in [N -> Shown] /\ next \in [N -> N] /\ size \in [N -> Nat] /\ stop \in SUBSET N
  <2> HIDE DEF first
  <2> QED BY <1>0, <1>1
<1>3. \A n \in N, p \in Shown : Add(n, p) \in Shown
  <2>1. ASSUME NEW n \in N, NEW p \in Shown PROVE Add(n, p) \in Shown
    <3>1. CASE n = 0
      BY <2>1, <3>1
    <3>2. CASE n # 0
      <4>1. frames[n] \in EventFrames
        BY <1>0, <2>1, <3>2
      <4> QED BY <2>1, <3>2, <4>1, TakeInType
    <3> QED BY <3>1, <3>2
  <2> QED BY <2>1
<1>4. join \in [N -> [Shown -> Shown]]
  <2> HIDE DEF Add
  <2> QED BY <1>3
<1>5. \A n \in N \ stop : size[next[n]] < size[n]
  BY <1>0
<1>6. \E f : Solves(f, N, Shown, stop, base, next, join)
  <2>1. Recursion(N, Shown, stop, base, next, size, join)
    <3> HIDE DEF N, stop, base, next, size, join
    <3> QED BY <1>2, <1>4, <1>5 DEF Recursion
  <2> HIDE DEF N, stop, base, next, size, join
  <2> QED BY <2>1, RecursionHasSolution
<1>7. \E f : Solution(f)
  <2>1. PICK f \in [N -> Shown] :
        \A n \in N : f[n] = IF n \in stop THEN base[n] ELSE join[n][f[next[n]]]
    <3> HIDE DEF N, stop, base, next, join
    <3> QED BY <1>6 DEF Solves
  <2>2. ASSUME NEW n \in N PROVE f[n] = Value(f, n)
    <3>1. CASE n = 0
      BY <2>1, <2>2, <3>1
    <3>2. CASE n # 0
      <4>1. n - 1 \in N /\ next[n] = n - 1 /\ n \notin stop
        BY <1>0, <2>2, <3>2
      <4>2. f[n - 1] \in Shown
        BY <2>1, <4>1
      <4>3. f[n] = join[n][f[n - 1]]
        <5> HIDE DEF join, base, stop, next
        <5> QED BY <2>1, <2>2, <4>1
      <4>4. f[n] = Add(n, f[n - 1])
        <5> HIDE DEF Add
        <5> QED BY <2>2, <4>2, <4>3
      <4> QED BY <3>2, <4>4
    <3> QED BY <3>1, <3>2
  <2> HIDE DEF Value
  <2> QED BY <2>1, <2>2
<1> DEFINE upTo == CHOOSE f : Solution(f)
<1>8. Solution(upTo)
  <2> HIDE DEF Solution
  <2> QED BY <1>7
<1>9. Ingested(frames) = upTo[Len(frames)]
  BY DEF Ingested
<1> HIDE DEF upTo
<1>10. \A n \in N : upTo[n] = Value(upTo, n)
  <2> HIDE DEF Value
  <2> QED BY <1>8
<1>11. upTo[0] = first
  <2>1. 0 \in N
    BY <1>0
  <2> HIDE DEF first, N
  <2> QED BY <1>10, <2>1
<1>12. ASSUME NEW n \in 1 .. Len(frames) PROVE upTo[n] = TakeIn(upTo[n - 1], frames[n])
  <2>1. n \in N /\ n # 0
    BY <1>0
  <2> HIDE DEF N
  <2> QED BY <1>10, <2>1
<1> HIDE DEF Solution
<1> QED BY <1>9, <1>11, <1>12

\* What is shown after n frames of the connection: events of the log, as far as the
\* frames reach unless one was refused.
Good(shown, n) ==
  /\ shown \in Shown
  /\ Len(shown.list) = shown.cursor
  /\ shown.cursor <= Len(log)
  /\ \A s \in 1 .. shown.cursor : shown.list[s] \in {log[s], 0}
  /\ shown.fine => shown.cursor = Reached(conn.read + n)

\* The next frame of the connection extends what is shown by its own events.
LEMMA FrameIsTakenIn ==
  ASSUME WireTypeOK, WireInv, conn.open,
         NEW n \in 1 .. Len(conn.written) - conn.read,
         NEW shown, Good(shown, n - 1)
  PROVE  Good(TakeIn(shown, conn.written[conn.read + n]), n)
<1> DEFINE frame == conn.written[conn.read + n]
           types == frame.types
           r == conn.read + n
<1>1. conn \in Connections /\ log \in Seq(Nat)
  BY DEF WireTypeOK, Closed
<1>2. /\ conn.written \in Seq(EventFrames) /\ conn.read \in Nat
      /\ r \in conn.read + 1 .. Len(conn.written)
      /\ r \in 1 .. Len(conn.written) /\ r # conn.read /\ r \in Nat
  BY <1>1 DEF Connections
<1>3. frame \in EventFrames /\ types \in Seq(Nat) /\ frame.nextCursor \in Nat
  <2>1. frame \in EventFrames
    BY <1>2
  <2> QED BY <2>1 DEF EventFrames
<1>4. Reached(r) = frame.nextCursor
  BY <1>2 DEF Reached
<1>5. /\ Reached(r) = Reached(r - 1) + Len(types)
      /\ Reached(r) <= Len(log)
      /\ \A i \in 1 .. Len(types) : types[i] \in {log[Reached(r - 1) + i], 0}
  <2> HIDE DEF r
  <2>1. FramesLineUp /\ frame = conn.written[r]
    BY DEF WireInv, r
  <2> QED BY <1>2, <2>1 DEF FramesLineUp
<1>6. /\ shown \in Shown /\ shown.list \in Seq(Nat) /\ shown.cursor \in Nat
      /\ Len(shown.list) = shown.cursor /\ shown.cursor <= Len(log)
      /\ \A s \in 1 .. shown.cursor : shown.list[s] \in {log[s], 0}
  BY DEF Good, Shown
<1>7. shown.fine => shown.cursor = Reached(r - 1)
  <2>1. conn.read + (n - 1) = r - 1
    BY <1>2
  <2> QED BY <2>1 DEF Good
<1>8. TakeIn(shown, frame) \in Shown
  <2> HIDE DEF frame
  <2> QED BY <1>3, <1>6, TakeInType
<1>9. CASE ~ shown.fine
  <2>1. TakeIn(shown, frame) = shown
    BY <1>9 DEF TakeIn
  <2>2. Good(shown, n)
    BY <1>6, <1>9 DEF Good
  <2> QED BY <2>1, <2>2
<1>10. CASE shown.fine /\ Refused(frame)
  <2> DEFINE next == [shown EXCEPT !.fine = FALSE]
  <2>1. TakeIn(shown, frame) = next
    BY <1>10 DEF TakeIn
  <2>2. next.list = shown.list /\ next.cursor = shown.cursor /\ next.fine = FALSE
    BY <1>6 DEF Shown
  <2> HIDE DEF next
  <2>3. Good(next, n)
    <3> HIDE DEF frame
    <3> QED BY <1>6, <1>8, <2>1, <2>2 DEF Good
  <2> QED BY <2>1, <2>3
<1>11. CASE shown.fine /\ ~ Refused(frame)
  <2> DEFINE next == Ingest(shown, frame)
  <2>1. TakeIn(shown, frame) = next
    BY <1>11 DEF TakeIn
  <2>2. /\ next.list = shown.list \o types
        /\ next.cursor = IF frame.nextCursor > shown.cursor THEN frame.nextCursor ELSE shown.cursor
    BY <1>6 DEF Ingest, Shown
  <2> HIDE DEF frame, next, types, r
  <2>3. shown.cursor = Reached(r - 1)
    BY <1>7, <1>11
  <2>4. next.cursor = shown.cursor + Len(types) /\ next.cursor = Reached(r)
    <3>1. /\ Reached(r) = frame.nextCursor /\ frame.nextCursor \in Nat
          /\ Reached(r) = shown.cursor + Len(types) /\ Len(types) \in Nat
          /\ shown.cursor \in Nat
      BY <1>3, <1>4, <1>5, <1>6, <2>3
    <3> QED BY <2>2, <3>1
  <2>5. /\ Len(next.list) = shown.cursor + Len(types)
        /\ \A s \in 1 .. shown.cursor + Len(types) :
             next.list[s] = IF s <= shown.cursor THEN shown.list[s] ELSE types[s - shown.cursor]
    <3> DEFINE a == shown.list
    <3>1. a \in Seq(Nat) /\ types \in Seq(Nat) /\ Len(a) = shown.cursor /\ next.list = a \o types
      BY <1>3, <1>6, <2>2
    <3> HIDE DEF a
    <3>2. /\ Len(a \o types) = Len(a) + Len(types)
          /\ \A s \in 1 .. Len(a) + Len(types) :
               (a \o types)[s] = IF s <= Len(a) THEN a[s] ELSE types[s - Len(a)]
      <4>1. \A x, y \in Seq(Nat) :
              /\ Len(x \o y) = Len(x) + Len(y)
              /\ \A s \in 1 .. Len(x) + Len(y) :
                   (x \o y)[s] = IF s <= Len(x) THEN x[s] ELSE y[s - Len(x)]
        BY ConcatProperties
      <4> QED BY <3>1, <4>1
    <3>3. /\ Len(next.list) = shown.cursor + Len(types)
          /\ \A s \in 1 .. shown.cursor + Len(types) :
               next.list[s] = IF s <= shown.cursor THEN a[s] ELSE types[s - shown.cursor]
      BY <3>1, <3>2
    <3> QED BY <3>3 DEF a
  <2>6. ASSUME NEW s \in 1 .. next.cursor PROVE next.list[s] \in {log[s], 0}
    <3>0. /\ Len(types) \in Nat /\ shown.cursor \in Nat
          /\ s \in 1 .. shown.cursor + Len(types)
      BY <1>3, <1>6, <2>4, <2>6
    <3>1. CASE s <= shown.cursor
      <4>1. s \in 1 .. shown.cursor
        BY <3>0, <3>1
      <4>2. next.list[s] = shown.list[s]
        BY <2>5, <3>0, <3>1
      <4> QED BY <1>6, <4>1, <4>2
    <3>2. CASE ~ (s <= shown.cursor)
      <4> DEFINE i == s - shown.cursor
      <4>1. i \in 1 .. Len(types) /\ shown.cursor + i = s
        BY <3>0, <3>2
      <4>2. next.list[s] = types[i]
        BY <2>5, <3>0, <3>2
      <4> HIDE DEF i
      <4> QED BY <1>5, <2>3, <4>1, <4>2
    <3> QED BY <3>1, <3>2
  <2>7. next.cursor <= Len(log)
    BY <1>5, <2>4
  <2>8. Good(next, n)
    BY <1>8, <2>1, <2>4, <2>5, <2>6, <2>7 DEF Good, r
  <2> QED BY <2>1, <2>8 DEF frame
<1> QED BY <1>9, <1>10, <1>11

\* So do the next k frames.
LEMMA FramesAreTakenIn ==
  ASSUME WireTypeOK, WireInv, conn.open,
         NEW k \in 0 .. Len(conn.written) - conn.read
  PROVE  Good(Ingested([i \in 1 .. k |-> conn.written[conn.read + i]]), k)
<1> DEFINE frames == [i \in 1 .. k |-> conn.written[conn.read + i]]
<1>1. conn \in Connections
  BY DEF WireTypeOK, Closed
<1>2. /\ conn.written \in Seq(EventFrames) /\ conn.read \in Nat /\ k \in Nat
      /\ Len(conn.written) \in Nat
  BY <1>1 DEF Connections
<1>3. frames \in Seq(EventFrames) /\ Len(frames) = k
  <2>1. \A i \in 1 .. k : conn.written[conn.read + i] \in EventFrames
    BY <1>2
  <2> QED BY <1>2, <2>1
<1>4. \A n \in 1 .. k : frames[n] = conn.written[conn.read + n]
  OBVIOUS
<1> HIDE DEF frames
<1>5. PICK upTo :
      /\ upTo[0] = [list |-> list, cursor |-> cursor, fine |-> TRUE]
      /\ \A n \in 1 .. Len(frames) : upTo[n] = TakeIn(upTo[n - 1], frames[n])
      /\ Ingested(frames) = upTo[Len(frames)]
  BY <1>3, IngestedEquation DEF WireTypeOK
<1>6. Good(upTo[0], 0)
  <2> DEFINE first == [list |-> list, cursor |-> cursor, fine |-> TRUE]
  <2>1. first \in Shown /\ first.list = list /\ first.cursor = cursor
    BY DEF Shown, WireTypeOK
  <2>2. Reached(conn.read + 0) = cursor
    BY <1>2 DEF Reached
  <2>3. Len(list) = cursor /\ cursor <= Len(log) /\ \A s \in 1 .. cursor : list[s] \in {log[s], 0}
    BY DEF WireInv, CursorIsRead
  <2> HIDE DEF first
  <2>4. Good(first, 0)
    BY <2>1, <2>2, <2>3 DEF Good
  <2> QED BY <1>5, <2>4 DEF first
<1>7. ASSUME NEW n \in 1 .. k, Good(upTo[n - 1], n - 1) PROVE Good(upTo[n], n)
  <2>1. n \in 1 .. Len(conn.written) - conn.read
    BY <1>2, <1>7
  <2>2. Good(TakeIn(upTo[n - 1], conn.written[conn.read + n]), n)
    BY <1>7, <2>1, FrameIsTakenIn
  <2>3. upTo[n] = TakeIn(upTo[n - 1], conn.written[conn.read + n])
    BY <1>3, <1>4, <1>5, <1>7
  <2> QED BY <2>2, <2>3
<1>8. Good(upTo[k], k)
  <2> DEFINE bad == {n \in 0 .. k : ~ Good(upTo[n], n)}
  <2>1. SUFFICES ASSUME bad # {} PROVE FALSE
    BY <1>2
  <2>2. bad \in SUBSET Nat
    BY <1>2
  <2>3. PICK n \in bad : \A m \in bad : n <= m
    <3> HIDE DEF bad
    <3> QED BY <2>1, <2>2, LeastNumber
  <2>4. n \in 0 .. k /\ ~ Good(upTo[n], n)
    OBVIOUS
  <2>5. n # 0
    BY <1>6, <2>4
  <2>6. n - 1 \in 0 .. k /\ n \in 1 .. k
    BY <1>2, <2>4, <2>5
  <2>7. n - 1 \notin bad
    <3> HIDE DEF bad
    <3> QED BY <2>3, <2>4, <2>6
  <2> QED BY <1>7, <2>4, <2>6, <2>7
<1> QED BY <1>3, <1>5, <1>8 DEF frames

-----------------------------------------------------------------------------
(* The stream of events arrives whole.                                     *)

\* The parts of an open connection.
LEMMA OpenConnection ==
  ASSUME WireTypeOK, conn.open
  PROVE  /\ conn \in Connections
         /\ conn.position \in Nat /\ conn.read \in Nat
         /\ conn.wire \in Texts /\ conn.rest \in Texts
         /\ conn.written \in Seq(EventFrames) /\ Len(conn.written) \in Nat
         /\ conn.rest \o conn.wire \in Texts
<1>1. conn \in Connections
  BY DEF WireTypeOK, Closed
<1>2. /\ conn.position \in Nat /\ conn.read \in Nat
      /\ conn.wire \in Texts /\ conn.rest \in Texts
      /\ conn.written \in Seq(EventFrames)
  BY <1>1 DEF Connections, Texts
<1>3. \A x, y \in Texts : x \o y \in Texts
  BY DEF Texts
<1> QED BY <1>1, <1>2, <1>3

\* A frame ends at a position.
LEMMA ReachedType ==
  ASSUME WireTypeOK, conn.open, NEW n \in conn.read .. Len(conn.written)
  PROVE  Reached(n) \in Nat
<1>1. /\ conn.written \in Seq(EventFrames) /\ conn.read \in Nat
      /\ Len(conn.written) \in Nat /\ cursor \in Nat
  BY OpenConnection DEF WireTypeOK
<1>2. CASE n = conn.read
  BY <1>1, <1>2 DEF Reached
<1>3. CASE n # conn.read
  <2>1. conn.written[n] \in EventFrames
    BY <1>1, <1>3
  <2>2. conn.written[n].nextCursor \in Nat
    BY <2>1 DEF EventFrames
  <2> QED BY <1>3, <2>2 DEF Reached
<1> QED BY <1>2, <1>3

\* A closed connection carries nothing.
LEMMA ClosedStep ==
  ASSUME WireTypeOK, WireInv, UNCHANGED <<log, cursor, list>>, conn' = Closed,
         server' \in Versions, tab' \in Versions, breaks' \in 0 .. MaxBreaks
  PROVE  WireTypeOK' /\ WireInv'
<1>1. WireTypeOK'
  BY DEF WireTypeOK
<1>2. ~ conn'.open
  BY DEF Closed
<1> QED BY <1>1, <1>2 DEF WireInv, CursorIsRead

\* A connection opens at the cursor, with the padding on its way.
LEMMA ConnectStep ==
  ASSUME WireTypeOK, WireInv, Connect
  PROVE  WireTypeOK' /\ WireInv'
<1>1. /\ conn' = [open |-> TRUE, position |-> cursor, wire |-> Padding, rest |-> << >>,
                  written |-> << >>, read |-> 0]
      /\ UNCHANGED <<server, tab, log, cursor, list, breaks>>
  BY DEF Connect
<1>2. Padding \in Texts /\ << >> \in Texts /\ << >> \in Seq(EventFrames) /\ Len(<< >>) = 0
  BY DEF Padding, Texts, NL
<1>3. conn' \in Connections
  BY <1>1, <1>2 DEF Connections, WireTypeOK, Texts
<1>4. WireTypeOK'
  BY <1>1, <1>3 DEF WireTypeOK
<1>5. /\ conn'.read = 0 /\ conn'.written = << >> /\ conn'.position = cursor
      /\ conn'.wire = Padding /\ conn'.rest = << >>
  BY <1>1
<1>6. FramesLineUp'
  <2>1. Len(conn'.written) = 0
    BY <1>2, <1>5
  <2>2. Reached(0)' = cursor'
    BY <1>5 DEF Reached
  <2> QED BY <1>1, <1>5, <2>1, <2>2 DEF FramesLineUp
<1>7. WireIsClean'
  <2>1. << >> \o Padding = Padding
    BY <1>2, ConcatEmptySeq DEF Texts
  <2>2. ParseSSEChunk(conn'.wire, conn'.rest) = [frames |-> << >>, rest |-> Padding]
    BY <1>5, <2>1, FramesOfPadding DEF ParseSSEChunk
  <2>3. [i \in 1 .. Len(conn'.written) - conn'.read |-> <<conn'.read + i>>] = << >>
    BY <1>2, <1>5
  <2> QED BY <2>2, <2>3 DEF WireIsClean
<1> QED BY <1>1, <1>4, <1>6, <1>7 DEF WireInv, CursorIsRead

\* An event is one more at the end of the log.
LEMMA HappenStep ==
  ASSUME WireTypeOK, WireInv, NEW type \in Nat, Happen(type)
  PROVE  WireTypeOK' /\ WireInv'
<1>1. log' = Append(log, type) /\ UNCHANGED <<server, tab, cursor, list, conn, breaks>>
  BY DEF Happen
<1>2. /\ log' \in Seq(Nat) /\ Len(log') = Len(log) + 1 /\ Len(log) \in Nat
      /\ \A s \in 1 .. Len(log) : log'[s] = log[s]
  BY <1>1 DEF WireTypeOK
<1>3. WireTypeOK'
  BY <1>1, <1>2 DEF WireTypeOK
<1>4. CursorIsRead' /\ cursor' <= Len(log')
  BY <1>1, <1>2 DEF WireInv, CursorIsRead, WireTypeOK
<1>5. CASE conn.open
  <2>1. FramesLineUp /\ WireIsClean
    BY <1>5 DEF WireInv
  <2>2. \A n : Reached(n)' = Reached(n)
    BY <1>1 DEF Reached
  <2>3. ASSUME NEW n \in conn.read + 1 .. Len(conn.written),
               NEW i \in 1 .. Len(conn.written[n].types)
        PROVE  log'[Reached(n - 1) + i] = log[Reached(n - 1) + i]
    <3> DEFINE r == Reached(n - 1)
               s == r + i
               l == Len(conn.written[n].types)
    <3>1. conn.written[n].types \in Seq(Nat) /\ l \in Nat
      <4>1. conn.written[n] \in EventFrames
        BY <1>5, <2>3, OpenConnection
      <4> QED BY <4>1 DEF EventFrames
    <3>2. r \in Nat
      <4>1. n - 1 \in conn.read .. Len(conn.written)
        BY <1>5, <2>3, OpenConnection
      <4> QED BY <1>5, <4>1, ReachedType
    <3>3. r + l <= Len(log)
      BY <2>1, <2>3 DEF FramesLineUp
    <3>4. s \in 1 .. Len(log)
      <4>1. i \in 1 .. l
        BY <2>3
      <4> HIDE DEF r, l
      <4> QED BY <1>2, <3>1, <3>2, <3>3, <4>1
    <3> HIDE DEF s
    <3>5. log'[s] = log[s]
      BY <1>2, <3>4
    <3> QED BY <3>5 DEF s
  <2>4. FramesLineUp'
    <3>1. ASSUME NEW n \in conn.read + 1 .. Len(conn.written)
          PROVE  /\ Reached(n) = Reached(n - 1) + Len(conn.written[n].types)
                 /\ Reached(n) <= Len(log) + 1
                 /\ \A i \in 1 .. Len(conn.written[n].types) :
                      conn.written[n].types[i] \in {log'[Reached(n - 1) + i], 0}
      <4>1. /\ Reached(n) = Reached(n - 1) + Len(conn.written[n].types)
            /\ Reached(n) <= Len(log)
            /\ \A i \in 1 .. Len(conn.written[n].types) :
                 conn.written[n].types[i] \in {log[Reached(n - 1) + i], 0}
        BY <2>1, <3>1 DEF FramesLineUp
      <4>2. Reached(n) \in Nat
        <5>1. n \in conn.read .. Len(conn.written)
          BY <1>5, <3>1, OpenConnection
        <5> QED BY <1>5, <5>1, ReachedType
      <4>3. Reached(n) <= Len(log) + 1
        BY <1>2, <4>1, <4>2
      <4> QED BY <2>3, <3>1, <4>1, <4>3
    <3>2. conn.read <= Len(conn.written) /\ Reached(Len(conn.written)) = conn.position
      BY <2>1 DEF FramesLineUp
    <3> QED BY <1>1, <1>2, <2>2, <3>1, <3>2 DEF FramesLineUp
  <2>5. WireIsClean'
    BY <1>1, <2>1 DEF WireIsClean
  <2> QED BY <1>3, <1>4, <2>4, <2>5 DEF WireInv
<1>6. CASE ~ conn.open
  BY <1>1, <1>3, <1>4, <1>6 DEF WireInv
<1> QED BY <1>5, <1>6

\* Texts may be joined in any order.
LEMMA TextsJoin == \A x, y, z \in Texts : (x \o y) \o z = x \o (y \o z)
<1>1. \A x, y, z \in Seq(Int) : (x \o y) \o z = x \o (y \o z)
  BY ConcatAssociative
<1> QED BY <1>1 DEF Texts

\* The payloads of n frames, from the one after frame r.
Row(r, n) == [i \in 1 .. n |-> <<r + i>>]

\* A sequence is known by its length and its elements.
LEMMA NumberedSeq ==
  ASSUME NEW x \in Seq(Payloads), NEW r, \A i \in 1 .. Len(x) : x[i] = <<r + i>>
  PROVE  x = Row(r, Len(x))
<1> DEFINE n == Len(x)
           y == [i \in 1 .. n |-> <<r + i>>]
<1>1. n \in Nat /\ \A i \in 1 .. n : y[i] = x[i] /\ x[i] \in Payloads
  OBVIOUS
<1>2. y \in Seq(Payloads) /\ Len(y) = n
  <2>1. \A i \in 1 .. n : <<r + i>> \in Payloads
    BY <1>1
  <2> HIDE DEF n
  <2> QED BY <1>1, <2>1
<1> HIDE DEF y
<1>3. x = y
  BY <1>1, <1>2, SeqEqual
<1> QED BY <1>3 DEF y, Row

\* What a text that was read to its end, but for the padding, becomes when the server
\* goes on.
LEMMA TextGoesOn ==
  ASSUME WireTypeOK, WireInv, conn.open, NEW more \in Texts, NEW shows,
         \A r \in {<< >>, Padding} : Frames[r \o more] = [frames |-> shows, rest |-> << >>]
  PROVE  /\ ParseSSEChunk(conn.wire \o more, conn.rest).frames
              = [i \in 1 .. Len(conn.written) - conn.read |-> <<conn.read + i>>] \o shows
         /\ ParseSSEChunk(conn.wire \o more, conn.rest).rest = << >>
         /\ ParseSSEChunk(conn.wire, conn.rest).frames \in Seq(Payloads)
         /\ shows \in Seq(Payloads)
<1> DEFINE text == conn.rest \o conn.wire
<1>1. text \in Texts /\ conn.rest \in Texts /\ conn.wire \in Texts
  BY OpenConnection
<1>2. /\ Frames[text].frames = [i \in 1 .. Len(conn.written) - conn.read |-> <<conn.read + i>>]
      /\ Frames[text].rest \in {<< >>, Padding}
  BY DEF WireInv, WireIsClean, ParseSSEChunk
<1>3. ParseSSEChunk(conn.wire, conn.rest) = Frames[text]
  BY DEF ParseSSEChunk
<1>4. ParseSSEChunk(conn.wire \o more, conn.rest) = Frames[text \o more]
  <2>2. conn.rest \o (conn.wire \o more) = text \o more
    BY <1>1, TextsJoin
  <2> QED BY <2>2 DEF ParseSSEChunk
<1> HIDE DEF text
<1>5. /\ Frames[Frames[text].rest \o more] \in Parsed
      /\ Frames[text \o more] =
           [frames |-> Frames[text].frames \o Frames[Frames[text].rest \o more].frames,
            rest |-> Frames[Frames[text].rest \o more].rest]
  BY <1>1, FramesOfConcat
<1>6. Frames[Frames[text].rest \o more] = [frames |-> shows, rest |-> << >>]
  BY <1>2
<1>7. shows \in Seq(Payloads) /\ Frames[text].frames \in Seq(Payloads)
  <2>1. Frames[text].frames \in Seq(Payloads)
    BY <1>1, FramesEquation DEF Parsed
  <2>2. [frames |-> shows, rest |-> << >>] \in Parsed
    BY <1>5, <1>6
  <2>3. shows \in Seq(Payloads)
    BY <2>2 DEF Parsed
  <2> QED BY <2>1, <2>3
<1>8. /\ Frames[text \o more].frames = Frames[text].frames \o shows
      /\ Frames[text \o more].rest = << >>
  BY <1>5, <1>6
<1> QED BY <1>2, <1>3, <1>4, <1>7, <1>8

\* A heartbeat shows nothing.
LEMMA WritePingStep ==
  ASSUME WireTypeOK, WireInv, WritePing
  PROVE  WireTypeOK' /\ WireInv'
<1>1. /\ conn.open
      /\ conn' = [conn EXCEPT !.wire = @ \o Ping]
      /\ UNCHANGED <<server, tab, log, cursor, list, breaks>>
  BY DEF WritePing
<1>2. Ping \in Texts /\ conn.wire \in Texts /\ conn.wire \o Ping \in Texts
  BY <1>1, OpenConnection DEF Ping, Texts, Colon, NL
<1>3. conn' \in Connections
  BY <1>1, <1>2, OpenConnection DEF Connections, Texts
<1>4. WireTypeOK'
  BY <1>1, <1>3 DEF WireTypeOK
<1>5. /\ conn'.read = conn.read /\ conn'.written = conn.written
      /\ conn'.position = conn.position /\ conn'.rest = conn.rest
      /\ conn'.wire = conn.wire \o Ping
  BY <1>1, OpenConnection DEF Connections
<1>6. FramesLineUp'
  <2>1. FramesLineUp
    BY <1>1 DEF WireInv
  <2>2. \A n : Reached(n)' = Reached(n)
    BY <1>1, <1>5 DEF Reached
  <2> QED BY <1>1, <1>5, <2>1, <2>2 DEF FramesLineUp
<1>7. WireIsClean'
  <2> DEFINE expected == [i \in 1 .. Len(conn.written) - conn.read |-> <<conn.read + i>>]
  <2>1. \A r \in {<< >>, Padding} : Frames[r \o Ping] = [frames |-> << >>, rest |-> << >>]
    BY FramesOfPing
  <2>2. /\ ParseSSEChunk(conn.wire \o Ping, conn.rest).frames = expected \o << >>
        /\ ParseSSEChunk(conn.wire \o Ping, conn.rest).rest = << >>
        /\ ParseSSEChunk(conn.wire, conn.rest).frames \in Seq(Payloads)
    BY <1>1, <1>2, <2>1, TextGoesOn
  <2>3. expected \in Seq(Payloads)
    BY <1>1, <2>2 DEF WireInv, WireIsClean
  <2>4. expected \o << >> = expected
    BY <2>3, ConcatEmptySeq
  <2> QED BY <1>5, <2>2, <2>4 DEF WireIsClean
<1> QED BY <1>1, <1>4, <1>6, <1>7 DEF WireInv, CursorIsRead

\* A frame is one more at the end, with the events after the last.
LEMMA WriteFrameStep ==
  ASSUME WireTypeOK, WireInv, WriteFrame
  PROVE  WireTypeOK' /\ WireInv'
<1> DEFINE frame == FrameAfter(conn.position)
<1>0. PICK N : N = Len(conn.written)
  OBVIOUS
<1>1. /\ conn.open /\ conn.position < Len(log)
      /\ conn' = [conn EXCEPT !.position = Len(log), !.written = Append(@, frame),
                              !.wire = @ \o DataFrame(N + 1)]
      /\ UNCHANGED <<server, tab, log, cursor, list, breaks>>
  BY <1>0 DEF WriteFrame
<1>2. /\ conn \in Connections /\ conn.position \in Nat /\ conn.read \in Nat
      /\ conn.wire \in Texts /\ conn.rest \in Texts
      /\ conn.written \in Seq(EventFrames) /\ N \in Nat
  BY <1>0, <1>1, OpenConnection
<1>3. /\ log \in Seq(Nat) /\ Len(log) \in Nat /\ cursor \in Nat
  BY DEF WireTypeOK
<1>4. /\ frame \in EventFrames /\ frame.nextCursor = Len(log)
      /\ Len(frame.types) = Len(log) - conn.position
      /\ \A i \in 1 .. Len(frame.types) : frame.types[i] \in {log[conn.position + i], 0}
  <2> DEFINE M == Len(log) - conn.position
             types == [i \in 1 .. M |-> eventTypeToProto(log[conn.position + i])]
  <2>1. M \in Nat
    BY <1>1, <1>2, <1>3
  <2>2. frame = [types |-> types, nextCursor |-> Len(log)]
    BY DEF FrameAfter
  <2>3. \A i \in 1 .. M : eventTypeToProto(log[conn.position + i]) \in {log[conn.position + i], 0}
    BY DEF eventTypeToProto
  <2>4. \A i \in 1 .. M : log[conn.position + i] \in Nat
    <3>1. ASSUME NEW i \in 1 .. M PROVE conn.position + i \in 1 .. Len(log)
      BY <1>2, <1>3, <2>1, <3>1
    <3> QED BY <1>3, <3>1
  <2>5. \A i \in 1 .. M : eventTypeToProto(log[conn.position + i]) \in Nat
    BY <2>3, <2>4
  <2> HIDE DEF M
  <2>6. types \in Seq(Nat) /\ Len(types) = M
    BY <2>1, <2>5
  <2>7. \A i \in 1 .. M : types[i] \in {log[conn.position + i], 0}
    BY <2>3
  <2> HIDE DEF types
  <2>8. frame.types = types /\ frame.nextCursor = Len(log) /\ frame \in EventFrames
    BY <1>3, <2>2, <2>6 DEF EventFrames
  <2> QED BY <2>6, <2>7, <2>8 DEF M
<1> HIDE DEF frame
<1>5. /\ DataFrame(N + 1) \in Texts /\ conn.wire \o DataFrame(N + 1) \in Texts
  <2>1. DataFrame(N + 1) \in Texts
    BY <1>2 DEF DataFrame, Texts, Data, NL
  <2>2. \A x, y \in Texts : x \o y \in Texts
    BY DEF Texts
  <2> QED BY <1>2, <2>1, <2>2
<1>6. /\ Append(conn.written, frame) \in Seq(EventFrames)
      /\ Len(Append(conn.written, frame)) = N + 1
      /\ Append(conn.written, frame)[N + 1] = frame
      /\ \A n \in 1 .. N : Append(conn.written, frame)[n] = conn.written[n]
  BY <1>0, <1>2, <1>4
<1>7. /\ conn'.read = conn.read /\ conn'.written = Append(conn.written, frame)
      /\ conn'.position = Len(log) /\ conn'.rest = conn.rest
      /\ conn'.wire = conn.wire \o DataFrame(N + 1)
  BY <1>1, <1>2 DEF Connections
<1>8. conn' \in Connections
  <2> DEFINE wire == conn.wire \o DataFrame(N + 1)
             written == Append(conn.written, frame)
  <2>1. conn' = [conn EXCEPT !.position = Len(log), !.written = written, !.wire = wire]
    BY <1>1
  <2>2. wire \in Seq(Int) /\ written \in Seq(EventFrames)
    BY <1>5, <1>6 DEF Texts
  <2> HIDE DEF wire, written
  <2> QED BY <1>2, <1>3, <2>1, <2>2 DEF Connections
<1>9. WireTypeOK'
  BY <1>1, <1>8 DEF WireTypeOK
<1>10. FramesLineUp'
  <2>1. FramesLineUp
    BY <1>1 DEF WireInv
  <2>2. conn.read <= N /\ Reached(N) = conn.position
    BY <1>0, <2>1 DEF FramesLineUp
  <2>3. \A n \in conn.read .. N : Reached(n)' = Reached(n)
    <3>1. ASSUME NEW n \in conn.read .. N PROVE Reached(n)' = Reached(n)
      <4>1. CASE n = conn.read
        BY <1>1, <1>7, <4>1 DEF Reached
      <4>2. CASE n # conn.read
        <5>1. n \in 1 .. N
          BY <1>2, <3>1, <4>2
        <5>2. conn'.written[n] = conn.written[n]
          BY <1>6, <1>7, <5>1
        <5> QED BY <1>7, <4>2, <5>2 DEF Reached
      <4> QED BY <4>1, <4>2
    <3> QED BY <3>1
  <2>4. Reached(N + 1)' = Len(log)
    <3>1. N + 1 # conn.read
      BY <1>2, <2>2
    <3> QED BY <1>4, <1>6, <1>7, <3>1 DEF Reached
  <2>5. ASSUME NEW n \in conn.read + 1 .. N + 1
        PROVE  /\ Reached(n)' = Reached(n - 1)' + Len(conn'.written[n].types)
               /\ Reached(n)' <= Len(log')
               /\ \A i \in 1 .. Len(conn'.written[n].types) :
                    conn'.written[n].types[i] \in {log'[Reached(n - 1)' + i], 0}
    <3>1. CASE n = N + 1
      <4>1. n - 1 = N /\ N \in conn.read .. N
        BY <1>2, <2>2, <3>1
      <4>2. Reached(n - 1)' = conn.position
        BY <2>2, <2>3, <4>1
      <4>3. conn'.written[n] = frame
        BY <1>6, <1>7, <3>1
      <4>4. Len(log) = conn.position + (Len(log) - conn.position)
        BY <1>2, <1>3
      <4>5. Reached(n)' = Len(log)
        BY <2>4, <3>1
      <4>6. Len(log) <= Len(log') /\ log' = log
        BY <1>1, <1>3
      <4>7. Reached(n)' = Reached(n - 1)' + Len(conn'.written[n].types)
        BY <1>4, <4>2, <4>3, <4>4, <4>5
      <4>8. \A i \in 1 .. Len(conn'.written[n].types) :
              conn'.written[n].types[i] \in {log'[Reached(n - 1)' + i], 0}
        BY <1>4, <4>2, <4>3, <4>6
      <4> QED BY <4>5, <4>6, <4>7, <4>8
    <3>2. CASE n # N + 1
      <4>1. /\ n \in conn.read + 1 .. N /\ n \in conn.read .. N
            /\ n - 1 \in conn.read .. N /\ n \in 1 .. N
        BY <1>2, <2>5, <3>2
      <4>2. Reached(n)' = Reached(n) /\ Reached(n - 1)' = Reached(n - 1)
        BY <2>3, <4>1
      <4>3. conn'.written[n] = conn.written[n]
        BY <1>6, <1>7, <4>1
      <4>4. /\ Reached(n) = Reached(n - 1) + Len(conn.written[n].types)
            /\ Reached(n) <= Len(log)
            /\ \A i \in 1 .. Len(conn.written[n].types) :
                 conn.written[n].types[i] \in {log[Reached(n - 1) + i], 0}
        BY <1>0, <2>1, <4>1 DEF FramesLineUp
      <4> QED BY <1>1, <4>2, <4>3, <4>4
    <3> QED BY <3>1, <3>2
  <2>6. Len(conn'.written) = N + 1
    BY <1>6, <1>7
  <2>7. conn'.read <= N + 1 /\ Reached(N + 1)' = conn'.position
    BY <1>2, <1>7, <2>2, <2>4
  <2> QED BY <1>7, <2>5, <2>6, <2>7 DEF FramesLineUp
<1>11. WireIsClean'
  <2> DEFINE M == N - conn.read
             expected == [i \in 1 .. M |-> <<conn.read + i>>]
             more == [i \in 1 .. M + 1 |-> <<conn.read + i>>]
             last == << <<N + 1>> >>
  <2>1. conn.read <= N /\ M \in Nat
    <3>1. conn.read <= N
      BY <1>0, <1>1 DEF WireInv, FramesLineUp
    <3> QED BY <1>2, <3>1
  <2>2. \A r \in {<< >>, Padding} : Frames[r \o DataFrame(N + 1)] = [frames |-> last, rest |-> << >>]
    <3>1. N + 1 \in Nat \ {0}
      BY <1>2
    <3> DEFINE n == N + 1
    <3> HIDE DEF n
    <3>2. \A r \in {<< >>, Padding} : Frames[r \o DataFrame(n)] = [frames |-> << <<n>> >>, rest |-> << >>]
      BY <3>1, FramesOfData DEF n
    <3> QED BY <3>2 DEF n
  <2>3. /\ ParseSSEChunk(conn.wire \o DataFrame(N + 1), conn.rest).frames = expected \o last
        /\ ParseSSEChunk(conn.wire \o DataFrame(N + 1), conn.rest).rest = << >>
        /\ ParseSSEChunk(conn.wire, conn.rest).frames \in Seq(Payloads)
        /\ last \in Seq(Payloads)
    <3> HIDE DEF last
    <3> QED BY <1>0, <1>1, <1>5, <2>2, TextGoesOn
  <2>4. expected \in Seq(Payloads)
    BY <1>0, <1>1, <2>3 DEF WireInv, WireIsClean
  <2>5. expected \o last = more
    <3>1. Len(expected) = M /\ Len(last) = 1 /\ last[1] = <<N + 1>>
      BY <2>1
    <3>2. conn.read + (M + 1) = N + 1
      BY <1>2
    <3> HIDE DEF expected, last
    <3>3. /\ expected \o last \in Seq(Payloads)
          /\ Len(expected \o last) = M + 1
          /\ \A i \in 1 .. M + 1 :
               (expected \o last)[i] = IF i <= M THEN expected[i] ELSE last[i - M]
      <4>1. \A x, y \in Seq(Payloads) :
              /\ x \o y \in Seq(Payloads) /\ Len(x \o y) = Len(x) + Len(y)
              /\ \A i \in 1 .. Len(x) + Len(y) :
                   (x \o y)[i] = IF i <= Len(x) THEN x[i] ELSE y[i - Len(x)]
        BY ConcatProperties
      <4> HIDE DEF M
      <4> QED BY <2>3, <2>4, <3>1, <4>1
    <3>4. \A i \in 1 .. M + 1 : (expected \o last)[i] = <<conn.read + i>>
      <4>1. ASSUME NEW i \in 1 .. M + 1, i <= M PROVE (expected \o last)[i] = <<conn.read + i>>
        <5>1. expected[i] = <<conn.read + i>>
          BY <2>1, <4>1 DEF expected
        <5> QED BY <3>3, <4>1, <5>1
      <4>2. (expected \o last)[M + 1] = <<conn.read + (M + 1)>>
        <5>1. M + 1 \in 1 .. M + 1 /\ ~ (M + 1 <= M) /\ (M + 1) - M = 1
          BY <2>1
        <5> HIDE DEF M
        <5>2. (expected \o last)[M + 1] = last[(M + 1) - M]
          BY <3>3, <5>1
        <5> QED BY <3>1, <3>2, <5>1, <5>2
      <4>3. \A i \in 1 .. M + 1 : i <= M \/ i = M + 1
        BY <2>1
      <4> HIDE DEF M
      <4> QED BY <4>1, <4>2, <4>3
    <3>5. more = [i \in 1 .. M + 1 |-> <<conn.read + i>>] /\ Len(more) = M + 1
      BY <2>1
    <3>6. M + 1 \in Nat
      BY <2>1
    <3> DEFINE x == expected \o last
               k == M + 1
               r == conn.read
    <3>7. x \in Seq(Payloads) /\ Len(x) = k /\ k \in Nat /\ \A i \in 1 .. k : x[i] = <<r + i>>
      <4> HIDE DEF M
      <4> QED BY <3>3, <3>4, <3>6
    <3> HIDE DEF more, M, x, k, r
    <3>8. x = Row(r, Len(x))
      BY <3>7, NumberedSeq
    <3>9. x = Row(r, k)
      BY <3>7, <3>8
    <3> QED BY <3>5, <3>9 DEF x, k, r, Row
  <2>6. Len(conn'.written) - conn'.read = M + 1
    BY <1>2, <1>6, <1>7
  <2>7. ParseSSEChunk(conn'.wire, conn'.rest).frames = more
    BY <1>7, <2>3, <2>5
  <2> QED BY <1>7, <2>3, <2>6, <2>7 DEF WireIsClean
<1> QED BY <1>1, <1>9, <1>10, <1>11 DEF WireInv, CursorIsRead

\* The two parts of a row are rows.
LEMMA RowParts ==
  ASSUME NEW x \in Seq(Payloads), NEW y \in Seq(Payloads), NEW n \in Nat, NEW r \in Nat,
         x \o y = Row(r, n)
  PROVE  /\ Len(x) \in 0 .. n
         /\ x = Row(r, Len(x))
         /\ y = Row(r + Len(x), n - Len(x))
<1> DEFINE z == x \o y
           k == Len(x)
           m == Len(y)
           from == r + k
<1>1. /\ Len(z) = k + m /\ k \in Nat /\ m \in Nat
      /\ \A i \in 1 .. k + m : z[i] = IF i <= k THEN x[i] ELSE y[i - k]
  <2>1. \A u, v \in Seq(Payloads) :
          /\ Len(u \o v) = Len(u) + Len(v) /\ Len(u) \in Nat /\ Len(v) \in Nat
          /\ \A i \in 1 .. Len(u) + Len(v) :
               (u \o v)[i] = IF i <= Len(u) THEN u[i] ELSE v[i - Len(u)]
    BY ConcatProperties
  <2> QED BY <2>1
<1>2. Len(z) = n /\ \A i \in 1 .. n : z[i] = <<r + i>>
  <2>1. z = [i \in 1 .. n |-> <<r + i>>]
    BY DEF Row
  <2> HIDE DEF z
  <2> QED BY <2>1
<1> HIDE DEF z
<1>3. n = k + m
  BY <1>1, <1>2
<1>4. Len(x) = k /\ Len(y) = m
  OBVIOUS
<1> HIDE DEF k, m
<1>5. \A i \in 1 .. k : x[i] = <<r + i>>
  BY <1>1, <1>2, <1>3
<1>6. \A i \in 1 .. m : y[i] = <<from + i>>
  <2>1. ASSUME NEW i \in 1 .. m PROVE y[i] = <<from + i>>
    <3> DEFINE j == k + i
    <3>1. j \in 1 .. n /\ ~ (j <= k) /\ j - k = i /\ r + j = from + i
      BY <1>1, <1>3, <2>1
    <3> HIDE DEF j, from
    <3>2. z[j] = y[i] /\ z[j] = <<r + j>>
      BY <1>1, <1>2, <1>3, <3>1
    <3> QED BY <3>1, <3>2
  <2> QED BY <2>1
<1> HIDE DEF from
<1>7. x = Row(r, k)
  <2>1. x = Row(r, Len(x))
    BY <1>4, <1>5, NumberedSeq
  <2> QED BY <1>4, <2>1
<1>8. y = Row(from, m)
  <2>1. y = Row(from, Len(y))
    BY <1>4, <1>6, NumberedSeq
  <2> QED BY <1>4, <2>1
<1>9. m = n - k /\ k \in 0 .. n
  BY <1>1, <1>3
<1> QED BY <1>7, <1>8, <1>9 DEF k, from

\* However a chunk cuts the text, it shows the first of the frames on their way, and
\* the others are in what is left of it and what is still to be read.
LEMMA ChunkIsCut ==
  ASSUME WireTypeOK, WireInv, conn.open, NEW k \in 1 .. Len(conn.wire)
  PROVE  LET parsed == ParseSSEChunk(SubSeq(conn.wire, 1, k), conn.rest)
             later  == SubSeq(conn.wire, k + 1, Len(conn.wire))
             n      == Len(conn.written) - conn.read
             m      == Len(parsed.frames)
         IN /\ parsed.rest \in Texts /\ later \in Texts
            /\ n \in Nat /\ m \in 0 .. n
            /\ parsed.frames = Row(conn.read, m)
            /\ ParseSSEChunk(later, parsed.rest).frames = Row(conn.read + m, n - m)
            /\ ParseSSEChunk(later, parsed.rest).rest \in {<< >>, Padding}
<1> DEFINE chunk == SubSeq(conn.wire, 1, k)
           later == SubSeq(conn.wire, k + 1, Len(conn.wire))
           a == conn.rest \o chunk
           n == Len(conn.written) - conn.read
<1>1. /\ conn.wire \in Texts /\ conn.rest \in Texts /\ conn.read \in Nat
      /\ Len(conn.wire) \in Nat
      /\ Len(conn.written) \in Nat /\ conn.read <= Len(conn.written)
  BY OpenConnection DEF WireInv, FramesLineUp, Texts
<1>2. n \in Nat
  BY <1>1
<1>3. chunk \in Texts /\ later \in Texts /\ conn.wire = chunk \o later
  <2> DEFINE w == conn.wire
  <2>1. w \in Seq(Int) /\ k \in 1 .. Len(w)
    BY <1>1 DEF Texts
  <2> HIDE DEF w
  <2>2. Len(w) \in Nat /\ \A i \in 1 .. Len(w) : w[i] \in Int
    BY <2>1
  <2>3. /\ SubSeq(w, 1, k) \in Seq(Int) /\ Len(SubSeq(w, 1, k)) = k
        /\ \A i \in 1 .. k : SubSeq(w, 1, k)[i] = w[i]
    BY <2>1, <2>2
  <2>4. /\ SubSeq(w, k + 1, Len(w)) \in Seq(Int)
        /\ Len(SubSeq(w, k + 1, Len(w))) = Len(w) - k
        /\ \A i \in 1 .. Len(w) - k : SubSeq(w, k + 1, Len(w))[i] = w[k + i]
    BY <2>1, <2>2
  <2> DEFINE x == SubSeq(w, 1, k)
             y == SubSeq(w, k + 1, Len(w))
  <2> HIDE DEF x, y
  <2>5. /\ x \o y \in Seq(Int) /\ Len(x \o y) = Len(w)
        /\ \A i \in 1 .. Len(w) : (x \o y)[i] = w[i]
    <3>1. /\ x \o y \in Seq(Int) /\ Len(x \o y) = Len(x) + Len(y)
          /\ \A i \in 1 .. Len(x) + Len(y) :
               (x \o y)[i] = IF i <= Len(x) THEN x[i] ELSE y[i - Len(x)]
      BY <2>3, <2>4, ConcatProperties DEF x, y
    <3>2. Len(x) = k /\ Len(y) = Len(w) - k
      BY <2>3, <2>4 DEF x, y
    <3>3. Len(x \o y) = Len(w)
      BY <2>1, <2>2, <3>1, <3>2
    <3>4. ASSUME NEW i \in 1 .. Len(w) PROVE (x \o y)[i] = w[i]
      <4>1. CASE i <= k
        <5>1. x[i] = w[i]
          BY <2>1, <2>2, <2>3, <3>4, <4>1 DEF x
        <5> QED BY <2>1, <2>2, <3>1, <3>2, <3>4, <4>1, <5>1
      <4>2. CASE ~ (i <= k)
        <5> DEFINE j == i - k
        <5>1. j \in 1 .. Len(w) - k /\ k + j = i /\ i \in 1 .. Len(x) + Len(y) /\ ~ (i <= Len(x))
          BY <2>1, <2>2, <3>2, <3>4, <4>2
        <5>2. (x \o y)[i] = y[j]
          BY <3>1, <3>2, <5>1
        <5> HIDE DEF j
        <5>3. y[j] = w[k + j]
          BY <2>4, <5>1 DEF y
        <5> QED BY <5>1, <5>2, <5>3
      <4> QED BY <4>1, <4>2
    <3> QED BY <3>1, <3>3, <3>4
  <2>6. w = x \o y
    BY <2>1, <2>5, SeqEqual
  <2> QED BY <2>3, <2>4, <2>6 DEF Texts, w, x, y
<1>4. a \in Texts /\ conn.rest \o conn.wire = a \o later
  <2> HIDE DEF chunk, later
  <2>1. \A x, y, z \in Texts : (x \o y) \o z = x \o (y \o z)
    BY TextsJoin
  <2>2. \A x, y \in Seq(Int) : x \o y \in Seq(Int)
    OBVIOUS
  <2>3. chunk \in Seq(Int) /\ later \in Seq(Int) /\ conn.rest \in Seq(Int)
    BY <1>1, <1>3 DEF Texts
  <2>4. conn.rest \o (chunk \o later) = a \o later /\ a \in Seq(Int)
    BY <2>1, <2>2, <2>3 DEF Texts
  <2> QED BY <1>3, <2>4 DEF Texts
<1> DEFINE m == Len(Frames[a].frames)
           rest == Frames[a].rest
           next == Frames[rest \o later]
<1> HIDE DEF a, later, n
<1>5. /\ Frames[a].frames \in Seq(Payloads) /\ rest \in Texts
      /\ next \in Parsed
      /\ Frames[a \o later] = [frames |-> Frames[a].frames \o next.frames, rest |-> next.rest]
  BY <1>3, <1>4, FramesEquation, FramesOfConcat DEF Parsed
<1>6. /\ Frames[a \o later].frames = Row(conn.read, n)
      /\ Frames[a \o later].rest \in {<< >>, Padding}
  BY <1>4 DEF WireInv, WireIsClean, ParseSSEChunk, n, Row
<1> HIDE DEF next
<1>7. /\ Frames[a].frames \o next.frames = Row(conn.read, n)
      /\ next.rest \in {<< >>, Padding}
      /\ next.frames \in Seq(Payloads)
  BY <1>5, <1>6 DEF Parsed
<1>8. /\ m \in 0 .. n
      /\ Frames[a].frames = Row(conn.read, m)
      /\ next.frames = Row(conn.read + m, n - m)
  <2> DEFINE x == Frames[a].frames
             y == next.frames
             r == conn.read
  <2>1. x \in Seq(Payloads) /\ y \in Seq(Payloads) /\ r \in Nat
        /\ x \o y = Row(r, n)
    BY <1>1, <1>5, <1>7
  <2> HIDE DEF x, y, r
  <2>2. /\ Len(x) \in 0 .. n
        /\ x = Row(r, Len(x))
        /\ y = Row(r + Len(x), n - Len(x))
    <3>1. \A u, v \in Seq(Payloads), c, q \in Nat :
            u \o v = Row(q, c) =>
              /\ Len(u) \in 0 .. c
              /\ u = Row(q, Len(u))
              /\ v = Row(q + Len(u), c - Len(u))
      BY RowParts
    <3>2. n \in Nat
      BY <1>2
    <3>3. x \o y = Row(r, n) /\ r \in Nat
      BY <2>1
    <3>4. x \in Seq(Payloads) /\ y \in Seq(Payloads)
      BY <2>1
    <3>5. \A c, q \in Nat : x \o y = Row(q, c) =>
              /\ Len(x) \in 0 .. c
              /\ x = Row(q, Len(x))
              /\ y = Row(q + Len(x), c - Len(x))
      BY <3>1, <3>4
    <3>6. \A q \in Nat : x \o y = Row(q, n) =>
              /\ Len(x) \in 0 .. n
              /\ x = Row(q, Len(x))
              /\ y = Row(q + Len(x), n - Len(x))
      BY <3>2, <3>5
    <3>7. x \o y = Row(r, n) =>
              /\ Len(x) \in 0 .. n
              /\ x = Row(r, Len(x))
              /\ y = Row(r + Len(x), n - Len(x))
      BY <3>3, <3>6
    <3> QED BY <3>7, <3>3
  <2> QED BY <2>2 DEF x, y, r
<1>9. /\ ParseSSEChunk(chunk, conn.rest) = Frames[a]
      /\ ParseSSEChunk(later, rest) = next
  BY DEF ParseSSEChunk, a, next
<1> HIDE DEF m, rest
<1>10. /\ rest \in Texts /\ later \in Texts /\ n \in Nat /\ m \in 0 .. n
       /\ Frames[a].frames = Row(conn.read, m)
       /\ ParseSSEChunk(later, rest).frames = Row(conn.read + m, n - m)
       /\ ParseSSEChunk(later, rest).rest \in {<< >>, Padding}
  BY <1>2, <1>3, <1>5, <1>7, <1>8, <1>9
<1> QED BY <1>9, <1>10 DEF m, rest, later, n

\* A chunk is read: the cursor moves over the frames it shows, unless one is refused.
LEMMA ReadChunkStep ==
  ASSUME WireTypeOK, WireInv, NEW k \in Int, ReadChunk(k)
  PROVE  WireTypeOK' /\ WireInv'
<1>1. /\ conn.open /\ k \in 1 .. Len(conn.wire)
      /\ UNCHANGED <<server, tab, log, breaks>>
  BY DEF ReadChunk
<1>2. PICK parsed, shown, later, r, N :
      /\ parsed = ParseSSEChunk(SubSeq(conn.wire, 1, k), conn.rest)
      /\ shown = Ingested(FramesOf(parsed.frames))
      /\ later = SubSeq(conn.wire, k + 1, Len(conn.wire))
      /\ r = conn.read
      /\ N = Len(conn.written)
      /\ list' = shown.list
      /\ cursor' = shown.cursor
      /\ conn' = IF ~ shown.fine THEN Closed
                 ELSE [conn EXCEPT !.wire = later, !.rest = parsed.rest,
                                   !.read = @ + Len(parsed.frames)]
  BY DEF ReadChunk
<1>3. PICK m : m = Len(parsed.frames)
  OBVIOUS
<1>4. /\ conn \in Connections /\ r \in Nat /\ N \in Nat
      /\ conn.wire \in Texts /\ conn.rest \in Texts /\ conn.position \in Nat
      /\ conn.written \in Seq(EventFrames)
  BY <1>1, <1>2, OpenConnection
<1>5. /\ parsed.rest \in Texts /\ later \in Texts
      /\ N - r \in Nat /\ m \in 0 .. N - r
      /\ parsed.frames = Row(r, m)
      /\ ParseSSEChunk(later, parsed.rest).frames = Row(r + m, (N - r) - m)
      /\ ParseSSEChunk(later, parsed.rest).rest \in {<< >>, Padding}
  BY <1>1, <1>2, <1>3, ChunkIsCut
<1>6. Good(shown, m)
  <2>1. FramesOf(parsed.frames) = [i \in 1 .. m |-> conn.written[conn.read + i]]
    <3> DEFINE f == parsed.frames
    <3>1. f = [i \in 1 .. m |-> <<r + i>>]
      BY <1>5 DEF Row
    <3> HIDE DEF f
    <3>2. DOMAIN f = 1 .. m /\ \A i \in 1 .. m : f[i][1] = conn.read + i
      BY <1>2, <3>1
    <3>3. FramesOf(f) = [i \in 1 .. m |-> conn.written[f[i][1]]]
      BY <3>2 DEF FramesOf
    <3> QED BY <3>2, <3>3 DEF f
  <2>2. m \in 0 .. Len(conn.written) - conn.read
    BY <1>2, <1>5
  <2>3. Good(Ingested([i \in 1 .. m |-> conn.written[conn.read + i]]), m)
    BY <1>1, <2>2, FramesAreTakenIn
  <2> QED BY <1>2, <2>1, <2>3
<1>7. /\ shown.list \in Seq(Nat) /\ shown.cursor \in Nat
      /\ Len(shown.list) = shown.cursor /\ shown.cursor <= Len(log)
      /\ \A s \in 1 .. shown.cursor : shown.list[s] \in {log[s], 0}
      /\ shown.fine => shown.cursor = Reached(r + m)
  BY <1>2, <1>6 DEF Good, Shown
<1>8. CursorIsRead' /\ cursor' <= Len(log') /\ list' \in Seq(Nat) /\ cursor' \in Nat
  BY <1>1, <1>2, <1>7 DEF CursorIsRead
<1>9. CASE ~ shown.fine
  <2>1. conn' = Closed /\ ~ conn'.open
    BY <1>2, <1>9 DEF Closed
  <2>2. WireTypeOK'
    BY <1>1, <1>8, <2>1 DEF WireTypeOK
  <2> QED BY <1>8, <2>1, <2>2 DEF WireInv
<1>10. CASE shown.fine
  <2>1. conn' = [conn EXCEPT !.wire = later, !.rest = parsed.rest, !.read = r + m]
    BY <1>2, <1>3, <1>10
  <2>2. /\ conn'.written = conn.written /\ conn'.position = conn.position
        /\ conn'.wire = later /\ conn'.rest = parsed.rest /\ conn'.read = r + m
    BY <1>4, <2>1 DEF Connections
  <2>3. r + m \in Nat /\ r + m <= N
    BY <1>4, <1>5
  <2>4. conn' \in Connections
    BY <1>4, <1>5, <2>1, <2>3 DEF Connections, Texts
  <2>5. WireTypeOK'
    BY <1>1, <1>8, <2>4 DEF WireTypeOK
  <2>6. FramesLineUp /\ Reached(N) = conn.position
    BY <1>1, <1>2 DEF WireInv, FramesLineUp
  <2>7. ASSUME NEW n \in r + m .. N PROVE Reached(n)' = Reached(n)
    <3>1. CASE n = r + m
      <4>1. Reached(n)' = cursor'
        BY <2>2, <3>1 DEF Reached
      <4> QED BY <1>2, <1>7, <1>10, <3>1, <4>1
    <3>2. CASE n # r + m
      <4>1. n # r
        BY <1>4, <1>5, <2>7, <3>2
      <4> QED BY <1>2, <2>2, <3>2, <4>1 DEF Reached
    <3> QED BY <3>1, <3>2
  <2>8. Len(conn'.written) = N /\ N \in r + m .. N
    BY <1>2, <1>4, <2>2, <2>3
  <2>9. ASSUME NEW n \in r + m + 1 .. N
        PROVE  /\ Reached(n)' = Reached(n - 1)' + Len(conn'.written[n].types)
               /\ Reached(n)' <= Len(log')
               /\ \A i \in 1 .. Len(conn'.written[n].types) :
                    conn'.written[n].types[i] \in {log'[Reached(n - 1)' + i], 0}
    <3>1. n \in r + m .. N /\ n - 1 \in r + m .. N /\ n \in r + 1 .. N
      BY <1>4, <1>5, <2>9
    <3>2. Reached(n)' = Reached(n) /\ Reached(n - 1)' = Reached(n - 1)
      BY <2>7, <3>1
    <3>3. /\ Reached(n) = Reached(n - 1) + Len(conn.written[n].types)
          /\ Reached(n) <= Len(log)
          /\ \A i \in 1 .. Len(conn.written[n].types) :
               conn.written[n].types[i] \in {log[Reached(n - 1) + i], 0}
      BY <1>2, <2>6, <3>1 DEF FramesLineUp
    <3> QED BY <1>1, <2>2, <3>2, <3>3
  <2>10. conn'.read <= N /\ Reached(N)' = conn'.position
    BY <2>2, <2>3, <2>6, <2>7, <2>8
  <2>11. FramesLineUp'
    BY <2>2, <2>8, <2>9, <2>10 DEF FramesLineUp
  <2>12. WireIsClean'
    <3>1. Len(conn'.written) - conn'.read = (N - r) - m /\ conn'.read = r + m
      BY <1>4, <1>5, <2>2, <2>8
    <3>2. Row(r + m, (N - r) - m)
            = [i \in 1 .. Len(conn'.written) - conn'.read |-> <<conn'.read + i>>]
      BY <3>1 DEF Row
    <3> QED BY <1>5, <2>2, <3>2 DEF WireIsClean
  <2> QED BY <1>8, <2>5, <2>11, <2>12 DEF WireInv
<1> QED BY <1>9, <1>10

\* At any time what the tab has shown is the log up to its cursor, the frames written
\* and not yet read continue it in their order, and the text on its way holds those
\* frames and no others.
THEOREM WireHolds == WireSpec => [](WireTypeOK /\ WireInv)
<1>1. WireInit => WireTypeOK /\ WireInv
  <2> SUFFICES ASSUME WireInit PROVE WireTypeOK /\ WireInv
    OBVIOUS
  <2>1. WireTypeOK
    BY EventWireAssumption DEF WireInit, WireTypeOK, Versions
  <2>2. ~ conn.open /\ Len(list) = 0 /\ Len(log) = 0 /\ cursor = 0
    BY DEF WireInit, Closed
  <2> QED BY <2>1, <2>2 DEF WireInv, CursorIsRead
<1>2. WireTypeOK /\ WireInv /\ [WireNext]_wireVars => WireTypeOK' /\ WireInv'
  <2> SUFFICES ASSUME WireTypeOK, WireInv, [WireNext]_wireVars
               PROVE  WireTypeOK' /\ WireInv'
    OBVIOUS
  <2>0. server \in Versions /\ tab \in Versions /\ breaks \in 0 .. MaxBreaks
    BY DEF WireTypeOK
  <2>1. CASE Replace
    <3>1. /\ server' \in Versions /\ tab' \in Versions /\ breaks' \in 0 .. MaxBreaks
          /\ conn' = Closed /\ UNCHANGED <<log, cursor, list>>
      BY <2>0, <2>1 DEF Replace, Versions
    <3> QED BY <3>1, ClosedStep
  <2>2. CASE Load
    <3>1. /\ server' \in Versions /\ tab' \in Versions /\ breaks' \in 0 .. MaxBreaks
          /\ conn' = Closed /\ UNCHANGED <<log, cursor, list>>
      BY <2>0, <2>2 DEF Load, Versions
    <3> QED BY <3>1, ClosedStep
  <2>3. ASSUME NEW type \in 1 .. (EventType + 1), Happen(type)
        PROVE  WireTypeOK' /\ WireInv'
    <3>1. type \in Nat
      OBVIOUS
    <3> QED BY <2>3, <3>1, HappenStep
  <2>4. CASE Connect
    BY <2>4, ConnectStep
  <2>5. CASE WriteFrame
    BY <2>5, WriteFrameStep
  <2>6. CASE WritePing
    BY <2>6, WritePingStep
  <2>7. ASSUME NEW k \in 1 .. MaxChunk, ReadChunk(k)
        PROVE  WireTypeOK' /\ WireInv'
    BY <2>7, ReadChunkStep
  <2>8. CASE Break
    <3>1. /\ server' \in Versions /\ tab' \in Versions /\ breaks' \in 0 .. MaxBreaks
          /\ conn' = Closed /\ UNCHANGED <<log, cursor, list>>
      BY <2>0, <2>8, EventWireAssumption DEF Break
    <3> QED BY <3>1, ClosedStep
  <2>9. CASE UNCHANGED wireVars
    BY <2>9 DEF wireVars, stream, WireTypeOK, WireInv, CursorIsRead, FramesLineUp,
                WireIsClean, Reached
  <2> QED BY <2>1, <2>2, <2>3, <2>4, <2>5, <2>6, <2>7, <2>8, <2>9 DEF WireNext, StreamStep
<1> QED BY <1>1, <1>2, PTL DEF WireSpec

\* However the text of the stream is cut into chunks and however often it breaks, no
\* event is lost, repeated or changed, whatever the versions of server and tab.
THEOREM StreamArrives == WireSpec => []StreamArrivesWhole
<1>1. WireInv => StreamArrivesWhole
  BY DEF WireInv, WireIsClean, StreamArrivesWhole, FramesSurviveCutting
<1> QED BY <1>1, WireHolds, PTL

=============================================================================
