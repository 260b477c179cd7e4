----------------------------- MODULE BoardProofs -----------------------------
(***************************************************************************)
(* Proofs about module Board: what the screens show of the tab's own       *)
(* writes, what a click leaves behind and what becomes of a draft, for any *)
(* subforums, any number of deeds, and any screens that are opened first.  *)
(***************************************************************************)
EXTENDS Board, TLAPS

-----------------------------------------------------------------------------
(* Entries, tags and screens.                                              *)

Statuses == {"none", "sent", "answered", "ready", "failed"}

LEMMA EntryTypes ==
  ASSUME NEW e \in Entries
  PROVE  /\ Tag(e) \in {"Thread", "Post", "Subforum"}
         /\ Covers(e) \subseteq Watched
<1>1. CASE e \in {ListSubforums, ListThreads, GetThread, ListPosts}
  BY <1>1 DEF Tag, Covers, Watched, ListSubforums, ListThreads, GetThread, ListPosts,
              GetSubforum
<1>2. ASSUME NEW f \in Subforums, e = GetSubforum(f) PROVE e[1] = "getSubforum" /\ e[2] = f
  BY <1>2 DEF GetSubforum
<1>3. ASSUME NEW f \in Subforums, e = GetSubforum(f)
      PROVE  /\ Tag(e) \in {"Thread", "Post", "Subforum"}
             /\ Covers(e) \subseteq Watched
  <2>1. e # ListSubforums /\ e # GetThread
    BY <1>2, <1>3 DEF ListSubforums, GetThread
  <2> QED BY <1>2, <1>3, <2>1 DEF Tag, Covers, Watched
<1> QED BY <1>1, <1>3 DEF Entries

\* What a write changes is among what it names.
LEMMA ChangesAreNamed ==
  ASSUME NEW w \in Writes, NEW e \in Entries, Changes(w, e)
  PROVE  Tag(e) \in Invalidates(w)
<1>1. CASE w.kind = "post" \/ w.target = Thread
  BY <1>1 DEF Changes, Tag, Invalidates, GetThread, ListThreads, ListPosts
<1>2. CASE ~ (w.kind = "post" \/ w.target = Thread)
  <2>1. w.target \in Covers(e) /\ Invalidates(w) = {"Subforum"}
    BY <1>2 DEF Changes, Invalidates
  <2>2. e = ListSubforums \/ e[1] = "getSubforum"
    BY <1>2, <2>1 DEF Covers
  <2> QED BY <2>1, <2>2 DEF Tag, ListSubforums
<1> QED BY <1>1, <1>2

LEMMA ScreenTypes ==
  ASSUME NEW s \in Screens
  PROVE  /\ Subscribed(s) \subseteq Entries
         /\ IsList(s) => /\ s[2] \in Subforums
                         /\ GetSubforum(s[2]) \in Subscribed(s)
                         /\ s # Detail
<1>1. CASE s = Home
  BY <1>1 DEF Home, Subscribed, Entries, IsList, List
<1>2. CASE s = Detail
  <2>1. s # Home /\ ~ IsList(s) /\ s # List(Forum)
    BY <1>2 DEF Detail, Home, IsList, List
  <2> QED BY <1>2, <2>1 DEF Subscribed, Entries
<1>3. ASSUME NEW f \in Subforums, s = List(f)
      PROVE  /\ Subscribed(s) \subseteq Entries
             /\ s[2] \in Subforums
             /\ GetSubforum(s[2]) \in Subscribed(s)
             /\ s # Detail
  <2>1. s # Home /\ IsList(s) /\ s[2] = f /\ s # Detail
    BY <1>3 DEF Detail, Home, IsList, List
  <2>2. List(Forum)[2] = Forum /\ Forum \in Subforums
    BY BoardAssumption DEF List
  <2>3. CASE s = List(Forum)
    BY <2>1, <2>2, <2>3 DEF Subscribed, Entries
  <2>4. CASE s # List(Forum)
    BY <2>1, <2>4 DEF Subscribed, Entries
  <2> QED BY <2>1, <2>3, <2>4
<1> QED BY <1>1, <1>2, <1>3 DEF Screens, IsList, Home, Detail

-----------------------------------------------------------------------------
(* The cache.                                                              *)

CacheTyped(c) == DOMAIN c = Entries /\ \A e \in Entries : c[e] \in EntryStates(e)

LEMMA EmptyTyped ==
  ASSUME NEW e \in Entries
  PROVE  Empty \in EntryStates(e)
BY DEF Empty, EntryStates

LEMMA AskTyped ==
  ASSUME NEW e \in Entries, NEW entry \in EntryStates(e)
  PROVE  /\ Ask(entry) \in EntryStates(e)
         /\ Ask(entry).status = "sent" /\ Ask(entry).data = entry.data
         /\ Ask(entry).answer = entry.answer /\ Ask(entry).dirty = entry.dirty
BY DEF Ask, EntryStates

\* What invalidation makes of an entry.
LEMMA InvalidatedEntries ==
  ASSUME NEW c, CacheTyped(c), NEW s, NEW named
  PROVE  /\ CacheTyped(Invalidated(c, s, named))
         /\ \A e \in Entries :
              \/ /\ Invalidated(c, s, named)[e] = c[e]
                 /\ Tag(e) \notin named \/ c[e].status = "none" \/ Pending(c[e])
              \/ Invalidated(c, s, named)[e] = Ask(c[e]) /\ e \in Subscribed(s)
              \/ Invalidated(c, s, named)[e] = Empty /\ e \notin Subscribed(s)
BY AskTyped, EmptyTyped DEF Invalidated, CacheTyped

\* What mounting a screen's hooks makes of an entry.
LEMMA MountedEntries ==
  ASSUME NEW c, CacheTyped(c), NEW s
  PROVE  /\ CacheTyped(Mounted(c, s))
         /\ \A e \in Entries :
              \/ /\ Mounted(c, s)[e] = c[e]
                 /\ e \in Subscribed(s) => Pending(c[e]) \/ c[e].data # {}
              \/ Mounted(c, s)[e] = Ask(c[e]) /\ ~ Pending(c[e])
BY AskTyped DEF Mounted, CacheTyped

\* The hook of ThreadListScreen returns what it has the type to return.
LEMMA RenderedTyped ==
  ASSUME screen' \in Screens, CacheTyped(cache'),
         NEW before \in SUBSET [of : Subforums, watching : BOOLEAN], Rendered(before)
  PROVE  held' \in SUBSET [of : Subforums, watching : BOOLEAN]
<1>1. CASE ~ IsList(screen')
  BY <1>1 DEF Rendered
<1>2. CASE IsList(screen')
  <2> DEFINE f == screen'[2]
             entry == cache'[GetSubforum(f)]
  <2>1. f \in Subforums /\ GetSubforum(f) \in Entries
    BY <1>2, ScreenTypes
  <2>2. entry.data \subseteq Answers(GetSubforum(f))
    BY <2>1 DEF CacheTyped, EntryStates
  <2>3. Covers(GetSubforum(f)) = {f}
    <3>1. GetSubforum(f) # ListSubforums /\ GetSubforum(f) # GetThread
      BY DEF GetSubforum, ListSubforums, GetThread
    <3>2. GetSubforum(f)[1] = "getSubforum" /\ GetSubforum(f)[2] = f
      BY DEF GetSubforum
    <3> QED BY <3>1, <3>2 DEF Covers
  <2>4. \A data \in entry.data : data[f] \in BOOLEAN
    BY <2>2, <2>3 DEF Answers
  <2>5. CASE Holds(entry, before)
    <3>1. held' = {[of |-> f, watching |-> data[f]] : data \in entry.data}
      BY <1>2, <2>5 DEF Rendered
    <3> QED BY <2>1, <2>4, <3>1
  <2>6. CASE ~ Holds(entry, before)
    BY <1>2, <2>6 DEF Rendered
  <2> QED BY <2>5, <2>6
<1> QED BY <1>1, <1>2


-----------------------------------------------------------------------------
(* What steps do.                                                          *)

\* A request has ended and its tags are named; the rest of the step's effect on the
\* cache is in c.
LEMMA Settled ==
  ASSUME NEW c, CacheTyped(c), NEW w, NEW named, screen \in Screens,
         writes' = w,
         NEW now, now = Due(c, w, named),
         tags' = named \ now, cache' = Invalidated(c, screen, now)
  PROVE  /\ CacheTyped(cache')
         /\ \A e \in Entries : \/ cache'[e] = c[e]
                               \/ cache'[e] = Ask(c[e])
                               \/ cache'[e] = Empty /\ e \notin Subscribed(screen)
         /\ Quiet' => tags' = {}
         /\ \A e \in Entries : cache'[e].status \in {"answered", "ready"} =>
              cache'[e] = c[e] /\ (Tag(e) \in named => Tag(e) \in tags')
<1>1. /\ CacheTyped(cache')
      /\ \A e \in Entries :
           \/ /\ cache'[e] = c[e]
              /\ Tag(e) \notin now \/ c[e].status = "none" \/ Pending(c[e])
           \/ cache'[e] = Ask(c[e]) /\ e \in Subscribed(screen)
           \/ cache'[e] = Empty /\ e \notin Subscribed(screen)
  BY InvalidatedEntries
<1>2. CASE Idle(c, w)
  <2>1. now = named /\ tags' = {}
    BY <1>2 DEF Due
  <2>2. \A e \in Entries : ~ Pending(c[e])
    BY <1>2 DEF Idle
  <2>3. ASSUME NEW e \in Entries, cache'[e].status \in {"answered", "ready"}
        PROVE  cache'[e] = c[e] /\ Tag(e) \notin named
    <3>1. c[e] \in EntryStates(e)
      BY DEF CacheTyped
    <3>2. cache'[e] # Empty /\ cache'[e] # Ask(c[e])
      BY <2>3, <3>1, AskTyped DEF Empty
    <3> QED BY <1>1, <2>1, <2>2, <2>3, <3>2
  <2> QED BY <1>1, <2>1, <2>3
<1>3. CASE ~ Idle(c, w)
  <2>1. now = {} /\ tags' = named
    BY <1>3 DEF Due
  <2>2. \A e \in Entries : cache'[e] = c[e]
    BY <2>1 DEF Invalidated
  <2>3. ~ Quiet'
    BY <1>3, <2>2 DEF Quiet, Idle
  <2> QED BY <1>1, <2>1, <2>2, <2>3
<1> QED BY <1>2, <1>3

LEMMA Served ==
  ASSUME TypeOK, NEW e \in Entries, Serve(e)
  PROVE  /\ CacheTyped(cache')
         /\ cache[e].status = "sent"
         /\ cache'[e].status = "answered" /\ cache'[e].data = cache[e].data
         /\ cache'[e].answer # {} /\ cache'[e].dirty = FALSE
         /\ \A d \in Entries : d # e => cache'[d] = cache[d]
<1>1. Answer(e) \in Answers(e)
  BY EntryTypes DEF Answer, Answers, TypeOK
<1>2. cache[e] \in EntryStates(e) /\ DOMAIN cache = Entries
  BY DEF TypeOK
<1>3. DOMAIN cache' = Entries /\ \A d \in Entries : d # e => cache'[d] = cache[d]
  BY <1>2 DEF Serve
<1>4. /\ cache'[e].status = "answered" /\ cache'[e].data = cache[e].data
      /\ cache'[e].answer = {Answer(e)} /\ cache'[e].dirty = FALSE
      /\ cache'[e] = [status |-> "answered", data |-> cache[e].data,
                      answer |-> {Answer(e)}, dirty |-> FALSE]
  BY <1>2 DEF Serve, EntryStates
<1>5. cache'[e] \in EntryStates(e)
  BY <1>1, <1>2, <1>4 DEF EntryStates
<1> QED BY <1>3, <1>4, <1>5 DEF CacheTyped, TypeOK, Serve

\* The cache as an answer or an error leaves it, before tags are used up.
AsArrived(e, ok) ==
  [cache EXCEPT ![e] = [status |-> IF ok THEN "ready" ELSE "failed",
                        data |-> IF ok THEN @.answer ELSE @.data,
                        answer |-> {}, dirty |-> @.dirty]]

LEMMA Arrived ==
  ASSUME TypeOK, NEW e \in Entries, NEW ok \in BOOLEAN, Arrive(e, ok)
  PROVE  /\ CacheTyped(AsArrived(e, ok))
         /\ cache[e].status = "answered"
         /\ AsArrived(e, ok)[e].status = IF ok THEN "ready" ELSE "failed"
         /\ AsArrived(e, ok)[e].data = IF ok THEN cache[e].answer ELSE cache[e].data
         /\ AsArrived(e, ok)[e].dirty = cache[e].dirty
         /\ \A d \in Entries : d # e => AsArrived(e, ok)[d] = cache[d]
         /\ \E now : /\ now = Due(AsArrived(e, ok), writes, tags)
                     /\ tags' = tags \ now
                     /\ cache' = Invalidated(AsArrived(e, ok), screen, now)
<1>1. cache[e] \in EntryStates(e) /\ DOMAIN cache = Entries /\ CacheTyped(cache)
  BY DEF TypeOK, CacheTyped
<1>2. /\ DOMAIN AsArrived(e, ok) = Entries
      /\ \A d \in Entries : d # e => AsArrived(e, ok)[d] = cache[d]
      /\ AsArrived(e, ok)[e] = [status |-> IF ok THEN "ready" ELSE "failed",
                                data |-> IF ok THEN cache[e].answer ELSE cache[e].data,
                                answer |-> {}, dirty |-> cache[e].dirty]
  BY <1>1 DEF AsArrived
<1>3. AsArrived(e, ok)[e] \in EntryStates(e)
  BY <1>1, <1>2 DEF EntryStates
<1>4. CacheTyped(AsArrived(e, ok))
  BY <1>1, <1>2, <1>3 DEF CacheTyped
<1>5. \E now : /\ now = Due(AsArrived(e, ok), writes, tags)
               /\ tags' = tags \ now
               /\ cache' = Invalidated(AsArrived(e, ok), screen, now)
  BY DEF Arrive, AsArrived
<1> QED BY <1>2, <1>4, <1>5 DEF Arrive


LEMMA WriteTyped ==
  ASSUME TypeOK, NEW i \in DOMAIN writes
  PROVE  writes[i] \in Writes /\ i \in Nat /\ DOMAIN writes = 1 .. Len(writes)
BY DEF TypeOK

LEMMA Handled ==
  ASSUME TypeOK, NEW i \in DOMAIN writes, Handle(i)
  PROVE  /\ writes' \in Seq(Writes) /\ DOMAIN writes' = DOMAIN writes
         /\ \A j \in DOMAIN writes : j # i => writes'[j] = writes[j]
         /\ writes'[i] = [writes[i] EXCEPT !.phase = "handled"]
         /\ writes'[i].phase = "handled" /\ writes'[i].kind = writes[i].kind
         /\ writes'[i].target = writes[i].target /\ writes'[i].want = writes[i].want
         /\ writes'[i].words = writes[i].words /\ writes'[i].here = writes[i].here
         /\ \A e \in Entries : Changes(writes'[i], e) = Changes(writes[i], e)
         /\ CacheTyped(cache')
         /\ \A e \in Entries :
              /\ cache'[e].status = cache[e].status /\ cache'[e].data = cache[e].data
              /\ cache'[e].answer = cache[e].answer
              /\ cache'[e].dirty => cache[e].dirty \/ Changes(writes[i], e)
<1>1. writes[i] \in Writes
  BY WriteTyped
<1> DEFINE w == [writes[i] EXCEPT !.phase = "handled"]
<1>2. /\ w \in Writes
      /\ w.phase = "handled" /\ w.kind = writes[i].kind
      /\ w.target = writes[i].target /\ w.want = writes[i].want
      /\ w.words = writes[i].words /\ w.here = writes[i].here
  BY <1>1 DEF Writes, Phases
<1>3. \A e \in Entries : Changes(w, e) = Changes(writes[i], e)
  <2> HIDE DEF w
  <2> QED BY <1>2, Zenon DEF Changes
<1>4. writes' = [writes EXCEPT ![i] = w]
  BY DEF Handle
<1>5. /\ writes' \in Seq(Writes) /\ DOMAIN writes' = DOMAIN writes
      /\ \A j \in DOMAIN writes : j # i => writes'[j] = writes[j]
      /\ writes'[i] = w
  <2> HIDE DEF w
  <2> QED BY <1>2, <1>4 DEF TypeOK
<1>6. DOMAIN cache' = Entries /\ \A e \in Entries :
        cache'[e] = [cache[e] EXCEPT !.dirty = cache[e].dirty \/ Changes(writes[i], e)]
  BY DEF Handle
<1>7. ASSUME NEW e \in Entries
      PROVE  /\ cache'[e] \in EntryStates(e)
             /\ cache'[e].status = cache[e].status /\ cache'[e].data = cache[e].data
             /\ cache'[e].answer = cache[e].answer
             /\ cache'[e].dirty => cache[e].dirty \/ Changes(writes[i], e)
  <2> DEFINE b == cache[e].dirty \/ Changes(writes[i], e)
  <2>1. cache[e] \in EntryStates(e)
    BY DEF TypeOK
  <2>2. b \in BOOLEAN
    OBVIOUS
  <2>3. cache'[e] = [cache[e] EXCEPT !.dirty = b]
    BY <1>6
  <2>4. cache'[e].dirty = b
    <3> HIDE DEF b
    <3> QED BY <2>1, <2>3 DEF EntryStates
  <2>5. /\ cache'[e] \in EntryStates(e)
        /\ cache'[e].status = cache[e].status /\ cache'[e].data = cache[e].data
        /\ cache'[e].answer = cache[e].answer
    <3> HIDE DEF b
    <3> QED BY <2>1, <2>2, <2>3 DEF EntryStates
  <2> QED BY <2>4, <2>5
<1> QED BY <1>2, <1>3, <1>5, <1>6, <1>7 DEF CacheTyped

LEMMA Finished ==
  ASSUME TypeOK, NEW i \in DOMAIN writes, NEW end \in {"done", "refused", "lost"},
         Finish(i, end)
  PROVE  /\ writes' \in Seq(Writes) /\ DOMAIN writes' = DOMAIN writes
         /\ \A j \in DOMAIN writes : j # i => writes'[j] = writes[j]
         /\ writes'[i].phase = end /\ writes'[i].kind = writes[i].kind
         /\ writes'[i].target = writes[i].target /\ writes'[i].want = writes[i].want
         /\ writes'[i].words = writes[i].words /\ writes'[i].here = writes[i].here
         /\ writes[i].phase = IF end = "refused" THEN "sent" ELSE "handled"
         /\ \E now : /\ now = Due(cache, writes', tags \cup Invalidates(writes[i]))
                     /\ tags' = (tags \cup Invalidates(writes[i])) \ now
                     /\ cache' = Invalidated(cache, screen, now)
         /\ composer' = IF end = "done" /\ writes[i].kind = "post" /\ writes[i].here
                        THEN {} ELSE composer
         /\ intent' = IF end # "done" /\ writes[i].kind = "watch"
                      THEN [intent EXCEPT ![writes[i].target] = {}] ELSE intent
<1>1. writes[i] \in Writes
  BY WriteTyped
<1> DEFINE w == [writes[i] EXCEPT !.phase = end]
<1>2. /\ w \in Writes
      /\ w.phase = end /\ w.kind = writes[i].kind
      /\ w.target = writes[i].target /\ w.want = writes[i].want
      /\ w.words = writes[i].words /\ w.here = writes[i].here
  BY <1>1 DEF Writes, Phases
<1>3. Invalidates(w) = Invalidates(writes[i])
  <2> HIDE DEF w
  <2> QED BY <1>2 DEF Invalidates
<1>4. writes' = [writes EXCEPT ![i] = w]
  BY DEF Finish
<1>5. /\ writes' \in Seq(Writes) /\ DOMAIN writes' = DOMAIN writes
      /\ \A j \in DOMAIN writes : j # i => writes'[j] = writes[j]
      /\ writes'[i] = w
  <2> HIDE DEF w
  <2> QED BY <1>2, <1>4 DEF TypeOK
<1>6. \E now : /\ now = Due(cache, writes', tags \cup Invalidates(w))
               /\ tags' = (tags \cup Invalidates(w)) \ now
               /\ cache' = Invalidated(cache, screen, now)
  <2>1. Settle(cache, writes', tags \cup Invalidates(w))
    BY DEF Finish
  <2> HIDE DEF w
  <2> QED BY <2>1 DEF Settle
<1>7. composer' = IF ComposerKept(w) THEN composer ELSE {}
  BY DEF Finish
<1>8. ComposerKept(w) <=> ~ (end = "done" /\ writes[i].kind = "post" /\ writes[i].here)
  <2> HIDE DEF w
  <2> QED BY <1>2, Zenon DEF ComposerKept
<1>9. composer' = IF end = "done" /\ writes[i].kind = "post" /\ writes[i].here
                  THEN {} ELSE composer
  <2> HIDE DEF w
  <2> QED BY <1>7, <1>8
<1>10. writes[i].phase = IF end = "refused" THEN "sent" ELSE "handled"
  BY DEF Finish
<1>11. intent' = IF end # "done" /\ w.kind = "watch"
                 THEN [intent EXCEPT ![w.target] = {}] ELSE intent
  BY DEF Finish
<1> QED
  <2> HIDE DEF w
  <2> QED BY <1>2, <1>3, <1>5, <1>6, <1>9, <1>10, <1>11


\* A write begins.
LEMMA Appended ==
  ASSUME TypeOK, NEW w \in Writes, writes' = Append(writes, w)
  PROVE  LET n == Len(writes) + 1 IN
         /\ writes' \in Seq(Writes) /\ n \in Nat /\ n \notin DOMAIN writes
         /\ DOMAIN writes' = DOMAIN writes \cup {n}
         /\ \A j \in DOMAIN writes : writes'[j] = writes[j]
         /\ writes'[n] = w
<1>1. writes \in Seq(Writes)
  BY DEF TypeOK
<1> QED BY <1>1

\* Every toggle is a click on one of the things watched, with a label.
LEMMA SomeToggle ==
  ASSUME TypeOK,
         (\E f \in Subforums : ToggleRow(f)) \/ ToggleSubforum \/ ToggleThread
  PROVE  \E x \in Watched, label \in BOOLEAN : Toggle(x, label)
<1>1. ASSUME NEW f \in Subforums, ToggleRow(f)
      PROVE  \E x \in Watched, label \in BOOLEAN : Toggle(x, label)
  <2>1. PICK data \in cache[ListSubforums].data : Toggle(f, data[f])
    BY <1>1 DEF ToggleRow
  <2>2. cache[ListSubforums] \in EntryStates(ListSubforums)
    BY DEF TypeOK, Entries
  <2>3. Covers(ListSubforums) = Subforums
    BY DEF Covers, ListSubforums, GetThread
  <2>4. data[f] \in BOOLEAN
    BY <2>1, <2>2, <2>3 DEF EntryStates, Answers
  <2> QED BY <2>1, <2>4 DEF Watched
<1>2. ASSUME ToggleSubforum
      PROVE  \E x \in Watched, label \in BOOLEAN : Toggle(x, label)
  <2>1. PICK shown \in held : Toggle(screen[2], shown.watching)
    BY <1>2 DEF ToggleSubforum
  <2>2. shown.watching \in BOOLEAN
    BY <2>1 DEF TypeOK
  <2>3. screen[2] \in Subforums
    BY <1>2, ScreenTypes DEF ToggleSubforum, TypeOK
  <2> QED BY <2>1, <2>2, <2>3 DEF Watched
<1>3. ASSUME ToggleThread
      PROVE  \E x \in Watched, label \in BOOLEAN : Toggle(x, label)
  <2>1. PICK data \in cache[GetThread].data : Toggle(Thread, data[Thread])
    BY <1>3 DEF ToggleThread
  <2>2. cache[GetThread] \in EntryStates(GetThread)
    BY DEF TypeOK, Entries
  <2>3. Covers(GetThread) = {Thread}
    BY DEF Covers, ListSubforums, GetThread
  <2>4. data[Thread] \in BOOLEAN
    BY <2>1, <2>2, <2>3 DEF EntryStates, Answers
  <2> QED BY <2>1, <2>4 DEF Watched
<1> QED BY <1>1, <1>2, <1>3

LEMMA Toggled ==
  ASSUME TypeOK, NEW x \in Watched, NEW label \in BOOLEAN, Toggle(x, label)
  PROVE  LET n == Len(writes) + 1 IN
         /\ writes' \in Seq(Writes) /\ n \in Nat /\ n \notin DOMAIN writes
         /\ DOMAIN writes' = DOMAIN writes \cup {n}
         /\ \A j \in DOMAIN writes : writes'[j] = writes[j]
         /\ writes'[n].kind = "watch" /\ writes'[n].target = x
         /\ writes'[n].want = ~ label /\ writes'[n].words = {}
         /\ writes'[n].phase = "sent" /\ writes'[n].here = TRUE
<1> DEFINE want == ~ label
           w == [kind |-> "watch", target |-> x, want |-> want, words |-> {},
                 phase |-> "sent", here |-> TRUE]
<1>1. writes' = Append(writes, w)
  BY DEF Toggle, Wants, Write
<1>2. want \in BOOLEAN
  OBVIOUS
<1>3. w \in Writes
  <2> HIDE DEF want
  <2> QED BY <1>2 DEF Writes, Kinds, Phases
<1>4. LET n == Len(writes) + 1 IN
      /\ writes' \in Seq(Writes) /\ n \in Nat /\ n \notin DOMAIN writes
      /\ DOMAIN writes' = DOMAIN writes \cup {n}
      /\ \A j \in DOMAIN writes : writes'[j] = writes[j]
      /\ writes'[n] = w
  <2> HIDE DEF w
  <2> QED BY <1>1, <1>3, Appended
<1> QED BY <1>4

LEMMA Submitted ==
  ASSUME TypeOK, Submit
  PROVE  LET n == Len(writes) + 1 IN
         /\ writes' \in Seq(Writes) /\ n \in Nat /\ n \notin DOMAIN writes
         /\ DOMAIN writes' = DOMAIN writes \cup {n}
         /\ \A j \in DOMAIN writes : writes'[j] = writes[j]
         /\ writes'[n].kind = "post" /\ writes'[n].words = composer
         /\ writes'[n].phase = "sent" /\ writes'[n].here = TRUE
<1> DEFINE w == [kind |-> "post", target |-> Thread, want |-> TRUE, words |-> composer,
                 phase |-> "sent", here |-> TRUE]
<1>1. writes' = Append(writes, w)
  BY DEF Submit, Write
<1>2. w \in Writes
  BY DEF Writes, Kinds, Phases, Watched, TypeOK
<1>3. LET n == Len(writes) + 1 IN
      /\ writes' \in Seq(Writes) /\ n \in Nat /\ n \notin DOMAIN writes
      /\ DOMAIN writes' = DOMAIN writes \cup {n}
      /\ \A j \in DOMAIN writes : writes'[j] = writes[j]
      /\ writes'[n] = w
  <2> HIDE DEF w
  <2> QED BY <1>1, <1>2, Appended
<1> QED BY <1>3

\* Another page: what was started on this one is no longer waited for there.
LEMMA Opened ==
  ASSUME TypeOK, NEW s \in Screens, Open(s)
  PROVE  /\ writes' \in Seq(Writes) /\ DOMAIN writes' = DOMAIN writes
         /\ \A j \in DOMAIN writes :
              /\ writes'[j].phase = writes[j].phase /\ writes'[j].kind = writes[j].kind
              /\ writes'[j].target = writes[j].target /\ writes'[j].want = writes[j].want
              /\ writes'[j].words = writes[j].words
              /\ writes'[j].here => writes[j].here /\ IsList(s) /\ IsList(screen)
<1> DEFINE stays == IsList(s) /\ IsList(screen)
<1>1. writes' = [j \in DOMAIN writes |-> [writes[j] EXCEPT !.here = writes[j].here /\ stays]]
  BY DEF Open
<1>2. ASSUME NEW j \in DOMAIN writes
      PROVE  /\ writes'[j] \in Writes
             /\ writes'[j].phase = writes[j].phase /\ writes'[j].kind = writes[j].kind
             /\ writes'[j].target = writes[j].target /\ writes'[j].want = writes[j].want
             /\ writes'[j].words = writes[j].words
             /\ writes'[j].here => writes[j].here /\ stays
  <2> DEFINE b == writes[j].here /\ stays
  <2>1. writes[j] \in Writes /\ b \in BOOLEAN
    BY WriteTyped
  <2>2. writes'[j] = [writes[j] EXCEPT !.here = b]
    BY <1>1
  <2> HIDE DEF b
  <2>3. /\ writes'[j] \in Writes /\ writes'[j].here = b
        /\ writes'[j].phase = writes[j].phase /\ writes'[j].kind = writes[j].kind
        /\ writes'[j].target = writes[j].target /\ writes'[j].want = writes[j].want
        /\ writes'[j].words = writes[j].words
    BY <2>1, <2>2 DEF Writes
  <2> QED BY <2>3 DEF b
<1>3. DOMAIN writes' = DOMAIN writes
  BY <1>1
<1>4. DOMAIN writes = 1 .. Len(writes) /\ Len(writes) \in Nat
  BY DEF TypeOK
<1>5. writes' = [j \in 1 .. Len(writes) |-> writes'[j]]
  BY <1>1, <1>4
<1>6. writes' \in Seq(Writes)
  BY <1>2, <1>4, <1>5
<1> QED BY <1>2, <1>3, <1>6


-----------------------------------------------------------------------------
(* Types.                                                                  *)

LEMMA StartCache ==
  ASSUME Init
  PROVE  /\ screen \in Screens /\ CacheTyped(cache)
         /\ \A e \in Entries :
              \/ cache[e] = Empty /\ e \notin Subscribed(screen)
              \/ cache[e] = Ask(Empty)
<1> DEFINE c == [e \in Entries |-> Empty]
<1>1. CacheTyped(c) /\ \A e \in Entries : c[e] = Empty
  BY EmptyTyped DEF CacheTyped
<1>2. cache = Mounted(c, screen) /\ screen \in Screens
  BY BoardAssumption DEF Init
<1>3. CacheTyped(cache)
  <2> HIDE DEF c
  <2> QED BY <1>1, <1>2, MountedEntries
<1>4. ASSUME NEW e \in Entries
      PROVE  \/ cache[e] = Empty /\ e \notin Subscribed(screen)
             \/ cache[e] = Ask(Empty)
  <2>1. ~ Pending(Empty) /\ Empty.data = {}
    BY DEF Pending, Empty
  <2> QED BY <1>1, <1>2, <2>1 DEF Mounted
<1> QED BY <1>2, <1>3, <1>4

LEMMA TypeInit == Init => TypeOK
<1> SUFFICES ASSUME Init PROVE TypeOK
  OBVIOUS
<1>1. screen \in Screens /\ CacheTyped(cache)
  BY StartCache
<1>2. watch \in [Watched -> BOOLEAN] /\ intent \in [Watched -> SUBSET BOOLEAN]
  BY DEF Init
<1>3. writes \in Seq(Writes) /\ posts \in Seq(SUBSET Nat)
  BY DEF Init
<1> QED BY <1>1, <1>2, <1>3, BoardAssumption DEF Init, TypeOK, CacheTyped

\* The parts of TypeOK that most steps leave alone.
LEMMA TypeDeeds ==
  ASSUME deeds \in 0 .. MaxDeeds, Deed \/ UNCHANGED deeds
  PROVE  deeds' \in 0 .. MaxDeeds
BY BoardAssumption DEF Deed

LEMMA TypeStep ==
  ASSUME TypeOK, [Next]_vars
  PROVE  TypeOK'
<1>1. ASSUME NEW e \in Entries, Serve(e) PROVE TypeOK'
  <2>1. CacheTyped(cache')
    BY <1>1, Served
  <2>2. held' \in SUBSET [of : Subforums, watching : BOOLEAN]
    BY <1>1, <2>1, RenderedTyped DEF Serve, TypeOK
  <2> QED BY <1>1, <2>1, <2>2 DEF Serve, TypeOK, CacheTyped, server
<1>2. ASSUME NEW e \in Entries, NEW ok \in BOOLEAN, Arrive(e, ok) PROVE TypeOK'
  <2>1. CacheTyped(cache') /\ tags' \subseteq tags
    BY <1>2, Arrived, InvalidatedEntries
  <2>2. held' \in SUBSET [of : Subforums, watching : BOOLEAN]
    BY <1>2, <2>1, RenderedTyped DEF Arrive, TypeOK
  <2>3. deeds' \in 0 .. MaxDeeds
    BY <1>2, TypeDeeds DEF Arrive, DeedIf, TypeOK
  <2> QED BY <1>2, <2>1, <2>2, <2>3 DEF Arrive, TypeOK, CacheTyped, server
<1>3. ASSUME NEW e \in Entries, Forget(e) PROVE TypeOK'
  <2>1. CacheTyped(cache')
    BY <1>3, EmptyTyped DEF Forget, TypeOK, CacheTyped
  <2> QED BY <1>3, <2>1 DEF Forget, TypeOK, CacheTyped, server
<1>4. ASSUME NEW i \in DOMAIN writes, Handle(i) PROVE TypeOK'
  <2>1. writes[i] \in Writes /\ writes' \in Seq(Writes) /\ CacheTyped(cache')
    BY <1>4, Handled, WriteTyped
  <2>2. watch' \in [Watched -> BOOLEAN]
    BY <1>4, <2>1 DEF Handle, TypeOK, Writes
  <2>3. posts' \in Seq(SUBSET Nat)
    BY <1>4, <2>1 DEF Handle, TypeOK, Writes
  <2> QED BY <1>4, <2>1, <2>2, <2>3 DEF Handle, TypeOK, CacheTyped
<1>5. ASSUME NEW i \in DOMAIN writes, NEW end \in {"done", "refused", "lost"},
             Finish(i, end)
      PROVE  TypeOK'
  <2>1. /\ writes' \in Seq(Writes) /\ CacheTyped(cache')
        /\ tags' \subseteq tags \cup Invalidates(writes[i])
        /\ composer' \subseteq composer
    <3>1. CacheTyped(cache)
      BY DEF TypeOK, CacheTyped
    <3>2. PICK now : /\ tags' = (tags \cup Invalidates(writes[i])) \ now
                     /\ cache' = Invalidated(cache, screen, now)
      BY <1>5, Finished
    <3>3. writes' \in Seq(Writes) /\ composer' \subseteq composer
      BY <1>5, Finished
    <3> QED BY <3>1, <3>2, <3>3, InvalidatedEntries
  <2>2. Invalidates(writes[i]) \subseteq {"Thread", "Post", "Subforum"}
    BY DEF Invalidates
  <2>3. held' \in SUBSET [of : Subforums, watching : BOOLEAN]
    BY <1>5, <2>1, RenderedTyped DEF Finish, TypeOK
  <2>4. deeds' \in 0 .. MaxDeeds
    BY <1>5, TypeDeeds DEF Finish, DeedIf, TypeOK
  <2>5. intent' \in [Watched -> SUBSET BOOLEAN]
    BY <1>5 DEF Finish, TypeOK
  <2>6. UNCHANGED <<watch, posts, screen, excused, typed>>
    BY <1>5 DEF Finish, server
  <2> QED BY <2>1, <2>2, <2>3, <2>4, <2>5, <2>6 DEF TypeOK, CacheTyped
<1>6. ASSUME NEW x \in Watched, NEW label \in BOOLEAN, Toggle(x, label) PROVE TypeOK'
  <2>1. writes' \in Seq(Writes)
    BY <1>6, Toggled
  <2>2. deeds' \in 0 .. MaxDeeds
    BY <1>6, TypeDeeds DEF Toggle, Write, TypeOK
  <2>3. intent' \in [Watched -> SUBSET BOOLEAN]
    <3> DEFINE want == ~ label
    <3>1. want \in BOOLEAN
      OBVIOUS
    <3>2. intent' = [intent EXCEPT ![x] = {}] \/ intent' = [intent EXCEPT ![x] = {want}]
      BY <1>6 DEF Toggle
    <3> HIDE DEF want
    <3> QED BY <3>1, <3>2 DEF TypeOK
  <2> QED BY <1>6, <2>1, <2>2, <2>3 DEF Toggle, TypeOK, server
<1>7. CASE Type
  <2>1. deeds' \in 0 .. MaxDeeds
    BY <1>7, TypeDeeds DEF Type, TypeOK
  <2>2. typed' = typed + 1 /\ 1 .. typed \subseteq 1 .. typed' /\ typed' \in 1 .. typed'
        /\ typed' \in Nat
    BY <1>7 DEF Type, TypeOK
  <2>3. composer' \in SUBSET (1 .. typed') /\ excused' \in SUBSET (1 .. typed')
    BY <1>7, <2>2 DEF Type, TypeOK
  <2> QED BY <1>7, <2>1, <2>2, <2>3 DEF Type, TypeOK, server
<1>8. CASE Submit
  <2>1. deeds' \in 0 .. MaxDeeds
    BY <1>8, TypeDeeds DEF Submit, Write, TypeOK
  <2> QED BY <1>8, <2>1, Submitted DEF Submit, TypeOK, server
<1>9. ASSUME NEW s \in Screens, Open(s) PROVE TypeOK'
  <2>1. CacheTyped(cache') /\ screen' = s
    BY <1>9, MountedEntries DEF Open, TypeOK, CacheTyped
  <2>2. held' \in SUBSET [of : Subforums, watching : BOOLEAN]
    <3>1. Rendered(held) \/ Rendered({})
      BY <1>9 DEF Open
    <3> QED BY <2>1, <3>1, RenderedTyped DEF TypeOK
  <2>3. deeds' \in 0 .. MaxDeeds
    BY <1>9, TypeDeeds DEF Open, TypeOK
  <2>4. writes' \in Seq(Writes)
    BY <1>9, Opened
  <2> QED BY <1>9, <2>1, <2>2, <2>3, <2>4 DEF Open, TypeOK, CacheTyped, server
<1>10. ASSUME NEW x \in Watched, Outside(x) PROVE TypeOK'
  <2>1. deeds' \in 0 .. MaxDeeds
    BY <1>10, TypeDeeds DEF Outside, TypeOK
  <2>2. watch' \in [Watched -> BOOLEAN] /\ intent' \in [Watched -> SUBSET BOOLEAN]
    BY <1>10 DEF Outside, TypeOK
  <2> QED BY <1>10, <2>1, <2>2 DEF Outside, TypeOK
<1>11. CASE UNCHANGED vars
  BY <1>11 DEF vars, server, TypeOK
<1> QED BY <1>1, <1>2, <1>3, <1>4, <1>5, <1>6, <1>7, <1>8, <1>9, <1>10, <1>11,
           SomeToggle DEF Next, Query, Mutation


-----------------------------------------------------------------------------
(* What the cache holds.                                                   *)

\* An entry that is empty, asked for again or as it was.
LEMMA EntriesKept ==
  ASSUME TypeOK, EntriesOK,
         \A e \in Entries : cache'[e] = cache[e] \/ cache'[e] = Ask(cache[e]) \/ cache'[e] = Empty
  PROVE  EntriesOK'
<1> SUFFICES ASSUME NEW e \in Entries
             PROVE  /\ cache'[e].status = "none" => cache'[e].data = {}
                    /\ cache'[e].status = "answered" => cache'[e].answer # {}
                    /\ cache'[e].status = "ready" => cache'[e].data # {}
  BY DEF EntriesOK
<1>1. cache[e] \in EntryStates(e)
  BY DEF TypeOK
<1>2. CASE cache'[e] = cache[e]
  BY <1>2 DEF EntriesOK
<1>3. CASE cache'[e] = Ask(cache[e])
  BY <1>1, <1>3, AskTyped
<1>4. CASE cache'[e] = Empty
  BY <1>4 DEF Empty
<1> QED BY <1>2, <1>3, <1>4

LEMMA EntriesStep ==
  ASSUME TypeOK, EntriesOK, [Next]_vars
  PROVE  EntriesOK'
<1>1. ASSUME NEW e \in Entries, Serve(e) PROVE EntriesOK'
  BY <1>1, Served DEF EntriesOK
<1>2. ASSUME NEW e \in Entries, NEW ok \in BOOLEAN, Arrive(e, ok) PROVE EntriesOK'
  <2> DEFINE c == AsArrived(e, ok)
  <2>1. CacheTyped(c)
    BY <1>2, Arrived
  <2>2. \A d \in Entries : /\ c[d].status = "none" => c[d].data = {}
                           /\ c[d].status = "answered" => c[d].answer # {}
                           /\ c[d].status = "ready" => c[d].data # {}
    <3>1. ASSUME NEW d \in Entries, d # e PROVE c[d] = cache[d]
      BY <1>2, <3>1, Arrived
    <3>2. /\ c[e].status = IF ok THEN "ready" ELSE "failed"
          /\ c[e].data = IF ok THEN cache[e].answer ELSE cache[e].data
          /\ cache[e].status = "answered"
      BY <1>2, Arrived
    <3> HIDE DEF c
    <3> QED BY <3>1, <3>2 DEF EntriesOK
  <2>3. \A d \in Entries : cache'[d] = c[d] \/ cache'[d] = Ask(c[d]) \/ cache'[d] = Empty
    BY <1>2, <2>1, Arrived, InvalidatedEntries
  <2> HIDE DEF c
  <2>4. ASSUME NEW d \in Entries
        PROVE  /\ cache'[d].status = "none" => cache'[d].data = {}
               /\ cache'[d].status = "answered" => cache'[d].answer # {}
               /\ cache'[d].status = "ready" => cache'[d].data # {}
    <3>1. CASE cache'[d] = c[d]
      BY <2>2, <3>1
    <3>2. CASE cache'[d] = Ask(c[d])
      BY <2>1, <3>2, AskTyped DEF CacheTyped
    <3>3. CASE cache'[d] = Empty
      BY <3>3 DEF Empty
    <3> QED BY <2>3, <3>1, <3>2, <3>3
  <2> QED BY <2>4 DEF EntriesOK
<1>3. ASSUME NEW e \in Entries, Forget(e) PROVE EntriesOK'
  BY <1>3, EntriesKept DEF Forget, TypeOK
<1>4. ASSUME NEW i \in DOMAIN writes, Handle(i) PROVE EntriesOK'
  BY <1>4, Handled DEF EntriesOK
<1>5. ASSUME NEW i \in DOMAIN writes, NEW end \in {"done", "refused", "lost"},
             Finish(i, end)
      PROVE  EntriesOK'
  <2>1. CacheTyped(cache)
    BY DEF TypeOK, CacheTyped
  <2>2. \E now : cache' = Invalidated(cache, screen, now)
    BY <1>5, Finished
  <2>3. \A e \in Entries :
          cache'[e] = cache[e] \/ cache'[e] = Ask(cache[e]) \/ cache'[e] = Empty
    BY <2>1, <2>2, InvalidatedEntries
  <2> QED BY <2>3, EntriesKept
<1>6. ASSUME NEW s \in Screens, Open(s) PROVE EntriesOK'
  <2>1. CacheTyped(cache)
    BY DEF TypeOK, CacheTyped
  <2>2. \A e \in Entries :
          cache'[e] = cache[e] \/ cache'[e] = Ask(cache[e]) \/ cache'[e] = Empty
    BY <1>6, <2>1, MountedEntries DEF Open
  <2> QED BY <2>2, EntriesKept
<1>7. CASE UNCHANGED cache
  BY <1>7, EntriesKept
<1> QED BY <1>1, <1>2, <1>3, <1>4, <1>5, <1>6, <1>7, SomeToggle
        DEF Next, Query, Mutation, Toggle, Type, Submit, Outside, vars

\* After a step that renders it, the page of a subforum that has its own answer
\* shows it.
LEMMA ShowsOwn ==
  ASSUME screen' \in Screens, EntriesOK', NEW before, Rendered(before), IsList(screen'),
         cache'[GetSubforum(screen'[2])].status = "ready"
  PROVE  \E shown \in held' : shown.of = screen'[2]
<1> DEFINE f == screen'[2]
           entry == cache'[GetSubforum(f)]
<1>1. GetSubforum(f) \in Entries
  BY ScreenTypes
<1>2. entry.data # {}
  BY <1>1 DEF EntriesOK
<1>3. held' = {[of |-> f, watching |-> data[f]] : data \in entry.data}
  BY <1>2 DEF Rendered, Holds
<1>4. PICK data \in entry.data : TRUE
  BY <1>2
<1>5. [of |-> f, watching |-> data[f]] \in held'
  BY <1>3, <1>4
<1> QED BY <1>5

LEMMA ScreenStep ==
  ASSUME TypeOK, TypeOK', EntriesOK, EntriesOK', ScreenOK, [Next]_vars
  PROVE  ScreenOK'
<1>1. CacheTyped(cache) /\ screen \in Screens /\ screen' \in Screens
  BY DEF TypeOK, CacheTyped
<1>2. Subscribed(screen) \subseteq Entries
  BY <1>1, ScreenTypes
\* A step that stays on the screen and renders it.
<1>3. ASSUME screen' = screen, Rendered(held),
             \A e \in Entries : \/ cache'[e].status # "none"
                                \/ cache'[e].status = cache[e].status
                                \/ e \notin Subscribed(screen)
      PROVE  ScreenOK'
  <2>1. \A e \in Subscribed(screen') : cache'[e].status # "none"
    BY <1>2, <1>3 DEF ScreenOK
  <2> QED BY <1>1, <2>1, <1>3, ShowsOwn DEF ScreenOK
<1>4. ASSUME NEW e \in Entries, Serve(e) PROVE ScreenOK'
  <2>1. \A d \in Entries : cache'[d].status # "none" \/ cache'[d].status = cache[d].status
    BY <1>4, Served
  <2> QED BY <1>3, <1>4, <2>1 DEF Serve
<1>5. ASSUME NEW e \in Entries, NEW ok \in BOOLEAN, Arrive(e, ok) PROVE ScreenOK'
  <2> DEFINE c == AsArrived(e, ok)
  <2>1. CacheTyped(c) /\ \A d \in Entries : c[d].status # "none" \/ c[d] = cache[d]
    BY <1>5, Arrived
  <2>2. \A d \in Entries : \/ cache'[d] = c[d] \/ cache'[d] = Ask(c[d])
                           \/ cache'[d] = Empty /\ d \notin Subscribed(screen)
    BY <1>5, <2>1, Arrived, InvalidatedEntries
  <2>3. \A d \in Entries : Ask(c[d]).status = "sent"
    BY <2>1, AskTyped DEF CacheTyped
  <2> HIDE DEF c
  <2>4. \A d \in Entries : \/ cache'[d].status # "none"
                           \/ cache'[d].status = cache[d].status
                           \/ d \notin Subscribed(screen)
    BY <2>1, <2>2, <2>3
  <2> QED BY <1>3, <1>5, <2>4 DEF Arrive
<1>6. ASSUME NEW e \in Entries, Forget(e) PROVE ScreenOK'
  <2>1. screen' = screen /\ held' = held /\ e \notin Subscribed(screen)
        /\ \A d \in Entries : d # e => cache'[d] = cache[d]
    BY <1>6 DEF Forget, TypeOK
  <2>2. IsList(screen) => GetSubforum(screen[2]) \in Subscribed(screen)
    BY <1>1, ScreenTypes
  <2> QED BY <1>2, <2>1, <2>2 DEF ScreenOK
<1>7. ASSUME NEW i \in DOMAIN writes, Handle(i) PROVE ScreenOK'
  <2>1. screen' = screen /\ held' = held
        /\ \A d \in Entries : cache'[d].status = cache[d].status
    BY <1>7, Handled DEF Handle
  <2>2. IsList(screen) => GetSubforum(screen[2]) \in Subscribed(screen)
    BY <1>1, ScreenTypes
  <2> QED BY <1>2, <2>1, <2>2 DEF ScreenOK
<1>8. ASSUME NEW i \in DOMAIN writes, NEW end \in {"done", "refused", "lost"},
             Finish(i, end)
      PROVE  ScreenOK'
  <2>1. \E now : cache' = Invalidated(cache, screen, now)
    BY <1>8, Finished
  <2>2. \A d \in Entries : \/ cache'[d] = cache[d] \/ cache'[d] = Ask(cache[d])
                           \/ cache'[d] = Empty /\ d \notin Subscribed(screen)
    BY <1>1, <2>1, InvalidatedEntries
  <2>3. \A d \in Entries : Ask(cache[d]).status = "sent"
    BY <1>1, AskTyped DEF CacheTyped
  <2>4. \A d \in Entries : \/ cache'[d].status # "none"
                           \/ cache'[d].status = cache[d].status
                           \/ d \notin Subscribed(screen)
    BY <2>2, <2>3
  <2> QED BY <1>3, <1>8, <2>4 DEF Finish
<1>9. ASSUME NEW s \in Screens, Open(s) PROVE ScreenOK'
  <2>1. screen' = s /\ cache' = Mounted(cache, s) /\ Subscribed(s) \subseteq Entries
    BY <1>9, ScreenTypes DEF Open
  <2>2. ASSUME NEW d \in Subscribed(s) PROVE cache'[d].status # "none"
    <3>1. cache[d] \in EntryStates(d) /\ d \in Entries
      BY <2>1 DEF TypeOK
    <3>2. CASE cache'[d] = cache[d] /\ (Pending(cache[d]) \/ cache[d].data # {})
      BY <3>1, <3>2 DEF Pending, EntriesOK
    <3>3. CASE cache'[d] = Ask(cache[d])
      BY <3>1, <3>3, AskTyped
    <3> QED BY <1>1, <2>1, <3>1, <3>2, <3>3, MountedEntries
  <2>3. Rendered(held) \/ Rendered({})
    BY <1>9 DEF Open
  <2> QED BY <1>1, <2>1, <2>2, <2>3, ShowsOwn DEF ScreenOK
<1>10. CASE UNCHANGED <<cache, screen, held>>
  BY <1>10 DEF ScreenOK
<1> QED BY <1>4, <1>5, <1>6, <1>7, <1>8, <1>9, <1>10, SomeToggle
        DEF Next, Query, Mutation, Toggle, Type, Submit, Outside, vars


\* When the last request of the tab ends, its tags are used up; until then a change
\* under an entry is named.
LEMMA StaleStep ==
  ASSUME TypeOK, StaleIsNamed, [Next]_vars
  PROVE  StaleIsNamed'
<1> DEFINE Stale(e) == cache[e].dirty /\ cache[e].status \in {"answered", "ready"}
           Handler(e) == \E i \in DOMAIN writes :
                           writes[i].phase = "handled" /\ Changes(writes[i], e)
<1>1. CacheTyped(cache) /\ screen \in Screens
  BY DEF TypeOK, CacheTyped
<1>2. /\ \A e \in Entries : Stale(e) => Tag(e) \in tags \/ Handler(e)
      /\ Quiet => tags = {}
  BY DEF StaleIsNamed
\* A step after which something is under way, or nothing more is.
<1>3. ASSUME Quiet' => tags' = {},
             \A e \in Entries : Stale(e)' => (Tag(e) \in tags)' \/ Handler(e)'
      PROVE  StaleIsNamed'
  BY <1>3 DEF StaleIsNamed
<1>4. ASSUME NEW e \in Entries, Serve(e) PROVE StaleIsNamed'
  <2>1. ~ Quiet'
    BY <1>4, Served DEF Quiet, Idle, Pending
  <2>2. \A d \in Entries : Stale(d)' => Stale(d)
    BY <1>4, Served
  <2>3. tags' = tags /\ writes' = writes
    BY <1>4 DEF Serve
  <2> QED BY <1>2, <1>3, <2>1, <2>2, <2>3
<1>5. ASSUME NEW e \in Entries, NEW ok \in BOOLEAN, Arrive(e, ok) PROVE StaleIsNamed'
  <2> DEFINE c == AsArrived(e, ok)
  <2>1. CacheTyped(c)
    BY <1>5, Arrived
  <2>2. /\ \A d \in Entries : d # e => c[d] = cache[d]
        /\ c[e].dirty = cache[e].dirty /\ cache[e].status = "answered"
    BY <1>5, Arrived
  <2>3. writes' = writes
    BY <1>5 DEF Arrive
  <2>4. PICK now : /\ now = Due(c, writes, tags)
                   /\ tags' = tags \ now
                   /\ cache' = Invalidated(c, screen, now)
    BY <1>5, Arrived
  <2> HIDE DEF c
  <2>5. /\ Quiet' => tags' = {}
        /\ \A d \in Entries : cache'[d].status \in {"answered", "ready"} =>
             cache'[d] = c[d] /\ (Tag(d) \in tags => Tag(d) \in tags')
    BY <1>1, <2>1, <2>3, <2>4, Settled
  <2>6. ASSUME NEW d \in Entries, Stale(d)' PROVE Tag(d) \in tags' \/ Handler(d)'
    <3>1. cache'[d] = c[d] /\ (Tag(d) \in tags => Tag(d) \in tags')
      BY <2>5, <2>6
    <3>2. Stale(d)
      BY <2>2, <2>6, <3>1
    <3> QED BY <1>2, <2>3, <3>1, <3>2
  <2> QED BY <1>3, <2>5, <2>6
<1>6. ASSUME NEW e \in Entries, Forget(e) PROVE StaleIsNamed'
  <2>1. /\ cache' = [cache EXCEPT ![e] = Empty] /\ DOMAIN cache = Entries
        /\ tags' = tags /\ writes' = writes /\ ~ Pending(cache[e]) /\ ~ Pending(Empty)
    BY <1>6 DEF Forget, TypeOK, Pending, Empty
  <2>2. \A d \in Entries : Pending(cache'[d]) <=> Pending(cache[d])
    BY <2>1
  <2>3. Quiet' => Quiet
    BY <2>1, <2>2 DEF Quiet, Idle
  <2>4. \A d \in Entries : Stale(d)' => Stale(d)
    BY <2>1 DEF Empty
  <2> QED BY <1>2, <1>3, <2>1, <2>3, <2>4
<1>7. ASSUME NEW i \in DOMAIN writes, Handle(i) PROVE StaleIsNamed'
  <2>1. /\ writes'[i].phase = "handled" /\ DOMAIN writes' = DOMAIN writes
        /\ \A j \in DOMAIN writes : j # i => writes'[j] = writes[j]
        /\ \A e \in Entries : Changes(writes'[i], e) = Changes(writes[i], e)
        /\ \A e \in Entries :
             /\ cache'[e].status = cache[e].status
             /\ cache'[e].dirty => cache[e].dirty \/ Changes(writes[i], e)
        /\ tags' = tags /\ writes[i].phase = "sent"
    BY <1>7, Handled DEF Handle
  <2>2. ~ Quiet'
    BY <2>1 DEF Quiet, Idle, Flying
  <2>3. ASSUME NEW e \in Entries, Stale(e)' PROVE Tag(e) \in tags' \/ Handler(e)'
    <3>1. CASE Changes(writes[i], e)
      BY <2>1, <3>1
    <3>2. CASE ~ Changes(writes[i], e)
      <4>1. Stale(e)
        BY <2>1, <2>3, <3>2
      <4>2. Handler(e) => Handler(e)'
        BY <2>1
      <4> QED BY <1>2, <2>1, <4>1, <4>2
    <3> QED BY <3>1, <3>2
  <2> QED BY <1>3, <2>2, <2>3
<1>8. ASSUME NEW i \in DOMAIN writes, NEW end \in {"done", "refused", "lost"},
             Finish(i, end)
      PROVE  StaleIsNamed'
  <2> DEFINE named == tags \cup Invalidates(writes[i])
  <2>1. /\ DOMAIN writes' = DOMAIN writes
        /\ \A j \in DOMAIN writes : j # i => writes'[j] = writes[j]
    BY <1>8, Finished
  <2>2. PICK now : /\ now = Due(cache, writes', named)
                   /\ tags' = named \ now
                   /\ cache' = Invalidated(cache, screen, now)
    BY <1>8, Finished
  <2> HIDE DEF named
  <2>3. /\ Quiet' => tags' = {}
        /\ \A d \in Entries : cache'[d].status \in {"answered", "ready"} =>
             cache'[d] = cache[d] /\ (Tag(d) \in named => Tag(d) \in tags')
    BY <1>1, <2>2, Settled
  <2>4. ASSUME NEW d \in Entries, Stale(d)' PROVE Tag(d) \in tags' \/ Handler(d)'
    <3>1. cache'[d] = cache[d] /\ (Tag(d) \in named => Tag(d) \in tags')
      BY <2>3, <2>4
    <3>2. CASE Tag(d) \in tags
      BY <3>1, <3>2 DEF named
    <3>3. ASSUME NEW j \in DOMAIN writes, writes[j].phase = "handled",
                 Changes(writes[j], d)
          PROVE  Tag(d) \in tags' \/ Handler(d)'
      <4>1. CASE j = i
        BY <3>1, <3>3, <4>1, ChangesAreNamed, WriteTyped DEF named
      <4>2. CASE j # i
        BY <2>1, <3>3, <4>2
      <4> QED BY <4>1, <4>2
    <3> QED BY <1>2, <2>4, <3>1, <3>2, <3>3
  <2> QED BY <1>3, <2>3, <2>4
\* A write begins: then nothing is quiet.
<1>9. ASSUME tags' = tags, cache' = cache, NEW n, DOMAIN writes' = DOMAIN writes \cup {n},
             \A j \in DOMAIN writes : writes'[j] = writes[j], writes'[n].phase = "sent"
      PROVE  StaleIsNamed'
  <2>1. ~ Quiet'
    BY <1>9 DEF Quiet, Idle, Flying
  <2>2. \A e \in Entries : (Stale(e)' => Stale(e)) /\ (Handler(e) => Handler(e)')
    BY <1>9
  <2> QED BY <1>2, <1>3, <1>9, <2>1, <2>2
<1>10. ASSUME NEW x \in Watched, NEW label \in BOOLEAN, Toggle(x, label)
       PROVE  StaleIsNamed'
  BY <1>9, <1>10, Toggled DEF Toggle
<1>11. CASE Submit
  BY <1>9, <1>11, Submitted DEF Submit
<1>12. ASSUME NEW s \in Screens, Open(s) PROVE StaleIsNamed'
  <2>1. /\ tags' = tags /\ DOMAIN writes' = DOMAIN writes
        /\ \A j \in DOMAIN writes :
             /\ writes'[j].phase = writes[j].phase /\ writes'[j].kind = writes[j].kind
             /\ writes'[j].target = writes[j].target
    BY <1>12, Opened DEF Open
  <2>2. \A e \in Entries : \/ cache'[e] = cache[e]
                           \/ cache'[e] = Ask(cache[e]) /\ ~ Pending(cache[e])
    BY <1>1, <1>12, MountedEntries DEF Open
  <2>3. \A e \in Entries : Ask(cache[e]).status = "sent" /\ Pending(Ask(cache[e]))
    BY <1>1, AskTyped DEF CacheTyped, Pending
  <2>4. Quiet' => Quiet
    <3>1. Flying(writes') = Flying(writes)
      BY <2>1 DEF Flying
    <3>2. \A e \in Entries : Pending(cache[e]) => Pending(cache'[e])
      BY <2>2
    <3> QED BY <3>1, <3>2 DEF Quiet, Idle
  <2>5. \A e \in Entries : Stale(e)' => Stale(e)
    BY <2>2, <2>3
  <2>6. \A e \in Entries, j \in DOMAIN writes :
          Changes(writes'[j], e) = Changes(writes[j], e)
    BY <2>1, Zenon DEF Changes
  <2>7. \A e \in Entries : Handler(e) => Handler(e)'
    BY <2>1, <2>6
  <2> QED BY <1>2, <1>3, <2>1, <2>4, <2>5, <2>7
<1>13. CASE UNCHANGED <<tags, cache, writes>>
  BY <1>13 DEF StaleIsNamed, Quiet
<1> QED BY <1>4, <1>5, <1>6, <1>7, <1>8, <1>10, <1>11, <1>12, <1>13, SomeToggle
        DEF Next, Query, Mutation, Type, Outside, vars


-----------------------------------------------------------------------------
(* What clicks leave behind.                                               *)

\* A step that handles no write and begins none.
LEMMA ClickKept ==
  ASSUME ClickOK, watch' = watch, DOMAIN writes' = DOMAIN writes,
         \A x \in Watched : intent'[x] \subseteq intent[x],
         \A x \in Watched : intent'[x] # {} => Unhandled(x)' = Unhandled(x),
         \A j \in DOMAIN writes : writes'[j].want = writes[j].want
  PROVE  ClickOK'
<1> SUFFICES ASSUME NEW x \in Watched, NEW v \in intent'[x]
             PROVE  /\ \A i \in Unhandled(x)' : writes'[i].want = v
                    /\ watch'[x] = v \/ Unhandled(x)' # {}
  BY DEF ClickOK
<1>1. v \in intent[x] /\ Unhandled(x)' = Unhandled(x)
  OBVIOUS
<1>2. \A i \in Unhandled(x) : i \in DOMAIN writes /\ writes'[i].want = writes[i].want
  BY DEF Unhandled
<1> QED BY <1>1, <1>2 DEF ClickOK

LEMMA ClickStep ==
  ASSUME TypeOK, ClickOK, [Next]_vars
  PROVE  ClickOK'
<1>1. ASSUME NEW i \in DOMAIN writes, Handle(i) PROVE ClickOK'
  <2>1. /\ DOMAIN writes' = DOMAIN writes
        /\ \A j \in DOMAIN writes : j # i => writes'[j] = writes[j]
        /\ writes'[i].phase = "handled" /\ writes[i].phase = "sent"
        /\ intent' = intent
        /\ writes[i] \in Writes
    BY <1>1, Handled, WriteTyped DEF Handle
  <2>2. \A x \in Watched : Unhandled(x)' = Unhandled(x) \ {i}
    BY <2>1 DEF Unhandled
  <2>3. ASSUME NEW x \in Watched, NEW v \in intent[x]
        PROVE  /\ \A j \in Unhandled(x)' : writes'[j].want = v
               /\ watch'[x] = v \/ Unhandled(x)' # {}
    <3>1. /\ \A j \in Unhandled(x) : writes[j].want = v
          /\ watch[x] = v \/ Unhandled(x) # {}
      BY <2>3 DEF ClickOK
    <3>2. \A j \in Unhandled(x)' : writes'[j].want = v
      BY <2>1, <2>2, <3>1 DEF Unhandled
    <3>3. CASE i \in Unhandled(x)
      <4>1. writes[i].kind = "watch" /\ writes[i].target = x /\ writes[i].want = v
        BY <3>1, <3>3 DEF Unhandled
      <4>2. watch'[x] = v
        BY <1>1, <4>1 DEF Handle, TypeOK
      <4> QED BY <3>2, <4>2
    <3>4. CASE i \notin Unhandled(x)
      <4>1. Unhandled(x)' = Unhandled(x)
        BY <2>2, <3>4
      <4>2. ~ (writes[i].kind = "watch" /\ writes[i].target = x)
        BY <2>1, <3>4 DEF Unhandled
      <4>3. watch'[x] = watch[x]
        BY <1>1, <2>1, <4>2 DEF Handle, TypeOK, Writes
      <4> QED BY <3>1, <3>2, <4>1, <4>3
    <3> QED BY <3>3, <3>4
  <2> QED BY <2>1, <2>3 DEF ClickOK
<1>2. ASSUME NEW i \in DOMAIN writes, NEW end \in {"done", "refused", "lost"},
             Finish(i, end)
      PROVE  ClickOK'
  <2>1. /\ DOMAIN writes' = DOMAIN writes
        /\ \A j \in DOMAIN writes : j # i => writes'[j] = writes[j]
        /\ writes'[i].phase = end /\ writes'[i].kind = writes[i].kind
        /\ writes'[i].target = writes[i].target /\ writes'[i].want = writes[i].want
        /\ writes[i].phase = IF end = "refused" THEN "sent" ELSE "handled"
        /\ watch' = watch
    BY <1>2, Finished DEF Finish, server
  <2>2. \A x \in Watched : intent'[x] \subseteq intent[x]
    BY <1>2 DEF Finish, TypeOK
  <2>3. ASSUME NEW x \in Watched, intent'[x] # {} PROVE Unhandled(x)' = Unhandled(x)
    <3>1. i \notin Unhandled(x)
      <4>1. ASSUME i \in Unhandled(x) PROVE FALSE
        <5>1. end = "refused" /\ writes[i].kind = "watch" /\ writes[i].target = x
          BY <2>1, <4>1 DEF Unhandled
        <5>2. intent' = [intent EXCEPT ![x] = {}]
          BY <1>2, <5>1, Finished
        <5> QED BY <2>3, <5>2 DEF TypeOK
      <4> QED BY <4>1
    <3>2. writes'[i].phase # "sent"
      BY <2>1
    <3> QED BY <2>1, <3>1, <3>2 DEF Unhandled
  <2> QED BY <2>1, <2>2, <2>3, ClickKept
<1>3. ASSUME NEW x \in Watched, NEW label \in BOOLEAN, Toggle(x, label) PROVE ClickOK'
  <2> DEFINE n == Len(writes) + 1
             want == ~ label
             opposed == \E i \in Flying(writes) :
                          /\ writes[i].kind = "watch" /\ writes[i].target = x
                          /\ writes[i].want # want
  <2>1. /\ n \notin DOMAIN writes
        /\ DOMAIN writes' = DOMAIN writes \cup {n}
        /\ \A j \in DOMAIN writes : writes'[j] = writes[j]
        /\ writes'[n].kind = "watch" /\ writes'[n].target = x
        /\ writes'[n].want = want
        /\ writes'[n].phase = "sent"
    BY <1>3, Toggled
  <2>2. watch' = watch /\ intent' = [intent EXCEPT ![x] = IF opposed THEN {} ELSE {want}]
    BY <1>3 DEF Toggle, server, Wants
  <2>3. Unhandled(x)' = Unhandled(x) \cup {n}
    <3> HIDE DEF n, want
    <3> QED BY <2>1 DEF Unhandled
  <2>4. \A y \in Watched : y # x => Unhandled(y)' = Unhandled(y)
    <3> HIDE DEF n, want
    <3> QED BY <2>1 DEF Unhandled
  <2>5. ASSUME NEW y \in Watched, y # x, NEW v \in intent'[y]
        PROVE  /\ \A i \in Unhandled(y)' : writes'[i].want = v
               /\ watch'[y] = v \/ Unhandled(y)' # {}
    <3>1. v \in intent[y]
      BY <2>2, <2>5 DEF TypeOK
    <3>2. \A i \in Unhandled(y) : writes'[i] = writes[i]
      BY <2>1 DEF Unhandled
    <3> QED BY <2>2, <2>4, <2>5, <3>1, <3>2 DEF ClickOK
  <2>6. ASSUME NEW v \in intent'[x]
        PROVE  \A i \in Unhandled(x)' : writes'[i].want = v
    <3>1. ~ opposed /\ v = want
      <4> HIDE DEF want, opposed
      <4> QED BY <2>2, <2>6 DEF TypeOK
    <3>2. ASSUME NEW i \in Unhandled(x) PROVE writes'[i].want = want
      <4>1. /\ i \in DOMAIN writes /\ i \in Flying(writes)
            /\ writes[i].kind = "watch" /\ writes[i].target = x
        BY DEF Unhandled, Flying
      <4>2. writes[i].want = want
        <5> HIDE DEF want
        <5> QED BY <3>1, <4>1
      <4> QED
        <5> HIDE DEF want
        <5> QED BY <2>1, <4>1, <4>2
    <3> HIDE DEF want, opposed, n
    <3> QED BY <2>1, <2>3, <3>1, <3>2
  <2>7. Unhandled(x)' # {}
    BY <2>3
  <2> QED BY <2>5, <2>6, <2>7 DEF ClickOK
<1>4. CASE Submit
  <2> DEFINE n == Len(writes) + 1
  <2>1. /\ n \notin DOMAIN writes
        /\ DOMAIN writes' = DOMAIN writes \cup {n}
        /\ \A j \in DOMAIN writes : writes'[j] = writes[j]
        /\ writes'[n].kind = "post"
        /\ watch' = watch /\ intent' = intent
    BY <1>4, Submitted DEF Submit, server
  <2> HIDE DEF n
  <2>2. \A x \in Watched : Unhandled(x)' = Unhandled(x)
    BY <2>1 DEF Unhandled
  <2>3. \A x \in Watched : \A i \in Unhandled(x) : writes'[i] = writes[i]
    BY <2>1 DEF Unhandled
  <2> QED BY <2>1, <2>2, <2>3 DEF ClickOK
<1>5. ASSUME NEW s \in Screens, Open(s) PROVE ClickOK'
  <2>1. /\ DOMAIN writes' = DOMAIN writes /\ watch' = watch /\ intent' = intent
        /\ \A j \in DOMAIN writes :
             /\ writes'[j].phase = writes[j].phase /\ writes'[j].kind = writes[j].kind
             /\ writes'[j].target = writes[j].target /\ writes'[j].want = writes[j].want
    BY <1>5, Opened DEF Open, server
  <2>2. \A x \in Watched : Unhandled(x)' = Unhandled(x)
    BY <2>1 DEF Unhandled
  <2> QED BY <2>1, <2>2, ClickKept
<1>6. ASSUME NEW x \in Watched, Outside(x) PROVE ClickOK'
  <2>1. writes' = writes /\ watch' = [watch EXCEPT ![x] = ~ watch[x]]
        /\ intent' = [intent EXCEPT ![x] = {}]
    BY <1>6 DEF Outside
  <2>2. \A y \in Watched : Unhandled(y)' = Unhandled(y)
    BY <2>1 DEF Unhandled
  <2>3. ASSUME NEW y \in Watched, NEW v \in intent'[y]
        PROVE  /\ \A i \in Unhandled(y)' : writes'[i].want = v
               /\ watch'[y] = v \/ Unhandled(y)' # {}
    <3>1. y # x /\ v \in intent[y] /\ watch'[y] = watch[y]
      BY <2>1, <2>3 DEF TypeOK
    <3> QED BY <2>1, <2>2, <2>3, <3>1 DEF ClickOK
  <2> QED BY <2>3 DEF ClickOK
<1>7. CASE UNCHANGED <<watch, intent, writes>>
  BY <1>7 DEF ClickOK, Unhandled
<1> QED BY <1>1, <1>2, <1>3, <1>4, <1>5, <1>6, <1>7, SomeToggle
        DEF Next, Query, Mutation, Serve, Arrive, Forget, Type, vars, server


-----------------------------------------------------------------------------
(* What becomes of a draft.                                                *)

DraftInv == DraftOK /\ WordLostHasCause

\* The posts on their way after each step.
LEMMA PostsHandled ==
  ASSUME TypeOK, NEW i \in DOMAIN writes, Handle(i)
  PROVE  /\ FlyingPosts' = FlyingPosts /\ HerePosts' = HerePosts
         /\ SentPosts' = SentPosts \ {i}
         /\ writes[i].kind = "post" => i \in SentPosts
         /\ PostLost' = PostLost
         /\ \A j \in DOMAIN writes :
              writes'[j].words = writes[j].words /\ writes'[j].here = writes[j].here
<1>1. /\ DOMAIN writes' = DOMAIN writes
      /\ \A j \in DOMAIN writes : j # i => writes'[j] = writes[j]
      /\ writes'[i].phase = "handled" /\ writes'[i].kind = writes[i].kind
      /\ writes'[i].words = writes[i].words /\ writes'[i].here = writes[i].here
      /\ writes[i].phase = "sent"
  BY Handled DEF Handle
<1>2. \A j \in DOMAIN writes : writes'[j].words = writes[j].words
  BY <1>1
<1>3. \A j \in DOMAIN writes : writes'[j].here = writes[j].here
  BY <1>1
<1>4. Flying(writes') = Flying(writes)
  BY <1>1 DEF Flying
<1>5. FlyingPosts' = FlyingPosts
  BY <1>1, <1>4 DEF FlyingPosts, Flying
<1>6. HerePosts' = HerePosts
  BY <1>3, <1>5 DEF HerePosts, FlyingPosts, Flying
<1>7. SentPosts' = SentPosts \ {i}
  BY <1>1, <1>5 DEF SentPosts, FlyingPosts, Flying
<1>8. PostLost' = PostLost
  BY <1>1 DEF PostLost
<1> QED BY <1>1, <1>2, <1>3, <1>5, <1>6, <1>7, <1>8 DEF SentPosts, FlyingPosts, Flying

LEMMA PostsFinished ==
  ASSUME TypeOK, NEW i \in DOMAIN writes, NEW end \in {"done", "refused", "lost"},
         Finish(i, end)
  PROVE  /\ FlyingPosts' = FlyingPosts \ {i} /\ HerePosts' = HerePosts \ {i}
         /\ SentPosts' = SentPosts \ {i}
         /\ writes[i].kind = "post" => i \in FlyingPosts
         /\ \A j \in DOMAIN writes : writes'[j].words = writes[j].words
         /\ \A j \in DOMAIN writes : writes'[j].here = writes[j].here
         /\ \A j \in DOMAIN writes : j # i => writes'[j] = writes[j]
         /\ ~ PostLost' => ~ PostLost /\ ~ (end = "lost" /\ writes[i].kind = "post")
<1>1. /\ DOMAIN writes' = DOMAIN writes
      /\ \A j \in DOMAIN writes : j # i => writes'[j] = writes[j]
      /\ writes'[i].phase = end /\ writes'[i].kind = writes[i].kind
      /\ writes'[i].words = writes[i].words /\ writes'[i].here = writes[i].here
      /\ writes[i].phase = IF end = "refused" THEN "sent" ELSE "handled"
  BY Finished
<1>2. \A j \in DOMAIN writes : writes'[j].words = writes[j].words
  BY <1>1
<1>3. \A j \in DOMAIN writes : writes'[j].here = writes[j].here
  BY <1>1
<1>4. FlyingPosts' = FlyingPosts \ {i}
  BY <1>1 DEF FlyingPosts, Flying
<1>5. HerePosts' = HerePosts \ {i}
  BY <1>3, <1>4 DEF HerePosts, FlyingPosts, Flying
<1>6. SentPosts' = SentPosts \ {i}
  BY <1>1, <1>4 DEF SentPosts, FlyingPosts, Flying
<1>7. ~ PostLost' => ~ PostLost /\ ~ (end = "lost" /\ writes[i].kind = "post")
  BY <1>1 DEF PostLost
<1>8. writes[i].kind = "post" => i \in FlyingPosts
  BY <1>1 DEF FlyingPosts, Flying
<1> QED BY <1>1, <1>2, <1>3, <1>4, <1>5, <1>6, <1>7, <1>8

LEMMA PostsToggled ==
  ASSUME TypeOK, NEW x \in Watched, NEW label \in BOOLEAN, Toggle(x, label)
  PROVE  /\ FlyingPosts' = FlyingPosts /\ HerePosts' = HerePosts
         /\ SentPosts' = SentPosts /\ PostLost' = PostLost
         /\ DOMAIN writes \subseteq DOMAIN writes'
         /\ \A j \in DOMAIN writes : writes'[j] = writes[j]
         /\ \A j \in DOMAIN writes' : j \notin DOMAIN writes => writes'[j].words = {}
<1> DEFINE n == Len(writes) + 1
<1>1. /\ n \notin DOMAIN writes /\ DOMAIN writes' = DOMAIN writes \cup {n}
      /\ \A j \in DOMAIN writes : writes'[j] = writes[j]
      /\ writes'[n].kind = "watch" /\ writes'[n].words = {}
  BY Toggled
<1> HIDE DEF n
<1>2. FlyingPosts' = FlyingPosts
  BY <1>1 DEF FlyingPosts, Flying
<1>3. HerePosts' = HerePosts /\ SentPosts' = SentPosts
  BY <1>1, <1>2 DEF HerePosts, SentPosts, FlyingPosts, Flying
<1>4. PostLost' = PostLost
  BY <1>1 DEF PostLost
<1> QED BY <1>1, <1>2, <1>3, <1>4

LEMMA PostsSubmitted ==
  ASSUME TypeOK, Submit
  PROVE  LET n == Len(writes) + 1 IN
         /\ FlyingPosts' = FlyingPosts \cup {n}
         /\ HerePosts = {} /\ HerePosts' = {n}
         /\ SentPosts' = SentPosts \cup {n} /\ PostLost' = PostLost
         /\ n \notin DOMAIN writes /\ DOMAIN writes' = DOMAIN writes \cup {n}
         /\ \A j \in DOMAIN writes : writes'[j] = writes[j]
         /\ writes'[n].kind = "post"
         /\ writes'[n].words = composer /\ writes'[n].here = TRUE
<1> DEFINE n == Len(writes) + 1
<1>1. /\ n \notin DOMAIN writes /\ DOMAIN writes' = DOMAIN writes \cup {n}
      /\ \A j \in DOMAIN writes : writes'[j] = writes[j]
      /\ writes'[n].kind = "post" /\ writes'[n].words = composer
      /\ writes'[n].phase = "sent" /\ writes'[n].here = TRUE
  BY Submitted
<1>2. HerePosts = {}
  BY DEF Submit, Posting, Busy, HerePosts, FlyingPosts
<1> HIDE DEF n
<1>3. FlyingPosts' = FlyingPosts \cup {n}
  BY <1>1 DEF FlyingPosts, Flying
<1>4. HerePosts' = {n}
  BY <1>1, <1>2, <1>3 DEF HerePosts, FlyingPosts, Flying
<1>5. SentPosts' = SentPosts \cup {n}
  BY <1>1, <1>3 DEF SentPosts, FlyingPosts, Flying
<1>6. PostLost' = PostLost
  BY <1>1 DEF PostLost
<1> QED BY <1>1, <1>2, <1>3, <1>4, <1>5, <1>6 DEF n

LEMMA PostsOpened ==
  ASSUME TypeOK, DraftOK, NEW s \in Screens, Open(s)
  PROVE  /\ FlyingPosts' = FlyingPosts /\ HerePosts' = {}
         /\ SentPosts' = SentPosts /\ PostLost' = PostLost
         /\ DOMAIN writes' = DOMAIN writes
         /\ \A j \in DOMAIN writes : writes'[j].words = writes[j].words
         /\ \A j \in DOMAIN writes : writes'[j].phase = writes[j].phase
         /\ \A j \in DOMAIN writes : writes'[j].kind = writes[j].kind
<1>1. /\ DOMAIN writes' = DOMAIN writes
      /\ \A j \in DOMAIN writes :
           /\ writes'[j].phase = writes[j].phase /\ writes'[j].kind = writes[j].kind
           /\ writes'[j].words = writes[j].words
           /\ writes'[j].here => writes[j].here /\ IsList(screen)
  BY Opened
<1>2. FlyingPosts' = FlyingPosts
  BY <1>1 DEF FlyingPosts, Flying
<1>3. SentPosts' = SentPosts
  BY <1>1, <1>2 DEF SentPosts, FlyingPosts, Flying
<1>4. HerePosts' = {}
  <2>1. \A j \in HerePosts' : j \in HerePosts /\ IsList(screen)
    BY <1>1, <1>2 DEF HerePosts, FlyingPosts, Flying
  <2>2. \A j \in HerePosts : screen = Detail
    BY DEF DraftOK
  <2>3. ~ IsList(Detail)
    BY DEF IsList, Detail
  <2> QED BY <2>1, <2>2, <2>3
<1>5. PostLost' = PostLost
  BY <1>1 DEF PostLost
<1> QED BY <1>1, <1>2, <1>3, <1>4, <1>5


\* DraftInv, with its words spelled out for a step.
LEMMA DraftByParts ==
  ASSUME \A i, j \in HerePosts' : i = j,
         \A i \in HerePosts' : /\ screen' = Detail /\ writes'[i].words \subseteq composer'
                               /\ composer' \subseteq writes'[i].words \cup excused',
         \A i \in FlyingPosts' : ~ writes'[i].here => writes'[i].words \subseteq excused',
         \A i \in DOMAIN writes' :
           writes'[i].words \subseteq (IF writes'[i].kind = "post" THEN 1 .. typed' ELSE {}),
         \A k \in DOMAIN posts' : posts'[k] \subseteq 1 .. typed',
         \A word \in 1 .. typed' :
           \/ word \in composer' \cup excused'
           \/ \E i \in DOMAIN writes' : word \in writes'[i].words /\ writes'[i].phase # "refused"
  PROVE  DraftInv'
BY DEF DraftInv, DraftOK, WordLostHasCause

LEMMA DraftStep ==
  ASSUME TypeOK, DraftInv, [Next]_vars
  PROVE  DraftInv'
<1>1. /\ \A i, j \in HerePosts : i = j
      /\ \A i \in HerePosts : /\ screen = Detail /\ writes[i].words \subseteq composer
                              /\ composer \subseteq writes[i].words \cup excused
      /\ \A i \in FlyingPosts : ~ writes[i].here => writes[i].words \subseteq excused
      /\ \A i \in DOMAIN writes :
           writes[i].words \subseteq (IF writes[i].kind = "post" THEN 1 .. typed ELSE {})
      /\ \A i \in DOMAIN writes : writes[i].words \subseteq 1 .. typed
      /\ \A k \in DOMAIN posts : posts[k] \subseteq 1 .. typed
      /\ \A word \in 1 .. typed :
           \/ word \in composer \cup excused
           \/ \E i \in DOMAIN writes : word \in writes[i].words /\ writes[i].phase # "refused"
      /\ FlyingPosts \subseteq DOMAIN writes /\ HerePosts \subseteq FlyingPosts
      /\ composer \subseteq 1 .. typed /\ typed \in Nat
  BY DEF DraftInv, DraftOK, WordLostHasCause, FlyingPosts, HerePosts, Flying, TypeOK
<1>2. ASSUME NEW i \in DOMAIN writes, Handle(i) PROVE DraftInv'
  <2>1. /\ DOMAIN writes' = DOMAIN writes
        /\ \A j \in DOMAIN writes : j # i => writes'[j] = writes[j]
        /\ writes'[i].phase = "handled" /\ writes'[i].kind = writes[i].kind
        /\ UNCHANGED <<screen, composer, excused, typed>>
    BY <1>2, Handled DEF Handle
  <2>2. /\ FlyingPosts' = FlyingPosts /\ HerePosts' = HerePosts
        /\ \A j \in DOMAIN writes : writes'[j].words = writes[j].words
        /\ \A j \in DOMAIN writes : writes'[j].here = writes[j].here
    BY <1>2, PostsHandled
  <2>3. \A k \in DOMAIN posts' : posts'[k] \subseteq 1 .. typed
    <3>1. posts' = posts \/ posts' = Append(posts, writes[i].words)
      BY <1>2 DEF Handle
    <3>2. posts \in Seq(SUBSET Nat) /\ writes[i].words \in SUBSET Nat
      BY WriteTyped DEF TypeOK, Writes
    <3> QED BY <1>1, <3>1, <3>2
  <2>4. \A word \in 1 .. typed :
          \/ word \in composer \cup excused
          \/ \E j \in DOMAIN writes : word \in writes'[j].words /\ writes'[j].phase # "refused"
    BY <1>1, <2>1, <2>2
  <2>5. \A j \in DOMAIN writes : writes'[j].kind = writes[j].kind
    BY <2>1
  <2> QED BY <1>1, <2>1, <2>2, <2>3, <2>4, <2>5, DraftByParts
<1>3. ASSUME NEW i \in DOMAIN writes, NEW end \in {"done", "refused", "lost"},
             Finish(i, end)
      PROVE  DraftInv'
  <2>1. /\ DOMAIN writes' = DOMAIN writes /\ writes'[i].phase = end
        /\ writes'[i].kind = writes[i].kind
        /\ UNCHANGED <<posts, screen, excused, typed>>
        /\ composer' = IF end = "done" /\ writes[i].kind = "post" /\ writes[i].here
                       THEN {} ELSE composer
    BY <1>3, Finished DEF Finish, server
  <2>2. /\ FlyingPosts' = FlyingPosts \ {i} /\ HerePosts' = HerePosts \ {i}
        /\ writes[i].kind = "post" => i \in FlyingPosts
        /\ \A j \in DOMAIN writes : writes'[j].words = writes[j].words
        /\ \A j \in DOMAIN writes : writes'[j].here = writes[j].here
        /\ \A j \in DOMAIN writes : j # i => writes'[j] = writes[j]
    BY <1>3, PostsFinished
  <2>3. writes[i].kind = "post" /\ writes[i].here => i \in HerePosts
    BY <2>2 DEF HerePosts
  <2>4. writes[i].words \subseteq composer \cup excused \/ writes[i].kind = "watch"
    <3>1. writes[i].kind \in {"watch", "post"}
      BY WriteTyped DEF Writes, Kinds
    <3> QED BY <1>1, <2>2, <2>3, <3>1
  <2>5. \A j \in HerePosts' : /\ screen' = Detail /\ writes'[j].words \subseteq composer'
                              /\ composer' \subseteq writes'[j].words \cup excused'
    <3>1. CASE end = "done" /\ writes[i].kind = "post" /\ writes[i].here
      BY <1>1, <2>2, <2>3, <3>1
    <3>2. CASE ~ (end = "done" /\ writes[i].kind = "post" /\ writes[i].here)
      BY <1>1, <2>1, <2>2, <3>2
    <3> QED BY <3>1, <3>2
  <2>6. ASSUME NEW word \in 1 .. typed
        PROVE  \/ word \in composer' \cup excused
               \/ \E j \in DOMAIN writes : word \in writes'[j].words /\ writes'[j].phase # "refused"
    <3>1. CASE word \in composer \cup excused
      <4>1. CASE composer' = composer
        BY <3>1, <4>1
      <4>2. CASE end = "done" /\ writes[i].kind = "post" /\ writes[i].here
        BY <1>1, <2>1, <2>2, <2>3, <3>1, <4>2
      <4> QED BY <2>1, <4>1, <4>2
    <3>2. ASSUME word \notin composer \cup excused,
                 NEW j \in DOMAIN writes, word \in writes[j].words, writes[j].phase # "refused"
          PROVE  \E k \in DOMAIN writes : word \in writes'[k].words /\ writes'[k].phase # "refused"
      <4>1. CASE j # i
        BY <2>2, <3>2, <4>1
      <4>2. CASE j = i /\ end # "refused"
        BY <2>1, <2>2, <3>2, <4>2
      <4>3. CASE j = i /\ end = "refused"
        <5>1. writes[i].kind = "watch" => writes[i].words = {}
          BY <1>1
        <5> QED BY <2>4, <3>2, <4>3, <5>1
      <4> QED BY <4>1, <4>2, <4>3
    <3> QED BY <1>1, <3>1, <3>2
  <2>7. \A j \in DOMAIN writes : writes'[j].kind = writes[j].kind
    BY <2>1, <2>2
  <2> QED BY <1>1, <2>1, <2>2, <2>5, <2>6, <2>7, DraftByParts
<1>4. ASSUME NEW x \in Watched, NEW label \in BOOLEAN, Toggle(x, label) PROVE DraftInv'
  <2>1. UNCHANGED <<posts, screen, composer, excused, typed>>
    BY <1>4 DEF Toggle, server
  <2>2. /\ FlyingPosts' = FlyingPosts /\ HerePosts' = HerePosts
        /\ DOMAIN writes \subseteq DOMAIN writes'
        /\ \A j \in DOMAIN writes : writes'[j] = writes[j]
        /\ \A j \in DOMAIN writes' : j \notin DOMAIN writes => writes'[j].words = {}
    BY <1>4, PostsToggled
  <2>3. \A word \in 1 .. typed :
          \/ word \in composer \cup excused
          \/ \E j \in DOMAIN writes' : word \in writes'[j].words /\ writes'[j].phase # "refused"
    BY <1>1, <2>2
  <2>4. \A j \in DOMAIN writes' :
          writes'[j].words \subseteq (IF writes'[j].kind = "post" THEN 1 .. typed ELSE {})
    BY <1>1, <2>2
  <2>5. \A j \in FlyingPosts : writes'[j] = writes[j]
    BY <1>1, <2>2
  <2> QED BY <1>1, <2>1, <2>2, <2>3, <2>4, <2>5, DraftByParts
<1>5. CASE Type
  <2>1. /\ typed' = typed + 1 /\ composer' = composer \cup {typed'}
        /\ excused' = IF Busy("post") THEN excused \cup {typed'} ELSE excused
        /\ UNCHANGED <<posts, screen, writes>>
    BY <1>5 DEF Type, server
  <2>2. /\ FlyingPosts' = FlyingPosts /\ HerePosts' = HerePosts
        /\ \A word \in 1 .. typed' : word \in 1 .. typed \/ word = typed'
        /\ 1 .. typed \subseteq 1 .. typed'
    BY <1>1, <2>1 DEF FlyingPosts, HerePosts
  <2>3. HerePosts # {} => Busy("post")
    BY DEF HerePosts, FlyingPosts, Busy
  <2> QED BY <1>1, <2>1, <2>2, <2>3, DraftByParts
<1>6. CASE Submit
  <2> DEFINE n == Len(writes) + 1
  <2>1. /\ FlyingPosts' = FlyingPosts \cup {n} /\ HerePosts' = {n}
        /\ n \notin DOMAIN writes /\ DOMAIN writes' = DOMAIN writes \cup {n}
        /\ \A j \in DOMAIN writes : writes'[j] = writes[j]
        /\ writes'[n].kind = "post"
        /\ writes'[n].words = composer /\ writes'[n].here = TRUE
    BY <1>6, PostsSubmitted
  <2>2. UNCHANGED <<posts, screen, composer, excused, typed>> /\ screen = Detail
    BY <1>6 DEF Submit, server
  <2> HIDE DEF n
  <2>3. \A j \in FlyingPosts' : ~ writes'[j].here => writes'[j].words \subseteq excused
    BY <1>1, <2>1
  <2>4. \A j \in DOMAIN writes' :
          writes'[j].words \subseteq (IF writes'[j].kind = "post" THEN 1 .. typed ELSE {})
    BY <1>1, <2>1
  <2>5. \A word \in 1 .. typed :
          \/ word \in composer \cup excused
          \/ \E j \in DOMAIN writes' : word \in writes'[j].words /\ writes'[j].phase # "refused"
    BY <1>1, <2>1
  <2> QED BY <1>1, <2>1, <2>2, <2>3, <2>4, <2>5, DraftByParts
<1>7. ASSUME NEW s \in Screens, Open(s) PROVE DraftInv'
  <2>1. /\ composer' = {} /\ excused' = excused \cup composer
        /\ UNCHANGED <<posts, typed>>
    BY <1>7 DEF Open, server
  <2>2. /\ FlyingPosts' = FlyingPosts /\ HerePosts' = {}
        /\ DOMAIN writes' = DOMAIN writes
        /\ \A j \in DOMAIN writes : writes'[j].words = writes[j].words
        /\ \A j \in DOMAIN writes : writes'[j].phase = writes[j].phase
        /\ \A j \in DOMAIN writes : writes'[j].kind = writes[j].kind
    BY <1>7, PostsOpened DEF DraftInv
  <2>3. \A j \in FlyingPosts : writes[j].words \subseteq composer \cup excused
    BY <1>1 DEF HerePosts
  <2>4. \A word \in 1 .. typed :
          \/ word \in composer' \cup excused'
          \/ \E j \in DOMAIN writes' : word \in writes'[j].words /\ writes'[j].phase # "refused"
    BY <1>1, <2>1, <2>2
  <2> QED BY <1>1, <2>1, <2>2, <2>3, <2>4, DraftByParts
<1>8. CASE UNCHANGED <<posts, screen, writes, composer, excused, typed>>
  BY <1>8 DEF DraftInv, DraftOK, WordLostHasCause, HerePosts, FlyingPosts
<1> QED BY <1>2, <1>3, <1>4, <1>5, <1>6, <1>7, <1>8, SomeToggle
        DEF Next, Query, Mutation, Serve, Arrive, Forget, Outside, vars, server


\* OnceOK, with its words spelled out for a step.
LEMMA OnceByParts ==
  ASSUME \A k, l \in DOMAIN posts' : k # l => posts'[k] \cap posts'[l] = {},
         \A i \in SentPosts', k \in DOMAIN posts' : writes'[i].words \cap posts'[k] = {},
         \A i, j \in SentPosts' : i # j => writes'[i].words \cap writes'[j].words = {},
         \A i \in SentPosts' : ~ writes'[i].here => writes'[i].words \cap composer' = {},
         \A k \in DOMAIN posts' : posts'[k] \cap composer' # {} =>
           \E i \in HerePosts' : writes'[i].phase = "handled"
  PROVE  OnceOK'
BY DEF OnceOK

LEMMA OnceStep ==
  ASSUME TypeOK, DraftInv, PostLost \/ OnceOK, [Next]_vars
  PROVE  PostLost' \/ OnceOK'
<1> SUFFICES ASSUME ~ PostLost' PROVE OnceOK'
  OBVIOUS
<1>1. ASSUME OnceOK
      PROVE  /\ \A k, l \in DOMAIN posts : k # l => posts[k] \cap posts[l] = {}
             /\ \A i \in SentPosts, k \in DOMAIN posts : writes[i].words \cap posts[k] = {}
             /\ \A i, j \in SentPosts : i # j => writes[i].words \cap writes[j].words = {}
             /\ \A i \in SentPosts : ~ writes[i].here => writes[i].words \cap composer = {}
             /\ \A k \in DOMAIN posts : posts[k] \cap composer # {} =>
                  \E i \in HerePosts : writes[i].phase = "handled"
  BY <1>1 DEF OnceOK
<1>2. /\ SentPosts \subseteq FlyingPosts /\ FlyingPosts \subseteq DOMAIN writes
      /\ HerePosts \subseteq FlyingPosts
      /\ \A i \in SentPosts : writes[i].here => i \in HerePosts
      /\ \A i \in SentPosts : writes[i].phase = "sent"
      /\ \A i, j \in HerePosts : i = j
      /\ \A i \in DOMAIN writes : writes[i].words \subseteq 1 .. typed
      /\ \A k \in DOMAIN posts : posts[k] \subseteq 1 .. typed
      /\ typed \in Nat
  BY DEF DraftInv, DraftOK, SentPosts, HerePosts, FlyingPosts, Flying, TypeOK
<1>3. ASSUME NEW i \in DOMAIN writes, Handle(i) PROVE OnceOK'
  <2>1. /\ \A j \in DOMAIN writes : j # i => writes'[j] = writes[j]
        /\ writes'[i].phase = "handled" /\ composer' = composer
    BY <1>3, Handled DEF Handle
  <2>2. /\ HerePosts' = HerePosts /\ SentPosts' = SentPosts \ {i}
        /\ writes[i].kind = "post" => i \in SentPosts
        /\ PostLost' = PostLost
        /\ \A j \in DOMAIN writes :
             writes'[j].words = writes[j].words /\ writes'[j].here = writes[j].here
    BY <1>3, PostsHandled
  <2>3. OnceOK
    BY <2>2
  <2>4. CASE writes[i].kind # "post"
    <3>1. posts' = posts
      BY <1>3, <2>4 DEF Handle
    <3>2. \A k \in DOMAIN posts' : posts'[k] \cap composer' # {} =>
            \E j \in HerePosts' : writes'[j].phase = "handled"
      BY <1>1, <1>2, <2>1, <2>2, <2>3, <3>1
    <3> QED BY <1>1, <1>2, <2>1, <2>2, <2>3, <3>1, <3>2, OnceByParts
  <2>5. CASE writes[i].kind = "post"
    <3> DEFINE new == Len(posts) + 1
    <3>1. /\ DOMAIN posts' = DOMAIN posts \cup {new} /\ new \notin DOMAIN posts
          /\ \A k \in DOMAIN posts : posts'[k] = posts[k]
          /\ posts'[new] = writes[i].words
      <4>1. posts' = Append(posts, writes[i].words)
        BY <1>3, <2>5 DEF Handle
      <4>2. posts \in Seq(SUBSET Nat) /\ writes[i].words \in SUBSET Nat
        BY WriteTyped DEF TypeOK, Writes
      <4> QED BY <4>1, <4>2
    <3>2. i \in SentPosts
      BY <2>2, <2>5
    <3> HIDE DEF new
    <3>3. \A k, l \in DOMAIN posts' : k # l => posts'[k] \cap posts'[l] = {}
      BY <1>1, <2>3, <3>1, <3>2
    <3>4. \A j \in SentPosts', k \in DOMAIN posts' : writes'[j].words \cap posts'[k] = {}
      BY <1>1, <1>2, <2>2, <2>3, <3>1, <3>2
    <3>5. ASSUME NEW k \in DOMAIN posts', posts'[k] \cap composer' # {}
          PROVE  \E j \in HerePosts' : writes'[j].phase = "handled"
      <4>1. CASE k = new
        <5>1. i \in HerePosts
          BY <1>1, <1>2, <2>1, <2>3, <3>1, <3>2, <3>5, <4>1
        <5> QED BY <2>1, <2>2, <5>1
      <4>2. CASE k # new
        <5>1. PICK j \in HerePosts : writes[j].phase = "handled"
          BY <1>1, <2>1, <2>3, <3>1, <3>5, <4>2
        <5> QED BY <1>2, <2>1, <2>2, <5>1
      <4> QED BY <4>1, <4>2
    <3>6. /\ \A j, k \in SentPosts' : j # k => writes'[j].words \cap writes'[k].words = {}
          /\ \A j \in SentPosts' : ~ writes'[j].here => writes'[j].words \cap composer' = {}
      BY <1>1, <1>2, <2>1, <2>2, <2>3
    <3> QED BY <3>3, <3>4, <3>5, <3>6, OnceByParts
  <2> QED BY <2>4, <2>5
<1>4. ASSUME NEW i \in DOMAIN writes, NEW end \in {"done", "refused", "lost"},
             Finish(i, end)
      PROVE  OnceOK'
  <2>1. /\ posts' = posts
        /\ composer' = IF end = "done" /\ writes[i].kind = "post" /\ writes[i].here
                       THEN {} ELSE composer
        /\ writes[i].phase = IF end = "refused" THEN "sent" ELSE "handled"
    BY <1>4, Finished DEF Finish, server
  <2>2. /\ HerePosts' = HerePosts \ {i} /\ SentPosts' = SentPosts \ {i}
        /\ \A j \in DOMAIN writes : writes'[j].words = writes[j].words
        /\ \A j \in DOMAIN writes : writes'[j].here = writes[j].here
        /\ \A j \in DOMAIN writes : j # i => writes'[j] = writes[j]
        /\ ~ PostLost /\ ~ (end = "lost" /\ writes[i].kind = "post")
    BY <1>4, PostsFinished
  <2>3. OnceOK /\ composer' \subseteq composer
    BY <2>1, <2>2
  <2>4. ASSUME NEW k \in DOMAIN posts, posts[k] \cap composer' # {}
        PROVE  \E j \in HerePosts' : writes'[j].phase = "handled"
    <3>1. PICK j \in HerePosts : writes[j].phase = "handled"
      BY <1>1, <2>3, <2>4
    <3>2. j # i
      <4>1. ASSUME j = i PROVE FALSE
        <5>1. end # "refused" /\ writes[i].kind = "post" /\ writes[i].here
          BY <2>1, <3>1, <4>1 DEF HerePosts, FlyingPosts
        <5>2. end = "done"
          BY <2>2, <5>1
        <5> QED BY <2>1, <2>4, <5>1, <5>2
      <4> QED BY <4>1
    <3> QED BY <1>2, <2>2, <3>1, <3>2
  <2> QED BY <1>1, <1>2, <2>1, <2>2, <2>3, <2>4, OnceByParts
<1>5. ASSUME NEW x \in Watched, NEW label \in BOOLEAN, Toggle(x, label) PROVE OnceOK'
  <2>1. posts' = posts /\ composer' = composer
    BY <1>5 DEF Toggle, server
  <2>2. /\ HerePosts' = HerePosts /\ SentPosts' = SentPosts /\ PostLost' = PostLost
        /\ \A j \in DOMAIN writes : writes'[j] = writes[j]
    BY <1>5, PostsToggled
  <2>3. OnceOK
    BY <2>2
  <2> QED BY <1>1, <1>2, <2>1, <2>2, <2>3, OnceByParts
<1>6. CASE Type
  <2>1. /\ typed' = typed + 1 /\ composer' = composer \cup {typed'}
        /\ posts' = posts /\ writes' = writes
    BY <1>6 DEF Type, server
  <2>2. /\ HerePosts' = HerePosts /\ SentPosts' = SentPosts /\ PostLost' = PostLost
    BY <2>1 DEF HerePosts, SentPosts, FlyingPosts, PostLost
  <2>3. OnceOK /\ typed' \notin 1 .. typed
    BY <1>2, <2>1, <2>2
  <2>4. /\ \A k \in DOMAIN posts : posts[k] \cap composer' = posts[k] \cap composer
        /\ \A i \in DOMAIN writes : writes[i].words \cap composer' = writes[i].words \cap composer
    BY <1>2, <2>1, <2>3
  <2> QED BY <1>1, <1>2, <2>1, <2>2, <2>3, <2>4, OnceByParts
<1>7. CASE Submit
  <2> DEFINE n == Len(writes) + 1
  <2>1. /\ HerePosts = {} /\ HerePosts' = {n}
        /\ SentPosts' = SentPosts \cup {n} /\ PostLost' = PostLost
        /\ n \notin DOMAIN writes
        /\ \A j \in DOMAIN writes : writes'[j] = writes[j]
        /\ writes'[n].words = composer /\ writes'[n].here = TRUE
    BY <1>7, PostsSubmitted
  <2>2. posts' = posts /\ composer' = composer
    BY <1>7 DEF Submit, server
  <2> HIDE DEF n
  <2>3. OnceOK
    BY <2>1
  <2>4. /\ \A k \in DOMAIN posts : posts[k] \cap composer = {}
        /\ \A i \in SentPosts : writes[i].words \cap composer = {} /\ writes'[i] = writes[i]
    BY <1>1, <1>2, <2>1, <2>3
  <2>5. \A i \in SentPosts', k \in DOMAIN posts' : writes'[i].words \cap posts'[k] = {}
    BY <1>1, <2>1, <2>2, <2>3, <2>4
  <2>6. \A i, j \in SentPosts' : i # j => writes'[i].words \cap writes'[j].words = {}
    BY <1>1, <2>1, <2>3, <2>4
  <2>7. \A i \in SentPosts' : ~ writes'[i].here => writes'[i].words \cap composer' = {}
    BY <2>1, <2>2, <2>4
  <2> QED BY <1>1, <2>2, <2>3, <2>4, <2>5, <2>6, <2>7, OnceByParts
<1>8. ASSUME NEW s \in Screens, Open(s) PROVE OnceOK'
  <2>1. composer' = {} /\ posts' = posts
    BY <1>8 DEF Open, server
  <2>2. /\ SentPosts' = SentPosts /\ PostLost' = PostLost
        /\ \A j \in DOMAIN writes : writes'[j].words = writes[j].words
    BY <1>8, PostsOpened DEF DraftInv
  <2>3. OnceOK
    BY <2>2
  <2> QED BY <1>1, <1>2, <2>1, <2>2, <2>3, OnceByParts
<1>9. CASE UNCHANGED <<posts, writes, composer>>
  BY <1>9 DEF OnceOK, HerePosts, SentPosts, FlyingPosts, PostLost
<1> QED BY <1>3, <1>4, <1>5, <1>6, <1>7, <1>8, <1>9, SomeToggle
        DEF Next, Query, Mutation, Serve, Arrive, Forget, Outside, vars, server

-----------------------------------------------------------------------------
(* The invariant.                                                          *)

LEMMA InvInit == Init => BoardInv
<1> SUFFICES ASSUME Init PROVE BoardInv
  OBVIOUS
<1>1. /\ screen \in Screens /\ CacheTyped(cache)
      /\ \A e \in Entries : \/ cache[e] = Empty /\ e \notin Subscribed(screen)
                            \/ cache[e] = Ask(Empty)
  BY StartCache
<1>2. Ask(Empty).status = "sent" /\ Empty.status = "none" /\ Empty.data = {}
  BY DEF Ask, Empty
<1>3. \A e \in Entries : /\ cache[e].status \in {"none", "sent"}
                         /\ cache[e].status = "none" => e \notin Subscribed(screen)
                         /\ cache[e].status = "none" => cache[e].data = {}
  BY <1>1, <1>2
<1>4. writes = << >> /\ posts = << >> /\ tags = {} /\ typed = 0
      /\ DOMAIN writes = {} /\ DOMAIN posts = {}
  BY DEF Init
<1>5. EntriesOK /\ StaleIsNamed
  BY <1>3, <1>4 DEF EntriesOK, StaleIsNamed
<1>6. ScreenOK
  BY <1>1, <1>3, ScreenTypes DEF ScreenOK
<1>7. ClickOK
  BY DEF Init, ClickOK
<1>8. HerePosts = {} /\ FlyingPosts = {} /\ SentPosts = {}
  BY <1>4 DEF HerePosts, FlyingPosts, SentPosts, Flying
<1>9. DraftOK /\ WordLostHasCause /\ OnceOK
  BY <1>4, <1>8 DEF DraftOK, WordLostHasCause, OnceOK
<1> QED BY <1>5, <1>6, <1>7, <1>9 DEF BoardInv

LEMMA InvStep ==
  ASSUME TypeOK, BoardInv, [Next]_vars
  PROVE  BoardInv'
<1>1. TypeOK'
  BY TypeStep
<1>2. EntriesOK'
  BY EntriesStep DEF BoardInv
<1>3. ScreenOK'
  BY <1>1, <1>2, ScreenStep DEF BoardInv
<1>4. StaleIsNamed' /\ ClickOK'
  BY StaleStep, ClickStep DEF BoardInv
<1>5. DraftOK' /\ WordLostHasCause'
  BY DraftStep DEF BoardInv, DraftInv
<1>6. PostLost' \/ OnceOK'
  BY OnceStep DEF BoardInv, DraftInv
<1> QED BY <1>2, <1>3, <1>4, <1>5, <1>6 DEF BoardInv

\* In every reachable state the tab's variables have their types: an answer in the
\* cache is one for its entry, whatever requests, writes, pages and failures came
\* before it.
THEOREM TypeCorrect == Spec => []TypeOK
BY TypeInit, TypeStep, PTL DEF Spec

\* The invariant of the cache, the clicks and the drafts together.
THEOREM InvariantHolds == Spec => []BoardInv
BY TypeCorrect, InvInit, InvStep, PTL DEF Spec

-----------------------------------------------------------------------------
(* What follows from it.                                                   *)

\* When nothing is on its way, every answer in the cache is newer than the tab's own
\* writes (invalidatesTags of every mutation covers what the mutation changes, and
\* tags that are named while requests are under way are not forgotten).
THEOREM WritesAreRead == Spec => []ReadYourWrites
<1>1. ASSUME BoardInv PROVE ReadYourWrites
  <2> SUFFICES ASSUME Quiet, NEW e \in Entries, cache[e].status = "ready", cache[e].dirty
               PROVE  FALSE
    BY DEF ReadYourWrites
  <2>1. tags = {} /\ \A i \in DOMAIN writes : writes[i].phase # "handled"
    BY <1>1 DEF BoardInv, StaleIsNamed, Quiet, Idle, Flying
  <2> QED BY <1>1, <2>1 DEF BoardInv, StaleIsNamed
<1> QED BY <1>1, InvariantHolds, PTL

\* The last click on a toggle leaves the watch state that it asked for, whatever the
\* order in which clicks, pages and answers come, but for the causes that are named.
THEOREM ClicksDoWhatTheySay == Spec => []ClickDoesWhatItSays
<1>1. ASSUME BoardInv PROVE ClickDoesWhatItSays
  <2> SUFFICES ASSUME Quiet, NEW x \in Watched, NEW v \in intent[x] PROVE v = watch[x]
    BY DEF ClickDoesWhatItSays
  <2>1. Unhandled(x) = {}
    BY DEF Quiet, Idle, Flying, Unhandled
  <2> QED BY <1>1, <2>1 DEF BoardInv, ClickOK
<1> QED BY <1>1, InvariantHolds, PTL

\* What is typed into the composer is posted, and posted once, unless the answer to
\* a post is lost, the page is left or words are typed while a post is on its way.
THEOREM WordsArePostedOnce == Spec => []WordsPostedOnce
<1>1. BoardInv => WordsPostedOnce
  BY DEF BoardInv, WordsPostedOnce, PostedTwiceHasCause, PostLost, OnceOK
<1> QED BY <1>1, InvariantHolds, PTL

\* When nothing is on its way, the page of a subforum shows that subforum, unless it
\* could not be fetched, though the component and its hooks outlive the address.
THEOREM PageShowsItsSubforum == Spec => []OwnSubforumShown
<1>1. ASSUME TypeOK, BoardInv PROVE OwnSubforumShown
  <2> SUFFICES ASSUME Quiet, IsList(screen)
               PROVE  \/ cache[GetSubforum(screen[2])].status = "failed"
                      \/ \E shown \in held : shown.of = screen[2]
    BY DEF OwnSubforumShown
  <2> DEFINE e == GetSubforum(screen[2])
  <2>1. e \in Subscribed(screen) /\ e \in Entries
    BY <1>1, ScreenTypes DEF TypeOK
  <2>2. cache[e].status \in Statuses
    BY <1>1, <2>1 DEF TypeOK, EntryStates, Statuses
  <2>3. cache[e].status # "none" /\ ~ Pending(cache[e])
    BY <1>1, <2>1 DEF BoardInv, ScreenOK, Quiet, Idle
  <2>4. cache[e].status \in {"ready", "failed"}
    BY <2>2, <2>3 DEF Statuses, Pending
  <2> QED BY <1>1, <2>4 DEF BoardInv, ScreenOK
<1>2. TypeOK /\ BoardInv => OwnSubforumShown
  BY <1>1
<1> QED BY <1>2, TypeCorrect, InvariantHolds, PTL

=============================================================================
