------------------------------- MODULE Board -------------------------------
(***************************************************************************)
(* One tab on the screens that read and write the forum: the home page,    *)
(* the page of a subforum and the page of a thread, over the query cache   *)
(* of forumApi (RTK Query).  A write names tags; the entries that provide  *)
(* them are fetched again, but not before every request of the tab has     *)
(* ended.  Others write to the same forum, under the same agent too.       *)
(***************************************************************************)
EXTENDS Integers, Sequences, FiniteSets

CONSTANTS
  Subforums,
  Thread,      \* a thread
  Forum,       \* its subforum
  AtFirst,     \* what the agent watches at first
  Sidebar,     \* whether the sidebar is open
  First,       \* bound: the screens that are opened first
  MaxDeeds     \* bound: pages opened, writes, words typed, writes of others and
               \* requests that fail, all together

VARIABLES
  watch,     \* the server's watch state of the agent
  posts,     \* the posts of the thread: the words of each
  screen,    \* <<"home">>, <<"list", f>> or <<"thread">>
  cache,     \* the queries of forumApi.reducer
  held,      \* what the hook useGetSubforumQuery of ThreadListScreen returned
  tags,      \* tags whose entries are still to be fetched again
  writes,    \* the mutations, oldest first
  composer,  \* the words in the composer of ThreadDetailScreen
  intent,    \* what the last click on a toggle asked for, in a set
  excused,   \* words typed while a post was on its way, or left behind
  typed,     \* words typed so far
  deeds

server  == <<watch, posts>>
vars    == <<server, screen, cache, held, tags, writes, composer, intent, excused, typed, deeds>>

Watched == Subforums \cup {Thread}

Home          == <<"home">>
List(f)       == <<"list", f>>
Detail        == <<"thread">>
IsList(s)     == s[1] = "list"
Screens       == {Home, Detail} \cup {List(f) : f \in Subforums}

ASSUME BoardAssumption ==
  /\ Forum \in Subforums /\ AtFirst \subseteq Subforums \cup {Thread}
  /\ First \subseteq Screens /\ Sidebar \in BOOLEAN /\ MaxDeeds \in Nat

ListSubforums   == <<"listSubforums">>
GetSubforum(f)  == <<"getSubforum", f>>
ListThreads     == <<"listThreads", Forum>>
GetThread       == <<"getThread">>
ListPosts       == <<"listPosts">>
Entries == {ListSubforums, ListThreads, GetThread, ListPosts}
             \cup {GetSubforum(f) : f \in Subforums}

\* providesTags.
Tag(e) ==
  IF e[1] \in {"listSubforums", "getSubforum"} THEN "Subforum"
  ELSE IF e = ListPosts THEN "Post" ELSE "Thread"

\* The watch states that toggles read from an answer.
Covers(e) ==
  CASE e = ListSubforums -> Subforums
    [] e[1] = "getSubforum" -> {e[2]}
    [] e = GetThread -> {Thread}
    [] OTHER -> {}

Answer(e) == [x \in Covers(e) |-> watch[x]]

\* The queries a screen subscribes to; the sidebar lists the subforums as well.  What
\* has no thread has an empty list of threads, left out here.
Subscribed(s) ==
  (IF Sidebar \/ s = Home THEN {ListSubforums} ELSE {}) \cup
  (CASE s = Home -> {}
     [] s = List(Forum) -> {GetSubforum(Forum), ListThreads}
     [] IsList(s) /\ s # List(Forum) -> {GetSubforum(s[2])}
     [] s = Detail -> {GetThread, ListPosts})

\* data and answer are empty, or hold one answer.  dirty: the tab has changed what
\* the entry shows since its last answer was made.
Empty == [status |-> "none", data |-> {}, answer |-> {}, dirty |-> FALSE]

Pending(entry) == entry.status \in {"sent", "answered"}
Ask(entry)     == [entry EXCEPT !.status = "sent"]

\* A hook that is mounted, or whose argument changes, asks for what was never
\* answered; what failed after an answer is not asked for again.
Mounted(c, s) ==
  [e \in Entries |-> IF e \in Subscribed(s) /\ ~ Pending(c[e]) /\ c[e].data = {}
                     THEN Ask(c[e]) ELSE c[e]]

Init ==
  /\ watch = [x \in Watched |-> x \in AtFirst]
  /\ posts = << >>
  /\ screen \in First
  /\ cache = Mounted([e \in Entries |-> Empty], screen)
  /\ held = {}
  /\ tags = {}
  /\ writes = << >>
  /\ composer = {}
  /\ intent = [x \in Watched |-> {}]
  /\ excused = {}
  /\ typed = 0 /\ deeds = 0

Deed == deeds < MaxDeeds /\ deeds' = deeds + 1

\* A request ends; when it fails that is a deed.
DeedIf(failed) == IF failed THEN Deed ELSE UNCHANGED deeds

-----------------------------------------------------------------------------
(* The cache.                                                              *)

Flying(w) == {i \in DOMAIN w : w[i].phase \in {"sent", "handled"}}

Idle(c, w) == Flying(w) = {} /\ \A e \in Entries : ~ Pending(c[e])

\* Invalidation: entries nobody looks at are dropped, the others asked for again.
Invalidated(c, s, named) ==
  [e \in Entries |->
     IF Tag(e) \notin named \/ c[e].status = "none" \/ Pending(c[e]) THEN c[e]
     ELSE IF e \in Subscribed(s) THEN Ask(c[e]) ELSE Empty]

\* Mutant: tags are used up at once, and a query on its way is left alone.
DueAtOnce(c, w, named) == named

\* The tags that are used up now: all of them, when nothing is on its way.
Due(c, w, named) == IF Idle(c, w) THEN named ELSE {}

\* A request has ended, with cache c, writes w and tags.
Settle(c, w, named) ==
  \E now \in {Due(c, w, named)} :
    /\ tags' = named \ now
    /\ cache' = Invalidated(c, screen, now)

\* Mutant: what a hook has shown it goes on showing.
HoldsShown(entry, before) == before = {} /\ entry.data # {}

\* A hook returns what its entry holds when that is good, else what it
\* returned before, else what the entry holds.
Holds(entry, before) == entry.data # {} /\ (entry.status = "ready" \/ before = {})

\* The hook of ThreadListScreen after a step, for the current :key.
Rendered(before) ==
  held' = IF ~ IsList(screen') THEN {}
          ELSE LET f == screen'[2]
                   entry == cache'[GetSubforum(f)]
               IN IF Holds(entry, before)
                  THEN {[of |-> f, watching |-> data[f]] : data \in entry.data}
                  ELSE before

-----------------------------------------------------------------------------
(* Queries.                                                                *)

\* The server answers.
Serve(e) ==
  /\ cache[e].status = "sent"
  /\ cache' = [cache EXCEPT ![e].status = "answered", ![e].answer = {Answer(e)},
                            ![e].dirty = FALSE]
  /\ screen' = screen /\ Rendered(held)
  /\ UNCHANGED <<server, tags, writes, composer, intent, excused, typed, deeds>>

\* The answer arrives, or an error instead, and the old data stays.
Arrive(e, ok) ==
  /\ cache[e].status = "answered"
  /\ DeedIf(~ ok)
  /\ \E c \in {[cache EXCEPT ![e] = [status |-> IF ok THEN "ready" ELSE "failed",
                                      data |-> IF ok THEN @.answer ELSE @.data,
                                      answer |-> {}, dirty |-> @.dirty]]} :
       \E now \in {Due(c, writes, tags)} :
         tags' = tags \ now /\ cache' = Invalidated(c, screen, now)
  /\ screen' = screen /\ Rendered(held)
  /\ UNCHANGED <<server, writes, composer, intent, excused, typed>>

\* keepUnusedDataFor.
Forget(e) ==
  /\ e \notin Subscribed(screen) /\ ~ Pending(cache[e]) /\ cache[e] # Empty
  /\ cache' = [cache EXCEPT ![e] = Empty]
  /\ UNCHANGED <<server, screen, held, tags, writes, composer, intent, excused, typed, deeds>>

-----------------------------------------------------------------------------
(* Writes.                                                                 *)

\* invalidatesTags.
Invalidates(w) ==
  IF w.kind = "post" THEN {"Thread", "Post"}
  ELSE IF w.target = Thread THEN {"Thread"} ELSE {"Subforum"}

\* Whether write w changes what entry e shows.
Changes(w, e) ==
  IF w.kind = "post" \/ w.target = Thread
  THEN e \in {GetThread, ListThreads} \/ (w.kind = "post" /\ e = ListPosts)
  ELSE w.target \in Covers(e)

\* The server handles write i.
Handle(i) ==
  LET w == writes[i] IN
  /\ w.phase = "sent"
  /\ writes' = [writes EXCEPT ![i].phase = "handled"]
  /\ watch' = IF w.kind = "watch" THEN [watch EXCEPT ![w.target] = w.want] ELSE watch
  /\ posts' = IF w.kind = "post" THEN Append(posts, w.words) ELSE posts
  /\ cache' = [e \in Entries |-> [cache[e] EXCEPT !.dirty = @ \/ Changes(w, e)]]
  /\ UNCHANGED <<screen, held, tags, composer, intent, excused, typed, deeds>>

\* Mutant: the composer is emptied whatever came of the post.
ComposerEmptied(w) == ~ (w.kind = "post" /\ w.here)

\* After the await of submit, when the screen is still there.
ComposerKept(w) == ~ (w.kind = "post" /\ w.here /\ w.phase = "done")

\* The end of write i: "done", "refused" by the server or never there, or done
\* and the answer "lost".  Its tags are named in every case.
Finish(i, end) ==
  LET w == [writes[i] EXCEPT !.phase = end]
      after == [writes EXCEPT ![i] = w]
  IN
  /\ IF end = "refused" THEN writes[i].phase = "sent" ELSE writes[i].phase = "handled"
  /\ DeedIf(end # "done")
  /\ writes' = after
  /\ Settle(cache, after, tags \cup Invalidates(w))
  /\ screen' = screen /\ Rendered(held)
  /\ composer' = IF ComposerKept(w) THEN composer ELSE {}
  /\ intent' = IF end # "done" /\ w.kind = "watch" THEN [intent EXCEPT ![w.target] = {}]
               ELSE intent
  /\ UNCHANGED <<server, excused, typed>>

-----------------------------------------------------------------------------
(* The user.                                                               *)

Busy(kind) == \E i \in Flying(writes) : writes[i].kind = kind /\ writes[i].here

Write(kind, target, want, words) ==
  /\ Deed
  /\ writes' = Append(writes, [kind |-> kind, target |-> target, want |-> want,
                               words |-> words, phase |-> "sent", here |-> TRUE])

\* Mutant: a click watches, whatever the label says.
WantsWatch(label) == TRUE

\* The ternary of each toggle.
Wants(label) == ~ label

Toggle(x, label) ==
  /\ Write("watch", x, Wants(label), {})
  /\ LET opposed == \E i \in Flying(writes) :
                      /\ writes[i].kind = "watch" /\ writes[i].target = x
                      /\ writes[i].want # Wants(label)
     IN intent' = [intent EXCEPT ![x] = IF opposed THEN {} ELSE {~ label}]
  /\ UNCHANGED <<server, screen, cache, held, tags, composer, excused, typed>>

\* A toggle of SubforumListScreen; it shows an error instead when the last fetch
\* failed.
ToggleRow(f) ==
  /\ screen = Home /\ ~ Busy("watch")
  /\ cache[ListSubforums].status # "failed"
  /\ \E data \in cache[ListSubforums].data : Toggle(f, data[f])

\* The toggle of ThreadListScreen: the label is that of what the hook returned,
\* the target that of the address.
ToggleSubforum ==
  /\ IsList(screen) /\ ~ Busy("watch")
  /\ \E shown \in held : Toggle(screen[2], shown.watching)

\* The toggle of ThreadDetailScreen, which is never disabled.
ToggleThread ==
  /\ screen = Detail
  /\ \E data \in cache[GetThread].data : Toggle(Thread, data[Thread])

Type ==
  /\ screen = Detail /\ Deed
  /\ typed' = typed + 1
  /\ composer' = composer \cup {typed'}
  /\ excused' = IF Busy("post") THEN excused \cup {typed'} ELSE excused
  /\ UNCHANGED <<server, screen, cache, held, tags, writes, intent>>

Posting == Busy("post")

\* submit, up to its await.
Submit ==
  /\ screen = Detail /\ composer # {} /\ ~ Posting
  /\ Write("post", Thread, TRUE, composer)
  /\ UNCHANGED <<server, screen, cache, held, tags, composer, intent, excused, typed>>

\* Another page.  From one subforum to another the screen is the same component
\* and its hooks live on; else what it held is gone.
Open(s) ==
  /\ s # screen /\ Deed
  /\ screen' = s
  /\ cache' = Mounted(cache, s)
  /\ LET stays == IsList(s) /\ IsList(screen)
     IN /\ Rendered(IF stays THEN held ELSE {})
        /\ writes' = [i \in DOMAIN writes |-> [writes[i] EXCEPT !.here = @ /\ stays]]
  /\ composer' = {}
  /\ excused' = excused \cup composer
  /\ UNCHANGED <<server, tags, intent, typed>>

\* Another tab, or another program, of the same agent.
Outside(x) ==
  /\ Deed
  /\ watch' = [watch EXCEPT ![x] = ~ @]
  /\ intent' = [intent EXCEPT ![x] = {}]
  /\ UNCHANGED <<posts, screen, cache, held, tags, writes, composer, excused, typed>>

-----------------------------------------------------------------------------
Query(e)    == Serve(e) \/ \E ok \in BOOLEAN : Arrive(e, ok)
Mutation(i) == Handle(i) \/ \E end \in {"done", "refused", "lost"} : Finish(i, end)

Next ==
  \/ \E e \in Entries : Query(e) \/ Forget(e)
  \/ \E i \in DOMAIN writes : Mutation(i)
  \/ \E f \in Subforums : ToggleRow(f)
  \/ ToggleSubforum
  \/ ToggleThread
  \/ Type
  \/ Submit
  \/ \E s \in Screens : Open(s)
  \/ \E x \in Watched : Outside(x)

Spec == Init /\ [][Next]_vars

-----------------------------------------------------------------------------
(* Properties.                                                             *)

Quiet == Idle(cache, writes)

\* When nothing is on its way, no screen shows, or would show when it is opened,
\* anything older than the tab's own writes, those whose answer was lost
\* included: only a fetch that failed can leave old data.
ReadYourWrites ==
  Quiet => \A e \in Entries : cache[e].status = "ready" => ~ cache[e].dirty

\* However clicks, answers and pages are interleaved, the last click on a toggle
\* leaves the watch state it asked for, unless it failed, somebody else wrote, or
\* the opposite was still on its way: two pages may show different labels.
ClickDoesWhatItSays ==
  Quiet => \A x \in Watched : intent[x] \subseteq {watch[x]}

\* A draft is posted twice only when the answer to a post was lost.
PostedTwiceHasCause ==
  (\E i, j \in DOMAIN posts : i # j /\ posts[i] \cap posts[j] # {})
    => \E i \in DOMAIN writes : writes[i].kind = "post" /\ writes[i].phase = "lost"

\* A word that was typed is in the composer or on its way to the thread, unless it
\* was typed while a post was on its way or left behind with the page.
WordLostHasCause ==
  \A word \in 1 .. typed :
    \/ word \in composer \cup excused
    \/ \E i \in DOMAIN writes : word \in writes[i].words /\ writes[i].phase # "refused"

\* What is typed is posted, and posted once, but for these causes.
WordsPostedOnce == WordLostHasCause /\ PostedTwiceHasCause

\* The page of a subforum does not go on showing another one, unless its own
\* could not be fetched.
OwnSubforumShown ==
  Quiet /\ IsList(screen) =>
    \/ cache[GetSubforum(screen[2])].status = "failed"
    \/ \E shown \in held : shown.of = screen[2]

-----------------------------------------------------------------------------
(* What makes them true: the types, and the invariant that the proofs are  *)
(* by.                                                                     *)

Kinds  == {"watch", "post"}
Phases == {"sent", "handled", "done", "refused", "lost"}

Writes == [kind : Kinds, target : Watched, want : BOOLEAN, words : SUBSET Nat,
           phase : Phases, here : BOOLEAN]

Answers(e) == [Covers(e) -> BOOLEAN]

EntryStates(e) ==
  [status : {"none", "sent", "answered", "ready", "failed"},
   data : SUBSET Answers(e), answer : SUBSET Answers(e), dirty : BOOLEAN]

\* Every variable has its type.
TypeOK ==
  /\ watch \in [Watched -> BOOLEAN]
  /\ posts \in Seq(SUBSET Nat)
  /\ screen \in Screens
  /\ DOMAIN cache = Entries /\ \A e \in Entries : cache[e] \in EntryStates(e)
  /\ held \in SUBSET [of : Subforums, watching : BOOLEAN]
  /\ tags \in SUBSET {"Thread", "Post", "Subforum"}
  /\ writes \in Seq(Writes)
  /\ composer \in SUBSET (1 .. typed)
  /\ intent \in [Watched -> SUBSET BOOLEAN]
  /\ excused \in SUBSET (1 .. typed)
  /\ typed \in Nat
  /\ deeds \in 0 .. MaxDeeds

\* An entry has what its status says.
EntriesOK ==
  \A e \in Entries :
    /\ cache[e].status = "none" => cache[e].data = {}
    /\ cache[e].status = "answered" => cache[e].answer # {}
    /\ cache[e].status = "ready" => cache[e].data # {}

\* What the screen looks at is asked for, and a page that has its subforum shows it.
ScreenOK ==
  /\ \A e \in Subscribed(screen) : cache[e].status # "none"
  /\ IsList(screen) /\ cache[GetSubforum(screen[2])].status = "ready" =>
       \E shown \in held : shown.of = screen[2]

\* What the tab has changed under an entry is about to be named by the write that
\* did it, or is named and waits for the tab's last request.
StaleIsNamed ==
  /\ Quiet => tags = {}
  /\ \A e \in Entries : cache[e].dirty /\ cache[e].status \in {"answered", "ready"} =>
       \/ Tag(e) \in tags
       \/ \E i \in DOMAIN writes : writes[i].phase = "handled" /\ Changes(writes[i], e)

\* The watch writes on x that the server has not handled.
Unhandled(x) ==
  {i \in DOMAIN writes :
     writes[i].kind = "watch" /\ writes[i].target = x /\ writes[i].phase = "sent"}

\* What a click asked for is done or is on its way, and nothing else is.
ClickOK ==
  \A x \in Watched : \A v \in intent[x] :
    /\ \A i \in Unhandled(x) : writes[i].want = v
    /\ watch[x] = v \/ Unhandled(x) # {}

\* The posts on their way, and those among them whose composer is still there.
FlyingPosts == {i \in Flying(writes) : writes[i].kind = "post"}
HerePosts   == {i \in FlyingPosts : writes[i].here}

\* The draft that is being posted is in the composer, with nothing else but what is
\* excused; a draft that was left is excused.
DraftOK ==
  /\ \A i, j \in HerePosts : i = j
  /\ \A i \in HerePosts :
       screen = Detail /\ writes[i].words \subseteq composer
       /\ composer \subseteq writes[i].words \cup excused
  /\ \A i \in FlyingPosts : ~ writes[i].here => writes[i].words \subseteq excused
  /\ \A i \in DOMAIN writes :
       writes[i].words \subseteq (IF writes[i].kind = "post" THEN 1 .. typed ELSE {})
  /\ \A k \in DOMAIN posts : posts[k] \subseteq 1 .. typed

PostLost == \E i \in DOMAIN writes : writes[i].kind = "post" /\ writes[i].phase = "lost"

\* The drafts on their way are apart from the posts and from each other, and what
\* is in the composer is posted only while the answer to its post is on its way.
SentPosts == {i \in FlyingPosts : writes[i].phase = "sent"}

OnceOK ==
  /\ \A k, l \in DOMAIN posts : k # l => posts[k] \cap posts[l] = {}
  /\ \A i \in SentPosts :
       /\ \A k \in DOMAIN posts : writes[i].words \cap posts[k] = {}
       /\ \A j \in SentPosts : i # j => writes[i].words \cap writes[j].words = {}
       /\ ~ writes[i].here => writes[i].words \cap composer = {}
  /\ \A k \in DOMAIN posts : posts[k] \cap composer # {} =>
       \E i \in HerePosts : writes[i].phase = "handled"

BoardInv ==
  /\ EntriesOK /\ ScreenOK /\ StaleIsNamed /\ ClickOK /\ DraftOK /\ WordLostHasCause
  /\ PostLost \/ OnceOK

=============================================================================
