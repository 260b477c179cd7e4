----------------------------- MODULE ThreadPages -----------------------------
(***************************************************************************)
(* Reading a thread in the web client.  A writer reads the clock for the   *)
(* post's created_at, and later commits the row.  The thread screen        *)
(* loads the posts in pages: ListPosts(after) returns the first rows       *)
(* whose created_at is greater than that of the post `after`, and RTK      *)
(* Query merges every page into one cached list.  The screen knows only    *)
(* that list: the last post of it is the next cursor, and by how much it   *)
(* grew decides whether the button "Load more posts" is shown.             *)
(*                                                                         *)
(* created_at is compared as text in the format RFC3339Nano, which drops   *)
(* the trailing zeros of the fraction, so that the order of the texts is   *)
(* not the order of the times.                                             *)
(***************************************************************************)
EXTENDS Integers, Sequences, FiniteSets

CONSTANTS
  Base,       \* digits are 0 .. Base - 1; a second has a two-digit fraction
  PageSize,   \* POSTS_PAGE_SIZE
  MaxPosts,   \* bound: posts of the thread
  MaxReplies, \* bound: posts of this tab's
  MaxTime,    \* bound: the clock
  MaxFaults   \* bound: requests that fail

ASSUME PagesAssumption ==
  /\ Base \in Nat \ {0, 1}
  /\ PageSize \in Nat \ {0}
  /\ MaxPosts \in Nat
  /\ MaxReplies \in Nat
  /\ MaxTime \in Nat
  /\ MaxFaults \in Nat

VARIABLES
  \* the server
  clock,
  post,       \* post[p]: the post with the p-th id
  \* RTK Query's cache entry of the thread
  list,       \* data.posts
  loaded,     \* whether there is data
  lastArg,    \* originalArgs.after of the last request, 0 for undefined
  request,    \* the request in flight
  stale,      \* an invalidation of the tag Post is pending
  \* ThreadDetailScreen
  mounted,
  after,      \* postsAfter, 0 for undefined
  prevLen,
  hasMore,
  faults,     \* how many requests have failed
  \* history, read by no action
  late,       \* posts committed when the client had been sent a later one
  served,     \* what was committed when the last page was read
  full,       \* whether the last page merged was full
  onward      \* since it was mounted the screen has only loaded further pages

server == <<clock, post>>
cache  == <<list, loaded, lastArg, request, stale>>
screen == <<mounted, after, prevLen, hasMore>>
past   == <<late, served, full, onward>>
vars   == <<server, cache, screen, faults, past>>

Stages == {"draft", "committed", "answered"}

Idle == [state |-> "idle", arg |-> 0, page |-> {}]

Elements(q) == {q[i] : i \in DOMAIN q}

-----------------------------------------------------------------------------
Init ==
  /\ clock = 0
  /\ post = << >>
  /\ list = << >>
  /\ loaded = FALSE
  /\ lastArg = 0
  /\ request = Idle
  /\ stale = FALSE
  /\ mounted = FALSE
  /\ after = 0
  /\ prevLen = 0
  /\ hasMore = FALSE
  /\ faults = 0
  /\ late = {}
  /\ served = {}
  /\ full = FALSE
  /\ onward = TRUE

-----------------------------------------------------------------------------
(* The order of the rows.                                                  *)

\* The rank of the text of time n.  Within a second the digits are compared
\* first; where one text ends earlier it has a "Z" there, which comes after
\* every digit, and the text without a fraction comes after all the others.
TextRank(n) ==
  LET second == n \div (Base * Base)
      tens   == (n \div Base) % Base
      ones   == n % Base
      rank   == IF ones # 0 THEN tens * (Base + 1) + ones
                ELSE IF tens # 0 THEN tens * (Base + 1) + Base
                ELSE Base * (Base + 1)
  IN second * (Base * (Base + 1) + 1) + rank

Key(p) == TextRank(post[p].at)

Committed == {p \in DOMAIN post : post[p].stage \in {"committed", "answered"}}

\* created_at > ?  Mutant: id > ?
BeyondById(arg) == {p \in Committed : p > arg}

Beyond(arg) == {p \in Committed : arg # 0 => Key(p) > Key(arg)}

\* ORDER BY created_at, id
Before(p, q) == Key(p) < Key(q) \/ (Key(p) = Key(q) /\ p < q)

\* ORDER BY created_at, id LIMIT n.  Mutant: the newest rows.
LastRows(S, n) == {p \in S : Cardinality({q \in S : Before(p, q)}) < n}

FirstRows(S, n) == {p \in S : Cardinality({q \in S : Before(q, p)}) < n}

\* The sequences that list the rows of S in their order (there is one).
\* Mutant: ORDER BY id.
ListedById(S) ==
  {s \in [1 .. Cardinality(S) -> S] :
     Elements(s) = S /\ \A i, j \in DOMAIN s : i < j => s[i] < s[j]}

Listed(S) ==
  {s \in [1 .. Cardinality(S) -> S] :
     Elements(s) = S /\ \A i, j \in DOMAIN s : i < j => Before(s[i], s[j])}

-----------------------------------------------------------------------------
(* The writers.                                                            *)

Tick ==
  /\ clock < MaxTime
  /\ clock' = clock + 1
  /\ UNCHANGED <<post, cache, screen, faults, past>>

\* A writer, this tab or anyone else, mints an id and reads the clock.  That a
\* second writer may get in between makes no difference: ids are compared only
\* when the times are equal.
Draft(own) ==
  /\ Len(post) < MaxPosts
  /\ own => mounted /\ Cardinality({p \in DOMAIN post : post[p].own}) < MaxReplies
  /\ post' = Append(post, [stage |-> "draft", at |-> clock, own |-> own])
  /\ UNCHANGED <<clock, cache, screen, faults, past>>

\* What the client has been sent.
Sent == Elements(list) \cup request.page

Commit(p) ==
  /\ post[p].stage = "draft"
  /\ post' = [post EXCEPT ![p].stage = "committed"]
  /\ late' = IF \E q \in Sent : Before(p, q) THEN late \cup {p} ELSE late
  /\ UNCHANGED <<clock, cache, screen, faults, served, full, onward>>

\* The reply has its answer, which invalidates the tag.
Answer(p) ==
  /\ post[p].stage = "committed"
  /\ post[p].own
  /\ post' = [post EXCEPT ![p].stage = "answered"]
  /\ stale' = TRUE
  /\ UNCHANGED <<clock, list, loaded, lastArg, request, screen, faults, past>>

-----------------------------------------------------------------------------
(* The cache.                                                              *)

\* A request is sent unless one is in flight, or there is data and the
\* argument is the last one (`condition` and forceRefetch).
Fetch(arg) ==
  IF request.state = "idle" /\ (loaded => arg # lastArg)
    THEN /\ request' = [Idle EXCEPT !.state = "sent", !.arg = arg]
         /\ lastArg' = arg
    ELSE UNCHANGED <<request, lastArg>>

\* The server reads the page.
Serve ==
  /\ request.state = "sent"
  /\ request' = [request EXCEPT !.state = "served",
                   !.page = FirstRows(Beyond(request.arg), PageSize)]
  /\ served' = Committed
  /\ UNCHANGED <<server, list, loaded, lastArg, stale, screen, faults, late,
                 full, onward>>

\* The effect on posts.length: what the screen makes of a list of n posts.
\* Mutant: only a page that is more than full means more.
EffectBeyondFull(n) ==
  IF n > prevLen
    THEN hasMore' = (n - prevLen > PageSize) /\ prevLen' = n
    ELSE UNCHANGED <<hasMore, prevLen>>

Effect(n) ==
  IF n > prevLen
    THEN hasMore' = (n - prevLen >= PageSize) /\ prevLen' = n
    ELSE UNCHANGED <<hasMore, prevLen>>

\* What merge appends.
Unseen == request.page \ Elements(list)

\* The page arrives, and is merged; a mounted screen renders the list.
Merge ==
  /\ request.state = "served"
  /\ \E q \in Listed(Unseen) : list' = list \o q
  /\ loaded' = TRUE
  /\ request' = Idle
  /\ full' = (Cardinality(request.page) = PageSize)
  /\ IF mounted THEN Effect(Len(list')) ELSE UNCHANGED <<hasMore, prevLen>>
  /\ UNCHANGED <<server, lastArg, stale, mounted, after, faults, late, served,
                 onward>>

\* The request fails.
Fail ==
  /\ request.state # "idle"
  /\ faults < MaxFaults
  /\ faults' = faults + 1
  /\ request' = Idle
  /\ onward' = FALSE
  /\ UNCHANGED <<server, list, loaded, lastArg, stale, screen, late, served,
                 full>>

\* The entry is removed; the answer to a request in flight will be ignored.
Drop ==
  /\ list' = << >>
  /\ loaded' = FALSE
  /\ lastArg' = 0
  /\ request' = Idle
  /\ late' = {}

\* The pending invalidation, once no request is in flight: the last request is
\* repeated, or the entry is dropped when no screen uses it.
Invalidate ==
  /\ stale
  /\ request.state = "idle"
  /\ stale' = FALSE
  /\ IF mounted
       THEN /\ request' = [Idle EXCEPT !.state = "sent", !.arg = lastArg]
            /\ onward' = FALSE
            /\ UNCHANGED <<list, loaded, lastArg, late>>
       ELSE Drop /\ UNCHANGED onward
  /\ UNCHANGED <<server, screen, faults, served, full>>

\* The entry has been unused for a minute.
Expire ==
  /\ ~ mounted
  /\ loaded \/ request.state # "idle"
  /\ Drop
  /\ UNCHANGED <<server, stale, screen, faults, served, full, onward>>

-----------------------------------------------------------------------------
(* The screen.                                                             *)

\* The thread is opened: the hook asks for the first page, the effect runs on
\* what the cache holds.
Mount ==
  /\ ~ mounted
  /\ mounted' = TRUE
  /\ after' = 0
  /\ Fetch(0)
  /\ prevLen' = Len(list)
  /\ hasMore' = (list # << >> /\ Len(list) >= PageSize)
  /\ onward' = (~ loaded /\ request.state = "idle")
  /\ UNCHANGED <<server, list, loaded, stale, faults, late, served, full>>

Unmount ==
  /\ mounted
  /\ mounted' = FALSE
  /\ after' = 0 /\ prevLen' = 0 /\ hasMore' = FALSE
  /\ UNCHANGED <<server, cache, faults, past>>

\* The button: setPostsAfter(posts[posts.length - 1].id).  Setting the value
\* it has does nothing.
LoadMore ==
  /\ mounted
  /\ hasMore
  /\ LET cursor == list[Len(list)] IN
       after # cursor /\ after' = cursor /\ Fetch(cursor)
  /\ UNCHANGED <<server, list, loaded, stale, mounted, prevLen, hasMore,
                 faults, past>>

Next ==
  \/ Tick
  \/ \E own \in BOOLEAN : Draft(own)
  \/ \E p \in DOMAIN post : Commit(p) \/ Answer(p)
  \/ Serve \/ Merge \/ Fail \/ Invalidate \/ Expire
  \/ Mount \/ Unmount \/ LoadMore

\* Requests are answered, and the reader goes on clicking.
Fairness == WF_vars(Serve) /\ WF_vars(Merge) /\ WF_vars(LoadMore)

Spec == Init /\ [][Next]_vars
FairSpec == Spec /\ Fairness

-----------------------------------------------------------------------------
(* Properties.                                                             *)

\* Every variable has its type; no post is twice in the list.
TypeOK ==
  /\ clock \in 0 .. MaxTime
  /\ post \in Seq([stage : Stages, at : 0 .. MaxTime, own : BOOLEAN])
  /\ list \in Seq(Committed)
  /\ \A i, j \in DOMAIN list : i # j => list[i] # list[j]
  /\ loaded \in BOOLEAN
  /\ lastArg \in {0} \cup Committed
  /\ request \in [state : {"idle", "sent", "served"},
                  arg : {0} \cup Committed, page : SUBSET Committed]
  /\ stale \in BOOLEAN
  /\ mounted \in BOOLEAN
  /\ after \in {0} \cup Elements(list)
  /\ prevLen \in 0 .. Len(list)
  /\ hasMore \in BOOLEAN
  /\ faults \in 0 .. MaxFaults
  /\ late \in SUBSET Committed
  /\ served \in SUBSET Committed
  /\ full \in BOOLEAN
  /\ onward \in BOOLEAN

\* The row has the same created_at as a post of the list: a page may have ended
\* between the two.
Tied(p) == \E q \in Elements(list) : Key(q) = Key(p)

\* Why a post may be missing, or be out of place, in what was loaded.
HasCause(p) == p \in late \/ Tied(p)

\* What was loaded has no holes: a row that comes before one of the list is in
\* the list, unless it was committed when the later one had been sent, or two
\* rows have the same created_at.
GapHasCause ==
  \A p \in Committed \ Elements(list), q \in Elements(list) :
    Before(p, q) => HasCause(p)

\* The list is in the order of the rows, but for posts that have such a cause.
DisorderHasCause ==
  \A i, j \in DOMAIN list :
    i < j => \/ Before(list[i], list[j])
             \/ list[j] \in late
             \/ \E k \in DOMAIN list \ {j} : Key(list[k]) = Key(list[j])

\* A post that was committed when the last page was read, and is not shown.
Hidden(p) == p \in served \ Elements(list) /\ ~ HasCause(p)

\* A reader that has only gone on to further pages and sees no button has seen
\* everything there was at the last page.
WalkIsComplete ==
  mounted /\ loaded /\ request.state = "idle" /\ onward /\ ~ hasMore
    => \A p \in served : ~ Hidden(p)

\* Whatever a page has left behind, a reader that goes on clicking comes to see,
\* unless a request fails or a reply of the reader's own intervenes.
ReaderCatchesUp ==
  mounted /\ onward /\ (\E p \in served : Hidden(p))
    ~> ~ mounted \/ ~ onward \/ (\A p \in served : ~ Hidden(p))

-----------------------------------------------------------------------------
(* The inductive invariant behind GapHasCause.                             *)

\* Cursors point into the list, and nothing is left of a request or of a
\* screen that is gone.
CacheOK ==
  /\ lastArg # 0 => lastArg \in Elements(list)
  /\ request.arg # 0 => request.arg \in Elements(list)
  /\ request.state # "served" => request.page = {}
  /\ ~ mounted => after = 0 /\ prevLen = 0 /\ ~ hasMore
  /\ hasMore => list # << >>

\* The same for the page in flight as for the list.
PageHasCause ==
  \A p \in Committed \ Sent, q \in request.page : Before(p, q) => HasCause(p)

PagesInv == CacheOK /\ PageHasCause /\ GapHasCause

-----------------------------------------------------------------------------
(* The inductive invariant behind WalkIsComplete.                          *)

\* What the screen has counted is what the list holds.
CountOK ==
  /\ mounted => prevLen = Len(list)
  /\ ~ loaded => list = << >>

\* Rows that the request in flight asks for.
Further(p) == request.arg # 0 => Key(p) > Key(request.arg)

\* A reader that has only gone on has loaded page after page: no post of the
\* list is beyond the last one, a request goes on from there, and its answer
\* has only what comes next, all of it when the page is not full.
OnwardOK ==
  mounted /\ onward =>
    /\ \A p \in Elements(list) : Key(p) <= Key(list[Len(list)])
    /\ request.state # "idle" =>
         IF list = << >> THEN request.arg = 0
                         ELSE request.arg = list[Len(list)] /\ hasMore
    /\ request.state = "served" =>
         /\ \A p \in request.page : Further(p)
         /\ Cardinality(request.page) < PageSize =>
              \A p \in served : Further(p) => p \in request.page

WalkInv == CountOK /\ OnwardOK /\ WalkIsComplete

=============================================================================
