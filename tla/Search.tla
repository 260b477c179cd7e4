------------------------------- MODULE Search -------------------------------
(***************************************************************************)
(* Searching in a tab.  The search bar of the sidebar waits until the user *)
(* has stopped typing, then goes to /search?q=; SearchScreen asks for what *)
(* its own field and filters say, at every keystroke; the filters are      *)
(* edited as a draft in a dialog (MetadataFilterPanel).  The answers are   *)
(* kept by question in the query cache.                                    *)
(***************************************************************************)
EXTENDS Integers, Sequences, FiniteSets, SequencesExt

CONSTANTS
  Words,     \* what is searched for, other than nothing
  Rows,      \* rows of the dialog: [key, value], "" where nothing was typed
  MaxRows,   \* bound: rows of a draft
  MaxDeeds   \* bound: what the user does and what fails, all together

ASSUME SearchAssumption ==
  /\ "" \notin Words
  /\ {MaxRows, MaxDeeds} \subseteq Nat

VARIABLES
  sidebarOpen,  \* of uiSlice
  value,        \* what the search bar shows
  timers,       \* searches the search bar is still waiting with
  orphans,      \* those of search bars that are gone
  location,     \* the address: page "search" or "other", and q
  text, filters,              \* the state of SearchScreen
  filtersOpen, draft,         \* the dialog, and what it shows
  composing,    \* an input method is composing in the dialog
  asked,        \* questions on their way
  answered,     \* questions the cache has hits for
  failed,       \* questions that failed
  subforums,    \* whether the list of subforums has come
  shown,        \* the question whose hits SearchScreen shows, in a set
  wanted,       \* what the user has made of the draft
  renders,      \* whether SearchScreen was rendered since the draft was touched
  deeds

bar        == <<sidebarOpen, value, timers, orphans>>
screen     == <<text, filters>>
panel      == <<filtersOpen, draft, composing, wanted, renders>>
cache      == <<asked, answered, failed, shown>>
searchVars == <<bar, location, screen, panel, cache, subforums, deeds>>

Texts == Words \cup {""}

NoFilters == [terms |-> << >>, scope |-> FALSE]

\* What a dialog can hold: rows, and whether the other filters are set.
Drafts == [terms : UNION {[1 .. n -> Rows] : n \in 0 .. MaxRows}, scope : BOOLEAN]

\* The n-th of a set of numbers, in their order.
Nth(S, n) == CHOOSE i \in S : Cardinality({j \in S : j < i}) = n - 1

Question(t, f) == [text |-> t, filters |-> f]

\* Object.fromEntries of the body of search: of the rows of one key the last one.
Metadata(terms) ==
  [k \in {terms[i].key : i \in DOMAIN terms} |->
     terms[SelectLastInSeq(terms, LAMBDA row : row.key = k)].value]

Deed == deeds < MaxDeeds /\ deeds' = deeds + 1

OnSearch == location.page = "search"

SearchInit ==
  /\ sidebarOpen = TRUE
  /\ value = "" /\ timers = {} /\ orphans = {}
  /\ location = [page |-> "other", q |-> ""]
  /\ text = "" /\ filters = NoFilters
  /\ filtersOpen = FALSE /\ draft = NoFilters /\ composing = FALSE
  /\ asked = {} /\ answered = {} /\ failed = {} /\ shown = {}
  /\ subforums = FALSE
  /\ wanted = NoFilters /\ renders = FALSE
  /\ deeds = 0

-----------------------------------------------------------------------------
(* What SearchScreen renders.                                              *)

\* Mutant: hits, once there, are not replaced.
HitsKept(before, question, good) ==
  IF before = {} /\ question \in good THEN {question} ELSE before

\* The hits of useSearchQuery: its question's when they are there, the last ones
\* otherwise.
Hits(before, question, good) == IF question \in good THEN {question} ELSE before

\* SearchScreen with text t and filters f; before: what it showed.
Ask(t, f, before) ==
  LET question == Question(t, f) IN
  /\ text' = t /\ filters' = f
  /\ asked' = IF question \in answered THEN asked ELSE asked \cup {question}
  /\ failed' = failed \ (asked' \ asked)
  /\ shown' = Hits(before, question, answered)
  /\ UNCHANGED answered

\* SearchScreen is mounted: its state starts anew, the text from the address.
MountScreen(q) ==
  /\ Ask(q, NoFilters, {})
  /\ filtersOpen' = FALSE /\ composing' = FALSE
  /\ draft' = NoFilters /\ wanted' = NoFilters /\ renders' = FALSE

\* SearchScreen is unmounted.
UnmountScreen ==
  /\ text' = "" /\ filters' = NoFilters /\ shown' = {}
  /\ filtersOpen' = FALSE /\ composing' = FALSE
  /\ draft' = NoFilters /\ wanted' = NoFilters /\ renders' = FALSE
  /\ UNCHANGED <<asked, answered, failed>>

\* SearchScreen is rendered again while the dialog may be open: current is a new
\* object, and the effect of the dialog resets its draft.
Rerender ==
  /\ draft' = IF filtersOpen THEN filters ELSE draft
  /\ renders' = filtersOpen
  /\ UNCHANGED <<filtersOpen, composing, wanted>>

-----------------------------------------------------------------------------
(* The search bar, the sidebar and the menu.                               *)

\* Mutant: the timer of the last keystroke is not cleared.
TimersAlso(q) == timers \cup {q}

\* clearTimeout, setTimeout.
TimersAfter(q) == {q}

\* handleChange
Type(q) ==
  /\ Deed
  /\ sidebarOpen /\ ~ filtersOpen /\ q # value
  /\ value' = q
  /\ timers' = TimersAfter(q)
  /\ UNCHANGED <<sidebarOpen, orphans, location, screen, panel, cache, subforums>>

\* handleClear: it searches for nothing at once, which goes nowhere, and leaves
\* the timer running.
Clear ==
  /\ Deed
  /\ sidebarOpen /\ ~ filtersOpen /\ value # ""
  /\ value' = ""
  /\ UNCHANGED <<sidebarOpen, timers, orphans, location, screen, panel, cache, subforums>>

\* The address changes to /search?q=q.  A screen that is there stays, with the
\* text it has.
Go(q) ==
  /\ location' = [page |-> "search", q |-> q]
  /\ IF OnSearch THEN Rerender /\ UNCHANGED <<screen, cache>> ELSE MountScreen(q)

\* A timer fires: handleSearch.
Fire(q) ==
  /\ q \in timers \cup orphans
  /\ IF q \in timers THEN timers' = timers \ {q} /\ UNCHANGED orphans
     ELSE orphans' = orphans \ {q} /\ UNCHANGED timers
  /\ IF q # "" THEN Go(q) ELSE UNCHANGED <<location, screen, panel, cache>>
  /\ UNCHANGED <<sidebarOpen, value, subforums, deeds>>

\* The menu's "Search".
OpenSearch ==
  /\ Deed
  /\ ~ filtersOpen
  /\ Go("")
  /\ UNCHANGED <<bar, subforums>>

\* Any other page.
Leave ==
  /\ Deed
  /\ ~ filtersOpen /\ OnSearch
  /\ location' = [page |-> "other", q |-> ""]
  /\ UnmountScreen
  /\ UNCHANGED <<bar, subforums>>

\* toggleSidebar: the screen is in another place of the tree then, and is mounted
\* again; the timers of the old search bar go on.
ToggleSidebar ==
  /\ Deed
  /\ ~ filtersOpen
  /\ sidebarOpen' = ~ sidebarOpen
  /\ value' = "" /\ timers' = {} /\ orphans' = orphans \cup timers
  /\ IF OnSearch THEN MountScreen(location.q) ELSE UNCHANGED <<screen, panel, cache>>
  /\ UNCHANGED <<location, subforums>>

-----------------------------------------------------------------------------
(* SearchScreen.                                                           *)

\* A keystroke in its field.
TypeText(t) ==
  /\ Deed
  /\ OnSearch /\ ~ filtersOpen /\ t # text
  /\ Ask(t, filters, shown)
  /\ UNCHANGED <<bar, location, panel, subforums>>

\* submit
Submit ==
  /\ Deed
  /\ OnSearch /\ ~ filtersOpen
  /\ location' = [location EXCEPT !.q = text]
  /\ UNCHANGED <<bar, screen, panel, cache, subforums>>

\* A question ends; what is shown is rendered again.
Arrive(question, ok) ==
  /\ question \in asked
  /\ IF ok THEN UNCHANGED deeds ELSE Deed
  /\ asked' = asked \ {question}
  /\ answered' = IF ok THEN answered \cup {question} ELSE answered
  /\ failed' = IF ok THEN failed ELSE failed \cup {question}
  /\ IF OnSearch /\ question = Question(text, filters)
     THEN shown' = Hits(shown, question, answered') /\ Rerender
     ELSE UNCHANGED <<shown, panel>>
  /\ UNCHANGED <<bar, location, screen, subforums>>

\* The list of subforums comes, for the dialog.
SubforumsCome ==
  /\ ~ subforums
  /\ subforums' = TRUE
  /\ IF OnSearch THEN Rerender ELSE UNCHANGED panel
  /\ UNCHANGED <<bar, location, screen, cache, deeds>>

\* keepUnusedDataFor; tags never make a question be asked again.
Forget(question) ==
  /\ question \in answered \ shown
  /\ ~ (OnSearch /\ question = Question(text, filters))
  /\ answered' = answered \ {question}
  /\ UNCHANGED <<bar, location, screen, panel, asked, failed, shown, subforums, deeds>>

-----------------------------------------------------------------------------
(* The dialog.                                                             *)

\* Mutant: what was not applied is still there.
DraftLeft == draft

\* The effect of the dialog when it opens.
DraftAtOpen == filters

OpenFilters ==
  /\ Deed
  /\ OnSearch /\ ~ filtersOpen
  /\ filtersOpen' = TRUE
  /\ draft' = DraftAtOpen
  /\ wanted' = filters /\ renders' = FALSE
  /\ UNCHANGED <<bar, location, screen, composing, cache, subforums>>

\* Some edits.
Edit(d) ==
  /\ Deed
  /\ filtersOpen /\ d # draft
  /\ draft' = d /\ wanted' = d /\ renders' = FALSE
  /\ composing' \in BOOLEAN
  /\ UNCHANGED <<bar, location, screen, filtersOpen, cache, subforums>>

\* A row is a term when it has a key and a value.
IsTerm(row) == row.key # "" /\ row.value # ""

\* The filter of apply: the rows that are terms, in their order.
Terms(rows) ==
  LET kept == {i \in DOMAIN rows : IsTerm(rows[i])}
  IN  [n \in 1 .. Cardinality(kept) |-> rows[Nth(kept, n)]]

Apply ==
  /\ filtersOpen
  /\ filtersOpen' = FALSE /\ composing' = FALSE
  /\ Ask(text, [terms |-> Terms(draft.terms), scope |-> draft.scope], shown)
  /\ UNCHANGED <<bar, location, draft, wanted, renders, subforums, deeds>>

\* Cancel, the cross, a click beside the dialog.
Cancel ==
  /\ filtersOpen
  /\ filtersOpen' = FALSE /\ composing' = FALSE
  /\ UNCHANGED <<bar, location, screen, draft, wanted, renders, cache, subforums, deeds>>

\* handleEscapeKeyDown.  Nothing sets the dialog's own note of a composition, so it
\* all hangs on isComposing of the event, which Safari may have cleared already.
Escape(isComposing) ==
  /\ filtersOpen
  /\ isComposing => composing
  /\ composing' = FALSE
  /\ filtersOpen' = isComposing
  /\ UNCHANGED <<bar, location, screen, draft, wanted, renders, cache, subforums, deeds>>

-----------------------------------------------------------------------------
SearchNext ==
  \/ \E q \in Texts : Type(q) \/ Fire(q) \/ TypeText(q)
  \/ Clear
  \/ OpenSearch
  \/ Leave
  \/ ToggleSidebar
  \/ Submit
  \/ \E question \in asked, ok \in BOOLEAN : Arrive(question, ok)
  \/ \E question \in answered : Forget(question)
  \/ SubforumsCome
  \/ OpenFilters
  \/ \E d \in Drafts : Edit(d)
  \/ Apply
  \/ Cancel
  \/ \E isComposing \in BOOLEAN : Escape(isComposing)

SearchSpec == SearchInit /\ [][SearchNext]_searchVars

-----------------------------------------------------------------------------
(* Properties.                                                             *)

\* The hits on the screen are those of its text and filters, unless these are
\* still asked for or could not be: however fast one types, an older answer never
\* stands for a newer question.
HitsAreForTheQuestion ==
  OnSearch /\ shown # {Question(text, filters)}
    => Question(text, filters) \in asked \cup failed

\* Every filter that is applied narrows the search, unless a later one has the
\* same key: the two are said to be combined with AND.
TermIsAsked ==
  \A i \in DOMAIN filters.terms :
    \/ Metadata(filters.terms)[filters.terms[i].key] = filters.terms[i].value
    \/ \E j \in DOMAIN filters.terms : j > i /\ filters.terms[j].key = filters.terms[i].key

\* The hits on the screen answer the text and the filters it shows.
HitsAnswerTheScreen == HitsAreForTheQuestion /\ TermIsAsked

\* The draft is what the user made of it since the dialog was opened, unless an
\* answer came in the meantime and reset it.
DraftLostHasCause == filtersOpen /\ draft # wanted => renders

\* At most one search waits in the search bar, for what it shows, or showed when
\* it was cleared.
SearchIsLastTyped ==
  /\ \A p, q \in timers : p = q
  /\ timers \subseteq {value} \/ value = ""

-----------------------------------------------------------------------------
(* The inductive invariant.                                                *)

\* The search bar waits with one search at most: the last one typed, which the bar
\* still shows unless it was cleared.
OneTimer == timers = {} \/ \E q \in Texts : timers = {q} /\ value \in {q, ""}

\* The filters are a list of rows, and so is the draft of them.
FiltersAreRows == filters.terms \in Seq(Rows) /\ draft.terms \in Seq(Rows)

SearchInv == HitsAreForTheQuestion /\ DraftLostHasCause /\ OneTimer /\ FiltersAreRows
=============================================================================
