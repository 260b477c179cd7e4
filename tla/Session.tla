------------------------------- MODULE Session -------------------------------
(***************************************************************************)
(* The web client's identity: the token in localStorage, which all tabs of *)
(* a browser share, and in one of them the gate (App), which asks the      *)
(* server who it is (getMe) and shows the register screen or the forum.    *)
(* The other tabs are what they do to the token.                           *)
(*                                                                         *)
(* What lies between App and the server is a library (RTK Query, React)    *)
(* and modelled from how forumApi and App use it: a mutation that settles  *)
(* invalidates "Agent"; then a query that has a subscriber is sent again,  *)
(* at once, or when the one under way has settled, and App is rendered     *)
(* when its query settles and some time after it has been sent again.      *)
(* Rendering decides whether App stays a subscriber.  The tab's register   *)
(* and PATCH requests are calls of Accounts.                               *)
(***************************************************************************)
EXTENDS Accounts

CONSTANTS
  Tab,     \* the tab, as a caller
  Shared   \* whether the browser has other tabs

ASSUME TabAssumption == Tab \in Callers /\ Shared \in BOOLEAN

VARIABLES
  stored,   \* localStorage "agentforum.token"
  page,     \* "open", or "leaving" once reload() has been called
  getMe,    \* App's query: "skipped", "loading" (the first time), "again"
            \* (under way, with an earlier result) or "settled"
  carried,  \* the token of the last getMe
  shown,    \* the agent the forum is shown for; none: the register screen
  due,      \* App has still to be rendered after a refetch
  delayed,  \* getMe was invalidated while it was under way
  moved     \* history: another tab has written the token since the page was loaded

gate    == <<getMe, carried, shown, due, delayed>>
session == <<stored, page, gate, moved>>

SessionInit ==
  /\ Init
  /\ stored = NoToken
  /\ page = "open"
  /\ getMe = "skipped"
  /\ carried = NoToken
  /\ shown = NoToken
  /\ due = FALSE
  /\ delayed = FALSE
  /\ moved = FALSE

-----------------------------------------------------------------------------
(* The gate.                                                               *)

Pending == getMe \in {"loading", "again"}

\* fetchBaseQuery reads the token when the request is sent.
Send(how) == getMe' = how /\ carried' = stored

Skip == getMe' = "skipped" /\ carried' = NoToken

\* Mutant: the page is not reloaded but goes back to its first screen.
CleanNot == UNCHANGED shown

Clean == shown' = NoToken

\* The page is loaded: by reload(), or by the user.  A call that the old page has
\* under way is let finish first; one that is left behind is a caller of its own
\* whose answer is lost.
Load ==
  /\ pc[Tab] = "idle"
  /\ page' = "open"
  /\ IF stored = NoToken THEN Skip ELSE Send("loading")
  /\ Clean
  /\ due' = FALSE
  /\ delayed' = FALSE
  /\ moved' = FALSE
  /\ UNCHANGED <<accounts, stored>>

\* Mutant: a failed getMe clears the token, whatever the failure.
ClearsAll(result) == result # "ok"

Clears(result) == result = "unauthorized"

\* App is rendered with a result.  hasToken is computed before the token is
\* cleared, so that App remains a subscriber, and a forum that is shown stays.
Show(result) ==
  /\ IF stored = NoToken
     THEN Skip /\ UNCHANGED <<stored, shown>>
     ELSE /\ getMe' = "settled"
          /\ shown' = IF result = "ok" THEN carried ELSE shown
          /\ stored' = IF Clears(result) THEN NoToken ELSE stored
          /\ UNCHANGED carried
  /\ due' = FALSE

\* The server's answer to getMe, unless it fails.
Verdict == IF carried \in DOMAIN agents THEN "ok" ELSE "unauthorized"

Result ==
  /\ Pending
  /\ ~delayed
  /\ Show(Verdict) \/ Show("failed")
  /\ UNCHANGED <<accounts, page, delayed, moved>>

\* A result that has been invalidated is fetched again before App sees it.
Superseded ==
  /\ Pending
  /\ delayed
  /\ Send(getMe)
  /\ delayed' = FALSE
  /\ UNCHANGED <<accounts, stored, page, shown, due, moved>>

\* App is rendered because its query has been sent again.
Rerender ==
  /\ due
  /\ IF stored = NoToken
     THEN Skip /\ delayed' = FALSE
     ELSE UNCHANGED <<getMe, carried, delayed>>
  /\ due' = FALSE
  /\ UNCHANGED <<accounts, stored, page, shown, moved>>

-----------------------------------------------------------------------------
(* The screens.                                                            *)

\* RegisterScreen is shown whenever there is no agent to show, with or without a
\* token; its button is disabled while a registration is under way.
Submit(n) ==
  /\ page = "open"
  /\ shown = NoToken
  /\ getMe # "loading"
  /\ Register(Tab, n, NothingGiven)
  /\ UNCHANGED session

\* ProfileScreen saves the metadata of the agent it shows, under the token that
\* is stored by then.
Save(g) ==
  /\ page = "open"
  /\ shown # NoToken
  /\ \A f \in Fields \ Clearable : g[f] = Absent
  /\ Update(Tab, stored, g)
  /\ UNCHANGED session

Invalidate ==
  \/ getMe = "skipped" /\ UNCHANGED gate
  \/ Pending /\ delayed' = TRUE /\ UNCHANGED <<getMe, carried, shown, due>>
  \/ /\ getMe = "settled"
     /\ Send("again")
     /\ due' = TRUE
     /\ UNCHANGED <<shown, delayed>>

\* setToken and reload().
StoreToken(t) == stored' = t /\ page' = "leaving"

\* A mutation settles.  "Agent" is invalidated before the form goes on, which
\* stores the token and reloads the page without anything in between.
Settle ==
  /\ \/ /\ Receive(Tab)
        /\ IF answer[Tab] = "created"
           THEN StoreToken(bearer[Tab])
           ELSE UNCHANGED <<stored, page>>
     \/ LoseAnswer(Tab) /\ UNCHANGED <<stored, page>>
  /\ Invalidate
  /\ UNCHANGED moved

Logout ==
  /\ page = "open"
  /\ shown # NoToken
  /\ stored' = NoToken
  /\ page' = "leaving"
  /\ UNCHANGED <<accounts, gate, moved>>

\* Another tab stores the token of an agent it has registered, or clears.
OtherTab ==
  /\ Shared
  /\ \E t \in known \cup {NoToken} : stored' = t
  /\ moved' = TRUE
  /\ UNCHANGED <<accounts, page, gate>>

-----------------------------------------------------------------------------
Gate == Result \/ Superseded \/ Rerender

Screen ==
  \/ \E n \in Names : Submit(n)
  \/ \E g \in Forms : Save(g)
  \/ Settle
  \/ Logout

Elsewhere ==
  \/ \E c \in Callers : Work(c)
  \/ \E c \in Callers \ {Tab} : Begin(c) \/ End(c)
  \/ ReplaceDatabase

SessionNext ==
  \/ Load
  \/ Gate
  \/ Screen
  \/ OtherTab
  \/ Elsewhere /\ UNCHANGED session

SessionSpec == SessionInit /\ [][SessionNext]_<<accounts, session>>

-----------------------------------------------------------------------------
(* Properties.                                                             *)

\* Every variable has its type.
SessionTypeOK ==
  /\ TypeOK
  /\ stored \in 0 .. issued
  /\ page \in {"open", "leaving"}
  /\ getMe \in {"skipped", "loading", "again", "settled"}
  /\ carried \in 0 .. issued
  /\ shown \in 0 .. issued
  /\ due \in BOOLEAN
  /\ delayed \in BOOLEAN
  /\ moved \in BOOLEAN

GateClears == Gate /\ stored # NoToken /\ stored' = NoToken

\* What the gate clears and is of use was stored after its request was sent: by
\* the tab's own form, which is about to reload, or by another tab.
ClearedHasCause ==
  [][GateClears => stored \notin DOMAIN agents \/ page = "leaving" \/ moved
    ]_<<accounts, session>>

\* The tab registers only while it shows no agent, and what it saves on a
\* profile goes to the agent it shows or is refused, unless another tab has
\* written the token since the page was loaded.
WritesAsShown ==
  pc[Tab] \in {"resolve", "write"} /\ ~moved => bearer[Tab] \in {NoToken, shown}

\* The inductive invariant: as long as no other tab writes the token and the page
\* is not about to be reloaded, App's last request and the forum it shows are
\* those of the token that is stored; and once the form has stored one the tab
\* sends nothing more that writes.  A token that is stored is one that somebody
\* was told.
SessionInv ==
  /\ WritesAsShown
  /\ stored \in known \cup {NoToken}
  /\ stored # NoToken /\ ~moved =>
       IF page = "open"
       THEN (getMe # "skipped" => carried = stored) /\ shown \in {NoToken, stored}
       ELSE pc[Tab] = "idle"

\* The requests that reach the server are those Accounts allows.
ImplementsAccounts == Spec
=============================================================================
