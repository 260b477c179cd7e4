------------------------------ MODULE Accounts ------------------------------
(***************************************************************************)
(* Agents: the names they register, the tokens they get for them and the   *)
(* profiles they update.  A caller is a CLI process, which works on the    *)
(* database itself, or a request to the server.  Neither operation is a    *)
(* transaction: Register looks the name up and inserts the row later,      *)
(* behind a UNIQUE index, and UpdateMe reads the row, changes the fields   *)
(* it was given and writes all of them back.                               *)
(***************************************************************************)
EXTENDS Integers, FiniteSets

CONSTANTS
  Callers,    \* commands and requests that may be under way at one time
  Names,      \* what an agent may be called
  NoName,     \* the name of a caller that is not registering
  Fields,     \* the fields of a profile that an update may change
  Clearable,  \* those an update may also clear: metadata
  Values,     \* what a field may hold
  Blank,      \* the empty value of a field
  Absent,     \* a field that a caller does not give
  Forms,      \* what callers may give
  MaxAgents,  \* bound: registrations that succeed
  MaxFaults   \* bound: failures, lost answers and replaced databases together

Tokens   == 1 .. MaxAgents    \* numbered in the order they are issued
NoToken  == 0
Profiles == [Fields -> Values]
Given    == [Fields -> Values \cup {Absent}]

NothingGiven == [f \in Fields |-> Absent]

\* An empty text stands for a field that is not given, but metadata may be
\* given and empty.
ASSUME AccountsAssumption ==
  /\ NoName \notin Names
  /\ Blank \in Values
  /\ Absent \notin Values
  /\ Forms \subseteq {g \in Given : \A f \in Fields \ Clearable : g[f] # Blank}
  /\ MaxAgents \in Nat
  /\ MaxFaults \in Nat

Answers == {"none", "created", "updated", "conflict", "invalid",
            "unauthenticated", "error"}

VARIABLES
  agents,   \* table agents: agents[t] is the row whose token is t
  issued,   \* the last token issued
  known,    \* the tokens that have reached those they were issued to
  pc,       \* what caller c does next
  name,     \* the name c registers
  bearer,   \* the token c came with, or was issued
  given,    \* the fields c gives
  row,      \* the profile c's update has read
  answer,   \* what c is answered
  faults,   \* how many faults have happened
  \* history, read by no action
  settled,  \* settled[t][f]: what the last call that gave f wrote
  stale,    \* callers whose row has been written since they read it
  raced     \* tokens whose row a stale caller has written

call    == <<pc, name, bearer, given, row, answer>>
history == <<settled, stale, raced>>
accounts == <<agents, issued, known, call, faults, history>>

-----------------------------------------------------------------------------
Init ==
  /\ agents = [t \in {} |-> 0]
  /\ issued = 0
  /\ known = {}
  /\ pc = [c \in Callers |-> "idle"]
  /\ name = [c \in Callers |-> NoName]
  /\ bearer = [c \in Callers |-> NoToken]
  /\ given = [c \in Callers |-> NothingGiven]
  /\ row = [c \in Callers |-> NothingGiven]
  /\ answer = [c \in Callers |-> "none"]
  /\ faults = 0
  /\ settled = [t \in Tokens |-> NothingGiven]
  /\ stale = {}
  /\ raced = {}

Goto(c, from, to) ==
  /\ pc[c] = from
  /\ pc' = [pc EXCEPT ![c] = to]

Fault ==
  /\ faults < MaxFaults
  /\ faults' = faults + 1

Reply(c, a) == answer' = [answer EXCEPT ![c] = a]

-----------------------------------------------------------------------------
(* Register.                                                               *)

Taken == {agents[t].name : t \in DOMAIN agents}

Register(c, n, g) ==
  /\ issued < MaxAgents
  /\ Goto(c, "idle", "check")
  /\ name' = [name EXCEPT ![c] = n]
  /\ given' = [given EXCEPT ![c] = g]
  /\ UNCHANGED <<agents, issued, known, bearer, row, answer, faults, history>>

\* The check that is there "for a clean 409".
CheckName(c) ==
  /\ pc[c] = "check"
  /\ IF name[c] \in Taken
     THEN Goto(c, "check", "answered") /\ Reply(c, "conflict")
     ELSE Goto(c, "check", "insert") /\ UNCHANGED answer
  /\ UNCHANGED <<agents, issued, known, name, bearer, given, row, faults,
                 history>>

\* The UNIQUE index: the name has been taken since it was looked up.
Unique(c) == name[c] \in Taken

NewProfile(g) == [f \in Fields |-> IF g[f] = Absent THEN Blank ELSE g[f]]

\* The INSERT, with a token minted for it.
InsertAgent(c) ==
  LET t == issued + 1
      p == NewProfile(given[c])
  IN
  /\ ~Unique(c)
  /\ t \in Tokens
  /\ Goto(c, "insert", "answered")
  /\ Reply(c, "created")
  /\ issued' = t
  /\ bearer' = [bearer EXCEPT ![c] = t]
  /\ agents' = [u \in DOMAIN agents \cup {t} |->
                  IF u = t THEN [name |-> name[c], profile |-> p]
                  ELSE agents[u]]
  /\ settled' = [settled EXCEPT ![t] = p]
  /\ UNCHANGED <<known, name, given, row, faults, stale, raced>>

InsertRefused(c) ==
  /\ Unique(c)
  /\ Goto(c, "insert", "answered")
  /\ Reply(c, "conflict")
  /\ UNCHANGED <<agents, issued, known, name, bearer, given, row, faults,
                 history>>

-----------------------------------------------------------------------------
(* UpdateMe.                                                               *)

\* The server resolves the token before the handler runs, and UpdateMe resolves
\* it again, as it does for a CLI process.  What counts is the last row read: an
\* agent is never removed.
Update(c, t, g) ==
  /\ Goto(c, "idle", "resolve")
  /\ bearer' = [bearer EXCEPT ![c] = t]
  /\ given' = [given EXCEPT ![c] = g]
  /\ UNCHANGED <<agents, issued, known, name, row, answer, faults, history>>

\* ResolveAgent reads the whole row.
Resolve(c) ==
  /\ bearer[c] \in DOMAIN agents
  /\ Goto(c, "resolve", "write")
  /\ row' = [row EXCEPT ![c] = agents[bearer[c]].profile]
  /\ stale' = stale \ {c}
  /\ UNCHANGED <<agents, issued, known, name, bearer, given, answer, faults,
                 settled, raced>>

Unauthenticated(c) ==
  /\ bearer[c] \notin DOMAIN agents
  /\ Goto(c, "resolve", "answered")
  /\ Reply(c, "unauthenticated")
  /\ UNCHANGED <<agents, issued, known, name, bearer, given, row, faults,
                 history>>

\* Mutant: the fields that were not given are cleared.
MergedCleared(old, g) == NewProfile(g)

\* "Fields left empty are not changed": they keep the value that was read.
Merged(old, g) == [f \in Fields |-> IF g[f] = Absent THEN old[f] ELSE g[f]]

\* UpdateAgent writes every field.
WriteBack(c) ==
  LET t == bearer[c] IN
  /\ t \in DOMAIN agents
  /\ Goto(c, "write", "answered")
  /\ Reply(c, "updated")
  /\ agents' = [agents EXCEPT ![t].profile = Merged(row[c], given[c])]
  /\ settled' = [settled EXCEPT ![t] =
                   [f \in Fields |-> IF given[c][f] = Absent THEN @[f]
                                     ELSE given[c][f]]]
  /\ stale' = (stale \ {c}) \cup {d \in Callers \ {c} :
                                    pc[d] = "write" /\ bearer[d] = t}
  /\ raced' = IF c \in stale THEN raced \cup {t} ELSE raced
  /\ UNCHANGED <<issued, known, name, bearer, given, row, faults>>

-----------------------------------------------------------------------------
\* validateMetadata refuses what was given, or the name is blank.
Refuse(c) ==
  /\ pc[c] \in {"check", "write"}
  /\ pc' = [pc EXCEPT ![c] = "answered"]
  /\ Reply(c, "invalid")
  /\ stale' = stale \ {c}
  /\ UNCHANGED <<agents, issued, known, name, bearer, given, row, faults,
                 settled, raced>>

FailureReply(c) == "error"

\* A query fails, or the context ends: nothing has been written.
Break(c) ==
  /\ Fault
  /\ pc[c] \in {"check", "insert", "resolve", "write"}
  /\ pc' = [pc EXCEPT ![c] = "answered"]
  /\ Reply(c, FailureReply(c))
  /\ stale' = stale \ {c}
  /\ UNCHANGED <<agents, issued, known, name, bearer, given, row, settled,
                 raced>>

Forget(c) ==
  /\ Goto(c, "answered", "idle")
  /\ name' = [name EXCEPT ![c] = NoName]
  /\ bearer' = [bearer EXCEPT ![c] = NoToken]
  /\ given' = [given EXCEPT ![c] = NothingGiven]
  /\ row' = [row EXCEPT ![c] = NothingGiven]
  /\ Reply(c, "none")
  /\ UNCHANGED <<agents, issued, history>>

\* The caller has its answer.  The token is shown exactly once, in this one.
Receive(c) ==
  /\ Forget(c)
  /\ known' = IF answer[c] = "created" THEN known \cup {bearer[c]} ELSE known
  /\ UNCHANGED faults

LoseAnswer(c) ==
  /\ Fault
  /\ Forget(c)
  /\ UNCHANGED known

\* The database file is removed or replaced while nothing uses it: every
\* token becomes one that nobody has issued.
ReplaceDatabase ==
  /\ Fault
  /\ \A c \in Callers : pc[c] = "idle"
  /\ agents' = [t \in {} |-> 0]
  /\ UNCHANGED <<issued, known, call, history>>

-----------------------------------------------------------------------------
Begin(c) ==
  \/ \E n \in Names, g \in Forms \cup {NothingGiven} : Register(c, n, g)
  \/ \E t \in known \cup {NoToken}, g \in Forms : Update(c, t, g)

Work(c) ==
  \/ CheckName(c)
  \/ InsertAgent(c)
  \/ InsertRefused(c)
  \/ Resolve(c)
  \/ Unauthenticated(c)
  \/ WriteBack(c)
  \/ Refuse(c)
  \/ Break(c)

End(c) == Receive(c) \/ LoseAnswer(c)

Next ==
  \/ \E c \in Callers : Begin(c) \/ Work(c) \/ End(c)
  \/ ReplaceDatabase

Spec == Init /\ [][Next]_accounts

-----------------------------------------------------------------------------
(* Properties.                                                             *)

\* Every variable has its type.
TypeOK ==
  /\ issued \in 0 .. MaxAgents
  /\ DOMAIN agents \subseteq 1 .. issued
  /\ agents \in [DOMAIN agents -> [name : Names, profile : Profiles]]
  /\ known \subseteq 1 .. issued
  /\ pc \in [Callers -> {"idle", "check", "insert", "resolve", "write", "answered"}]
  /\ name \in [Callers -> Names \cup {NoName}]
  /\ bearer \in [Callers -> 0 .. issued]
  /\ given \in [Callers -> Given]
  /\ row \in [Callers -> Given]
  /\ answer \in [Callers -> Answers]
  /\ faults \in 0 .. MaxFaults
  /\ settled \in [Tokens -> Given]
  /\ stale \subseteq Callers
  /\ raced \subseteq Tokens

\* However many callers ask for a name at one time, one of them gets it: no two
\* agents have the same name, no two callers the same token, and a token that
\* is handed out belongs to an agent of the name that was asked for.
RegistrationIsExclusive ==
  /\ \A t, u \in DOMAIN agents : agents[t].name = agents[u].name => t = u
  /\ \A c \in Callers : answer[c] = "created" =>
       /\ bearer[c] \in DOMAIN agents \ known
       /\ agents[bearer[c]].name = name[c]
       /\ \A d \in Callers : answer[d] = "created" /\ bearer[d] = bearer[c]
            => c = d

\* A conflict is answered only for a name that somebody else has, not for a
\* registration that failed.
ConflictIsTrue ==
  \A c \in Callers : answer[c] = "conflict" => name[c] \in Taken

\* "Fields left empty are not changed": a field holds what the last call that
\* gave it wrote, unless an update wrote back a row that had been written since
\* it was read.
LostUpdateHasCause ==
  \A t \in DOMAIN agents \ raced : agents[t].profile = settled[t]

\* The inductive invariant: an update that is not stale has read what the row
\* still holds, and only a caller that was answered so has a new token.
AccountsInv ==
  /\ RegistrationIsExclusive
  /\ ConflictIsTrue
  /\ LostUpdateHasCause
  /\ \A c \in Callers :
       /\ pc[c] = "write" =>
            /\ bearer[c] \in DOMAIN agents
            /\ row[c] \in Profiles
            /\ c \notin stale => row[c] = agents[bearer[c]].profile
       /\ c \in stale => pc[c] = "write"
       /\ answer[c] # "none" => pc[c] = "answered"
       /\ pc[c] \in {"check", "insert"} => name[c] \in Names
=============================================================================
