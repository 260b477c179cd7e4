----------------------------- MODULE Idempotency -----------------------------
(***************************************************************************)
(* Writes with an idempotency key.  CreateThread and CreatePost look the   *)
(* key up, commit the new rows, and record the result under the key: three *)
(* separate database calls, the last one with its error ignored.  Clients  *)
(* time out, disconnect and send the same request again, possibly while    *)
(* the server still executes the previous attempt.                         *)
(*                                                                         *)
(* A request is a logical write: an agent, a key and a kind.  Two requests *)
(* with the same three are retries of each other as far as the server can  *)
(* tell.  A row stands for everything one create commits.                  *)
(***************************************************************************)
EXTENDS Integers, Sequences, FiniteSets

CONSTANTS
  Requests,    \* logical writes
  NoRequest,
  Agents, Keys,
  NoKey,       \* the key of a request that carries none
  AgentOf,     \* AgentOf[o]: the authenticated agent
  KeyOf,       \* KeyOf[o]: its idempotency key
  KindOf,      \* KindOf[o]: what it creates, a thread or a post
  Attempts,    \* the server's concurrent request handlers
  NoAttempt,
  MaxRows,     \* bound: rows created or being created
  MaxFaults    \* bound: failed calls and restarts together

Kinds == {"thread", "post"}

ASSUME IdempotencyAssumption ==
  /\ NoRequest \notin Requests
  /\ NoKey \notin Keys
  /\ NoAttempt \notin Attempts
  /\ AgentOf \in [Requests -> Agents]
  /\ KeyOf \in [Requests -> Keys \cup {NoKey}]
  /\ KindOf \in [Requests -> Kinds]
  /\ MaxRows \in Nat
  /\ MaxFaults \in Nat

VARIABLES
  made,      \* the rows, in commit order: made[r] is the request r is for
  records,   \* idempotency_keys: the row recorded under a key, 0 for none
  pc,        \* what a handler does next
  request,   \* the request a handler executes
  row,       \* the row it is about to record or to answer with
  waiting,   \* waiting[o]: the handler whose answer o's client waits for
  answered,  \* answered[o]: the row o's client was told of last, 0 for none
  faults,    \* how many faults have happened
  \* history, read by no action
  spoiled    \* requests whose result was not recorded after the commit, or
             \* that were sent while a retry of theirs was still executing

client == <<waiting, answered>>
vars   == <<made, records, pc, request, row, client, faults, spoiled>>

-----------------------------------------------------------------------------
\* Requests the server takes for retries of one another.
Same(o, p) ==
  AgentOf[o] = AgentOf[p] /\ KeyOf[o] = KeyOf[p] /\ KindOf[o] = KindOf[p]

Executing == {"lookup", "create", "save"}

Init ==
  /\ made = << >>
  /\ records = [k \in Keys |-> 0]
  /\ pc = [x \in Attempts |-> "free"]
  /\ request = [x \in Attempts |-> NoRequest]
  /\ row = [x \in Attempts |-> 0]
  /\ waiting = [o \in Requests |-> NoAttempt]
  /\ answered = [o \in Requests |-> 0]
  /\ faults = 0
  /\ spoiled = {}

\* Handler x is done.  Nobody waits for it any longer.
Release(x) ==
  /\ pc' = [pc EXCEPT ![x] = "free"]
  /\ request' = [request EXCEPT ![x] = NoRequest]
  /\ row' = [row EXCEPT ![x] = 0]
  /\ waiting' = [o \in Requests |->
                   IF waiting[o] = x THEN NoAttempt ELSE waiting[o]]

\* A client sends its request, for the first time or again: it gave up on the
\* previous attempt, whatever has become of it, or was restarted.
Send(o, x) ==
  /\ pc[x] = "free"
  /\ Len(made) + Cardinality({y \in Attempts : pc[y] \in Executing}) < MaxRows
  /\ pc' = [pc EXCEPT ![x] = "lookup"]
  /\ request' = [request EXCEPT ![x] = o]
  /\ waiting' = [waiting EXCEPT ![o] = x]
  /\ spoiled' = IF \E y \in Attempts : pc[y] \in Executing /\ Same(request[y], o)
                THEN spoiled \cup {o} ELSE spoiled
  /\ UNCHANGED <<made, records, row, answered, faults>>

\* A record is a hit for the agent that wrote it, and only if the cached
\* response has what this kind of create returns.  Mutants: the agent
\* is not compared; CreatePost does not look.
HitAnyAgent(o) ==
  /\ KeyOf[o] # NoKey
  /\ records[KeyOf[o]] # 0
  /\ KindOf[made[records[KeyOf[o]]]] = KindOf[o]

HitThreads(o) ==
  /\ KeyOf[o] # NoKey
  /\ records[KeyOf[o]] # 0
  /\ KindOf[o] = "thread"
  /\ Same(made[records[KeyOf[o]]], o)

Hit(o) ==
  /\ KeyOf[o] # NoKey
  /\ records[KeyOf[o]] # 0
  /\ AgentOf[made[records[KeyOf[o]]]] = AgentOf[o]
  /\ KindOf[made[records[KeyOf[o]]]] = KindOf[o]

\* GetIdempotencyRecord: answer with the recorded row, or go on and create.
Lookup(x) ==
  /\ pc[x] = "lookup"
  /\ \/ /\ Hit(request[x])
        /\ pc' = [pc EXCEPT ![x] = "reply"]
        /\ row' = [row EXCEPT ![x] = records[KeyOf[request[x]]]]
     \/ /\ ~Hit(request[x])
        /\ pc' = [pc EXCEPT ![x] = "create"]
        /\ UNCHANGED row
  /\ UNCHANGED <<made, records, request, client, faults, spoiled>>

\* The store's transaction commits.
Create(x) ==
  /\ pc[x] = "create"
  /\ made' = Append(made, request[x])
  /\ row' = [row EXCEPT ![x] = Len(made) + 1]
  /\ pc' = [pc EXCEPT ![x] = "save"]
  /\ UNCHANGED <<records, request, client, faults, spoiled>>

\* SaveIdempotencyRecord: INSERT OR REPLACE with the key alone as primary key.
Save(x) ==
  LET k == KeyOf[request[x]] IN
  /\ pc[x] = "save"
  /\ records' = IF k = NoKey THEN records ELSE [records EXCEPT ![k] = row[x]]
  /\ pc' = [pc EXCEPT ![x] = "reply"]
  /\ UNCHANGED <<made, request, row, client, faults, spoiled>>

\* The answer is written.  Its client gets it unless it has gone on to another
\* attempt.
Reply(x) ==
  LET o == request[x] IN
  /\ pc[x] = "reply"
  /\ answered' = IF waiting[o] = x THEN [answered EXCEPT ![o] = row[x]]
                 ELSE answered
  /\ Release(x)
  /\ UNCHANGED <<made, records, faults, spoiled>>

-----------------------------------------------------------------------------
(* Faults.                                                                 *)

Fault ==
  /\ faults < MaxFaults
  /\ faults' = faults + 1

\* The lookup or the transaction fails (busy database, the client's context
\* cancelled): nothing is changed and the client is told so, if it is there.
CallFails(x) ==
  /\ Fault
  /\ pc[x] \in {"lookup", "create"}
  /\ Release(x)
  /\ UNCHANGED <<made, records, answered, spoiled>>

\* The record cannot be saved.  The error is dropped and the write answered.
SaveFails(x) ==
  /\ Fault
  /\ pc[x] = "save"
  /\ pc' = [pc EXCEPT ![x] = "reply"]
  /\ spoiled' = spoiled \cup {request[x]}
  /\ UNCHANGED <<made, records, request, row, client>>

\* The process stops and is started again.
Restart ==
  /\ Fault
  /\ pc' = [x \in Attempts |-> "free"]
  /\ request' = [x \in Attempts |-> NoRequest]
  /\ row' = [x \in Attempts |-> 0]
  /\ waiting' = [o \in Requests |-> NoAttempt]
  /\ spoiled' = spoiled \cup
                  {request[x] : x \in {y \in Attempts : pc[y] = "save"}}
  /\ UNCHANGED <<made, records, answered>>

Next ==
  \/ \E o \in Requests, x \in Attempts : Send(o, x)
  \/ \E x \in Attempts :
       \/ Lookup(x) \/ Create(x) \/ Save(x) \/ Reply(x)
       \/ CallFails(x) \/ SaveFails(x)
  \/ Restart

Spec == Init /\ [][Next]_vars

-----------------------------------------------------------------------------
(* Properties.                                                             *)

\* Every variable has its type; a handler has a row exactly when it has one to
\* record or to answer with.
TypeOK ==
  /\ made \in Seq(Requests)
  /\ records \in [Keys -> 0 .. Len(made)]
  /\ pc \in [Attempts -> Executing \cup {"free", "reply"}]
  /\ request \in [Attempts -> Requests \cup {NoRequest}]
  /\ \A x \in Attempts : request[x] = NoRequest <=> pc[x] = "free"
  /\ row \in [Attempts -> 0 .. Len(made)]
  /\ \A x \in Attempts : row[x] # 0 <=> pc[x] \in {"save", "reply"}
  /\ waiting \in [Requests -> Attempts \cup {NoAttempt}]
  /\ answered \in [Requests -> 0 .. Len(made)]
  /\ faults \in 0 .. MaxFaults
  /\ spoiled \in SUBSET Requests

\* Another request shares o's key without being a retry of o: another agent's,
\* or one of the same agent's that creates something else.
Rival(o, p) == KeyOf[p] = KeyOf[o] /\ ~Same(o, p)

\* Nothing stands in the way of o's key: it has one, nobody else uses it, no
\* result of it went unrecorded, and no two attempts ran at the same time.
Clean(o) ==
  /\ KeyOf[o] # NoKey
  /\ \A p \in Requests : ~Rival(o, p)
  /\ \A p \in spoiled : ~Same(o, p)

\* A retried write is created again only for one of three causes: its result
\* was not recorded after the commit, an attempt overlapped another, or its key
\* was used for something else.  However often the clients time out, are
\* restarted or repeat an answered request, nothing else duplicates it.
DuplicateHasCause ==
  \A r, s \in 1 .. Len(made) :
    Same(made[r], made[s]) /\ Clean(made[r]) => r = s

\* A client is told of a row its own request created, or a retry of it did,
\* never of one another agent wrote under the same key.
ReplyIsOwn ==
  \A o \in Requests : answered[o] # 0 => Same(made[answered[o]], o)

\* Once a client has had an answer, it and every client that repeats the
\* request are told the same.
AnswersAgree ==
  [][\A o, p \in Requests :
       answered[o] # 0 /\ answered'[p] # 0 /\ Same(o, p) /\ Clean(o)
         => answered'[p] = answered[o]]_vars

-----------------------------------------------------------------------------
(* The inductive invariant behind DuplicateHasCause and AnswersAgree.      *)

\* A record is for a row made under its key; a handler's row and a client's
\* answer are for the request they belong to.
RowsMatch ==
  /\ \A k \in Keys : records[k] # 0 => KeyOf[made[records[k]]] = k
  /\ \A x \in Attempts : row[x] # 0 => Same(made[row[x]], request[x])
  /\ ReplyIsOwn

\* Two attempts of one request execute at the same time only if it is spoiled.
OneAttempt ==
  \A x, y \in Attempts :
    /\ pc[x] \in Executing /\ pc[y] \in Executing
    /\ Same(request[x], request[y])
    /\ Clean(request[x])
    => x = y

\* The row of a clean request is recorded, or about to be by the one attempt
\* that executes; an attempt that is about to create finds none.
RowIsKept ==
  /\ \A r \in 1 .. Len(made) :
       Clean(made[r]) =>
         \/ records[KeyOf[made[r]]] = r
         \/ \E x \in Attempts : pc[x] = "save" /\ row[x] = r
  /\ \A x \in Attempts : pc[x] = "create" /\ Clean(request[x]) =>
       \A r \in 1 .. Len(made) : ~Same(made[r], request[x])

IdemInv == RowsMatch /\ OneAttempt /\ RowIsKept /\ DuplicateHasCause

=============================================================================
