-------------------------------- MODULE Wire --------------------------------
(***************************************************************************)
(* What travels between a browser tab and the server: protobuf messages as *)
(* JSON.  The server writes with protojson.Marshal, which leaves out every *)
(* field that has its zero value and writes int64 as digits in a string,   *)
(* and reads with DiscardUnknown.  The tab writes object literals and      *)
(* reads with fromJson, which refuses a key or an enum name its generated  *)
(* code does not have.  A tab keeps the code it was loaded with, while the *)
(* server may be replaced by a newer one, or by the older one again.       *)
(*                                                                         *)
(* A message is a function from its fields to values: 0 stands for the     *)
(* zero value of a scalar and 1 for any other, Absent for a message or a   *)
(* Struct that is not set.  Version 2 of the schema adds one field to each *)
(* message in Grown and one value to each enum in Grown.                   *)
(***************************************************************************)
EXTENDS TLC, EventWire

CONSTANT Absent

-----------------------------------------------------------------------------
(* The schema.                                                             *)

Kind(k)    == [k |-> k]
Scalar     == Kind("scalar")
Int64      == Kind("int64")
Struct     == Kind("struct")
Enum(e)    == [k |-> "enum", of |-> e]
Message(m) == [k |-> "message", of |-> m]
List(kind) == [k |-> "list", of |-> kind]

Agent == [id |-> Scalar, name |-> Scalar, createdAt |-> Scalar, metadata |-> Struct]

Subforum == [key |-> Scalar, title |-> Scalar, description |-> Scalar,
             metadata |-> Struct, createdAt |-> Scalar, threadCount |-> Int64,
             watching |-> Scalar]

Thread == [id |-> Scalar, subforumKey |-> Scalar, title |-> Scalar,
           metadata |-> Struct, createdAt |-> Scalar, updatedAt |-> Scalar,
           lastPostAt |-> Scalar, postCount |-> Int64, watching |-> Scalar,
           participating |-> Scalar]

Post == [id |-> Scalar, threadId |-> Scalar, authorId |-> Scalar,
         authorName |-> Scalar, body |-> Scalar, replyTo |-> Scalar,
         metadata |-> Struct, createdAt |-> Scalar]

Event == [sequence |-> Int64, type |-> Enum("EventType"), actorId |-> Scalar,
          actorName |-> Scalar, threadId |-> Scalar, threadTitle |-> Scalar,
          postId |-> Scalar, subforumKey |-> Scalar, createdAt |-> Scalar,
          reason |-> Enum("EventReason")]

SearchHit == [entityType |-> Scalar, thread |-> Message("Thread"),
              post |-> Message("Post"), score |-> Scalar]

\* Every request and response has a schemaVersion.
V(fields) == fields @@ [schemaVersion |-> Scalar]

RegisterAgentRequest  == V([name |-> Scalar, metadata |-> Struct])
RegisterAgentResponse == V([agent |-> Message("Agent"), token |-> Scalar])
GetMeResponse         == V([agent |-> Message("Agent")])
UpdateAgentRequest    == V([metadata |-> Struct])
UpdateAgentResponse   == V([agent |-> Message("Agent")])
GetAgentResponse      == V([agent |-> Message("Agent")])
SubforumList          == V([subforums |-> List(Message("Subforum"))])
GetSubforumResponse   == V([subforum |-> Message("Subforum")])
WatchSubforumResponse == V([watching |-> Scalar])
CreateThreadRequest   == V([subforumKey |-> Scalar, title |-> Scalar,
                            metadata |-> Struct, initialPost |-> Message("PostBody"),
                            watch |-> Scalar, idempotencyKey |-> Scalar])
PostBody              == [body |-> Scalar, metadata |-> Struct]
CreateThreadResponse  == V([thread |-> Message("Thread"), initialPost |-> Message("Post")])
ThreadList            == V([threads |-> List(Message("Thread"))])
GetThreadResponse     == V([thread |-> Message("Thread")])
WatchThreadResponse   == V([watching |-> Scalar])
PostList              == V([posts |-> List(Message("Post"))])
CreatePostRequest     == V([body |-> Scalar, replyTo |-> Scalar, metadata |-> Struct,
                            idempotencyKey |-> Scalar])
CreatePostResponse    == V([post |-> Message("Post")])
PollEventsResponse    == V([events |-> List(Message("Event")), nextCursor |-> Int64])
AckEventsRequest      == V([throughSequence |-> Int64])
SearchRequest         == V([entityTypes |-> List(Scalar), subforums |-> List(Scalar),
                            text |-> Scalar, metadata |-> Scalar,
                            createdAfter |-> Scalar, limit |-> Scalar])
SearchResponse        == V([hits |-> List(Message("SearchHit"))])

Messages ==
  [Agent |-> Agent, Subforum |-> Subforum, Thread |-> Thread, Post |-> Post,
   Event |-> Event, SearchHit |-> SearchHit, PostBody |-> PostBody,
   RegisterAgentRequest |-> RegisterAgentRequest,
   RegisterAgentResponse |-> RegisterAgentResponse,
   GetMeResponse |-> GetMeResponse, UpdateAgentRequest |-> UpdateAgentRequest,
   UpdateAgentResponse |-> UpdateAgentResponse,
   GetAgentResponse |-> GetAgentResponse, SubforumList |-> SubforumList,
   GetSubforumResponse |-> GetSubforumResponse,
   WatchSubforumResponse |-> WatchSubforumResponse,
   CreateThreadRequest |-> CreateThreadRequest,
   CreateThreadResponse |-> CreateThreadResponse, ThreadList |-> ThreadList,
   GetThreadResponse |-> GetThreadResponse,
   WatchThreadResponse |-> WatchThreadResponse, PostList |-> PostList,
   CreatePostRequest |-> CreatePostRequest,
   CreatePostResponse |-> CreatePostResponse,
   PollEventsResponse |-> PollEventsResponse,
   AckEventsRequest |-> AckEventsRequest, SearchRequest |-> SearchRequest,
   SearchResponse |-> SearchResponse]

\* The fields of message m in version v.
Fields(m, v) ==
  IF v = 2 /\ m \in Grown THEN Messages[m] @@ [added |-> Scalar] ELSE Messages[m]

-----------------------------------------------------------------------------
(* Encoding and decoding.                                                  *)

\* An integer past 2^53, and what a JavaScript number makes of it.
Big == 9
AsNumber(n) == IF n = Big THEN Big - 1 ELSE n

\* The value of a field that is not in the JSON.
Zero(kind) ==
  CASE kind.k \in {"struct", "message"} -> Absent
    [] kind.k = "list" -> << >>
    [] OTHER -> 0

\* Mutant: int64 as a number.
LeafNumber(kind, x) == [form |-> "number", n |-> x]

Leaf(kind, x) == [form |-> IF kind.k = "int64" THEN "digits" ELSE "number", n |-> x]

\* The JSON of value x: what protojson.Marshal writes (brief: zero values are
\* left out) and what JSON.stringify makes of a literal (undefined is left out).
RECURSIVE Encode(_, _, _, _)
Encode(kind, x, v, brief) ==
  CASE kind.k = "message" ->
         LET fields == Fields(kind.of, v)
             kept == {f \in DOMAIN x : x[f] # Absent
                                         /\ (brief => x[f] # Zero(fields[f]))}
         IN [f \in kept |-> Encode(fields[f], x[f], v, brief)]
    [] kind.k = "list" -> [i \in DOMAIN x |-> Encode(kind.of, x[i], v, brief)]
    [] OTHER -> Leaf(kind, x)

\* The value a reader of version v makes of JSON j: a field that is missing has
\* its zero value, an enum name it does not know is left at zero.
RECURSIVE Decode(_, _, _)
Decode(kind, j, v) ==
  CASE kind.k = "message" ->
         LET fields == Fields(kind.of, v)
         IN [f \in DOMAIN fields |-> IF f \in DOMAIN j THEN Decode(fields[f], j[f], v)
                                                       ELSE Zero(fields[f])]
    [] kind.k = "list" -> [i \in DOMAIN j |-> Decode(kind.of, j[i], v)]
    [] kind.k = "enum" -> IF j.n <= Highest(kind.of, v) THEN j.n ELSE 0
    [] OTHER -> IF j.form = "digits" THEN j.n ELSE AsNumber(j.n)

\* fromJson throws: a key or the name of an enum value is not in its schema.
RECURSIVE Refuses(_, _, _)
Refuses(kind, j, v) ==
  CASE kind.k = "message" ->
         LET fields == Fields(kind.of, v)
         IN \E f \in DOMAIN j : f \notin DOMAIN fields \/ Refuses(fields[f], j[f], v)
    [] kind.k = "list" -> \E i \in DOMAIN j : Refuses(kind.of, j[i], v)
    [] kind.k = "enum" -> j.n > Highest(kind.of, v)
    [] OTHER -> FALSE

\* Reference: what a reader of version v should make of value x, and whether x
\* holds something that version cannot say.
RECURSIVE View(_, _, _)
View(kind, x, v) ==
  CASE kind.k = "message" ->
         IF x = Absent THEN Absent
         ELSE [f \in DOMAIN Fields(kind.of, v) |->
                 IF f \in DOMAIN x THEN View(Fields(kind.of, v)[f], x[f], v)
                                   ELSE Zero(Fields(kind.of, v)[f])]
    [] kind.k = "list" -> [i \in DOMAIN x |-> View(kind.of, x[i], v)]
    [] kind.k = "enum" -> IF x <= Highest(kind.of, v) THEN x ELSE 0
    [] OTHER -> x

RECURSIVE IsNews(_, _, _)
IsNews(kind, x, v) ==
  CASE kind.k = "message" ->
         x # Absent /\ \E f \in DOMAIN x :
           IF f \in DOMAIN Fields(kind.of, v) THEN IsNews(Fields(kind.of, v)[f], x[f], v)
                                              ELSE x[f] # 0
    [] kind.k = "list" -> \E i \in DOMAIN x : IsNews(kind.of, x[i], v)
    [] kind.k = "enum" -> x > Highest(kind.of, v)
    [] OTHER -> FALSE

\* Sample values: a message with all fields zero, one with all fields set, and
\* each of these with one field changed.  The messages of a message's fields
\* come from the table of samples below it.
SamplesOf(fields, below, v) ==
  LET ofLeaf(kind) ==
        CASE kind.k = "enum" -> 0 .. Highest(kind.of, v)
          [] kind.k = "int64" -> {0, 1, Big}
          [] kind.k = "struct" -> {Absent, 0, 1}
          [] OTHER -> {0, 1}
      of(kind) ==
        CASE kind.k = "message" -> {Absent} \cup below[kind.of]
          [] kind.k = "list" ->
               {<< >>} \cup {<<x>> : x \in IF kind.of.k = "message" THEN below[kind.of.of]
                                                                     ELSE ofLeaf(kind.of)}
          [] OTHER -> ofLeaf(kind)
      zero == [f \in DOMAIN fields |-> Zero(fields[f])]
      full == [f \in DOMAIN fields |-> CHOOSE x \in of(fields[f]) : x # Zero(fields[f])]
  IN UNION {{[b EXCEPT ![f] = x] : b \in {zero, full}, x \in of(fields[f])} :
              f \in DOMAIN fields}

Leaves == {"Agent", "Subforum", "Thread", "Post", "Event", "PostBody"}
LeafSamples ==
  [v \in Versions |-> [m \in Leaves |-> SamplesOf(Fields(m, v), << >>, v)]]
PartSamples ==
  [v \in Versions |-> LeafSamples[v] @@
    [m \in {"SearchHit"} |-> SamplesOf(Fields(m, v), LeafSamples[v], v)]]

-----------------------------------------------------------------------------
(* The calls of the tab.  A call without a body has no request message;    *)
(* the fields of a body are those of the literal that builds it.           *)

Get(response) == [request |-> "none", writes |-> {}, response |-> response]

Body(request, writes, response) ==
  [request |-> request, writes |-> writes \cup {"schemaVersion"}, response |-> response]

register        == Body("RegisterAgentRequest", {"name"}, "RegisterAgentResponse")
getMe           == Get("GetMeResponse")
listSubforums   == Get("SubforumList")
listThreads     == Get("ThreadList")
listPosts       == Get("PostList")
getThread       == Get("GetThreadResponse")
createThread    == Body("CreateThreadRequest",
                        {"title", "metadata", "initialPost", "watch", "idempotencyKey"},
                        "CreateThreadResponse")
createPost      == Body("CreatePostRequest", {"body", "replyTo", "idempotencyKey"},
                        "CreatePostResponse")
watchThread     == Get("WatchThreadResponse")
getSubforum     == Get("GetSubforumResponse")
watchSubforum   == Get("WatchSubforumResponse")
updateMe        == Body("UpdateAgentRequest", {"metadata"}, "UpdateAgentResponse")
pollEvents      == Get("PollEventsResponse")
getAgent        == Get("GetAgentResponse")
search          == Body("SearchRequest",
                        {"entityTypes", "subforums", "text", "metadata", "createdAfter", "limit"},
                        "SearchResponse")
ack             == Body("AckEventsRequest", {"throughSequence"}, "none")

Calls == {register, getMe, listSubforums, listThreads, listPosts, getThread,
          createThread, createPost, watchThread, getSubforum, watchSubforum,
          updateMe, pollEvents, getAgent, search, ack}

\* What the literal of call c may hold in version v (of a first post only the
\* body is written), and what it may be answered.
Literals ==
  [v \in Versions |-> [c \in {d \in Calls : d.request # "none"} |->
     LET all == Fields(c.request, v)
         written == c.writes \cup (DOMAIN all \cap {"added"})
     IN {m \in SamplesOf([f \in written |-> all[f]], PartSamples[v], v) :
           "initialPost" \in written =>
             m.initialPost # Absent /\ m.initialPost.metadata = Absent}]]
Answers ==
  [v \in Versions |-> [c \in {d \in Calls : d.response # "none"} |->
     SamplesOf(Fields(c.response, v), PartSamples[v], v)]]

-----------------------------------------------------------------------------
VARIABLE call  \* the call in progress

vars == <<wireVars, call>>

Idle == [phase |-> "idle"]

Init == WireInit /\ call = Idle

\* The server is replaced; a request it has not answered fails.
Deploy ==
  /\ Replace
  /\ call' = IF call.phase = "read" THEN call ELSE Idle

\* The tab is loaded again, and forgets its call.
Reload ==
  /\ Load
  /\ call' = Idle

\* The tab writes a request and the handler of the server that runs decodes it.
\* (Calls and the stream have only the two versions in common; they are looked
\* at one after the other: calls before the first event.)
Send(c) ==
  /\ call.phase = "idle"
  /\ log = << >>
  /\ IF c.request = "none"
     THEN call' = [phase |-> "handled", of |-> c]
     ELSE \E m \in Literals[tab][c] :
            LET request == Message(c.request)
            IN call' = [phase |-> "decoded", of |-> c, meant |-> m,
                        got |-> Decode(request, Encode(request, m, tab, FALSE), server)]
  /\ UNCHANGED <<server, tab, stream>>

\* The handler has done its work.
Handle ==
  /\ call.phase = "decoded"
  /\ call' = [phase |-> "handled", of |-> call.of]
  /\ UNCHANGED <<server, tab, stream>>

\* It answers, and transformResponse reads the answer: when fromJson throws, the
\* call has failed.
Answer ==
  /\ call.phase = "handled"
  /\ IF call.of.response = "none"
     THEN call' = Idle
     ELSE \E m \in Answers[server][call.of] :
            LET response == Message(call.of.response)
                json == Encode(response, m, server, TRUE)
                refused == Refuses(response, json, tab)
            IN call' = [phase |-> "read", of |-> call.of, sent |-> m, refused |-> refused,
                        got |-> IF refused THEN Absent ELSE Decode(response, json, tab)]
  /\ UNCHANGED <<server, tab, stream>>

Done ==
  /\ call.phase = "read"
  /\ call' = Idle
  /\ UNCHANGED <<server, tab, stream>>

-----------------------------------------------------------------------------
\* An event happens, or the stream goes on.
Happens(type) == Happen(type) /\ call = Idle /\ UNCHANGED call
Streams       == StreamStep /\ UNCHANGED call

Next ==
  \/ Deploy
  \/ Reload
  \/ \E c \in Calls : Send(c)
  \/ Handle
  \/ Answer
  \/ Done
  \/ \E type \in 1 .. (EventType + 1) : Happens(type)
  \/ Streams

\* The loop of useEventStream connects again for as long as the tab is open, the
\* handler writes what there is, and what is on the wire arrives.
Spec ==
  /\ Init
  /\ [][Next]_vars
  /\ WF_vars(Connect /\ UNCHANGED call)
  /\ WF_vars(WriteFrame /\ UNCHANGED call)
  /\ WF_vars((\E k \in 1 .. MaxChunk : ReadChunk(k)) /\ UNCHANGED call)

-----------------------------------------------------------------------------
(* Properties.                                                             *)

\* Every field the tab writes reaches the handler with the value the tab meant,
\* a set but empty Struct included, unless the server is older and has no such
\* field; nothing else reaches it.
RequestArrivesWhole ==
  call.phase = "decoded" =>
    /\ server = tab => DOMAIN call.meant \subseteq DOMAIN call.got
    /\ \A f \in DOMAIN call.got :
         call.got[f] = LET kind == Fields(call.of.request, server)[f]
                       IN IF f \in DOMAIN call.meant
                          THEN View(kind, call.meant[f], server) ELSE Zero(kind)

\* What the tab puts in its cache is what the server meant.
ResponseArrivesWhole ==
  call.phase = "read" /\ ~ call.refused =>
    call.got = View(Message(call.of.response), call.sent, tab)

\* A call fails in the tab, for no fault of the server, exactly when the answer
\* says something that the tab's code has no word for.
RefusedExactlyForNews ==
  call.phase = "read" =>
    (call.refused <=> IsNews(Message(call.of.response), call.sent, tab))

\* Tab and server may be of different versions, and of every call what is meant on
\* one side is what is read on the other, or the tab refuses it for its news.
MessagesArriveWhole == RequestArrivesWhole /\ ResponseArrivesWhole /\ RefusedExactlyForNews

\* Once the server is no longer replaced and the tab no longer loaded, every event
\* is read, unless the tab's code is older than the server: then the loop may
\* connect and fail for good.
StallHasCause ==
  <>[][FALSE]_<<server, tab>> => []<>(cursor = Len(log) \/ tab < server)
=============================================================================
