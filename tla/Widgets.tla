------------------------------ MODULE Widgets -------------------------------
(***************************************************************************)
(* The widgets of the web client: a table of rows described by data, whose *)
(* rows and buttons carry actions (DataTable, renderCell), the dispatcher  *)
(* that carries an action out for the row it was clicked in                *)
(* (dispatchWidgetAction), and the region that shows its toasts.           *)
(*                                                                         *)
(* A text is a sequence of tokens: letters, the characters an address      *)
(* gives a meaning, their escapes, and references to a field of the row.   *)
(***************************************************************************)
EXTENDS Integers, Sequences, FiniteSets, SequencesExt

CONSTANTS
  Letters,   \* the tokens of a text that is not encoded: a letter, a slash, a reference
  TableRows, \* what a table shows: a row maps the fields it has to texts
  Selects,   \* what a table can do when a row is selected: sets of at most one action
  Buttons,   \* what the button of a row can do: the same
  MaxClicks  \* bound: clicks, and moves of the user, all together

\* The escapes of the characters that an address or a template gives a meaning.
Escapes == {"%2F", "%3F", "%24id"}

\* What is not encoded holds no escape: the percent sign of a value would be escaped
\* itself, and the templates are written without.
ASSUME WidgetsAssumption ==
  /\ MaxClicks \in Nat
  /\ Letters \cap Escapes = {}
  /\ \A row \in TableRows : \A f \in DOMAIN row : row[f] \in Seq(Letters)
  /\ \A actions \in Selects \cup Buttons :
       /\ \A a, b \in actions : a = b
       /\ \A a \in actions : a.kind \in {"navigate", "download"} => a.to \in Seq(Letters)

VARIABLES
  table,    \* the page: what its table does, and whether a host takes the actions
  address,  \* of the tab: path and query
  did,      \* what was done: the click, the action, the row, the place it led to
  clicks,   \* what was clicked: the part, the row, whether the user agreed
  calls,    \* actions on their way to the server: indices of did
  region,   \* whether the toast region is mounted
  toast,    \* the toast it shows, in a set
  deadlines \* deadlines it waits for: the toast each was set for

widgetsVars == <<table, address, did, clicks, calls, region, toast, deadlines>>

-----------------------------------------------------------------------------
(* Texts and addresses.                                                    *)

\* The fields a token can refer to: ${row.id}, $row.note.
FieldOf == [t \in {"$id", "$note"} |-> IF t = "$id" THEN "id" ELSE "note"]

Field(row, f) == IF f \in DOMAIN row THEN row[f] ELSE << >>

\* Mutant: a value goes into an address as it is.
EncodeNot(text) == text

\* encodeURIComponent
Encode(text) ==
  LET Escape(t) == CASE t = "/" -> "%2F" [] t = "?" -> "%3F" [] t = "$id" -> "%24id"
                     [] OTHER -> t
  IN  [i \in DOMAIN text |-> Escape(text[i])]

\* decodeURIComponent
Decode(text) ==
  LET Unescape(t) == CASE t = "%2F" -> "/" [] t = "%3F" -> "?" [] t = "%24id" -> "$id"
                       [] OTHER -> t
  IN  [i \in DOMAIN text |-> Unescape(text[i])]

\* What comes in the place of token t of a template.
Piece(t, row, encode) ==
  IF t \notin DOMAIN FieldOf THEN <<t>>
  ELSE LET value == Field(row, FieldOf[t]) IN IF encode THEN Encode(value) ELSE value

WidgetTexts == Seq(Letters \cup Escapes)

\* interpolate: every reference is replaced, once; what it brings is not read again.
Interpolate(template, row, encode) ==
  LET filled[text \in WidgetTexts] ==
        IF text = << >> THEN << >>
        ELSE filled[Front(text)] \o Piece(Last(text), row, encode)
  IN  filled[template]

\* The text read so far: what stood between the slashes, and what follows the first "?".
Start == [parts |-> << << >> >>, marked |-> FALSE, query |-> << >>]

\* One token more.
Reading(read, t) ==
  CASE read.marked -> [read EXCEPT !.query = Append(@, t)]
    [] ~ read.marked /\ t = "?" -> [read EXCEPT !.marked = TRUE]
    [] ~ read.marked /\ t = "/" -> [read EXCEPT !.parts = Append(@, << >>)]
    [] OTHER -> [read EXCEPT !.parts = Append(Front(@), Append(Last(@), t))]

Split[text \in WidgetTexts] ==
  IF text = << >> THEN Start ELSE Reading(Split[Front(text)], Last(text))

\* The segments of the path: what is before the first slash is none.
Segments(text) == Tail(Split[text].parts)

\* A segment "." is dropped, and ".." drops the one before it too.
Dots[segments \in Seq(WidgetTexts)] ==
  IF segments = << >> THEN << >>
  ELSE LET path == Dots[Front(segments)]
       IN  CASE Last(segments) = <<".">> -> path
             [] Last(segments) = <<".", ".">> -> SubSeq(path, 1, Len(path) - 1)
             [] OTHER -> Append(path, Last(segments))

\* new URL of an absolute path.  A query maps its keys to their values; the order of
\* different keys is left out.
Url(text) ==
  [path  |-> Dots[Segments(text)],
   query |-> IF Split[text].marked THEN [own |-> <<Decode(Split[text].query)>>] ELSE << >>]

\* What the router makes of a path: its segments, decoded.
Read(path) == [i \in DOMAIN path |-> Decode(path[i])]

\* searchParams.getAll and get; get: in a set.
GetAll(query, key) == IF key \in DOMAIN query THEN query[key] ELSE << >>
Get(query, key)    == LET all == GetAll(query, key)
                      IN  IF all = << >> THEN {} ELSE {all[1]}

\* resolveTemplatePartOrLiteral: a path of the row (a part, or an accessor of that
\* mode), a template, which is not encoded here, or the text that stands there, in
\* which nothing is replaced.
Resolve(value, row) ==
  CASE value.kind = "path"     -> Field(row, value.path)
    [] value.kind = "template" -> Interpolate(value.text, row, FALSE)
    [] OTHER                   -> value.text

\* preserveQuery: what a key keeps of the old address.  Which keys are named matters,
\* and not how often.
Kept(action, key) == IF key \in action.preserve THEN GetAll(address.query, key) ELSE << >>

\* What the action's own query says for a key, one value; that it may be a list of
\* them is left out.
Own(action, key, row) ==
  IF key \notin DOMAIN action.query THEN << >>
  ELSE LET is == Resolve(action.query[key], row)
       IN  IF action.omitEmpty /\ is = << >> THEN << >> ELSE <<is>>

\* structuredNavigationTarget
Target(action, row) ==
  LET base == Url(Interpolate(action.to, row, TRUE))
      keys == action.preserve \cup DOMAIN action.query
  IN  IF keys = {} THEN base
      ELSE [base EXCEPT !.query =
              [key \in keys |-> Kept(action, key) \o Own(action, key, row)]]

-----------------------------------------------------------------------------
(* The dispatcher.                                                         *)

WidgetsInit ==
  /\ table \in [select : Selects, button : Buttons, host : BOOLEAN]
  /\ address = [path |-> << <<"s">>, <<"a">> >>,
                query |-> [scope |-> << <<"b">> >>, q |-> << <<"b">> >>]]
  /\ did = << >> /\ clicks = << >>
  /\ calls = {}
  /\ region = TRUE /\ toast = {} /\ deadlines = {}

\* The prompt of an action names the row; without a prompt nobody is asked.
Asks(action) == action.confirm

\* Every kind of action but "copy" does something whatever the row holds.
Idle(action, row) == action.kind = "copy" /\ Field(row, action.field) = << >>

\* What action leaves behind when it is done for row by click c.
DeedOf(c, action, row) ==
  [click |-> c, kind |-> action.kind, action |-> action, row |-> row,
   place |-> CASE action.kind = "navigate" -> Target(action, row)
               [] action.kind = "download" -> Url(Interpolate(action.to, row, TRUE))
               [] OTHER -> address]

\* What dispatchWidgetAction does by click c with the actions, in a sequence:
\* nothing, unless the user agrees where the action asks; a host asks on its own.
Dispatch(c, actions, row, agreed) ==
  SetToSeq({DeedOf(c, a, row) : a \in {b \in actions :
    table.host \/ ((~ Asks(b) \/ agreed) /\ ~ Idle(b, row))}})

\* The state after deeds; a host does on its own what it is handed.
Perform(deeds) ==
  LET all   == did \o deeds
      moves == {i \in DOMAIN deeds : deeds[i].kind = "navigate"}
      sent  == {i \in Len(did) + 1 .. Len(all) : all[i].kind = "server"}
  IN  /\ did' = all
      /\ address' = IF moves = {} \/ table.host THEN address ELSE deeds[Max(moves)].place
      /\ calls' = IF table.host THEN calls ELSE calls \cup sent

\* The user clicks in the row's cells, outside its button.
ClickRow(row) ==
  \E agreed \in BOOLEAN :
    /\ Len(clicks) < MaxClicks
    /\ clicks' = Append(clicks, [part |-> "row", row |-> row, agreed |-> agreed])
    /\ Perform(Dispatch(Len(clicks'), table.select, row, agreed))
    /\ UNCHANGED <<table, region, toast, deadlines>>

\* Mutant: the click goes on to the row.
StopsNot == FALSE

\* event.stopPropagation
Stops == TRUE

\* The user clicks the row's button.
ClickButton(row) ==
  \E agreed \in BOOLEAN :
    /\ Len(clicks) < MaxClicks
    /\ table.button # {}
    /\ clicks' = Append(clicks, [part |-> "button", row |-> row, agreed |-> agreed])
    /\ Perform(Dispatch(Len(clicks'), table.button, row, agreed)
               \o IF Stops THEN << >>
                  ELSE Dispatch(Len(clicks'), table.select, row, agreed))
    /\ UNCHANGED <<table, region, toast, deadlines>>

\* The user moves on to another page of the tab by a link.
FollowLink ==
  /\ Len(clicks) < MaxClicks
  /\ clicks' = Append(clicks, [part |-> "link", row |-> << >>, agreed |-> TRUE])
  /\ address' = [path |-> << <<"s">>, <<"b">> >>, query |-> << >>]
  /\ UNCHANGED <<table, did, calls, region, toast, deadlines>>

-----------------------------------------------------------------------------
(* The answers and the toasts.                                             *)

\* Mutant: a toast leaves the deadline of the one before it running.
DeadlinesAlso(n) == deadlines \cup {n}

\* clearTimeout, setTimeout.
DeadlinesAfter(n) == {n}

\* The listener of the toast region; the toast of call n.
Show(n) ==
  IF region THEN toast' = {n} /\ deadlines' = DeadlinesAfter(n)
  ELSE UNCHANGED <<toast, deadlines>>

\* A call ends, with an answer or without; the answer may hold a toast.  What a
\* listener makes of it beyond that is the host's; a refresh reads the address of the
\* tab again, wherever the user is by now.
Answer(n) ==
  \E speaks \in BOOLEAN :
    /\ n \in calls
    /\ calls' = calls \ {n}
    /\ IF speaks THEN Show(n) ELSE UNCHANGED <<toast, deadlines>>
    /\ UNCHANGED <<table, address, did, clicks, region>>

\* A deadline is there: the toast goes, whichever it is.
Fade(n) ==
  /\ n \in deadlines
  /\ deadlines' = deadlines \ {n}
  /\ toast' = {}
  /\ UNCHANGED <<table, address, did, clicks, calls, region>>

\* The region is unmounted, and mounted again.
UnmountRegion ==
  /\ region
  /\ region' = FALSE /\ toast' = {} /\ deadlines' = {}
  /\ UNCHANGED <<table, address, did, clicks, calls>>
MountRegion ==
  /\ ~ region
  /\ region' = TRUE
  /\ UNCHANGED <<table, address, did, clicks, calls, toast, deadlines>>

WidgetsNext ==
  \/ \E row \in TableRows : ClickRow(row) \/ ClickButton(row)
  \/ FollowLink \/ UnmountRegion \/ MountRegion
  \/ \E n \in calls : Answer(n)
  \/ \E n \in deadlines : Fade(n)

WidgetsSpec == WidgetsInit /\ [][WidgetsNext]_widgetsVars

-----------------------------------------------------------------------------
(* Properties.                                                             *)

Done(kind) == {d \in Range(did) : d.kind = kind}

\* The segments of an action's template, each with the row's values in it.
Meant(action, row) ==
  LET parts == Segments(action.to)
  IN  [i \in DOMAIN parts |-> Interpolate(parts[i], row, FALSE)]

\* A value of the row never changes the shape of the address it is put into: the
\* router reads, segment for segment, what the template says with the row's values
\* in place, slashes, question marks and references among them.  Only a value that
\* makes a segment "." or ".." does, which no escape keeps from being resolved.
RowReachesItsPage ==
  \A d \in Done("navigate") \cup Done("download") :
    LET meant == Meant(d.action, d.row)
    IN  Range(meant) \cap {<<".">>, <<".", ".">>} = {} => Read(d.place.path) = meant

\* The page a navigation leads to reads the row's own value for every key of the
\* action's query, though the address it left had that key too; an empty one is
\* read only if it was not to be omitted.  A key that is also kept from the old
\* address is not promised: the kept value is read first.
QueryAsksForTheRow ==
  \A d \in Done("navigate") :
    \A key \in DOMAIN d.action.query \ d.action.preserve :
      LET is == Resolve(d.action.query[key], d.row)
      IN  Get(d.place.query, key) = IF d.action.omitEmpty /\ is = << >> THEN {} ELSE {is}

\* The address a click leads to says what the action says, with the row's values.
LeadsWhereItSays == RowReachesItsPage /\ QueryAsksForTheRow

\* A click does one thing at most, that of the part that was clicked and for the row
\* that was clicked, and where the action asks only what the user agreed to: a click
\* on a row's button does not select the row too.
ClickDoesItsOwn ==
  /\ \A i, j \in DOMAIN did : did[i].click = did[j].click => i = j
  /\ \A d \in Range(did) :
       LET c == clicks[d.click]
       IN  /\ d.row = c.row
           /\ d.action \in IF c.part = "row" THEN table.select ELSE table.button
           /\ table.host \/ ~ Asks(d.action) \/ c.agreed

\* A toast that goes is replaced by another, goes with its region, or has stood for
\* its whole time: no toast goes by the deadline of one before it.
ToastHasItsTime ==
  [][ toast # {} /\ toast' = {} =>
        \/ ~ region'
        \/ toast \subseteq deadlines /\ toast \cap deadlines' = {} ]_widgetsVars

-----------------------------------------------------------------------------
(* The inductive invariant.                                                *)

\* What was done was done by a click that happened, and by no other deed's.
ClickInv ==
  /\ table \in [select : Selects, button : Buttons, host : BOOLEAN]
  /\ did \in Seq(Range(did)) /\ clicks \in Seq(Range(clicks))
  /\ \A d \in Range(did) : d.click \in DOMAIN clicks
  /\ ClickDoesItsOwn

\* One deadline runs while a toast is shown, the toast's own, and none otherwise.
ToastInv == deadlines = toast /\ \A m, n \in toast : m = n

WidgetsInv == ClickInv /\ ToastInv
=============================================================================
