--------------------------------- MODULE SSE ---------------------------------
(***************************************************************************)
(* The framing of the event stream (lib/sse.ts).  The text of a stream is  *)
(* a sequence of tokens: the end of a line, the prefix "data: ", the colon *)
(* that starts a comment, and payloads, which are positive numbers.  A     *)
(* chunk may end after any token.                                          *)
(***************************************************************************)
EXTENDS Integers, Sequences, FiniteSets

NL    == 0
Data  == -1
Colon == -2

\* The frames the server writes: padding when the connection opens, a heartbeat,
\* a payload.
Padding    == <<NL>>
Ping       == <<Colon, NL, NL>>
DataFrame(n) == <<Data, n, NL, NL>>

\* Token i is the payload of a line with the prefix.
IsPayload(frame, i) ==
  /\ frame[i] > 0
  /\ \E s \in 1 .. i : /\ frame[s] = Data
                       /\ s = 1 \/ frame[s - 1] = NL
                       /\ \A k \in s .. i : frame[k] # NL

\* The n-th of the numbers in S, from the least.
Nth(S, n) == CHOOSE i \in S : Cardinality({j \in S : j < i}) = n - 1

\* The payloads of a frame, joined.
Payload(frame) ==
  LET shown == {i \in DOMAIN frame : IsPayload(frame, i)}
  IN [n \in 1 .. Cardinality(shown) |-> frame[Nth(shown, n)]]

\* Where a blank line ends a frame, and the first such place.
Blanks(buf) == {i \in 1 .. Len(buf) - 1 : buf[i] = NL /\ buf[i + 1] = NL}
FirstBlank(buf) == CHOOSE i \in Blanks(buf) : \A j \in Blanks(buf) : i <= j

\* The first frame's payload, in a sequence, unless there is none; and the text
\* after the frame.
FirstFrame(buf) ==
  LET payload == Payload(SubSeq(buf, 1, FirstBlank(buf) - 1))
  IN IF payload = << >> THEN << >> ELSE <<payload>>
Beyond(buf) == SubSeq(buf, FirstBlank(buf) + 2, Len(buf))

\* The frames of a text, and what is left after the last of them.
Frames[buf \in Seq(Int)] ==
  IF Blanks(buf) = {} THEN [frames |-> << >>, rest |-> buf]
  ELSE LET after == Frames[Beyond(buf)]
       IN [frames |-> FirstFrame(buf) \o after.frames, rest |-> after.rest]

\* Mutant: what was left of the chunk before is dropped.
ParseChunkAlone(chunk, previousRest) == Frames[chunk]

\* parseSSEChunk: the payloads of the frames that are complete now, and what is
\* left for the next chunk.
ParseSSEChunk(chunk, previousRest) == Frames[previousRest \o chunk]

=============================================================================
