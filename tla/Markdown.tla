------------------------------ MODULE Markdown ------------------------------
(***************************************************************************)
(* renderMarkdown (lib/markdown.ts).  Math is cut out of the raw text, span *)
(* by span, and a placeholder put in its place; the rest is then parsed as *)
(* markdown.  A text is a sequence of tokens: a letter, a space, a dollar, *)
(* a code fence, one of the escapes \[ \] \( \), which are two characters  *)
(* that no pattern ever splits; the placeholder of span n is the number n. *)
(***************************************************************************)
EXTENDS Integers, Sequences, FiniteSets, SequencesExt

Letter == 0
Space  == -1
Dollar == -2
Fence  == -3
OpenBracket  == -4
CloseBracket == -5
OpenParen    == -6
CloseParen   == -7

\* What the user writes holds no placeholder.
Written == {Letter, Space, Dollar, Fence, OpenBracket, CloseBracket, OpenParen, CloseParen}

Least(S) == CHOOSE i \in S : \A j \in S : i <= j

\* The last token of the span that starts at token i with two dollars, 0 if none
\* does: $$, at least one token, and the nearest $$.
DollarsEnd(s, i) ==
  LET opens(k) == k < Len(s) /\ s[k] = Dollar /\ s[k + 1] = Dollar
      ends == {j \in (i + 3) .. Len(s) : opens(j)}
  IN IF opens(i) /\ ends # {} THEN Least(ends) + 1 ELSE 0

\* The same with one dollar: some tokens without a dollar that neither start nor
\* end with a space, and a dollar.
DollarEnd(s, i) ==
  LET ends == {j \in (i + 1) .. Len(s) : s[j] = Dollar}
      end == Least(ends)
  IN IF s[i] = Dollar /\ ends # {} /\ end > i + 1
        /\ s[i + 1] # Space /\ s[end - 1] # Space
     THEN end ELSE 0

\* The same with a pair of escapes: at least one token, of whatever kind, and the
\* nearest closing one.
PairEnd(s, i, open, close) ==
  LET ends == {j \in (i + 2) .. Len(s) : s[j] = close}
  IN IF s[i] = open /\ ends # {} THEN Least(ends) ELSE 0

\* The two alternatives of each pattern; no text starts with both.
DisplayEnd(s, i) ==
  IF s[i] = Dollar THEN DollarsEnd(s, i) ELSE PairEnd(s, i, OpenBracket, CloseBracket)

InlineEnd(s, i) ==
  IF s[i] = Dollar THEN DollarEnd(s, i) ELSE PairEnd(s, i, OpenParen, CloseParen)

\* String.trim.
Trimmed(tex) ==
  LET ink == {i \in DOMAIN tex : tex[i] # Space}
  IN IF ink = {} THEN << >>
     ELSE SubSeq(tex, Least(ink), CHOOSE i \in ink : \A j \in ink : j <= i)

\* The placeholder of the span just pushed.  Mutant: each of the two passes
\* counts for itself.
PlaceholderOfPass(maths) ==
  Cardinality({n \in DOMAIN maths : maths[n].display = maths[Len(maths)].display})

PlaceholderOf(maths) == Len(maths)

\* What the two patterns match at token i.
SpanEnd(s, i, display) == IF display THEN DisplayEnd(s, i) ELSE InlineEnd(s, i)

\* How many tokens stand on either side of a match.
Margin(display, dollars) == IF display /\ dollars THEN 2 ELSE 1

\* One token more of text s: it is in a span already, or starts one, which is pushed,
\* or stays.  That a span stood between dollars is history: the code keeps tex and
\* display only, and nothing but Source below reads it.
Scan(s, display, acc, i) ==
  LET end     == SpanEnd(s, i, display)
      dollars == s[i] = Dollar
      margin  == Margin(display, dollars)
      tex     == Trimmed(SubSeq(s, i + margin, end - margin))
      maths   == Append(acc.maths, [tex |-> tex, display |-> display, dollars |-> dollars])
  IN  CASE i <= acc.done -> acc
        [] i > acc.done /\ end = 0 -> [acc EXCEPT !.text = Append(@, s[i])]
        [] OTHER -> [done |-> end, maths |-> maths,
                     text |-> Append(acc.text, PlaceholderOf(maths))]

\* One call of replace(): from left to right, each match becomes the placeholder
\* of the span it pushes.
Replace(r, display) ==
  LET scan[i \in 0 .. Len(r.text)] ==
        IF i = 0 THEN [done |-> 0, text |-> << >>, maths |-> r.maths]
        ELSE Scan(r.text, display, scan[i - 1], i)
      all == scan[Len(r.text)]
  IN  [text |-> all.text, maths |-> all.maths]

\* The text with placeholders, and the spans, display first.
RenderMarkdown(raw) == Replace(Replace([text |-> raw, maths |-> << >>], TRUE), FALSE)

\* marked: what stands between fences is code, shown as it is written; the last
\* fence need not be closed.
InCode(text, i) == Cardinality({k \in 1 .. (i - 1) : text[k] = Fence}) % 2 = 1

\* The placeholders that become elements, in their order in the document.
Placeholders(r) ==
  LET shown == {i \in DOMAIN r.text : r.text[i] > 0 /\ ~ InCode(r.text, i)}
  IN FlattenSeq([i \in DOMAIN r.text |-> IF i \in shown THEN <<r.text[i]>> ELSE << >>])

\* What is put in the page.
Dressed(r) == [text |-> r.text, maths |-> r.maths, shown |-> Placeholders(r),
               coded |-> Fence \in Range(r.text)]

-----------------------------------------------------------------------------
(* Reference.                                                              *)

\* What stands before and after a formula.
Opening(display, dollars) ==
  IF dollars THEN [k \in 1 .. Margin(display, dollars) |-> Dollar]
  ELSE <<IF display THEN OpenBracket ELSE OpenParen>>

Closing(display, dollars) ==
  IF dollars THEN [k \in 1 .. Margin(display, dollars) |-> Dollar]
  ELSE <<IF display THEN CloseBracket ELSE CloseParen>>

\* A span as it was written.
Source(maths, n) ==
  LET span == maths[n]
  IN Opening(span.display, span.dollars) \o span.tex \o Closing(span.display, span.dollars)

\* The text with the source of every span back in its place; a display span may
\* be part of an inline one.
PutBack(maths, text) ==
  FlattenSeq([i \in DOMAIN text |->
                IF text[i] > 0 THEN Source(maths, text[i]) ELSE <<text[i]>>])

Restored(r) == PutBack(r.maths, PutBack(r.maths, r.text))

\* A text without its spaces.
Inked(text) ==
  FlattenSeq([i \in DOMAIN text |-> IF text[i] = Space THEN << >> ELSE <<text[i]>>])

\* Span n was put inside another span, and is not in the text any more.
Swallowed(r, n) == \E m \in DOMAIN r.maths : n \in Range(r.maths[m].tex)
=============================================================================
