------------------------------ MODULE PostBody ------------------------------
(***************************************************************************)
(* How a post's body is dressed after it is put in the page: its code is   *)
(* highlighted and gets copy buttons, its math is typeset.  Grammars,      *)
(* MathJax and its fonts are loaded when the first body asks for them, and *)
(* loading may fail.  A host is one element that shows a body.  In         *)
(* development StrictMode runs the effect of a host twice, the first run   *)
(* cancelled at once; a run goes on after it is cancelled until it looks.  *)
(***************************************************************************)
EXTENDS Markdown, TLC

CONSTANTS
  Hosts,
  Languages,
  Labels,     \* Labels[h]: the labels of the code blocks of host h
  Raws,       \* texts given to renderMarkdown
  Opened,     \* bound: those of them that are put in the page
  MaxRuns,    \* bound: runs of the effect in a session
  MaxFaults   \* bound: loads that fail

ASSUME PostBodyAssumption ==
  /\ Opened \subseteq Raws /\ Raws \subseteq Seq(Written)
  /\ {MaxRuns, MaxFaults} \subseteq Nat

VARIABLES
  raw,      \* the body of the post
  body,     \* what renderMarkdown made of it
  twice,    \* StrictMode doubles effects: the page is a development build
  place,    \* place[h]: "out", "in" or "gone"
  loaded,   \* loadedLanguages
  pending,  \* pendingLanguages
  flying,   \* grammars on their way
  doc,      \* docPromise: "none", "loading", "ready" or "failed"
  styles,   \* how many elements #mathjax-styles the page has
  code,     \* code[r]: where the code pass of run r is
  needs,    \* needs[r]: the grammars it waits for
  math,     \* math[r]: where the math pass of run r is
  at,       \* at[r]: the placeholder it is at
  painted,  \* painted[h]: how often the blocks of h have been highlighted
  buttons,  \* buttons[h]: how many copy buttons each block of h has
  spans,    \* spans[h]: what each placeholder of h shows
  faults

code_  == <<loaded, pending, flying, code, needs, painted, buttons>>
math_  == <<doc, styles, math, at, spans>>
page_  == <<raw, body, twice>>
vars   == <<page_, place, code_, math_, faults>>

\* A run of the effect of a host.
Runs == Hosts \X {1, 2}
Host(r) == r[1]

\* How many placeholders the host holds, and whether there are code blocks.
Count == Len(body.shown)
Coded == body.coded

Init ==
  /\ raw \in Raws
  /\ body = Dressed(RenderMarkdown(raw))
  /\ twice \in (IF raw \in Opened THEN BOOLEAN ELSE {FALSE})
  /\ place = [h \in Hosts |-> "out"]
  /\ loaded = {}
  /\ pending = {}
  /\ flying = {}
  /\ doc = "none"
  /\ styles = 0
  /\ code = [r \in Runs |-> "unborn"]
  /\ needs = [r \in Runs |-> {}]
  /\ math = [r \in Runs |-> "unborn"]
  /\ at = [r \in Runs |-> 0]
  /\ painted = [h \in Hosts |-> 0]
  /\ buttons = [h \in Hosts |-> 0]
  /\ spans = [h \in Hosts |-> << >>]
  /\ faults = 0

\* A run is cancelled when its host is gone, and the first of two at once.
Cancelled(r) ==
  place[Host(r)] = "gone" \/ (r[2] = 1 /\ code[<<Host(r), 2>>] # "unborn")

-----------------------------------------------------------------------------
(* The code pass.                                                          *)

\* normalizeLanguage and the choice of highlightCodeBlocks: a block with a label
\* that is no language asks for every language.
Wanted(h) ==
  IF ~ Coded THEN {}
  ELSE UNION {IF l \in Languages THEN {l} ELSE Languages : l \in Labels[h]}

\* highlightCodeBlocks up to its await, for a set of runs of one host.
StartCode(h, runs) ==
  LET asked == Wanted(h) \ loaded
  IN /\ flying' = flying \cup (asked \ pending)
     /\ pending' = pending \cup asked
     /\ code' = [r \in Runs |-> IF r \in runs THEN "waiting" ELSE code[r]]
     /\ needs' = [r \in Runs |-> IF r \in runs THEN asked ELSE needs[r]]

\* Mutant: only a grammar that arrives is taken off the list.
PendingWithout(l, arrived) == IF arrived THEN pending \ {l} ELSE pending

\* The finally of loadLanguage.
PendingAfter(l, arrived) == pending \ {l}

\* The import of a grammar settles.  If it fails, so does the Promise.all of
\* every run that waits for it, and the run ends there.
GrammarSettles(l, arrived) ==
  /\ l \in flying
  /\ ~ arrived => faults < MaxFaults
  /\ faults' = IF arrived THEN faults ELSE faults + 1
  /\ flying' = flying \ {l}
  /\ pending' = PendingAfter(l, arrived)
  /\ loaded' = IF arrived THEN loaded \cup {l} ELSE loaded
  /\ needs' = [r \in Runs |-> needs[r] \ {l}]
  /\ code' = [r \in Runs |->
                IF ~ arrived /\ code[r] = "waiting" /\ l \in needs[r] THEN "bare" ELSE code[r]]
  /\ UNCHANGED <<page_, place, painted, buttons, math_>>

\* Mutant: blocks that are highlighted are highlighted again.
NeverMarked(h) == FALSE

\* dataset.highlighted: the blocks of h are skipped.
Marked(h) == painted[h] > 0

\* The rest of highlightCodeBlocks, in a host that is gone as well.
Highlight(r) ==
  /\ code[r] = "waiting" /\ needs[r] = {}
  /\ code' = [code EXCEPT ![r] = "highlighted"]
  /\ painted' = IF ~ Coded \/ Marked(Host(r)) THEN painted
                ELSE [painted EXCEPT ![Host(r)] = @ + 1]
  /\ UNCHANGED <<page_, place, loaded, pending, flying, needs, buttons, math_, faults>>

\* Mutant: cancelled is not looked at again after an await.
NotLooking(r) == FALSE

LooksCancelled(r) == Cancelled(r)

\* The rest of enhanceCodeBlocks, and addCopyButtons, which skips a block that has
\* a button.
CopyButtons(r) ==
  /\ code[r] = "highlighted"
  /\ code' = [code EXCEPT ![r] = "over"]
  /\ buttons' = IF LooksCancelled(r) \/ ~ Coded \/ buttons[Host(r)] > 0 THEN buttons
                ELSE [buttons EXCEPT ![Host(r)] = @ + 1]
  /\ UNCHANGED <<page_, place, loaded, pending, flying, needs, painted, math_, faults>>

-----------------------------------------------------------------------------
(* The math pass.                                                          *)

\* ensureMathStyles up to its await; it has nothing to wait for when the
\* stylesheet is there.
StartMath(h, runs) ==
  /\ doc' = IF styles = 0 /\ doc = "none" THEN "loading" ELSE doc
  /\ math' = [r \in Runs |-> IF r \notin runs THEN math[r]
                             ELSE IF styles > 0 THEN "loop" ELSE "styles"]
  /\ at' = [r \in Runs |-> IF r \in runs THEN 1 ELSE at[r]]
  /\ spans' = [spans EXCEPT ![h] = [i \in 1 .. Count |-> "blank"]]
  /\ UNCHANGED styles

\* getDocument settles, for good: docPromise is not reset.
DocumentSettles(arrived) ==
  /\ doc = "loading"
  /\ ~ arrived => faults < MaxFaults
  /\ faults' = IF arrived THEN faults ELSE faults + 1
  /\ doc' = IF arrived THEN "ready" ELSE "failed"
  /\ UNCHANGED <<page_, place, code_, styles, math, at, spans>>

\* Mutant: after the await the element is not looked for again.
NoSecondLook == FALSE

\* The element another run may have added during the await.
AddedMeanwhile == styles > 0

\* The rest of ensureMathStyles, which adds the element unless it finds it; if it
\* throws, the run ends there.
MathStyles(r) ==
  /\ math[r] = "styles"
  /\ doc \in {"ready", "failed"}
  /\ styles' = IF doc = "ready" /\ ~ AddedMeanwhile THEN styles + 1 ELSE styles
  /\ math' = [math EXCEPT ![r] = IF doc = "ready" THEN "loop" ELSE "over"]
  /\ UNCHANGED <<page_, place, code_, doc, at, spans, faults>>

\* The loop over the placeholders, up to the await of typesetTeX.
NextSpan(r) ==
  /\ math[r] = "loop"
  /\ math' = [math EXCEPT ![r] =
                IF at[r] > Count \/ Cancelled(r) THEN "over" ELSE "typesetting"]
  /\ UNCHANGED <<page_, place, code_, doc, styles, at, spans, faults>>

\* Mutant: TeX that cannot be typeset leaves the placeholder as it is.
StaysBlank == "blank"

\* The source instead of the math.
AfterError == "source"

\* What typesetTeX may return: an error when the TeX is wrong or when MathJax or
\* a font could not be loaded.  It never throws.
TypesetTeX == IF doc = "ready" THEN {"node", "error"} ELSE {"error"}

\* typesetTeX returns.
Typeset(r, result) ==
  /\ math[r] = "typesetting"
  /\ IF LooksCancelled(r)
     THEN /\ math' = [math EXCEPT ![r] = "over"]
          /\ UNCHANGED <<at, spans>>
     ELSE /\ math' = [math EXCEPT ![r] = "loop"]
          /\ at' = [at EXCEPT ![r] = @ + 1]
          /\ spans' = [spans EXCEPT ![Host(r)][at[r]] = IF result = "node" THEN "set" ELSE AfterError]
  /\ UNCHANGED <<page_, place, code_, doc, styles, faults>>

-----------------------------------------------------------------------------
\* A host is put in the page; its effect runs once, or twice in development.
Mount(h) ==
  /\ raw \in Opened
  /\ place[h] = "out"
  /\ Cardinality({r \in Runs : code[r] # "unborn"}) + (IF twice THEN 2 ELSE 1) <= MaxRuns
  /\ place' = [place EXCEPT ![h] = "in"]
  /\ LET runs == {<<h, 1>>} \cup (IF twice THEN {<<h, 2>>} ELSE {})
     IN StartCode(h, runs) /\ StartMath(h, runs)
  /\ UNCHANGED <<page_, loaded, painted, buttons, faults>>

Unmount(h) ==
  /\ place[h] = "in"
  /\ place' = [place EXCEPT ![h] = "gone"]
  /\ UNCHANGED <<page_, code_, math_, faults>>

Settle ==
  \/ \E l \in Languages, arrived \in BOOLEAN : GrammarSettles(l, arrived)
  \/ \E arrived \in BOOLEAN : DocumentSettles(arrived)

Step(r) ==
  \/ Highlight(r)
  \/ CopyButtons(r)
  \/ MathStyles(r)
  \/ NextSpan(r)
  \/ \E result \in TypesetTeX : Typeset(r, result)

Next ==
  \/ \E h \in Hosts : Mount(h)
  \/ \E h \in Hosts : Unmount(h)
  \/ Settle
  \/ \E r \in Runs : Step(r)

\* Imports settle, and a promise that has settled wakes who waits for it.
Spec ==
  /\ Init
  /\ [][Next]_vars
  /\ \A l \in Languages : WF_vars(\E arrived \in BOOLEAN : GrammarSettles(l, arrived))
  /\ WF_vars(\E arrived \in BOOLEAN : DocumentSettles(arrived))
  /\ \A r \in Runs : WF_vars(Highlight(r) \/ CopyButtons(r))
  /\ \A r \in Runs : WF_vars(MathStyles(r) \/ NextSpan(r)
                             \/ \E result \in TypesetTeX : Typeset(r, result))

-----------------------------------------------------------------------------
(* Properties.                                                             *)

\* Every span is shown by exactly one placeholder, unless it was cut out of code
\* or put inside another span.
MathIsPlaced ==
  \A n \in DOMAIN body.maths :
    \/ Cardinality({i \in DOMAIN body.shown : body.shown[i] = n}) = 1
    \/ \E i \in DOMAIN body.text : body.text[i] = n /\ InCode(body.text, i)
    \/ Swallowed(body, n)

\* Putting the spans back gives the text, up to spaces: nothing of a post is
\* lost or moved.
SourceSurvives == Inked(Restored(body)) = Inked(raw)

\* Taking the math out of a text, rendering it and putting the math back leaves
\* every span in its place, once, and the rest of the text as it was.
TextSurvives == MathIsPlaced /\ SourceSurvives

\* However many bodies wait for MathJax at once, the page gets one stylesheet: it
\* has it when a formula is typeset, and never a second one.
StyledOnce ==
  /\ styles <= 1
  /\ (\E r \in Runs : math[r] \in {"loop", "typesetting"}) => styles = 1

\* A block is highlighted once and gets one button, also when the effect ran twice
\* and the first run goes on after it was cancelled; and no run that is not cancelled
\* goes without because it takes another's work for done.
CodeDressedOnce ==
  /\ \A h \in Hosts : painted[h] <= 1 /\ buttons[h] <= 1
  /\ \A r \in Runs : Coded =>
       /\ code[r] \in {"highlighted", "over"} => painted[Host(r)] = 1
       /\ code[r] = "over" /\ ~ Cancelled(r) => buttons[Host(r)] = 1

\* Of what several runs would do at once nothing is done twice, and nothing is left
\* undone by a run that relies on another.
DressedOnce == StyledOnce /\ CodeDressedOnce

\* A host that is gone gets no more math and no more buttons.
GoneIsLeftAlone ==
  [][\A h \in Hosts : place[h] = "gone" =>
       spans'[h] = spans[h] /\ buttons'[h] = buttons[h]]_vars

\* In a body that is shown, when no run has anything left to do, a placeholder is
\* blank only because MathJax could not be loaded, in this session, ever before.
BlankHasCause ==
  \A h \in Hosts :
    /\ place[h] = "in"
    /\ \A r \in Runs : Host(r) = h => math[r] \in {"unborn", "over"}
    /\ \E i \in DOMAIN spans[h] : spans[h][i] = "blank"
    => doc = "failed"

\* After the last failure code gets its colours and its buttons: a grammar that
\* could not be loaded once is loaded for the next post that asks for it.
CodeRecovers ==
  \A h \in Hosts :
    (place[h] = "in" /\ code[<<h, 1>>] = "waiting" /\ Coded /\ faults = MaxFaults)
      ~> (place[h] = "gone" \/ (painted[h] = 1 /\ buttons[h] = 1))

\* So does math, unless it was MathJax itself that failed.
MathRecovers ==
  \A h \in Hosts :
    (place[h] = "in" /\ math[<<h, 1>>] # "over" /\ faults = MaxFaults)
      ~> \/ place[h] = "gone" \/ doc = "failed"
         \/ \A i \in DOMAIN spans[h] : spans[h][i] # "blank"

\* A body in which something failed is whole again after the next success.
BodyRecovers == CodeRecovers /\ MathRecovers
-----------------------------------------------------------------------------
(* Types, and the inductive invariant behind BlankHasCause.                *)

TypeOK ==
  /\ raw \in Raws /\ body = Dressed(RenderMarkdown(raw))
  /\ twice \in BOOLEAN
  /\ place \in [Hosts -> {"out", "in", "gone"}]
  /\ loaded \in SUBSET Languages /\ pending \in SUBSET Languages
  /\ flying \in SUBSET Languages
  /\ doc \in {"none", "loading", "ready", "failed"}
  /\ styles \in Nat
  /\ code \in [Runs -> {"unborn", "waiting", "bare", "highlighted", "over"}]
  /\ needs \in [Runs -> SUBSET Languages]
  /\ math \in [Runs -> {"unborn", "styles", "loop", "typesetting", "over"}]
  /\ at \in [Runs -> Nat]
  /\ painted \in [Hosts -> Nat] /\ buttons \in [Hosts -> Nat]
  /\ spans \in [Hosts -> Seq({"blank", "set", "source"})]
  /\ faults \in 0 .. MaxFaults

\* The placeholders of h before the n-th show something.
DoneBefore(h, n) == \A i \in DOMAIN spans[h] : i < n => spans[h][i] # "blank"

\* A run starts with its host; one that is not cancelled has seen to every
\* placeholder before the one it is at, and to all when it is over, unless MathJax
\* did not come.
RunOK(r) ==
  /\ code[r] = "unborn" <=> math[r] = "unborn"
  /\ place[Host(r)] = "out" => code[r] = "unborn"
  /\ r[2] = 1 /\ place[Host(r)] # "out" => code[r] # "unborn"
  /\ math[r] = "styles" => at[r] = 1
  /\ math[r] = "typesetting" => at[r] <= Count
  /\ ~ Cancelled(r) =>
       /\ math[r] \in {"loop", "typesetting"} => DoneBefore(Host(r), at[r])
       /\ math[r] = "over" => doc = "failed" \/ DoneBefore(Host(r), Count + 1)

BodyInv ==
  /\ \A h \in Hosts : place[h] # "out" => Len(spans[h]) = Count
  /\ \A r \in Runs : RunOK(r)
=============================================================================
