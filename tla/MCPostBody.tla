----------------------------- MODULE MCPostBody -----------------------------
(* Instances of PostBody for TLC.  Every text of up to MaxLength tokens and  *)
(* every text of up to MaxPieces pieces is rendered; two are put in the      *)
(* page: code with a formula before it, and two formulas.  One host has a    *)
(* block in one language, one a block without a label.                       *)
EXTENDS PostBody

CONSTANTS h1, h2

MaxLength == 5
MaxPieces == 4

MCHosts     == {h1, h2}
MCLanguages == {"go", "sql"}
MCLabels    == [h \in MCHosts |-> IF h = h1 THEN {"go"} ELSE {"none"}]
MCOpened    == {<<Dollar, Letter, Dollar, Fence, Letter, Fence>>,
                <<Dollar, Letter, Dollar, Dollar, Letter, Dollar>>}
Pieces == {<<Dollar, Letter, Dollar>>, <<Dollar, Dollar, Letter, Dollar, Dollar>>,
           <<OpenParen, Letter, CloseParen>>, <<OpenBracket, Letter, CloseBracket>>,
           <<OpenParen>>, <<Space, CloseParen>>, <<Fence>>, <<Dollar>>, <<Letter, Space>>}
MCRaws      == MCOpened \cup UNION {[1 .. n -> Written] : n \in 0 .. MaxLength}
                 \cup {FlattenSeq(p) : p \in UNION {[1 .. n -> Pieces] : n \in 0 .. MaxPieces}}
=============================================================================
