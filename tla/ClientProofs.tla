---------------------------- MODULE ClientProofs ----------------------------
(***************************************************************************)
(* Proofs about the parts of the web client that stand beside its forum    *)
(* screens: post bodies, the search screen and the widgets, each with its  *)
(* own variables and its own specification.                                *)
(*                                                                         *)
(* The math that is cut out of a text can be put back.  Rendering a text,  *)
(* putting its spans back and dropping its spaces all rewrite it token by  *)
(* token; a call of replace() is a recursion over the places of the text,  *)
(* and three invariants follow it: what its result is made of, that who    *)
(* puts the spans back makes the same of what it wrote as of what it read, *)
(* and where each span is.                                                 *)
(*                                                                         *)
(* A body that is shown gets its math.  The argument follows the one run   *)
(* of the host's effect that is not cancelled: it has passed no            *)
(* placeholder that is blank, the other run of a development build writes  *)
(* nothing once it is cancelled, and a failure of MathJax itself is for    *)
(* good.                                                                   *)
(*                                                                         *)
(* An address says what its action says.  The texts of an address are      *)
(* built and read by recursive functions over sequences; that these meet   *)
(* their equations is proved first, then that a filled template splits     *)
(* where the template does, and that decoding undoes the encoding.         *)
(***************************************************************************)
EXTENDS PostBody, Search, Widgets, FiniteSetTheorems, WellFoundedInduction, TLAPS

-----------------------------------------------------------------------------
(* Recursion over numbers and over sequences.                              *)

\* A set of numbers has a least one.
LEMMA LeastNumber ==
  ASSUME NEW T \in SUBSET Nat, T # {}
  PROVE  \E m \in T : \A n \in T : m <= n
<1> DEFINE R == OpToRel(<, Nat)
<1>1. IsWellFoundedOn(R, Nat)
  BY NatLessThanWellFounded
<1>2. \A m, n \in Nat : m < n => <<m, n>> \in R
  BY DEF OpToRel
<1> HIDE DEF R
<1>3. PICK m \in T : \A n \in T : ~ (<<n, m>> \in R)
  BY <1>1, WFMin
<1>4. \A n \in T : n \in Nat /\ m \in Nat /\ ~ (n < m)
  BY <1>2, <1>3
<1> QED BY <1>4

\* A set of numbers that holds 0 and with a number the next holds all up to a bound.
LEMMA NumberInduction ==
  ASSUME NEW n \in Nat, NEW P, 0 \in P, \A i \in 0 .. n - 1 : i \in P => i + 1 \in P
  PROVE  \A i \in 0 .. n : i \in P
<1> DEFINE missing == {i \in 0 .. n : i \notin P}
<1>1. SUFFICES ASSUME missing # {} PROVE FALSE
  OBVIOUS
<1>2. PICK i \in missing : \A j \in missing : i <= j
  <2>1. missing \in SUBSET Nat
    OBVIOUS
  <2> HIDE DEF missing
  <2> QED BY <1>1, <2>1, LeastNumber
<1>3. i \in 0 .. n /\ i \notin P /\ i # 0
  OBVIOUS
<1>4. i - 1 \in 0 .. n - 1 /\ i - 1 \in 0 .. n /\ i - 1 + 1 = i /\ ~ (i <= i - 1)
  BY <1>3
<1>5. i - 1 \in P
  BY <1>2, <1>4
<1> QED BY <1>3, <1>4, <1>5

\* A sequence is empty, or one element longer than its front.
LEMMA FrontAndLast ==
  ASSUME NEW A
  PROVE  /\ \A s \in Seq(A) : s # << >> =>
              /\ Front(s) \in Seq(A) /\ Last(s) \in A
              /\ Len(Front(s)) = Len(s) - 1 /\ Len(s) \in Nat \ {0}
              /\ s = Append(Front(s), Last(s))
         /\ \A s \in Seq(A), x \in A :
              /\ Append(s, x) \in Seq(A) /\ Append(s, x) # << >>
              /\ Front(Append(s, x)) = s /\ Last(Append(s, x)) = x
              /\ Len(Append(s, x)) = Len(s) + 1
<1>1. ASSUME NEW s \in Seq(A), s # << >>
      PROVE  /\ Front(s) \in Seq(A) /\ Last(s) \in A
             /\ Len(Front(s)) = Len(s) - 1 /\ Len(s) \in Nat \ {0}
             /\ s = Append(Front(s), Last(s))
  <2>1. Len(s) \in Nat /\ Len(s) # 0
    BY <1>1
  <2>2. Front(s) \in Seq(A) /\ Last(s) \in A /\ Len(Front(s)) = Len(s) - 1
    <3>1. Last(s) \in A
      BY <1>1, <2>1 DEF Last
    <3>2. SubSeq(s, 1, Len(s) - 1) \in Seq(A)
      BY <1>1, <2>1
    <3>3. \A k \in 0 .. Len(s) : Len(SubSeq(s, 1, k)) = k
      BY <1>1, <2>1
    <3>4. Len(s) - 1 \in 0 .. Len(s)
      BY <2>1
    <3>5. Len(SubSeq(s, 1, Len(s) - 1)) = Len(s) - 1
      BY <3>3, <3>4, Zenon
    <3> QED BY <3>1, <3>2, <3>5 DEF Front
  <2>3. \A i \in 1 .. Len(s) - 1 : Front(s)[i] = s[i]
    BY <2>1 DEF Front
  <2>4. s = Append(Front(s), Last(s))
    BY <2>1, <2>2, <2>3 DEF Last
  <2> QED BY <2>1, <2>2, <2>4
<1>2. ASSUME NEW s \in Seq(A), NEW x \in A
      PROVE  /\ Append(s, x) \in Seq(A) /\ Append(s, x) # << >>
             /\ Front(Append(s, x)) = s /\ Last(Append(s, x)) = x
             /\ Len(Append(s, x)) = Len(s) + 1
  <2>1. Append(s, x) \in Seq(A) /\ Len(Append(s, x)) = Len(s) + 1 /\ Len(s) \in Nat
    OBVIOUS
  <2>2. Last(Append(s, x)) = x
    BY <2>1 DEF Last
  <2>3. Front(Append(s, x)) = s
    BY <2>1 DEF Front
  <2> QED BY <2>1, <2>2, <2>3
<1> QED BY <1>1, <1>2

\* A set that holds the empty sequence and with a sequence every longer by one holds
\* all of them.
LEMMA SequenceInduction ==
  ASSUME NEW A, NEW P, << >> \in P, \A s \in P \cap Seq(A) : \A x \in A : Append(s, x) \in P
  PROVE  \A s \in Seq(A) : s \in P
<1> DEFINE bad   == {s \in Seq(A) : s \notin P}
           sizes == {Len(s) : s \in bad}
<1>1. SUFFICES ASSUME bad # {} PROVE FALSE
  OBVIOUS
<1>2. sizes \in SUBSET Nat /\ sizes # {}
  <2>1. \A s \in bad : Len(s) \in Nat
    OBVIOUS
  <2> HIDE DEF bad
  <2> QED BY <1>1, <2>1
<1>3. PICK s \in bad : \A t \in bad : Len(s) <= Len(t)
  <2>1. PICK k \in sizes : \A l \in sizes : k <= l
    BY <1>2, LeastNumber
  <2> QED BY <2>1
<1>4. s \in Seq(A) /\ s \notin P /\ s # << >>
  OBVIOUS
<1>5. /\ Front(s) \in Seq(A) /\ Last(s) \in A
      /\ Len(Front(s)) = Len(s) - 1 /\ Len(s) \in Nat \ {0}
      /\ s = Append(Front(s), Last(s))
  BY <1>4, FrontAndLast
<1>6. Front(s) \notin bad
  BY <1>3, <1>5
<1>7. Front(s) \in P \cap Seq(A)
  BY <1>5, <1>6
<1>8. Append(Front(s), Last(s)) \in P
  BY <1>5, <1>7
<1> QED BY <1>4, <1>5, <1>8

\* What a recursion over the front of a sequence asks of a function.
Solves(f, A, V, base, step) ==
  /\ f \in [Seq(A) -> V]
  /\ \A s \in Seq(A) : f[s] = IF s = << >> THEN base ELSE step[Last(s)][f[Front(s)]]

\* Some function does it: the solutions for the sequences below each length agree, and
\* the next is made from them.
LEMMA SequenceRecursion ==
  ASSUME NEW A, NEW V, NEW base \in V, NEW step \in [A -> [V -> V]]
  PROVE  \E f : Solves(f, A, V, base, step)
<1> DEFINE Below(n) == {s \in Seq(A) : Len(s) < n}
           Partial(h, n) ==
             /\ h \in [Below(n) -> V]
             /\ \A s \in Below(n) :
                  h[s] = IF s = << >> THEN base ELSE step[Last(s)][h[Front(s)]]
<1>1. \A s \in Seq(A) : Len(s) \in Nat
  OBVIOUS
<1>2. \A s \in Seq(A) : s # << >> =>
        /\ Front(s) \in Seq(A) /\ Last(s) \in A /\ Len(Front(s)) = Len(s) - 1
  BY FrontAndLast
<1>3. ASSUME NEW m \in Nat, NEW n \in Nat, NEW g, NEW h, Partial(g, m), Partial(h, n)
      PROVE  \A s \in Below(m) \cap Below(n) : g[s] = h[s]
  <2> DEFINE P == {s \in Seq(A) : s \in Below(m) \cap Below(n) => g[s] = h[s]}
  <2>1. << >> \in P
    <3>1. << >> \in Seq(A)
      OBVIOUS
    <3>2. << >> \in Below(m) => g[<< >>] = base
      BY <1>3
    <3>3. << >> \in Below(n) => h[<< >>] = base
      BY <1>3
    <3> HIDE DEF Below, Partial
    <3> QED BY <3>1, <3>2, <3>3
  <2>2. ASSUME NEW s \in P \cap Seq(A), NEW x \in A
        PROVE  Append(s, x) \in P
    <3> DEFINE t == Append(s, x)
    <3>1. t \in Seq(A) /\ t # << >> /\ Front(t) = s /\ Len(t) = Len(s) + 1
      BY FrontAndLast
    <3> HIDE DEF t
    <3>2. SUFFICES ASSUME t \in Below(m), t \in Below(n) PROVE g[t] = h[t]
      BY <3>1 DEF t
    <3>3. s \in Below(m) /\ s \in Below(n)
      BY <1>1, <3>1, <3>2
    <3>4. g[s] = h[s]
      BY <3>3
    <3> HIDE DEF Below
    <3> QED BY <1>3, <3>1, <3>2, <3>4
  <2> HIDE DEF P
  <2>3. \A s \in Seq(A) : s \in P
    BY <2>1, <2>2, SequenceInduction
  <2> QED BY <2>3 DEF P
<1>4. \A n \in Nat : \E h : Partial(h, n)
  <2> DEFINE missing == {n \in Nat : ~ \E h : Partial(h, n)}
  <2>1. SUFFICES ASSUME missing # {} PROVE FALSE
    OBVIOUS
  <2>2. PICK n \in missing : \A m \in missing : n <= m
    <3> HIDE DEF Partial
    <3> QED BY <2>1, LeastNumber
  <2>3. n \in Nat /\ ~ \E h : Partial(h, n)
    OBVIOUS
  <2>4. CASE n = 0
    <3>1. Below(0) = {}
      BY <1>1
    <3>2. Partial([s \in {} |-> s], 0)
      BY <3>1
    <3> QED BY <2>3, <2>4, <3>2
  <2>5. CASE n # 0
    <3>1. n - 1 \in Nat /\ n - 1 \notin missing
      <4>1. n \in Nat
        BY <2>3
      <4> HIDE DEF missing
      <4> QED BY <2>2, <2>5, <4>1
    <3>2. PICK h : Partial(h, n - 1)
      BY <3>1
    <3> DEFINE g == [s \in Below(n) |->
                       IF s = << >> THEN base ELSE step[Last(s)][h[Front(s)]]]
    <3>3. ASSUME NEW s \in Below(n), s # << >>
          PROVE  /\ Front(s) \in Below(n - 1) /\ Front(s) \in Below(n)
                 /\ h[Front(s)] \in V /\ Last(s) \in A
      <4>1. /\ Front(s) \in Seq(A) /\ Last(s) \in A
            /\ Len(Front(s)) < n - 1 /\ Len(Front(s)) < n
        BY <1>1, <1>2, <2>3, <3>3
      <4> QED BY <3>2, <4>1
    <3>4. g \in [Below(n) -> V]
      <4>1. ASSUME NEW s \in Below(n)
            PROVE  (IF s = << >> THEN base ELSE step[Last(s)][h[Front(s)]]) \in V
        <5> HIDE DEF Below
        <5> QED BY <3>3, <4>1
      <4> HIDE DEF Below
      <4> QED BY <4>1
    <3>5. ASSUME NEW s \in Below(n), s # << >> PROVE g[Front(s)] = h[Front(s)]
      <4>1. Front(s) \in Below(n - 1) /\ Front(s) \in Below(n)
        BY <3>3, <3>5
      <4> HIDE DEF Below
      <4> QED BY <3>2, <4>1
    <3>6. Partial(g, n)
      <4>1. ASSUME NEW s \in Below(n)
            PROVE  g[s] = IF s = << >> THEN base ELSE step[Last(s)][g[Front(s)]]
        <5>1. g[s] = IF s = << >> THEN base ELSE step[Last(s)][h[Front(s)]]
          BY <4>1
        <5> HIDE DEF g, Below
        <5> QED BY <3>5, <4>1, <5>1
      <4> HIDE DEF g
      <4> QED BY <3>4, <4>1
    <3> HIDE DEF Partial, g
    <3> QED BY <2>3, <3>6
  <2> QED BY <2>4, <2>5
<1> DEFINE part == [n \in Nat |-> CHOOSE h : Partial(h, n)]
           f == [s \in Seq(A) |-> part[Len(s) + 1][s]]
<1>5. \A n \in Nat : Partial(part[n], n)
  <2> HIDE DEF Partial
  <2> QED BY <1>4
<1>6. \A s \in Seq(A) : Len(s) + 1 \in Nat /\ s \in Below(Len(s) + 1)
  BY <1>1
<1> HIDE DEF part
<1>7. f \in [Seq(A) -> V]
  <2>1. ASSUME NEW s \in Seq(A) PROVE part[Len(s) + 1][s] \in V
    <3>1. Partial(part[Len(s) + 1], Len(s) + 1) /\ s \in Below(Len(s) + 1)
      BY <1>5, <1>6, <2>1
    <3> HIDE DEF Below
    <3> QED BY <3>1
  <2> QED BY <2>1
<1>8. ASSUME NEW s \in Seq(A)
      PROVE  f[s] = IF s = << >> THEN base ELSE step[Last(s)][f[Front(s)]]
  <2> DEFINE n == Len(s) + 1
  <2>1. n \in Nat /\ s \in Below(n) /\ Partial(part[n], n) /\ f[s] = part[n][s]
    BY <1>5, <1>6, <1>8
  <2>2. f[s] = IF s = << >> THEN base ELSE step[Last(s)][part[n][Front(s)]]
    <3> HIDE DEF f, Below, n
    <3> QED BY <2>1
  <2>3. CASE s # << >>
    <3> DEFINE t == Front(s)
               k == Len(t) + 1
    <3>1. /\ t \in Seq(A) /\ k \in Nat /\ t \in Below(k)
          /\ Partial(part[k], k) /\ f[t] = part[k][t]
      BY <1>2, <1>5, <1>6, <1>8, <2>3
    <3>2. t \in Below(n)
      BY <1>1, <1>2, <1>8, <2>3
    <3> HIDE DEF f, Below, n, k, t, Partial
    <3>3. part[n][t] = part[k][t]
      BY <1>3, <2>1, <3>1, <3>2
    <3>4. f[t] = part[n][t]
      BY <3>1, <3>3
    <3> QED BY <2>2, <2>3, <3>4 DEF t
  <2> HIDE DEF f, n
  <2> QED BY <2>2, <2>3
<1> HIDE DEF f
<1> QED BY <1>7, <1>8 DEF Solves

\* What a recursion over the numbers up to n asks of a function, and that some
\* function does it.
Counts(f, n, V, base, step) ==
  /\ f \in [0 .. n -> V]
  /\ \A i \in 0 .. n : f[i] = IF i = 0 THEN base ELSE step[i][f[i - 1]]

\* Some function does it: it is made of a sequence of the numbers.
LEMMA NumberRecursion ==
  ASSUME NEW n \in Nat, NEW V, NEW base \in V, NEW step \in [1 .. n -> [V -> V]]
  PROVE  \E f : Counts(f, n, V, base, step)
<1> DEFINE A == 1 .. n
           upTo(i) == [j \in 1 .. i |-> j]
<1>1. PICK F : Solves(F, A, V, base, step)
  BY SequenceRecursion
<1>2. \A i \in 0 .. n : upTo(i) \in Seq(A) /\ Len(upTo(i)) = i
  OBVIOUS
<1>3. upTo(0) = << >>
  OBVIOUS
<1>4. ASSUME NEW i \in 1 .. n
      PROVE  upTo(i) # << >> /\ Last(upTo(i)) = i /\ Front(upTo(i)) = upTo(i - 1)
  <2>1. Len(upTo(i)) = i /\ upTo(i) \in Seq(A)
    BY <1>2
  <2>2. Last(upTo(i)) = i
    BY <2>1 DEF Last
  <2>3. Front(upTo(i)) = SubSeq(upTo(i), 1, i - 1)
    BY <2>1 DEF Front
  <2>4. SubSeq(upTo(i), 1, i - 1) = upTo(i - 1)
    OBVIOUS
  <2> HIDE DEF upTo
  <2>5. upTo(i) # << >>
    BY <2>1
  <2> QED BY <2>2, <2>3, <2>4, <2>5
<1> DEFINE f == [i \in 0 .. n |-> F[upTo(i)]]
<1> HIDE DEF upTo
<1>5. f \in [0 .. n -> V]
  BY <1>1, <1>2 DEF Solves
<1>6. ASSUME NEW i \in 0 .. n
      PROVE  f[i] = IF i = 0 THEN base ELSE step[i][f[i - 1]]
  <2>1. CASE i = 0
    BY <1>1, <1>2, <1>3, <2>1 DEF Solves
  <2>2. CASE i # 0
    <3>1. i \in 1 .. n /\ i - 1 \in 0 .. n
      BY <2>2
    <3>2. F[upTo(i)] = step[Last(upTo(i))][F[Front(upTo(i))]]
      BY <1>1, <1>2, <1>4, <3>1 DEF Solves
    <3> QED BY <1>4, <2>2, <3>1, <3>2
  <2> QED BY <2>1, <2>2
<1> HIDE DEF f
<1> QED BY <1>5, <1>6 DEF Counts

\* Sequences of one length with the same elements are the same.
LEMMA SameElements ==
  ASSUME NEW A, NEW u \in Seq(A), NEW w \in Seq(A), Len(u) = Len(w),
         \A i \in 1 .. Len(u) : u[i] = w[i]
  PROVE  u = w
<1>1. u = [i \in 1 .. Len(u) |-> u[i]] /\ w = [i \in 1 .. Len(w) |-> w[i]]
  OBVIOUS
<1> QED BY <1>1

\* A sequence over a set is one over each larger set.
LEMMA SequencesOfMore ==
  ASSUME NEW A, NEW B, A \subseteq B
  PROVE  \A s \in Seq(A) : s \in Seq(B)
<1> TAKE s \in Seq(A)
<1>1. Len(s) \in Nat /\ s = [i \in 1 .. Len(s) |-> s[i]]
  OBVIOUS
<1>2. \A i \in 1 .. Len(s) : s[i] \in A
  OBVIOUS
<1>3. \A i \in 1 .. Len(s) : s[i] \in B
  BY <1>2
<1> QED BY <1>1, <1>3

\* What flattening makes of a sequence of sequences, and of one longer by one.
LEMMA Flattened ==
  ASSUME NEW B
  PROVE  /\ FlattenSeq(<< >>) = << >>
         /\ \A ss \in Seq(Seq(B)) : FlattenSeq(ss) \in Seq(B)
         /\ \A ss \in Seq(Seq(B)), x \in Seq(B) :
              FlattenSeq(Append(ss, x)) = FlattenSeq(ss) \o x
<1> DEFINE A    == Seq(B)
           step == [x \in A |-> [v \in A |-> v \o x]]
<1>1. << >> \in A /\ step \in [A -> [A -> A]]
  OBVIOUS
<1> HIDE DEF A
<1>2. PICK F : Solves(F, A, A, << >>, step)
  BY <1>1, SequenceRecursion
<1>3. F \in [Seq(A) -> A] /\ F[<< >>] = << >>
  <2>1. << >> \in Seq(A)
    OBVIOUS
  <2> QED BY <1>2, <2>1 DEF Solves
<1>4. ASSUME NEW ss \in Seq(A), NEW x \in A
      PROVE  F[Append(ss, x)] = F[ss] \o x
  <2>1. /\ Append(ss, x) \in Seq(A) /\ Append(ss, x) # << >>
        /\ Front(Append(ss, x)) = ss /\ Last(Append(ss, x)) = x
    BY FrontAndLast
  <2>2. F[Append(ss, x)] = step[x][F[ss]]
    BY <1>2, <2>1 DEF Solves
  <2>3. F[ss] \in A
    BY <1>3
  <2> QED BY <2>2, <2>3
<1>5. ASSUME NEW ss \in Seq(A) PROVE FlattenSeq(ss) = F[ss]
  <2>1. CASE ss = << >>
    BY <1>3, <2>1 DEF FlattenSeq
  <2>2. CASE ss # << >>
    <3> DEFINE n == Len(ss)
               upTo(i) == SubSeq(ss, 1, i)
               solves(g) == g = [i \in 1 .. n |-> IF i = 1 THEN ss[i]
                                                   ELSE g[i - 1] \o ss[i]]
               f == [i \in 1 .. n |-> F[upTo(i)]]
    <3>1. n \in Nat \ {0} /\ \A i \in 1 .. n : ss[i] \in A
      BY <2>2
    <3>2. \A i \in 0 .. n : upTo(i) \in Seq(A)
      BY <3>1
    <3>3. upTo(0) = << >> /\ upTo(n) = ss
      BY <3>1
    <3>4. ASSUME NEW i \in 1 .. n PROVE upTo(i) = Append(upTo(i - 1), ss[i])
      BY <3>1
    <3> HIDE DEF upTo, n
    <3>5. ASSUME NEW i \in 1 .. n
          PROVE  F[upTo(i)] = IF i = 1 THEN ss[i] ELSE F[upTo(i - 1)] \o ss[i]
      <4>1. i - 1 \in 0 .. n
        BY <3>1, <3>5
      <4>2. F[upTo(i)] = F[upTo(i - 1)] \o ss[i]
        BY <1>4, <3>1, <3>2, <3>4, <4>1
      <4>3. << >> \o ss[i] = ss[i]
        <5>1. ss[i] \in Seq(B)
          BY <3>1 DEF A
        <5> QED BY <5>1
      <4>4. i = 1 => F[upTo(i - 1)] = << >>
        <5>1. i = 1 => i - 1 = 0
          OBVIOUS
        <5> QED BY <1>3, <3>3, <5>1
      <4> HIDE DEF A
      <4> QED BY <4>2, <4>3, <4>4
    <3>6. solves(f)
      <4>1. ASSUME NEW i \in 1 .. n
            PROVE  f[i] = IF i = 1 THEN ss[i] ELSE f[i - 1] \o ss[i]
        <5>1. CASE i = 1
          BY <3>5, <5>1
        <5>2. CASE i # 1
          <6>1. i - 1 \in 1 .. n
            BY <3>1, <5>2
          <6> QED BY <3>5, <5>2, <6>1
        <5> QED BY <5>1, <5>2
      <4>2. f = [i \in 1 .. n |-> f[i]]
        OBVIOUS
      <4> HIDE DEF f
      <4> QED BY <4>1, <4>2
    <3> DEFINE g == CHOOSE g : solves(g)
    <3>7. solves(g)
      <4> HIDE DEF solves, f
      <4> QED BY <3>6
    <3>8. FlattenSeq(ss) = g[n]
      BY <3>1 DEF FlattenSeq, n
    <3> HIDE DEF g
    <3>9. \A i \in 1 .. n : g[i] = IF i = 1 THEN ss[i] ELSE g[i - 1] \o ss[i]
      BY <3>7
    <3>10. g[n] = F[upTo(n)]
      <4> DEFINE P == {i \in 0 .. n : i # 0 => g[i] = F[upTo(i)]}
      <4>1. 0 \in P
        BY <3>1
      <4>2. ASSUME NEW i \in 0 .. n - 1, i \in P PROVE i + 1 \in P
        <5>1. i + 1 \in 1 .. n /\ i + 1 - 1 = i
          BY <3>1
        <5>2. F[upTo(i + 1)] = IF i + 1 = 1 THEN ss[i + 1] ELSE F[upTo(i)] \o ss[i + 1]
          BY <3>5, <5>1
        <5>3. g[i + 1] = IF i + 1 = 1 THEN ss[i + 1] ELSE g[i] \o ss[i + 1]
          BY <3>9, <5>1
        <5>4. i + 1 # 1 => g[i] = F[upTo(i)]
          BY <4>2
        <5>5. g[i + 1] = F[upTo(i + 1)]
          BY <5>2, <5>3, <5>4
        <5> QED BY <5>1, <5>5
      <4> HIDE DEF P
      <4>3. n \in P
        <5>1. n \in Nat /\ n \in 0 .. n
          BY <3>1
        <5>2. \A i \in 0 .. n : i \in P
          BY <4>1, <4>2, <5>1, NumberInduction
        <5> QED BY <5>1, <5>2
      <4> QED BY <3>1, <4>3 DEF P
    <3> QED BY <3>3, <3>8, <3>10
  <2> QED BY <2>1, <2>2
<1>6. FlattenSeq(<< >>) = << >>
  BY DEF FlattenSeq
<1>7. \A ss \in Seq(A) : FlattenSeq(ss) \in A
  BY <1>3, <1>5
<1>8. \A ss \in Seq(A), x \in A : FlattenSeq(Append(ss, x)) = FlattenSeq(ss) \o x
  BY <1>4, <1>5, FrontAndLast
<1> QED BY <1>6, <1>7, <1>8 DEF A

-----------------------------------------------------------------------------
(* Post bodies: texts.                                                     *)

\* A text is any sequence of tokens.
Text == Seq(Int)

\* A text with a piece of text for each of its tokens.
Pieces == [Int -> Text]
Rewrite(piece, t) == FlattenSeq([i \in DOMAIN t |-> piece[t[i]]])

\* Rewriting goes token by token.
LEMMA RewriteEquations ==
  ASSUME NEW p \in Pieces
  PROVE  /\ Rewrite(p, << >>) = << >>
         /\ \A t \in Text : Rewrite(p, t) \in Text
         /\ \A t \in Text, x \in Int : Rewrite(p, Append(t, x)) = Rewrite(p, t) \o p[x]
<1> DEFINE each(t) == [i \in DOMAIN t |-> p[t[i]]]
<1>1. each(<< >>) = << >>
  OBVIOUS
<1>2. ASSUME NEW t \in Text PROVE each(t) \in Seq(Text) /\ Len(each(t)) = Len(t)
  <2>1. Len(t) \in Nat /\ DOMAIN t = 1 .. Len(t) /\ \A i \in 1 .. Len(t) : t[i] \in Int
    BY DEF Text
  <2>2. \A i \in 1 .. Len(t) : p[t[i]] \in Text
    BY <2>1 DEF Pieces
  <2> QED BY <2>1, <2>2
<1>3. ASSUME NEW t \in Text, NEW x \in Int
      PROVE  each(Append(t, x)) = Append(each(t), p[x])
  <2>1. Len(t) \in Nat /\ DOMAIN t = 1 .. Len(t)
    BY DEF Text
  <2>2. each(t) \in Seq(Text) /\ Len(each(t)) = Len(t) /\ DOMAIN each(t) = 1 .. Len(t)
    BY <1>2, <2>1
  <2>3. DOMAIN Append(t, x) = 1 .. Len(t) + 1
    BY <2>1 DEF Text
  <2>4. /\ \A i \in 1 .. Len(t) : Append(t, x)[i] = t[i]
        /\ Append(t, x)[Len(t) + 1] = x
    BY <2>1 DEF Text
  <2>5. DOMAIN Append(each(t), p[x]) = 1 .. Len(t) + 1
    BY <2>1, <2>2
  <2>6. /\ \A i \in 1 .. Len(t) : Append(each(t), p[x])[i] = p[t[i]]
        /\ Append(each(t), p[x])[Len(t) + 1] = p[x]
    BY <2>1, <2>2
  <2>7. p[x] \in Text
    BY DEF Pieces
  <2>8. Append(each(t), p[x]) \in Seq(Text)
    BY <2>2, <2>7
  <2>9. Append(each(t), p[x]) = [i \in 1 .. Len(t) + 1 |-> Append(each(t), p[x])[i]]
    <3> HIDE DEF each
    <3> QED BY <2>5, <2>8
  <2>10. \A i \in 1 .. Len(t) + 1 : Append(each(t), p[x])[i] = p[Append(t, x)[i]]
    BY <2>1, <2>4, <2>6
  <2> QED BY <2>3, <2>9, <2>10
<1> HIDE DEF each
<1>4. \A ss \in Seq(Text) : FlattenSeq(ss) \in Text
  BY Flattened DEF Text
<1>5. \A ss \in Seq(Text), y \in Text : FlattenSeq(Append(ss, y)) = FlattenSeq(ss) \o y
  BY Flattened DEF Text
<1>6. FlattenSeq(<< >>) = << >>
  BY Flattened
<1>7. \A x \in Int : p[x] \in Text
  BY DEF Pieces
<1>8. \A t : Rewrite(p, t) = FlattenSeq(each(t))
  BY DEF Rewrite, each
<1>9. Rewrite(p, << >>) = << >>
  BY <1>1, <1>6, <1>8
<1>10. ASSUME NEW t \in Text PROVE Rewrite(p, t) \in Text
  BY <1>2, <1>4, <1>8
<1>11. ASSUME NEW t \in Text, NEW x \in Int
       PROVE  Rewrite(p, Append(t, x)) = Rewrite(p, t) \o p[x]
  <2>1. FlattenSeq(Append(each(t), p[x])) = FlattenSeq(each(t)) \o p[x]
    BY <1>2, <1>5, <1>7
  <2> QED BY <1>3, <1>8, <2>1
<1> QED BY <1>9, <1>10, <1>11

\* It only matters what the pieces of the tokens of a text are.
LEMMA RewriteAlike ==
  ASSUME NEW A, NEW t \in Seq(A), NEW p, NEW q, \A x \in A : p[x] = q[x]
  PROVE  Rewrite(p, t) = Rewrite(q, t)
<1>1. [i \in DOMAIN t |-> p[t[i]]] = [i \in DOMAIN t |-> q[t[i]]]
  <2>1. \A i \in DOMAIN t : t[i] \in A
    OBVIOUS
  <2> QED BY <2>1
<1> QED BY <1>1 DEF Rewrite

\* How texts are put together and cut, token by token.
LEMMA TextsTogether ==
  ASSUME NEW s \in Text, NEW t \in Text
  PROVE  /\ s \o t \in Text /\ Len(s \o t) = Len(s) + Len(t)
         /\ \A k \in 1 .. Len(s) + Len(t) :
              (s \o t)[k] = IF k <= Len(s) THEN s[k] ELSE t[k - Len(s)]
BY DEF Text

\* Texts of one length with the same tokens are the same.
LEMMA TextsEqual ==
  ASSUME NEW s \in Text, NEW t \in Text, Len(s) = Len(t),
         \A k \in 1 .. Len(s) : s[k] = t[k]
  PROVE  s = t
<1>1. s = [k \in 1 .. Len(s) |-> s[k]] /\ t = [k \in 1 .. Len(t) |-> t[k]]
  BY DEF Text
<1> QED BY <1>1

\* It makes no difference in which order texts are put together.
Associate(a, b, c) == (a \o b) \o c = a \o (b \o c)

\* The two have the same tokens.
LEMMA TextsAssociate ==
  ASSUME NEW a \in Text, NEW b \in Text, NEW c \in Text
  PROVE  Associate(a, b, c)
<1> DEFINE ab == a \o b
           bc == b \o c
           l  == ab \o c
           r  == a \o bc
<1>1. Len(a) \in Nat /\ Len(b) \in Nat /\ Len(c) \in Nat
  BY DEF Text
<1>2. /\ ab \in Text /\ Len(ab) = Len(a) + Len(b)
      /\ \A k \in 1 .. Len(a) + Len(b) : ab[k] = IF k <= Len(a) THEN a[k] ELSE b[k - Len(a)]
  BY TextsTogether
<1>3. /\ bc \in Text /\ Len(bc) = Len(b) + Len(c)
      /\ \A k \in 1 .. Len(b) + Len(c) : bc[k] = IF k <= Len(b) THEN b[k] ELSE c[k - Len(b)]
  BY TextsTogether
<1> HIDE DEF ab, bc
<1>4. /\ l \in Text /\ Len(l) = Len(ab) + Len(c)
      /\ \A k \in 1 .. Len(ab) + Len(c) : l[k] = IF k <= Len(ab) THEN ab[k] ELSE c[k - Len(ab)]
  BY <1>2, TextsTogether
<1>5. /\ r \in Text /\ Len(r) = Len(a) + Len(bc)
      /\ \A k \in 1 .. Len(a) + Len(bc) : r[k] = IF k <= Len(a) THEN a[k] ELSE bc[k - Len(a)]
  BY <1>3, TextsTogether
<1> HIDE DEF l, r
<1>6. Len(l) = Len(r) /\ Len(l) = Len(a) + Len(b) + Len(c)
  BY <1>1, <1>2, <1>3, <1>4, <1>5
<1>7. ASSUME NEW k \in 1 .. Len(l) PROVE l[k] = r[k]
  <2>1. CASE k <= Len(a)
    BY <1>1, <1>2, <1>3, <1>4, <1>5, <1>6, <2>1
  <2>2. CASE k > Len(a) /\ k <= Len(a) + Len(b)
    <3>1. /\ k \in 1 .. Len(ab) /\ k \in 1 .. Len(ab) + Len(c) /\ k \in 1 .. Len(a) + Len(b)
          /\ k \in 1 .. Len(a) + Len(bc)
          /\ k - Len(a) \in 1 .. Len(b) + Len(c) /\ k - Len(a) <= Len(b)
      BY <1>1, <1>2, <1>3, <2>2
    <3>2. l[k] = b[k - Len(a)]
      BY <1>1, <1>2, <1>4, <2>2, <3>1
    <3>3. r[k] = b[k - Len(a)]
      BY <1>1, <1>3, <1>5, <2>2, <3>1
    <3> QED BY <3>2, <3>3
  <2>3. CASE k > Len(a) + Len(b)
    <3>1. /\ ~ (k <= Len(ab)) /\ ~ (k <= Len(a)) /\ k \in 1 .. Len(ab) + Len(c)
          /\ k \in 1 .. Len(a) + Len(bc)
          /\ k - Len(a) \in 1 .. Len(b) + Len(c) /\ ~ (k - Len(a) <= Len(b))
          /\ k - Len(ab) = k - Len(a) - Len(b)
      BY <1>1, <1>2, <1>3, <1>6, <2>3
    <3>2. l[k] = c[k - Len(a) - Len(b)]
      BY <1>4, <3>1
    <3>3. r[k] = c[k - Len(a) - Len(b)]
      BY <1>3, <1>5, <3>1
    <3> QED BY <3>2, <3>3
  <2> QED BY <1>1, <2>1, <2>2, <2>3
<1>8. l = r
  BY <1>4, <1>5, <1>6, <1>7, TextsEqual
<1> QED BY <1>8 DEF Associate, l, r, ab, bc

\* Two texts after one another are rewritten one after the other.
LEMMA RewriteConcat ==
  ASSUME NEW p \in Pieces, NEW s \in Text, NEW t \in Text
  PROVE  Rewrite(p, s \o t) = Rewrite(p, s) \o Rewrite(p, t)
<1> DEFINE P == {u \in Text : Rewrite(p, s \o u) = Rewrite(p, s) \o Rewrite(p, u)}
<1>0. /\ Rewrite(p, << >>) = << >>
      /\ \A u \in Text : Rewrite(p, u) \in Text
      /\ \A u \in Text, x \in Int : Rewrite(p, Append(u, x)) = Rewrite(p, u) \o p[x]
      /\ \A x \in Int : p[x] \in Text
  BY RewriteEquations DEF Pieces
<1>1. << >> \in P
  <2>1. << >> \in Text /\ s \o << >> = s /\ Rewrite(p, s) \o << >> = Rewrite(p, s)
    BY <1>0 DEF Text
  <2> QED BY <1>0, <2>1
<1>2. ASSUME NEW u \in P \cap Text, NEW x \in Int PROVE Append(u, x) \in P
  <2>1. s \o u \in Text /\ Append(u, x) \in Text /\ s \o Append(u, x) = Append(s \o u, x)
    BY <1>2 DEF Text
  <2>2. Rewrite(p, s \o Append(u, x)) = Rewrite(p, s \o u) \o p[x]
    BY <1>0, <2>1
  <2>3. Rewrite(p, s \o u) = Rewrite(p, s) \o Rewrite(p, u)
    BY <1>2
  <2>4. Rewrite(p, Append(u, x)) = Rewrite(p, u) \o p[x]
    BY <1>0, <1>2
  <2>5. Rewrite(p, s) \in Text /\ Rewrite(p, u) \in Text /\ p[x] \in Text
    BY <1>0, <1>2
  <2>6. (Rewrite(p, s) \o Rewrite(p, u)) \o p[x] = Rewrite(p, s) \o (Rewrite(p, u) \o p[x])
    <3>1. Associate(Rewrite(p, s), Rewrite(p, u), p[x])
      BY <2>5, TextsAssociate
    <3> QED BY <3>1 DEF Associate
  <2> QED BY <2>1, <2>2, <2>3, <2>4, <2>6
<1> HIDE DEF P
<1>3. \A u \in Text : u \in P
  BY <1>1, <1>2, SequenceInduction DEF Text
<1> QED BY <1>3 DEF P

\* Rewriting twice is rewriting once, with the pieces rewritten.
LEMMA RewriteTwice ==
  ASSUME NEW p \in Pieces, NEW q \in Pieces
  PROVE  /\ [x \in Int |-> Rewrite(q, p[x])] \in Pieces
         /\ \A t \in Text :
              Rewrite(q, Rewrite(p, t)) = Rewrite([x \in Int |-> Rewrite(q, p[x])], t)
<1> DEFINE r == [x \in Int |-> Rewrite(q, p[x])]
           P == {u \in Text : Rewrite(q, Rewrite(p, u)) = Rewrite(r, u)}
<1>0. \A x \in Int : p[x] \in Text /\ Rewrite(q, p[x]) \in Text
  BY RewriteEquations DEF Pieces
<1>1. r \in Pieces /\ \A x \in Int : r[x] = Rewrite(q, p[x])
  BY <1>0 DEF Pieces
<1> HIDE DEF r
<1>2. << >> \in P
  <2>1. << >> \in Text
    BY DEF Text
  <2>2. Rewrite(p, << >>) = << >> /\ Rewrite(q, << >>) = << >> /\ Rewrite(r, << >>) = << >>
    BY <1>1, RewriteEquations
  <2> QED BY <2>1, <2>2
<1>3. ASSUME NEW u \in P \cap Text, NEW x \in Int PROVE Append(u, x) \in P
  <2>1. Append(u, x) \in Text
    BY <1>3 DEF Text
  <2>2. Rewrite(p, Append(u, x)) = Rewrite(p, u) \o p[x] /\ Rewrite(p, u) \in Text
    BY <1>3, RewriteEquations
  <2>3. Rewrite(q, Rewrite(p, u) \o p[x]) = Rewrite(q, Rewrite(p, u)) \o Rewrite(q, p[x])
    BY <1>0, <2>2, RewriteConcat
  <2>4. Rewrite(r, Append(u, x)) = Rewrite(r, u) \o r[x]
    BY <1>1, <1>3, RewriteEquations
  <2>5. Rewrite(q, Rewrite(p, u)) = Rewrite(r, u)
    BY <1>3
  <2>6. r[x] = Rewrite(q, p[x])
    BY <1>1
  <2>7. Rewrite(q, Rewrite(p, Append(u, x))) = Rewrite(r, Append(u, x))
    BY <2>2, <2>3, <2>4, <2>5, <2>6
  <2> QED BY <2>1, <2>7
<1> HIDE DEF P
<1>4. \A u \in Text : u \in P
  BY <1>2, <1>3, SequenceInduction DEF Text
<1> QED BY <1>1, <1>4 DEF P, r

\* A text whose tokens are all kept stays as it is; one whose tokens are all dropped
\* leaves nothing.
LEMMA RewriteKeeps ==
  ASSUME NEW p \in Pieces, NEW A \in SUBSET Int
  PROVE  /\ (\A x \in A : p[x] = <<x>>) => \A t \in Seq(A) : Rewrite(p, t) = t
         /\ (\A x \in A : p[x] = << >>) => \A t \in Seq(A) : Rewrite(p, t) = << >>
<1> DEFINE P == {u \in Seq(A) : Rewrite(p, u) = u}
           Q == {u \in Seq(A) : Rewrite(p, u) = << >>}
<1>0. /\ Rewrite(p, << >>) = << >>
      /\ \A u \in Text, x \in Int : Rewrite(p, Append(u, x)) = Rewrite(p, u) \o p[x]
  BY RewriteEquations
<1>1. \A u \in Seq(A) : u \in Text /\ \A x \in A : x \in Int /\ Append(u, x) \in Seq(A)
  <2>1. \A u \in Seq(A) : u \in Seq(Int)
    BY SequencesOfMore
  <2>2. \A x \in A : x \in Int
    OBVIOUS
  <2> QED BY <2>1, <2>2 DEF Text
<1>2. << >> \in P /\ << >> \in Q
  <2>1. << >> \in Seq(A)
    OBVIOUS
  <2> QED BY <1>0, <2>1
<1>3. ASSUME \A x \in A : p[x] = <<x>>
      PROVE  \A t \in Seq(A) : Rewrite(p, t) = t
  <2>1. ASSUME NEW u \in P \cap Seq(A), NEW x \in A PROVE Append(u, x) \in P
    <3>1. Rewrite(p, Append(u, x)) = Rewrite(p, u) \o <<x>>
      BY <1>0, <1>1, <1>3, <2>1
    <3>2. u \o <<x>> = Append(u, x)
      BY <2>1
    <3> QED BY <1>1, <2>1, <3>1, <3>2
  <2> HIDE DEF P
  <2>2. \A u \in Seq(A) : u \in P
    BY <1>2, <2>1, SequenceInduction
  <2> QED BY <2>2 DEF P
<1>4. ASSUME \A x \in A : p[x] = << >>
      PROVE  \A t \in Seq(A) : Rewrite(p, t) = << >>
  <2>1. ASSUME NEW u \in Q \cap Seq(A), NEW x \in A PROVE Append(u, x) \in Q
    <3>1. Rewrite(p, Append(u, x)) = Rewrite(p, u) \o << >>
      BY <1>0, <1>1, <1>4, <2>1
    <3> QED BY <1>1, <2>1, <3>1
  <2> HIDE DEF Q
  <2>2. \A u \in Seq(A) : u \in Q
    BY <1>2, <2>1, SequenceInduction
  <2> QED BY <2>2 DEF Q
<1> QED BY <1>3, <1>4

\* A stretch of a text has its tokens, and two that meet make one.
LEMMA TextCut ==
  ASSUME NEW s \in Text, NEW a \in Int, NEW b \in Int, 1 <= a, a <= b + 1, b <= Len(s)
  PROVE  /\ SubSeq(s, a, b) \in Text /\ Len(SubSeq(s, a, b)) = b - a + 1
         /\ \A k \in 1 .. b - a + 1 : SubSeq(s, a, b)[k] = s[k + a - 1]
<1>1. Len(s) \in Nat /\ \A k \in 1 .. Len(s) : s[k] \in Int
  BY DEF Text
<1>2. SubSeq(s, a, b) = [k \in 1 .. b - a + 1 |-> s[k + a - 1]]
  BY DEF Text
<1>3. \A k \in 1 .. b - a + 1 : s[k + a - 1] \in Int
  BY <1>1
<1>4. b - a + 1 \in Nat
  OBVIOUS
<1>5. \A k \in 1 .. b - a + 1 : SubSeq(s, a, b)[k] = s[k + a - 1]
  BY <1>2
<1>6. SubSeq(s, a, b) \in [1 .. b - a + 1 -> Int]
  BY <1>2, <1>3
<1>7. SubSeq(s, a, b) \in Text /\ Len(SubSeq(s, a, b)) = b - a + 1
  <2> DEFINE c == SubSeq(s, a, b)
             n == b - a + 1
  <2>1. c \in [1 .. n -> Int] /\ n \in Nat
    BY <1>4, <1>6
  <2> HIDE DEF c, n
  <2>2. c \in Seq(Int) /\ Len(c) = n
    BY <2>1
  <2> QED BY <2>2 DEF Text, c, n
<1> QED BY <1>5, <1>7

\* A text up to a place is what comes before it and the token there.
LEMMA TextGrows ==
  ASSUME NEW s \in Text, NEW i \in 1 .. Len(s)
  PROVE  SubSeq(s, 1, i) = Append(SubSeq(s, 1, i - 1), s[i])
BY DEF Text

\* The least of a set of numbers.
LEMMA LeastIs ==
  ASSUME NEW T \in SUBSET Nat, T # {}
  PROVE  Least(T) \in T /\ \A n \in T : Least(T) <= n
<1>1. \E m \in T : \A n \in T : m <= n
  BY LeastNumber
<1> QED BY <1>1 DEF Least

\* The tokens that are written are no placeholders.
LEMMA WrittenIs ==
  /\ Written \in SUBSET Int /\ \A x \in Written : x <= 0
  /\ Dollar \in Written /\ Space \in Written
BY DEF Written, Letter, Space, Dollar, Fence, OpenBracket, CloseBracket, OpenParen, CloseParen

\* What stands on either side of a formula is one or two of the tokens that are written.
LEMMA EdgesAre ==
  ASSUME NEW d \in BOOLEAN, NEW o \in BOOLEAN
  PROVE  /\ Margin(d, o) \in 1 .. 2
         /\ Opening(d, o) \in Text /\ Len(Opening(d, o)) = Margin(d, o)
         /\ Closing(d, o) \in Text /\ Len(Closing(d, o)) = Margin(d, o)
         /\ Opening(d, o) \in Seq(Written) /\ Closing(d, o) \in Seq(Written)
         /\ o => \A k \in 1 .. Margin(d, o) : Opening(d, o)[k] = Dollar /\ Closing(d, o)[k] = Dollar
         /\ ~ o => /\ Margin(d, o) = 1
                   /\ Opening(d, o)[1] = IF d THEN OpenBracket ELSE OpenParen
                   /\ Closing(d, o)[1] = IF d THEN CloseBracket ELSE CloseParen
<1>1. Margin(d, o) \in 1 .. 2 /\ Written \in SUBSET Int
  BY WrittenIs DEF Margin
<1>2. CASE o
  <2> DEFINE m == Margin(d, o)
             e == [k \in 1 .. m |-> Dollar]
  <2>1. Opening(d, o) = e /\ Closing(d, o) = e
    BY <1>2 DEF Opening, Closing
  <2>2. m \in Nat /\ Dollar \in Written
    BY <1>1 DEF Written
  <2> HIDE DEF m
  <2>3. e \in Seq(Written) /\ Len(e) = m /\ \A k \in 1 .. m : e[k] = Dollar
    BY <2>2
  <2> HIDE DEF e
  <2>4. e \in Text
    BY <1>1, <2>3, SequencesOfMore DEF Text
  <2> QED BY <1>1, <1>2, <2>1, <2>3, <2>4 DEF m
<1>3. CASE ~ o
  <2> DEFINE x == IF d THEN OpenBracket ELSE OpenParen
             y == IF d THEN CloseBracket ELSE CloseParen
  <2>1. Opening(d, o) = <<x>> /\ Closing(d, o) = <<y>> /\ Margin(d, o) = 1
    BY <1>3 DEF Opening, Closing, Margin
  <2>2. x \in Written /\ y \in Written
    BY DEF Written
  <2> HIDE DEF x, y
  <2>3. /\ <<x>> \in Seq(Written) /\ Len(<<x>>) = 1 /\ <<x>>[1] = x
        /\ <<y>> \in Seq(Written) /\ Len(<<y>>) = 1 /\ <<y>>[1] = y
    BY <2>2
  <2>4. <<x>> \in Text /\ <<y>> \in Text
    BY <1>1, <2>3, SequencesOfMore DEF Text
  <2> QED BY <1>1, <1>3, <2>1, <2>3, <2>4 DEF x, y
<1> QED BY <1>2, <1>3

\* A span stands in text s from token i to token e, with its delimiters.
Stands(s, d, o, i, e) ==
  /\ e \in i + 2 * Margin(d, o) .. Len(s)
  /\ \A k \in 1 .. Margin(d, o) : s[i + k - 1] = Opening(d, o)[k]
  /\ \A k \in 1 .. Margin(d, o) : s[e - Margin(d, o) + k] = Closing(d, o)[k]

\* A pair of escapes is found with the one that opens it.
LEMMA PairIsThere ==
  ASSUME NEW s \in Text, NEW i \in 1 .. Len(s), NEW x, NEW y
  PROVE  /\ PairEnd(s, i, x, y) \in Nat
         /\ PairEnd(s, i, x, y) # 0 =>
              /\ PairEnd(s, i, x, y) \in i + 2 .. Len(s)
              /\ s[i] = x /\ s[PairEnd(s, i, x, y)] = y
<1> DEFINE ends == {j \in (i + 2) .. Len(s) : s[j] = y}
           end == Least(ends)
<1>0. Len(s) \in Nat
  BY DEF Text
<1>1. PairEnd(s, i, x, y) = IF s[i] = x /\ ends # {} THEN end ELSE 0
  BY DEF PairEnd
<1>2. CASE s[i] = x /\ ends # {}
  <2>1. ends \in SUBSET Nat
    BY <1>0
  <2>2. end \in ends
    <3> HIDE DEF ends
    <3> QED BY <1>2, <2>1, LeastIs
  <2> HIDE DEF end
  <2>3. end \in i + 2 .. Len(s) /\ s[end] = y /\ end \in Nat
    BY <1>0, <2>2
  <2> QED BY <1>1, <1>2, <2>3
<1>3. CASE ~ (s[i] = x /\ ends # {})
  BY <1>1, <1>3
<1> QED BY <1>2, <1>3

\* A span that is found stands there, and something is in between.
LEMMA SpanIsThere ==
  ASSUME NEW s \in Text, NEW d \in BOOLEAN, NEW i \in 1 .. Len(s), NEW o \in BOOLEAN,
         o <=> s[i] = Dollar
  PROVE  /\ SpanEnd(s, i, d) \in Nat
         /\ SpanEnd(s, i, d) # 0 => Stands(s, d, o, i, SpanEnd(s, i, d))
<1>0. Len(s) \in Nat
  BY DEF Text
<1>1. CASE d /\ o
  <2> DEFINE opens(k) == k < Len(s) /\ s[k] = Dollar /\ s[k + 1] = Dollar
             ends == {j \in (i + 3) .. Len(s) : opens(j)}
             end == Least(ends)
  <2>1. SpanEnd(s, i, d) = IF opens(i) /\ ends # {} THEN end + 1 ELSE 0
    BY <1>1 DEF SpanEnd, DisplayEnd, DollarsEnd
  <2>2. Margin(d, o) = 2 /\ \A k \in 1 .. 2 : Opening(d, o)[k] = Dollar /\ Closing(d, o)[k] = Dollar
    BY <1>1, EdgesAre DEF Margin
  <2>3. CASE opens(i) /\ ends # {}
    <3>1. ends \in SUBSET Nat
      BY <1>0
    <3>2. end \in ends
      <4> HIDE DEF ends
      <4> QED BY <2>3, <3>1, LeastIs
    <3> HIDE DEF end
    <3>3. end \in (i + 3) .. Len(s) /\ opens(end) /\ SpanEnd(s, i, d) = end + 1
      BY <2>1, <2>3, <3>2
    <3>4. s[i] = Dollar /\ s[i + 1] = Dollar /\ s[end] = Dollar /\ s[end + 1] = Dollar
      BY <2>3, <3>3
    <3>5. end + 1 \in i + 2 * 2 .. Len(s) /\ end + 1 \in Nat
      BY <1>0, <3>3
    <3>6. \A k \in 1 .. 2 : s[i + k - 1] = Dollar /\ s[end + 1 - 2 + k] = Dollar
      <4> TAKE k \in 1 .. 2
      <4>1. CASE k = 1
        <5>1. i + k - 1 = i /\ end + 1 - 2 + k = end
          BY <3>3, <4>1
        <5> QED BY <3>4, <5>1
      <4>2. CASE k = 2
        <5>1. i + k - 1 = i + 1 /\ end + 1 - 2 + k = end + 1
          BY <3>3, <4>2
        <5> QED BY <3>4, <5>1
      <4> QED BY <4>1, <4>2
    <3>7. Stands(s, d, o, i, end + 1)
      <4> DEFINE e == end + 1
      <4>1. e \in i + 2 * Margin(d, o) .. Len(s)
        BY <2>2, <3>5
      <4>2. ASSUME NEW k \in 1 .. Margin(d, o)
            PROVE  /\ s[i + k - 1] = Opening(d, o)[k]
                   /\ s[e - Margin(d, o) + k] = Closing(d, o)[k]
        <5>0. Margin(d, o) = 2 /\ end \in Int
          BY <2>2, <3>3
        <5> HIDE DEF e
        <5>1. k \in 1 .. 2 /\ e - Margin(d, o) + k = end + 1 - 2 + k
          BY <5>0 DEF e
        <5>2. s[i + k - 1] = Dollar /\ s[end + 1 - 2 + k] = Dollar
          BY <3>6, <5>1
        <5>3. Opening(d, o)[k] = Dollar /\ Closing(d, o)[k] = Dollar
          BY <2>2, <5>1
        <5> QED BY <5>1, <5>2, <5>3
      <4> HIDE DEF e
      <4>3. Stands(s, d, o, i, e)
        BY <4>1, <4>2 DEF Stands
      <4> QED BY <4>3 DEF e
    <3> QED BY <3>3, <3>5, <3>7
  <2>4. CASE ~ (opens(i) /\ ends # {})
    <3>1. SpanEnd(s, i, d) = 0
      BY <2>1, <2>4
    <3> QED BY <3>1
  <2> QED BY <2>3, <2>4
<1>2. CASE ~ d /\ o
  <2> DEFINE ends == {j \in (i + 1) .. Len(s) : s[j] = Dollar}
             end == Least(ends)
             found == s[i] = Dollar /\ ends # {} /\ end > i + 1
                        /\ s[i + 1] # Space /\ s[end - 1] # Space
  <2>1. SpanEnd(s, i, d) = IF found THEN end ELSE 0
    BY <1>2 DEF SpanEnd, InlineEnd, DollarEnd
  <2>2. Margin(d, o) = 1 /\ Opening(d, o)[1] = Dollar /\ Closing(d, o)[1] = Dollar
    <3>1. Margin(d, o) = 1
      BY <1>2 DEF Margin
    <3>2. \A k \in 1 .. Margin(d, o) : Opening(d, o)[k] = Dollar /\ Closing(d, o)[k] = Dollar
      BY <1>2, EdgesAre
    <3>3. 1 \in 1 .. Margin(d, o)
      BY <3>1
    <3> QED BY <3>1, <3>2, <3>3
  <2>3. CASE found
    <3>1. ends \in SUBSET Nat
      BY <1>0
    <3>2. end \in ends
      <4> HIDE DEF ends
      <4> QED BY <2>3, <3>1, LeastIs
    <3>3. end > i + 1 /\ s[i] = Dollar
      BY <2>3
    <3> HIDE DEF end, found
    <3>4. end \in i + 2 * 1 .. Len(s) /\ s[end] = Dollar /\ SpanEnd(s, i, d) = end /\ end \in Nat
      BY <1>0, <2>1, <2>3, <3>2, <3>3
    <3>5. \A k \in 1 .. 1 : i + k - 1 = i /\ end - 1 + k = end
      BY <3>4
    <3>6. Stands(s, d, o, i, end)
      <4>1. end \in i + 2 * Margin(d, o) .. Len(s)
        BY <2>2, <3>4
      <4>2. ASSUME NEW k \in 1 .. Margin(d, o)
            PROVE  /\ s[i + k - 1] = Opening(d, o)[k]
                   /\ s[end - Margin(d, o) + k] = Closing(d, o)[k]
        <5>1. k = 1 /\ i + k - 1 = i /\ end - Margin(d, o) + k = end
          BY <2>2, <3>4
        <5> QED BY <2>2, <3>3, <3>4, <5>1
      <4> QED BY <4>1, <4>2 DEF Stands
    <3> QED BY <3>4, <3>6
  <2>4. CASE ~ found
    <3> HIDE DEF found
    <3>1. SpanEnd(s, i, d) = 0
      BY <2>1, <2>4
    <3> QED BY <3>1
  <2> QED BY <2>3, <2>4
<1>3. CASE ~ o
  <2> DEFINE x == IF d THEN OpenBracket ELSE OpenParen
             y == IF d THEN CloseBracket ELSE CloseParen
             end == PairEnd(s, i, x, y)
  <2>1. SpanEnd(s, i, d) = end
    BY <1>3 DEF SpanEnd, DisplayEnd, InlineEnd
  <2>2. Margin(d, o) = 1 /\ Opening(d, o)[1] = x /\ Closing(d, o)[1] = y
    BY <1>3, EdgesAre
  <2> HIDE DEF x, y
  <2>3. end \in Nat /\ (end # 0 => end \in i + 2 * 1 .. Len(s) /\ s[i] = x /\ s[end] = y)
    BY PairIsThere
  <2> HIDE DEF end
  <2>4. \A k \in 1 .. 1 : k = 1 /\ i + k - 1 = i /\ end - 1 + k = end
    BY <2>3
  <2>5. end # 0 => Stands(s, d, o, i, end)
    BY <2>2, <2>3, <2>4 DEF Stands
  <2> QED BY <2>1, <2>3, <2>5
<1> QED BY <1>1, <1>2, <1>3

\* A text up to the end of a span is what comes before it and the span.
LEMMA SpanInText ==
  ASSUME NEW s \in Text, NEW i \in 1 .. Len(s), NEW d \in BOOLEAN, NEW o \in BOOLEAN,
         NEW e \in Nat, Stands(s, d, o, i, e)
  PROVE  /\ SubSeq(s, i + Margin(d, o), e - Margin(d, o)) \in Text
         /\ SubSeq(s, 1, e)
              = SubSeq(s, 1, i - 1)
                  \o (Opening(d, o) \o SubSeq(s, i + Margin(d, o), e - Margin(d, o)) \o Closing(d, o))
<1> DEFINE m   == Margin(d, o)
           mid == SubSeq(s, i + m, e - m)
           pre == SubSeq(s, 1, i - 1)
           all == SubSeq(s, 1, e)
<1>0. /\ Len(s) \in Nat /\ \A k \in 1 .. Len(s) : s[k] \in Int
      /\ m \in Nat /\ m >= 1 /\ i + 2 * m <= e /\ e <= Len(s) /\ i \in Nat /\ i >= 1
  <2>1. Len(s) \in Nat /\ \A k \in 1 .. Len(s) : s[k] \in Int
    BY DEF Text
  <2>2. m \in 1 .. 2 /\ e \in i + 2 * m .. Len(s)
    BY EdgesAre DEF Stands
  <2> HIDE DEF m
  <2> QED BY <2>1, <2>2
<1>1. mid \in Text /\ Len(mid) = e - i - 2 * m + 1 /\ \A k \in 1 .. e - i - 2 * m + 1 : mid[k] = s[k + i + m - 1]
  <2>1. i + m \in Int /\ e - m \in Int /\ 1 <= i + m /\ i + m <= e - m + 1 /\ e - m <= Len(s)
    BY <1>0
  <2>2. /\ mid \in Text /\ Len(mid) = (e - m) - (i + m) + 1
        /\ \A k \in 1 .. (e - m) - (i + m) + 1 : mid[k] = s[k + (i + m) - 1]
    BY <2>1, TextCut
  <2> HIDE DEF m, mid
  <2> QED BY <1>0, <2>2
<1> DEFINE E == Opening(d, o)
           C == Closing(d, o)
<1>2. E \in Text /\ Len(E) = m /\ C \in Text /\ Len(C) = m
  BY EdgesAre
<1>3. pre \in Text /\ Len(pre) = i - 1 /\ \A k \in 1 .. i - 1 : pre[k] = s[k]
  <2>1. /\ pre \in Text /\ Len(pre) = i - 1 - 1 + 1
        /\ \A k \in 1 .. i - 1 - 1 + 1 : pre[k] = s[k + 1 - 1]
    BY <1>0, TextCut
  <2> QED BY <1>0, <2>1
<1>4. all \in Text /\ Len(all) = e /\ \A k \in 1 .. e : all[k] = s[k]
  <2>1. /\ all \in Text /\ Len(all) = e - 1 + 1
        /\ \A k \in 1 .. e - 1 + 1 : all[k] = s[k + 1 - 1]
    BY <1>0, TextCut
  <2> QED BY <1>0, <2>1
<1>5. \A k \in 1 .. m : s[i + k - 1] = E[k]
  BY DEF Stands
<1>6. \A k \in 1 .. m : s[e - m + k] = C[k]
  BY DEF Stands
<1> HIDE DEF mid, pre, all, E, C, m
<1>7. /\ E \o mid \in Text /\ Len(E \o mid) = e - i - m + 1
      /\ \A k \in 1 .. e - i - m + 1 :
           (E \o mid)[k] = IF k <= m THEN E[k] ELSE mid[k - m]
  <2>1. E \in Text /\ Len(E) = m
    BY <1>2
  <2>2. /\ E \o mid \in Text /\ Len(E \o mid) = Len(E) + Len(mid)
        /\ \A k \in 1 .. Len(E) + Len(mid) :
             (E \o mid)[k] = IF k <= Len(E) THEN E[k] ELSE mid[k - Len(E)]
    BY <1>1, <2>1, TextsTogether
  <2>3. Len(E) + Len(mid) = e - i - m + 1
    BY <1>0, <1>1, <2>1
  <2> QED BY <1>0, <2>1, <2>2, <2>3
<1>8. \A k \in 1 .. e - i - m + 1 : (E \o mid)[k] = s[k + i - 1]
  <2> TAKE k \in 1 .. e - i - m + 1
  <2>1. CASE k <= m
    <3>1. k \in 1 .. m /\ i + k - 1 = k + i - 1
      BY <1>0, <2>1
    <3>2. s[i + k - 1] = E[k]
      BY <1>5, <3>1
    <3> QED BY <1>7, <2>1, <3>1, <3>2
  <2>2. CASE ~ (k <= m)
    <3>1. k - m \in 1 .. e - i - 2 * m + 1 /\ k - m + i + m - 1 = k + i - 1
      BY <1>0, <2>2
    <3>2. mid[k - m] = s[k - m + i + m - 1]
      BY <1>1, <3>1
    <3> QED BY <1>7, <2>2, <3>1, <3>2
  <2> QED BY <2>1, <2>2
<1> DEFINE F == E \o mid
<1>9. /\ F \o C \in Text /\ Len(F \o C) = e - i + 1
      /\ \A k \in 1 .. e - i + 1 :
           (F \o C)[k] = IF k <= e - i - m + 1 THEN F[k] ELSE C[k - (e - i - m + 1)]
  <2>1. F \in Text /\ Len(F) = e - i - m + 1 /\ C \in Text /\ Len(C) = m
    BY <1>2, <1>7
  <2> HIDE DEF F
  <2>2. /\ F \o C \in Text /\ Len(F \o C) = Len(F) + Len(C)
        /\ \A k \in 1 .. Len(F) + Len(C) :
             (F \o C)[k] = IF k <= Len(F) THEN F[k] ELSE C[k - Len(F)]
    BY <2>1, TextsTogether
  <2>3. Len(F) + Len(C) = e - i + 1
    BY <1>0, <2>1
  <2> QED BY <2>1, <2>2, <2>3
<1>10. \A k \in 1 .. e - i + 1 : (F \o C)[k] = s[k + i - 1]
  <2> TAKE k \in 1 .. e - i + 1
  <2>1. CASE k <= e - i - m + 1
    <3>1. k \in 1 .. e - i - m + 1
      BY <1>0, <2>1
    <3> QED BY <1>8, <1>9, <2>1, <3>1
  <2>2. CASE ~ (k <= e - i - m + 1)
    <3>1. /\ k - (e - i - m + 1) \in 1 .. m
          /\ e - m + (k - (e - i - m + 1)) = k + i - 1
      BY <1>0, <2>2
    <3>2. s[e - m + (k - (e - i - m + 1))] = C[k - (e - i - m + 1)]
      BY <1>6, <3>1
    <3> QED BY <1>9, <2>2, <3>1, <3>2
  <2> QED BY <2>1, <2>2
<1> DEFINE G == F \o C
<1>11. /\ pre \o G \in Text /\ Len(pre \o G) = e
       /\ \A k \in 1 .. e : (pre \o G)[k] = IF k <= i - 1 THEN pre[k] ELSE G[k - (i - 1)]
  <2>1. G \in Text /\ Len(G) = e - i + 1
    BY <1>9
  <2> HIDE DEF G
  <2>2. /\ pre \o G \in Text /\ Len(pre \o G) = Len(pre) + Len(G)
        /\ \A k \in 1 .. Len(pre) + Len(G) :
             (pre \o G)[k] = IF k <= Len(pre) THEN pre[k] ELSE G[k - Len(pre)]
    BY <1>3, <2>1, TextsTogether
  <2>3. Len(pre) + Len(G) = e
    BY <1>0, <1>3, <2>1
  <2> QED BY <1>3, <2>2, <2>3
<1>12. \A k \in 1 .. e : (pre \o G)[k] = s[k]
  <2> TAKE k \in 1 .. e
  <2>1. CASE k <= i - 1
    <3>1. k \in 1 .. i - 1
      BY <1>0, <2>1
    <3> QED BY <1>3, <1>11, <2>1, <3>1
  <2>2. CASE ~ (k <= i - 1)
    <3>1. k - (i - 1) \in 1 .. e - i + 1 /\ k - (i - 1) + i - 1 = k
      BY <1>0, <2>2
    <3>2. G[k - (i - 1)] = s[k - (i - 1) + i - 1]
      BY <1>10, <3>1
    <3> QED BY <1>11, <2>2, <3>1, <3>2
  <2> QED BY <2>1, <2>2
<1>13. all = pre \o G
  <2> HIDE DEF G
  <2> QED BY <1>4, <1>11, <1>12, TextsEqual
<1> QED BY <1>1, <1>13 DEF all, pre, G, F, E, C, mid, m

\* What is trimmed is spaces.
LEMMA TrimmedIs ==
  ASSUME NEW tex \in Text
  PROVE  \/ Trimmed(tex) = << >> /\ \A k \in 1 .. Len(tex) : tex[k] = Space
         \/ \E a, b \in 1 .. Len(tex) :
              /\ a <= b /\ Trimmed(tex) = SubSeq(tex, a, b)
              /\ \A k \in 1 .. Len(tex) : k < a \/ k > b => tex[k] = Space
<1> DEFINE ink == {k \in DOMAIN tex : tex[k] # Space}
           first == Least(ink)
           last == CHOOSE k \in ink : \A j \in ink : j <= k
<1>0. Len(tex) \in Nat /\ DOMAIN tex = 1 .. Len(tex)
  BY DEF Text
<1>1. Trimmed(tex) = IF ink = {} THEN << >> ELSE SubSeq(tex, first, last)
  BY DEF Trimmed
<1>2. CASE ink = {}
  BY <1>0, <1>1, <1>2
<1>3. CASE ink # {}
  <2>1. ink \in SUBSET Nat /\ ink \subseteq 1 .. Len(tex)
    BY <1>0
  <2>2. first \in ink /\ \A n \in ink : first <= n
    <3> HIDE DEF ink
    <3> QED BY <1>3, <2>1, LeastIs
  <2>3. last \in ink /\ \A n \in ink : n <= last
    <3> DEFINE T == {Len(tex) - k : k \in ink}
    <3> HIDE DEF ink
    <3>1. T \in SUBSET Nat /\ T # {}
      <4>1. \A k \in ink : Len(tex) - k \in Nat
        BY <1>0, <2>1
      <4> QED BY <1>3, <4>1
    <3>2. PICK m \in T : \A n \in T : m <= n
      <4> HIDE DEF T
      <4> QED BY <3>1, LeastNumber
    <3>3. PICK k \in ink : m = Len(tex) - k
      BY <3>2
    <3>4. ASSUME NEW j \in ink PROVE j <= k
      <4>1. Len(tex) - k <= Len(tex) - j
        BY <3>2, <3>3
      <4> QED BY <1>0, <2>1, <4>1
    <3> QED BY <3>3, <3>4
  <2>4. \A k \in 1 .. Len(tex) : k \notin ink => tex[k] = Space
    BY <1>0
  <2> HIDE DEF ink, first, last
  <2>5. first \in 1 .. Len(tex) /\ last \in 1 .. Len(tex) /\ first <= last
    BY <2>1, <2>2, <2>3
  <2>6. \A k \in 1 .. Len(tex) : k < first \/ k > last => tex[k] = Space
    BY <1>0, <2>2, <2>3, <2>4, <2>5
  <2> QED BY <1>1, <1>3, <2>5, <2>6
<1> QED BY <1>2, <1>3

\* Trimming a text keeps its tokens, but for spaces.
LEMMA TrimmedKeeps ==
  ASSUME NEW A \in SUBSET Int, NEW tex \in Seq(A)
  PROVE  /\ Trimmed(tex) \in Seq(A)
         /\ \A x \in Range(tex) : x # Space => x \in Range(Trimmed(tex))
<1>0. tex \in Text
  BY SequencesOfMore DEF Text
<1>1. Len(tex) \in Nat /\ \A k \in 1 .. Len(tex) : tex[k] \in A
  OBVIOUS
<1>2. Range(tex) = {tex[k] : k \in 1 .. Len(tex)}
  BY DEF Range
<1>3. CASE Trimmed(tex) = << >> /\ \A k \in 1 .. Len(tex) : tex[k] = Space
  BY <1>2, <1>3
<1>4. ASSUME NEW a \in 1 .. Len(tex), NEW b \in 1 .. Len(tex), a <= b,
             Trimmed(tex) = SubSeq(tex, a, b),
             \A k \in 1 .. Len(tex) : k < a \/ k > b => tex[k] = Space
      PROVE  /\ Trimmed(tex) \in Seq(A)
             /\ \A x \in Range(tex) : x # Space => x \in Range(Trimmed(tex))
  <2>1. /\ Trimmed(tex) \in Text /\ Len(Trimmed(tex)) = b - a + 1
        /\ \A k \in 1 .. b - a + 1 : Trimmed(tex)[k] = tex[k + a - 1]
    BY <1>0, <1>1, <1>4, TextCut
  <2>2. Trimmed(tex) = [k \in 1 .. b - a + 1 |-> Trimmed(tex)[k]]
    BY <2>1 DEF Text
  <2>3. \A k \in 1 .. b - a + 1 : Trimmed(tex)[k] \in A
    BY <1>1, <1>4, <2>1
  <2>4. b - a + 1 \in Nat
    BY <1>1, <1>4
  <2>5. Trimmed(tex) \in Seq(A)
    <3> DEFINE c == Trimmed(tex)
               n == b - a + 1
    <3>1. c = [k \in 1 .. n |-> c[k]] /\ n \in Nat /\ \A k \in 1 .. n : c[k] \in A
      BY <2>2, <2>3, <2>4
    <3> HIDE DEF c, n
    <3>2. c \in [1 .. n -> A]
      BY <3>1
    <3>3. c \in Seq(A)
      BY <3>1, <3>2
    <3> QED BY <3>3 DEF c
  <2>6. ASSUME NEW x \in Range(tex), x # Space
        PROVE  x \in Range(Trimmed(tex))
    <3>1. PICK k \in 1 .. Len(tex) : tex[k] = x
      BY <1>2
    <3>2. k - a + 1 \in 1 .. b - a + 1 /\ k - a + 1 + a - 1 = k
      BY <1>1, <1>4, <2>6, <3>1
    <3>3. Trimmed(tex)[k - a + 1] = tex[k - a + 1 + a - 1] /\ k - a + 1 \in DOMAIN Trimmed(tex)
      BY <2>1, <2>2, <3>2
    <3> QED BY <3>1, <3>2, <3>3 DEF Range
  <2> QED BY <2>5, <2>6
<1> QED BY <1>0, <1>3, <1>4, TrimmedIs

\* Trimming changes nothing for who drops spaces anyway.
LEMMA TrimmedIsSame ==
  ASSUME NEW h \in Pieces, h[Space] = << >>, NEW tex \in Text
  PROVE  Rewrite(h, Trimmed(tex)) = Rewrite(h, tex)
<1>0. Space \in Int /\ {Space} \in SUBSET Int /\ Len(tex) \in Nat
  BY DEF Space, Text
<1>1. \A t \in Seq({Space}) : Rewrite(h, t) = << >>
  BY <1>0, RewriteKeeps
<1>2. ASSUME NEW t \in Text, \A k \in 1 .. Len(t) : t[k] = Space
      PROVE  Rewrite(h, t) = << >>
  <2>1. t \in Seq({Space})
    <3>1. Len(t) \in Nat /\ t = [k \in 1 .. Len(t) |-> t[k]]
      BY DEF Text
    <3> QED BY <1>2, <3>1
  <2> QED BY <1>1, <2>1
<1>3. CASE Trimmed(tex) = << >> /\ \A k \in 1 .. Len(tex) : tex[k] = Space
  BY <1>2, <1>3, RewriteEquations
<1>4. ASSUME NEW a \in 1 .. Len(tex), NEW b \in 1 .. Len(tex), a <= b,
             Trimmed(tex) = SubSeq(tex, a, b),
             \A k \in 1 .. Len(tex) : k < a \/ k > b => tex[k] = Space
      PROVE  Rewrite(h, Trimmed(tex)) = Rewrite(h, tex)
  <2> DEFINE pre == SubSeq(tex, 1, a - 1)
             mid == SubSeq(tex, a, b)
             post == SubSeq(tex, b + 1, Len(tex))
             both == mid \o post
  <2>1. /\ pre \in Text /\ Len(pre) = a - 1
        /\ \A k \in 1 .. a - 1 : pre[k] = tex[k]
    <3>1. /\ pre \in Text /\ Len(pre) = a - 1 - 1 + 1
          /\ \A k \in 1 .. a - 1 - 1 + 1 : pre[k] = tex[k + 1 - 1]
      BY <1>0, TextCut
    <3> QED BY <1>0, <3>1
  <2>2. /\ mid \in Text /\ Len(mid) = b - a + 1
        /\ \A k \in 1 .. b - a + 1 : mid[k] = tex[k + a - 1]
    BY <1>0, <1>4, TextCut
  <2>3. /\ post \in Text /\ Len(post) = Len(tex) - b
        /\ \A k \in 1 .. Len(tex) - b : post[k] = tex[k + b]
    <3>1. /\ post \in Text /\ Len(post) = Len(tex) - (b + 1) + 1
          /\ \A k \in 1 .. Len(tex) - (b + 1) + 1 : post[k] = tex[k + (b + 1) - 1]
      <4>1. /\ b + 1 \in Int /\ 1 <= b + 1 /\ b + 1 <= Len(tex) + 1
            /\ Len(tex) \in Int /\ Len(tex) <= Len(tex)
        BY <1>0
      <4> QED BY <1>0, <4>1, TextCut
    <3> HIDE DEF post
    <3>2. /\ Len(tex) - (b + 1) + 1 = Len(tex) - b
          /\ \A k \in 1 .. Len(tex) - b : k + (b + 1) - 1 = k + b
      BY <1>0
    <3> QED BY <3>1, <3>2
  <2> HIDE DEF pre, mid, post
  <2>4. /\ both \in Text /\ Len(both) = Len(tex) - a + 1
        /\ \A k \in 1 .. Len(tex) - a + 1 :
             both[k] = IF k <= b - a + 1 THEN mid[k] ELSE post[k - (b - a + 1)]
    <3>1. /\ both \in Text /\ Len(both) = Len(mid) + Len(post)
          /\ \A k \in 1 .. Len(mid) + Len(post) :
               both[k] = IF k <= Len(mid) THEN mid[k] ELSE post[k - Len(mid)]
      BY <2>2, <2>3, TextsTogether
    <3>2. Len(mid) + Len(post) = Len(tex) - a + 1
      BY <1>0, <2>2, <2>3
    <3>3. Len(mid) = b - a + 1
      BY <2>2
    <3> HIDE DEF both
    <3> QED BY <3>1, <3>2, <3>3
  <2>5. \A k \in 1 .. Len(tex) - a + 1 : both[k] = tex[k + a - 1]
    <3> TAKE k \in 1 .. Len(tex) - a + 1
    <3>1. CASE k <= b - a + 1
      BY <1>0, <2>2, <2>4, <3>1
    <3>2. CASE ~ (k <= b - a + 1)
      <4>1. k - (b - a + 1) \in 1 .. Len(tex) - b /\ k - (b - a + 1) + b = k + a - 1
        BY <1>0, <3>2
      <4>2. post[k - (b - a + 1)] = tex[k - (b - a + 1) + b]
        BY <2>3, <4>1
      <4> QED BY <2>4, <3>2, <4>1, <4>2
    <3> QED BY <3>1, <3>2
  <2>6. tex = pre \o both
    <3> HIDE DEF both
    <3>1. /\ pre \o both \in Text /\ Len(pre \o both) = Len(pre) + Len(both)
          /\ \A k \in 1 .. Len(pre) + Len(both) :
               (pre \o both)[k] = IF k <= Len(pre) THEN pre[k] ELSE both[k - Len(pre)]
      BY <2>1, <2>4, TextsTogether
    <3>2. Len(pre) + Len(both) = Len(tex)
      BY <1>0, <2>1, <2>4
    <3>3. \A k \in 1 .. Len(tex) : (pre \o both)[k] = tex[k]
      <4> TAKE k \in 1 .. Len(tex)
      <4>1. CASE k <= a - 1
        BY <1>0, <2>1, <3>1, <3>2, <4>1
      <4>2. CASE ~ (k <= a - 1)
        <5>1. k - (a - 1) \in 1 .. Len(tex) - a + 1 /\ k - (a - 1) + a - 1 = k
          BY <1>0, <4>2
        <5>2. both[k - (a - 1)] = tex[k - (a - 1) + a - 1]
          BY <2>5, <5>1
        <5> QED BY <2>1, <3>1, <3>2, <4>2, <5>1, <5>2
      <4> QED BY <4>1, <4>2
    <3> QED BY <3>1, <3>2, <3>3, TextsEqual
  <2>7. Rewrite(h, tex) = Rewrite(h, pre) \o Rewrite(h, both)
    <3> HIDE DEF both
    <3> QED BY <2>1, <2>4, <2>6, RewriteConcat
  <2>8. Rewrite(h, both) = Rewrite(h, mid) \o Rewrite(h, post)
    BY <2>2, <2>3, RewriteConcat
  <2>9. Rewrite(h, pre) = << >>
    BY <1>0, <1>2, <1>4, <2>1
  <2>10. Rewrite(h, post) = << >>
    <3>1. \A k \in 1 .. Len(post) : post[k] = Space
      <4> TAKE k \in 1 .. Len(post)
      <4>1. k \in 1 .. Len(tex) - b /\ k + b \in 1 .. Len(tex) /\ k + b > b
        BY <1>0, <2>3
      <4> QED BY <1>4, <2>3, <4>1
    <3> QED BY <1>2, <2>3, <3>1
  <2>11. Rewrite(h, mid) \in Text /\ \A t \in Text : << >> \o t = t /\ t \o << >> = t
    <3>1. \A t \in Text : << >> \o t = t /\ t \o << >> = t
      BY DEF Text
    <3> QED BY <2>2, <3>1, RewriteEquations
  <2>12. Rewrite(h, tex) = Rewrite(h, mid)
    <3> HIDE DEF both
    <3> QED BY <2>7, <2>8, <2>9, <2>10, <2>11
  <2> QED BY <1>4, <2>12 DEF mid
<1> QED BY <1>3, <1>4, TrimmedIs

-----------------------------------------------------------------------------
(* Post bodies: one call of replace().                                     *)

\* A span of math, what a pass has so far, and what it leaves.
Span     == [tex : Text, display : BOOLEAN, dollars : BOOLEAN]
Scanned  == [done : Nat, text : Text, maths : Seq(Span)]
Rendered == [text : Text, maths : Seq(Span)]

\* How much of a text has been read by step i: a span is read at once.
Consumed(acc, i) == IF i < acc.done THEN acc.done ELSE i

\* What one step reads: nothing;
ReadsNothing(acc, now, i) == now = acc /\ Consumed(now, i) = Consumed(acc, i - 1)

\* a token, which stays;
ReadsToken(s, acc, now, i) ==
  /\ Consumed(acc, i - 1) = i - 1 /\ Consumed(now, i) = i
  /\ now.text = Append(acc.text, s[i]) /\ now.maths = acc.maths
  /\ SubSeq(s, 1, i) = Append(SubSeq(s, 1, i - 1), s[i])

\* or a span, of which what is between its delimiters is pushed, trimmed.
ReadsSpan(s, d, o, acc, now, i, mid) ==
  /\ Consumed(acc, i - 1) = i - 1
  /\ Consumed(now, i) = i + 2 * Margin(d, o) + Len(mid) - 1
  /\ Consumed(now, i) <= Len(s)
  /\ \A k \in 1 .. Len(mid) : mid[k] = s[k + i + Margin(d, o) - 1]
  /\ \A k \in i .. Consumed(now, i) :
       k \in i + Margin(d, o) .. i + Margin(d, o) + Len(mid) - 1 \/ s[k] \in Written
  /\ now.text = Append(acc.text, Len(acc.maths) + 1)
  /\ now.maths = Append(acc.maths, [tex |-> Trimmed(mid), display |-> d, dollars |-> o])
  /\ SubSeq(s, 1, Consumed(now, i))
       = SubSeq(s, 1, i - 1) \o (Opening(d, o) \o mid \o Closing(d, o))

\* A step does one of these.
LEMMA ScanReads ==
  ASSUME NEW s \in Text, NEW d \in BOOLEAN, NEW acc \in Scanned, NEW i \in 1 .. Len(s)
  PROVE  /\ Scan(s, d, acc, i) \in Scanned
         /\ \/ ReadsNothing(acc, Scan(s, d, acc, i), i)
            \/ ReadsToken(s, acc, Scan(s, d, acc, i), i)
            \/ \E o \in BOOLEAN, mid \in Text : ReadsSpan(s, d, o, acc, Scan(s, d, acc, i), i, mid)
<1> DEFINE now == Scan(s, d, acc, i)
           end == SpanEnd(s, i, d)
           o   == s[i] = Dollar
           m   == Margin(d, o)
           mid == SubSeq(s, i + m, end - m)
           maths == Append(acc.maths, [tex |-> Trimmed(mid), display |-> d, dollars |-> o])
<1>0. /\ Len(s) \in Nat /\ \A k \in 1 .. Len(s) : s[k] \in Int
      /\ acc.done \in Nat /\ acc.text \in Text /\ acc.maths \in Seq(Span)
      /\ acc = [done |-> acc.done, text |-> acc.text, maths |-> acc.maths]
  BY DEF Scanned, Text
<1>1. CASE i <= acc.done
  <2>1. now = acc
    BY <1>0, <1>1 DEF Scan
  <2>2. Consumed(acc, i) = Consumed(acc, i - 1)
    BY <1>0, <1>1 DEF Consumed
  <2> QED BY <2>1, <2>2 DEF ReadsNothing
<1>2. CASE i > acc.done /\ end = 0
  <2>1. now = [acc EXCEPT !.text = Append(@, s[i])]
    BY <1>0, <1>2 DEF Scan
  <2>2. now = [done |-> acc.done, text |-> Append(acc.text, s[i]), maths |-> acc.maths]
    BY <1>0, <2>1
  <2>3. Append(acc.text, s[i]) \in Text
    BY <1>0 DEF Text
  <2>4. now \in Scanned
    BY <1>0, <2>2, <2>3 DEF Scanned
  <2>5. Consumed(acc, i - 1) = i - 1 /\ Consumed(now, i) = i
    BY <1>0, <1>2, <2>2 DEF Consumed
  <2>6. SubSeq(s, 1, i) = Append(SubSeq(s, 1, i - 1), s[i])
    BY TextGrows
  <2>7. now.text = Append(acc.text, s[i]) /\ now.maths = acc.maths
    BY <2>2
  <2> HIDE DEF now
  <2>8. ReadsToken(s, acc, now, i)
    BY <2>5, <2>6, <2>7 DEF ReadsToken
  <2> QED BY <2>4, <2>8 DEF now
<1>3. CASE i > acc.done /\ end # 0
  <2>1. now = [done |-> end, maths |-> maths,
               text |-> Append(acc.text, PlaceholderOf(maths))]
    <3>1. ~ (i <= acc.done)
      BY <1>0, <1>3
    <3> QED BY <1>3, <3>1 DEF Scan
  <2>0. o \in BOOLEAN /\ (o <=> s[i] = Dollar)
    OBVIOUS
  <2> HIDE DEF o
  <2>2. m \in 1 .. 2 /\ end \in Nat /\ end \in i + 2 * m .. Len(s) /\ Stands(s, d, o, i, end)
    <3>1. end \in Nat /\ Stands(s, d, o, i, end)
      BY <1>3, <2>0, SpanIsThere
    <3> QED BY <2>0, <3>1, EdgesAre DEF Stands
  <2>3. /\ mid \in Text
        /\ SubSeq(s, 1, end) = SubSeq(s, 1, i - 1) \o (Opening(d, o) \o mid \o Closing(d, o))
    BY <2>0, <2>2, SpanInText
  <2>4. /\ Len(mid) = end - i - 2 * m + 1
        /\ \A k \in 1 .. Len(mid) : mid[k] = s[k + i + m - 1]
    <3>1. /\ Len(mid) = (end - m) - (i + m) + 1
          /\ \A k \in 1 .. (end - m) - (i + m) + 1 : mid[k] = s[k + (i + m) - 1]
      <4>1. /\ i + m \in Int /\ end - m \in Int /\ 1 <= i + m
            /\ i + m <= end - m + 1 /\ end - m <= Len(s)
        BY <1>0, <2>2
      <4> QED BY <4>1, TextCut
    <3> HIDE DEF mid, m, end
    <3>2. Len(mid) = end - i - 2 * m + 1 /\ Len(mid) = (end - m) - (i + m) + 1
      BY <2>2, <3>1
    <3>3. \A k \in Int : k + (i + m) - 1 = k + i + m - 1
      BY <2>2
    <3>4. ASSUME NEW k \in 1 .. Len(mid) PROVE mid[k] = s[k + i + m - 1]
      <4>1. k \in 1 .. (end - m) - (i + m) + 1
        BY <3>2
      <4>2. k \in Int /\ k + (i + m) - 1 = k + i + m - 1
        BY <2>2, <3>3, <4>1
      <4> QED BY <3>1, <4>1, <4>2
    <3> QED BY <3>2, <3>4
  <2>5. Trimmed(mid) \in Text
    <3> HIDE DEF mid
    <3> QED BY <2>3, TrimmedKeeps DEF Text
  <2>6. maths \in Seq(Span) /\ Len(maths) = Len(acc.maths) + 1 /\ Len(acc.maths) \in Nat
    <3> HIDE DEF mid
    <3>1. [tex |-> Trimmed(mid), display |-> d, dollars |-> o] \in Span
      BY <2>0, <2>5 DEF Span
    <3> QED BY <1>0, <3>1
  <2> HIDE DEF mid, end, m, now
  <2>7. PlaceholderOf(maths) = Len(acc.maths) + 1
    BY <2>6 DEF PlaceholderOf
  <2>8. Append(acc.text, Len(acc.maths) + 1) \in Text
    BY <1>0, <2>6 DEF Text
  <2>9. now \in Scanned
    <3> HIDE DEF maths
    <3> QED BY <2>1, <2>2, <2>6, <2>7, <2>8 DEF Scanned
  <2>10. Consumed(acc, i - 1) = i - 1 /\ Consumed(now, i) = end
    <3>1. now.done = end
      BY <2>1
    <3> QED BY <1>0, <1>3, <2>2, <3>1 DEF Consumed
  <2>11. end = i + 2 * m + Len(mid) - 1
    BY <2>2, <2>4
  <2>12. \A k \in i .. end : k \in i + m .. i + m + Len(mid) - 1 \/ s[k] \in Written
    <3> TAKE k \in i .. end
    <3>0. i \in Int /\ k \in Int /\ m \in Int
      BY <2>2
    <3>1. CASE k \in i + m .. i + m + Len(mid) - 1
      BY <3>1
    <3>2. CASE k < i + m
      <4>1. k - i + 1 \in 1 .. m /\ i + (k - i + 1) - 1 = k
        BY <2>2, <3>0, <3>2
      <4>2. s[i + (k - i + 1) - 1] = Opening(d, o)[k - i + 1]
        BY <2>2, <4>1 DEF Stands, m
      <4>3. Opening(d, o)[k - i + 1] \in Written
        BY <2>0, <4>1, EdgesAre DEF m
      <4> QED BY <4>1, <4>2, <4>3
    <3>3. CASE k > i + m + Len(mid) - 1
      <4>1. k - (end - m) \in 1 .. m /\ end - m + (k - (end - m)) = k
        BY <2>2, <2>4, <3>0, <3>3
      <4>2. s[end - m + (k - (end - m))] = Closing(d, o)[k - (end - m)]
        BY <2>2, <4>1 DEF Stands, m
      <4>3. Closing(d, o)[k - (end - m)] \in Written
        BY <2>0, <4>1, EdgesAre DEF m
      <4> QED BY <4>1, <4>2, <4>3
    <3> QED BY <2>2, <2>11, <3>0, <3>1, <3>2, <3>3
  <2>13. /\ now.text = Append(acc.text, Len(acc.maths) + 1)
         /\ now.maths = maths
    BY <2>1, <2>7
  <2>14. ReadsSpan(s, d, o, acc, now, i, mid)
    <3>1. end <= Len(s)
      BY <1>0, <2>2
    <3> QED BY <2>3, <2>4, <2>10, <2>11, <2>12, <2>13, <3>1 DEF ReadsSpan, m
  <2> QED BY <2>0, <2>3, <2>9, <2>14 DEF now
<1> QED
  <2>1. i <= acc.done \/ (i > acc.done /\ end = 0) \/ (i > acc.done /\ end # 0)
    BY <1>0
  <2> QED BY <1>1, <1>2, <1>3, <2>1

\* The steps of one call of replace().
IsScan(f, r, d) ==
  /\ f \in [0 .. Len(r.text) -> Scanned]
  /\ f[0] = [done |-> 0, text |-> << >>, maths |-> r.maths]
  /\ \A i \in 1 .. Len(r.text) : f[i] = Scan(r.text, d, f[i - 1], i)

\* The steps are taken one after the other, up to the end of the text.
LEMMA ReplaceScans ==
  ASSUME NEW r \in Rendered, NEW d \in BOOLEAN
  PROVE  \E f : /\ IsScan(f, r, d)
                /\ Replace(r, d) = [text  |-> f[Len(r.text)].text,
                                    maths |-> f[Len(r.text)].maths]
<1> DEFINE n == Len(r.text)
           base == [done |-> 0, text |-> << >>, maths |-> r.maths]
           step == [i \in 1 .. n |-> [acc \in Scanned |-> Scan(r.text, d, acc, i)]]
           is(f) == f = [i \in 0 .. n |-> IF i = 0 THEN base ELSE Scan(r.text, d, f[i - 1], i)]
           scan == CHOOSE f : is(f)
<1>1. r.text \in Text /\ n \in Nat /\ r.maths \in Seq(Span)
  BY DEF Rendered, Text
<1>2. base \in Scanned
  BY <1>1 DEF Scanned, Text
<1>3. step \in [1 .. n -> [Scanned -> Scanned]]
  <2>1. \A i \in 1 .. n : \A acc \in Scanned : Scan(r.text, d, acc, i) \in Scanned
    BY <1>1, ScanReads
  <2> QED BY <2>1
<1>4. PICK f : Counts(f, n, Scanned, base, step)
  <2> HIDE DEF base, step, n
  <2> QED BY <1>1, <1>2, <1>3, NumberRecursion
<1>5. f \in [0 .. n -> Scanned]
  BY <1>4 DEF Counts
<1>6. \A i \in 0 .. n : f[i] = IF i = 0 THEN base ELSE step[i][f[i - 1]]
  <2> HIDE DEF base, step, n
  <2> QED BY <1>4 DEF Counts
<1>7. is(f)
  <2>1. ASSUME NEW i \in 0 .. n
        PROVE  f[i] = IF i = 0 THEN base ELSE Scan(r.text, d, f[i - 1], i)
    <3>1. CASE i = 0
      <4> HIDE DEF base, step
      <4> QED BY <1>6, <3>1
    <3>2. CASE i # 0
      <4>1. i \in 1 .. n /\ i - 1 \in 0 .. n
        BY <1>1, <3>2
      <4>2. f[i - 1] \in Scanned
        BY <1>5, <4>1
      <4>3. f[i] = step[i][f[i - 1]]
        <5> HIDE DEF base, step
        <5> QED BY <1>6, <3>2
      <4> HIDE DEF n, base
      <4>4. step[i][f[i - 1]] = Scan(r.text, d, f[i - 1], i)
        BY <4>1, <4>2
      <4> QED BY <3>2, <4>3, <4>4
    <3> QED BY <3>1, <3>2
  <2>2. f = [i \in 0 .. n |-> f[i]]
    BY <1>5
  <2> HIDE DEF base, n
  <2> QED BY <2>1, <2>2
<1> HIDE DEF is
<1>8. is(scan)
  BY <1>7
<1> HIDE DEF scan
<1>9. \A i \in 0 .. n : scan[i] = IF i = 0 THEN base ELSE Scan(r.text, d, scan[i - 1], i)
  <2> HIDE DEF base, n
  <2> QED BY <1>8 DEF is
<1>10. DOMAIN scan = 0 .. n /\ scan = [i \in 0 .. n |-> scan[i]]
  <2> HIDE DEF base, n
  <2> QED BY <1>8 DEF is
<1>11. \A i \in 0 .. n : scan[i] \in Scanned
  <2> DEFINE P == {i \in 0 .. n : scan[i] \in Scanned}
  <2> HIDE DEF base
  <2>1. 0 \in P
    BY <1>1, <1>2, <1>9
  <2>2. ASSUME NEW i \in 0 .. n - 1, i \in P PROVE i + 1 \in P
    <3>1. i + 1 \in 1 .. n /\ i + 1 \in 0 .. n /\ i + 1 # 0 /\ i + 1 - 1 = i
      BY <1>1
    <3>2. scan[i + 1] = Scan(r.text, d, scan[i], i + 1)
      BY <1>9, <3>1
    <3>3. scan[i] \in Scanned
      BY <2>2
    <3>4. scan[i + 1] \in Scanned
      BY <1>1, <3>1, <3>2, <3>3, ScanReads
    <3> QED BY <3>1, <3>4
  <2> HIDE DEF P
  <2>3. \A i \in 0 .. n : i \in P
    BY <1>1, <2>1, <2>2, NumberInduction
  <2> QED BY <2>3 DEF P
<1>12. IsScan(scan, r, d)
  <2>1. scan[0] = base
    <3> HIDE DEF base
    <3> QED BY <1>1, <1>9
  <2>2. \A i \in 1 .. n : scan[i] = Scan(r.text, d, scan[i - 1], i)
    <3> HIDE DEF base
    <3>1. \A i \in 1 .. n : i \in 0 .. n /\ i # 0
      BY <1>1
    <3> QED BY <1>9, <3>1
  <2>3. scan \in [0 .. n -> Scanned]
    BY <1>10, <1>11
  <2> QED BY <2>1, <2>2, <2>3 DEF IsScan
<1>13. Replace(r, d) = [text |-> scan[n].text, maths |-> scan[n].maths]
  BY DEF Replace, scan, is
<1> QED BY <1>12, <1>13

\* The tokens of a text over a set, and a text whose tokens are all in a set.
LEMMA TextOver ==
  ASSUME NEW A \in SUBSET Int
  PROVE  /\ \A s \in Seq(A) : s \in Text /\ Len(s) \in Nat /\ \A k \in 1 .. Len(s) : s[k] \in A
         /\ \A s \in Text : (\A k \in 1 .. Len(s) : s[k] \in A) => s \in Seq(A)
<1>1. ASSUME NEW s \in Seq(A)
      PROVE  s \in Text /\ Len(s) \in Nat /\ \A k \in 1 .. Len(s) : s[k] \in A
  <2>1. s \in Text
    BY SequencesOfMore DEF Text
  <2>2. Len(s) \in Nat /\ \A k \in 1 .. Len(s) : s[k] \in A
    OBVIOUS
  <2> QED BY <2>1, <2>2
<1>2. ASSUME NEW s \in Text, \A k \in 1 .. Len(s) : s[k] \in A
      PROVE  s \in Seq(A)
  <2>1. Len(s) \in Nat /\ s = [k \in 1 .. Len(s) |-> s[k]]
    BY DEF Text
  <2>2. s \in [1 .. Len(s) -> A]
    BY <1>2, <2>1
  <2> QED BY <2>1, <2>2
<1> QED BY <1>1, <1>2

\* What a pass leaves: the spans it found were of this text, and what it wrote is of
\* this text, or the placeholder of a span it found.
PassShape(s, A, old, acc, i) ==
  /\ acc \in Scanned
  /\ i <= Consumed(acc, i) /\ Consumed(acc, i) <= Len(s)
  /\ Len(old) <= Len(acc.maths) /\ \A n \in 1 .. Len(old) : acc.maths[n] = old[n]
  /\ \A n \in Len(old) + 1 .. Len(acc.maths) : acc.maths[n].tex \in Seq(A)
  /\ acc.text \in Seq(A \cup (Len(old) + 1 .. Len(acc.maths)))

\* One step keeps that.
LEMMA PassShapeStep ==
  ASSUME NEW A \in SUBSET Int, NEW s \in Seq(A), NEW d \in BOOLEAN, NEW old \in Seq(Span),
         NEW acc \in Scanned, NEW i \in 1 .. Len(s), PassShape(s, A, old, acc, i - 1)
  PROVE  PassShape(s, A, old, Scan(s, d, acc, i), i)
<1> DEFINE now == Scan(s, d, acc, i)
           B == A \cup (Len(old) + 1 .. Len(acc.maths))
           C == A \cup (Len(old) + 1 .. Len(now.maths))
<1>0. /\ s \in Text /\ Len(s) \in Nat /\ \A k \in 1 .. Len(s) : s[k] \in A
      /\ Len(old) \in Nat /\ acc.maths \in Seq(Span) /\ Len(acc.maths) \in Nat
      /\ i - 1 <= Consumed(acc, i - 1) /\ Consumed(acc, i - 1) <= Len(s)
      /\ Len(old) <= Len(acc.maths) /\ \A n \in 1 .. Len(old) : acc.maths[n] = old[n]
      /\ \A n \in Len(old) + 1 .. Len(acc.maths) : acc.maths[n].tex \in Seq(A)
      /\ acc.text \in Seq(B)
  <2>1. s \in Text /\ Len(s) \in Nat /\ \A k \in 1 .. Len(s) : s[k] \in A
    BY TextOver
  <2>2. acc.maths \in Seq(Span) /\ Len(acc.maths) \in Nat /\ Len(old) \in Nat
    BY DEF Scanned
  <2> QED BY <2>1, <2>2 DEF PassShape
<1>1. now \in Scanned /\ (ReadsNothing(acc, now, i) \/ ReadsToken(s, acc, now, i)
                            \/ \E o \in BOOLEAN, mid \in Text : ReadsSpan(s, d, o, acc, now, i, mid))
  BY <1>0, ScanReads
<1> HIDE DEF now
<1>2. ASSUME ReadsNothing(acc, now, i)
      PROVE  PassShape(s, A, old, now, i)
  <2>1. now = acc /\ Consumed(now, i) = Consumed(acc, i - 1)
    BY <1>2 DEF ReadsNothing
  <2>2. i <= Consumed(now, i)
    BY <1>1 DEF Scanned, Consumed
  <2> QED BY <1>0, <1>1, <2>1, <2>2 DEF PassShape
<1>3. ASSUME ReadsToken(s, acc, now, i)
      PROVE  PassShape(s, A, old, now, i)
  <2>1. Consumed(now, i) = i /\ now.text = Append(acc.text, s[i]) /\ now.maths = acc.maths
    BY <1>3 DEF ReadsToken
  <2>2. s[i] \in B
    BY <1>0
  <2>3. now.text \in Seq(B)
    <3> HIDE DEF B
    <3> QED BY <1>0, <2>1, <2>2
  <2> QED BY <1>0, <1>1, <2>1, <2>3 DEF PassShape
<1>4. ASSUME NEW o \in BOOLEAN, NEW mid \in Text, ReadsSpan(s, d, o, acc, now, i, mid)
      PROVE  PassShape(s, A, old, now, i)
  <2> DEFINE span == [tex |-> Trimmed(mid), display |-> d, dollars |-> o]
  <2>1. /\ Consumed(now, i) = i + 2 * Margin(d, o) + Len(mid) - 1
        /\ Consumed(now, i) <= Len(s)
        /\ \A k \in 1 .. Len(mid) : mid[k] = s[k + i + Margin(d, o) - 1]
        /\ now.text = Append(acc.text, Len(acc.maths) + 1)
        /\ now.maths = Append(acc.maths, span)
    BY <1>4 DEF ReadsSpan
  <2>2. Margin(d, o) \in 1 .. 2 /\ Len(mid) \in Nat
    BY DEF Margin, Text
  <2>3. mid \in Seq(A)
    <3>1. \A k \in 1 .. Len(mid) : mid[k] \in A
      <4> TAKE k \in 1 .. Len(mid)
      <4>1. i + 2 * Margin(d, o) + Len(mid) - 1 <= Len(s)
        BY <2>1
      <4>2. k + i + Margin(d, o) - 1 \in 1 .. Len(s)
        <5> DEFINE m == Margin(d, o)
                   l == Len(mid)
                   e == Len(s)
        <5>1. e \in Nat /\ i \in 1 .. e /\ m \in 1 .. 2 /\ l \in Nat /\ k \in 1 .. l
              /\ i + 2 * m + l - 1 <= e
          BY <1>0, <2>2, <4>1
        <5> HIDE DEF m, l, e
        <5>2. k + i + m - 1 \in 1 .. e
          BY <5>1
        <5> QED BY <5>2 DEF m, e
      <4> QED BY <1>0, <2>1, <4>2
    <3> QED BY <3>1, TextOver
  <2>4. Trimmed(mid) \in Seq(A)
    BY <2>3, TrimmedKeeps
  <2>5. span.tex \in Seq(A) /\ span \in Span
    <3>1. Trimmed(mid) \in Text
      BY <2>4, SequencesOfMore DEF Text
    <3> QED BY <2>4, <3>1 DEF Span
  <2> HIDE DEF span
  <2>6. /\ Len(now.maths) = Len(acc.maths) + 1
        /\ \A n \in 1 .. Len(acc.maths) : now.maths[n] = acc.maths[n]
        /\ now.maths[Len(acc.maths) + 1] = span
    BY <1>0, <2>1, <2>5
  <2>7. now.text \in Seq(C)
    <3>1. B \subseteq C /\ Len(acc.maths) + 1 \in C
      BY <1>0, <2>6
    <3> HIDE DEF B, C
    <3>2. acc.text \in Seq(C)
      BY <1>0, <3>1, SequencesOfMore
    <3> QED BY <2>1, <3>1, <3>2
  <2>8. \A n \in Len(old) + 1 .. Len(now.maths) : now.maths[n].tex \in Seq(A)
    <3> TAKE n \in Len(old) + 1 .. Len(now.maths)
    <3>1. CASE n = Len(acc.maths) + 1
      BY <2>5, <2>6, <3>1
    <3>2. CASE n # Len(acc.maths) + 1
      <4>1. n \in 1 .. Len(acc.maths) /\ n \in Len(old) + 1 .. Len(acc.maths)
        BY <1>0, <2>6, <3>2
      <4> QED BY <1>0, <2>6, <4>1
    <3> QED BY <3>1, <3>2
  <2>9. \A n \in 1 .. Len(old) : now.maths[n] = old[n]
    <3> TAKE n \in 1 .. Len(old)
    <3>1. n \in 1 .. Len(acc.maths)
      BY <1>0
    <3> QED BY <1>0, <2>6, <3>1
  <2>10. i <= Consumed(now, i) /\ Len(old) <= Len(now.maths)
    <3>1. i <= i + 2 * Margin(d, o) + Len(mid) - 1
      BY <2>2
    <3>2. Len(old) <= Len(acc.maths) /\ Len(old) \in Nat /\ Len(acc.maths) \in Nat
      BY <1>0
    <3>3. Len(old) <= Len(now.maths)
      BY <2>6, <3>2
    <3> QED BY <2>1, <3>1, <3>3
  <2> QED BY <1>1, <2>1, <2>7, <2>8, <2>9, <2>10 DEF PassShape
<1> QED BY <1>1, <1>2, <1>3, <1>4 DEF now

\* Who puts the source back for each placeholder and drops spaces makes the same of
\* what a pass wrote as of what it read.
PassText(s, h, old, acc, i) ==
  (\A n \in Len(old) + 1 .. Len(acc.maths) : h[n] = Rewrite(h, Source(acc.maths, n)))
    => Rewrite(h, acc.text) = Rewrite(h, SubSeq(s, 1, Consumed(acc, i)))

\* The source of a span is its TeX between its delimiters.
LEMMA SourceIs ==
  ASSUME NEW maths, NEW n
  PROVE  Source(maths, n)
           = Opening(maths[n].display, maths[n].dollars) \o maths[n].tex
               \o Closing(maths[n].display, maths[n].dollars)
BY DEF Source

\* A step that keeps the shape keeps that.
LEMMA PassTextStep ==
  ASSUME NEW A \in SUBSET Int, NEW s \in Seq(A), NEW d \in BOOLEAN, NEW old \in Seq(Span),
         NEW acc \in Scanned, NEW i \in 1 .. Len(s), NEW h \in Pieces,
         PassShape(s, A, old, acc, i - 1), h[Space] = << >>, PassText(s, h, old, acc, i - 1)
  PROVE  PassText(s, h, old, Scan(s, d, acc, i), i)
<1> DEFINE now == Scan(s, d, acc, i)
<1>0. /\ s \in Text /\ Len(s) \in Nat /\ \A k \in 1 .. Len(s) : s[k] \in Int
      /\ acc.maths \in Seq(Span) /\ Len(acc.maths) \in Nat /\ acc.text \in Text
      /\ Len(old) \in Nat /\ Len(old) <= Len(acc.maths)
      /\ SubSeq(s, 1, i - 1) \in Text
  <2>1. s \in Text /\ Len(s) \in Nat /\ \A k \in 1 .. Len(s) : s[k] \in Int
    BY TextOver
  <2>2. acc.maths \in Seq(Span) /\ Len(acc.maths) \in Nat /\ Len(old) \in Nat /\ acc.text \in Text
    BY DEF Scanned
  <2>3. SubSeq(s, 1, i - 1) \in Text
    <3>1. i - 1 \in Int /\ 1 <= i - 1 + 1 /\ i - 1 <= Len(s)
      BY <2>1
    <3> HIDE DEF now
    <3>2. /\ SubSeq(s, 1, i - 1) \in Text /\ Len(SubSeq(s, 1, i - 1)) = i - 1 - 1 + 1
          /\ \A k \in 1 .. i - 1 - 1 + 1 : SubSeq(s, 1, i - 1)[k] = s[k + 1 - 1]
      BY <2>1, <3>1, TextCut
    <3> QED BY <3>2
  <2> QED BY <2>1, <2>2, <2>3 DEF PassShape
<1>1. now \in Scanned /\ (ReadsNothing(acc, now, i) \/ ReadsToken(s, acc, now, i)
                            \/ \E o \in BOOLEAN, mid \in Text : ReadsSpan(s, d, o, acc, now, i, mid))
  BY <1>0, ScanReads
<1> HIDE DEF now
<1>2. ASSUME ReadsNothing(acc, now, i)
      PROVE  PassText(s, h, old, now, i)
  BY <1>2 DEF ReadsNothing, PassText
<1>3. ASSUME ReadsToken(s, acc, now, i)
      PROVE  PassText(s, h, old, now, i)
  <2>1. /\ Consumed(acc, i - 1) = i - 1 /\ Consumed(now, i) = i
        /\ now.text = Append(acc.text, s[i]) /\ now.maths = acc.maths
        /\ SubSeq(s, 1, i) = Append(SubSeq(s, 1, i - 1), s[i])
    BY <1>3 DEF ReadsToken
  <2>2. acc.text \in Text /\ SubSeq(s, 1, i - 1) \in Text /\ s[i] \in Int
    BY <1>0
  <2>3. \A t \in Text, x \in Int : Rewrite(h, Append(t, x)) = Rewrite(h, t) \o h[x]
    BY RewriteEquations
  <2>4. Rewrite(h, now.text) = Rewrite(h, acc.text) \o h[s[i]]
    BY <2>1, <2>2, <2>3
  <2>5. Rewrite(h, SubSeq(s, 1, i)) = Rewrite(h, SubSeq(s, 1, i - 1)) \o h[s[i]]
    BY <2>1, <2>2, <2>3
  <2> QED BY <2>1, <2>4, <2>5 DEF PassText
<1>4. ASSUME NEW o \in BOOLEAN, NEW mid \in Text, ReadsSpan(s, d, o, acc, now, i, mid)
      PROVE  PassText(s, h, old, now, i)
  <2> DEFINE span == [tex |-> Trimmed(mid), display |-> d, dollars |-> o]
             N == Len(acc.maths) + 1
             E == Opening(d, o)
             F == Closing(d, o)
  <2>1. /\ Consumed(acc, i - 1) = i - 1
        /\ SubSeq(s, 1, Consumed(now, i)) = SubSeq(s, 1, i - 1) \o (E \o mid \o F)
        /\ now.text = Append(acc.text, N)
        /\ now.maths = Append(acc.maths, span)
    BY <1>4 DEF ReadsSpan
  <2>2. Trimmed(mid) \in Text /\ Rewrite(h, Trimmed(mid)) = Rewrite(h, mid)
    BY TrimmedKeeps, TrimmedIsSame DEF Text
  <2>3. span.tex = Trimmed(mid) /\ span.display = d /\ span.dollars = o /\ span \in Span
    BY <2>2 DEF Span
  <2> HIDE DEF span
  <2>4. /\ Len(now.maths) = N
        /\ \A n \in 1 .. Len(acc.maths) : now.maths[n] = acc.maths[n]
        /\ now.maths[N] = span
    BY <1>0, <2>1, <2>3
  <2>5. SUFFICES ASSUME \A n \in Len(old) + 1 .. Len(now.maths) :
                          h[n] = Rewrite(h, Source(now.maths, n))
                 PROVE  Rewrite(h, now.text) = Rewrite(h, SubSeq(s, 1, Consumed(now, i)))
    BY DEF PassText
  <2>6. Rewrite(h, acc.text) = Rewrite(h, SubSeq(s, 1, i - 1))
    <3>1. ASSUME NEW n \in Len(old) + 1 .. Len(acc.maths)
          PROVE  h[n] = Rewrite(h, Source(acc.maths, n))
      <4>1. n \in Len(old) + 1 .. Len(now.maths) /\ now.maths[n] = acc.maths[n]
        BY <1>0, <2>4
      <4>2. Source(now.maths, n) = Source(acc.maths, n)
        BY <4>1, SourceIs
      <4> QED BY <2>5, <4>1, <4>2
    <3> QED BY <2>1, <3>1 DEF PassText
  <2>7. E \in Text /\ F \in Text
    BY EdgesAre
  <2>8. Source(now.maths, N) = E \o Trimmed(mid) \o F
    BY <2>3, <2>4, SourceIs
  <2> HIDE DEF E, F
  <2>9. ASSUME NEW t \in Text
        PROVE  /\ E \o t \o F \in Text
               /\ Rewrite(h, E \o t \o F) = Rewrite(h, E) \o Rewrite(h, t) \o Rewrite(h, F)
    <3>1. E \o t \in Text /\ E \o t \o F \in Text
      BY <2>7 DEF Text
    <3>2. Rewrite(h, E \o t) = Rewrite(h, E) \o Rewrite(h, t)
      BY <2>7, RewriteConcat
    <3>3. Rewrite(h, E \o t \o F) = Rewrite(h, E \o t) \o Rewrite(h, F)
      BY <2>7, <3>1, RewriteConcat
    <3> QED BY <3>1, <3>2, <3>3
  <2>10. h[N] = Rewrite(h, E \o mid \o F)
    <3>1. N \in Len(old) + 1 .. Len(now.maths)
      BY <1>0, <2>4
    <3>2. h[N] = Rewrite(h, E \o Trimmed(mid) \o F)
      BY <2>5, <2>8, <3>1
    <3>3. /\ Rewrite(h, E \o Trimmed(mid) \o F)
               = Rewrite(h, E) \o Rewrite(h, Trimmed(mid)) \o Rewrite(h, F)
          /\ Rewrite(h, E \o mid \o F) = Rewrite(h, E) \o Rewrite(h, mid) \o Rewrite(h, F)
      BY <2>2, <2>9
    <3> QED BY <2>2, <3>2, <3>3
  <2>11. Rewrite(h, now.text) = Rewrite(h, acc.text) \o h[N]
    <3>1. N \in Int /\ acc.text \in Text
      BY <1>0
    <3>2. \A t \in Text, x \in Int : Rewrite(h, Append(t, x)) = Rewrite(h, t) \o h[x]
      BY RewriteEquations
    <3> HIDE DEF N
    <3>3. Rewrite(h, Append(acc.text, N)) = Rewrite(h, acc.text) \o h[N]
      BY <3>1, <3>2
    <3> QED BY <2>1, <3>3
  <2>12. Rewrite(h, SubSeq(s, 1, i - 1) \o (E \o mid \o F))
           = Rewrite(h, SubSeq(s, 1, i - 1)) \o Rewrite(h, E \o mid \o F)
    BY <1>0, <2>9, RewriteConcat
  <2> QED BY <2>1, <2>6, <2>10, <2>11, <2>12
<1> QED BY <1>1, <1>2, <1>3, <1>4 DEF now

\* Token x is in text t at one place.
IsOnce(t, x) == \E k \in 1 .. Len(t) : t[k] = x /\ \A j \in 1 .. Len(t) : t[j] = x => j = k
IsNowhere(t, x) == \A k \in 1 .. Len(t) : t[k] # x

\* What one more token does to that.
LEMMA OneMoreToken ==
  ASSUME NEW t \in Text, NEW x \in Int, NEW y \in Int
  PROVE  /\ IsOnce(t, y) /\ x # y => IsOnce(Append(t, x), y)
         /\ IsNowhere(t, y) /\ x = y => IsOnce(Append(t, x), y)
         /\ IsNowhere(t, y) /\ x # y => IsNowhere(Append(t, x), y)
<1>1. /\ Len(t) \in Nat /\ Len(Append(t, x)) = Len(t) + 1
      /\ \A k \in 1 .. Len(t) : Append(t, x)[k] = t[k]
      /\ Append(t, x)[Len(t) + 1] = x
  BY DEF Text
<1>2. ASSUME IsOnce(t, y), x # y PROVE IsOnce(Append(t, x), y)
  <2>1. PICK k \in 1 .. Len(t) : t[k] = y /\ \A j \in 1 .. Len(t) : t[j] = y => j = k
    BY <1>2 DEF IsOnce
  <2>2. k \in 1 .. Len(t) + 1 /\ Append(t, x)[k] = y
    BY <1>1, <2>1
  <2>3. ASSUME NEW j \in 1 .. Len(t) + 1, Append(t, x)[j] = y PROVE j = k
    <3>1. j # Len(t) + 1
      BY <1>1, <1>2, <2>3
    <3>2. j \in 1 .. Len(t)
      BY <1>1, <3>1
    <3> QED BY <1>1, <2>1, <2>3, <3>2
  <2> QED BY <1>1, <2>2, <2>3 DEF IsOnce
<1>3. ASSUME IsNowhere(t, y) PROVE \A j \in 1 .. Len(t) + 1 : Append(t, x)[j] = y => j = Len(t) + 1 /\ x = y
  <2> TAKE j \in 1 .. Len(t) + 1
  <2>1. CASE j = Len(t) + 1
    BY <1>1, <2>1
  <2>2. CASE j # Len(t) + 1
    <3>1. j \in 1 .. Len(t)
      BY <1>1, <2>2
    <3> QED BY <1>1, <1>3, <3>1 DEF IsNowhere
  <2> QED BY <2>1, <2>2
<1>4. ASSUME IsNowhere(t, y), x = y PROVE IsOnce(Append(t, x), y)
  <2>1. Len(t) + 1 \in 1 .. Len(t) + 1
    BY <1>1
  <2> QED BY <1>1, <1>3, <1>4, <2>1 DEF IsOnce
<1>5. ASSUME IsNowhere(t, y), x # y PROVE IsNowhere(Append(t, x), y)
  BY <1>1, <1>3, <1>5 DEF IsNowhere
<1> QED BY <1>2, <1>4, <1>5

\* Token n is at place p of the text, and nowhere else.
IsAt(s, n, p) == p \in 1 .. Len(s) /\ s[p] = n /\ \A q \in 1 .. Len(s) : s[q] = n => q = p

\* The spans a pass found are each placed once in what it wrote.  An older one that
\* was in the text once still is, unless it came to be inside a span.
PassPlaced(s, old, acc, i) ==
  /\ \A n \in Len(old) + 1 .. Len(acc.maths) : IsOnce(acc.text, n)
  /\ \A n \in 1 .. Len(old), p \in 1 .. Len(s) : IsAt(s, n, p) =>
       /\ p <= Consumed(acc, i) =>
            IsOnce(acc.text, n) \/ \E m \in 1 .. Len(acc.maths) : n \in Range(acc.maths[m].tex)
       /\ p > Consumed(acc, i) => IsNowhere(acc.text, n)

\* A step that keeps the shape keeps that.
LEMMA PassPlacedStep ==
  ASSUME NEW A \in SUBSET Int, NEW s \in Seq(A), NEW d \in BOOLEAN, NEW old \in Seq(Span),
         NEW acc \in Scanned, NEW i \in 1 .. Len(s),
         PassShape(s, A, old, acc, i - 1), PassPlaced(s, old, acc, i - 1),
         \A x \in A : x <= Len(old)
  PROVE  PassPlaced(s, old, Scan(s, d, acc, i), i)
<1> DEFINE now == Scan(s, d, acc, i)
           B == A \cup (Len(old) + 1 .. Len(acc.maths))
<1>0. /\ s \in Text /\ Len(s) \in Nat /\ \A k \in 1 .. Len(s) : s[k] \in A /\ s[k] \in Int
      /\ acc.maths \in Seq(Span) /\ Len(acc.maths) \in Nat /\ acc.text \in Text
      /\ Len(old) \in Nat /\ Len(old) <= Len(acc.maths)
      /\ Consumed(acc, i - 1) \in Nat /\ acc.text \in Seq(B)
  <2>1. s \in Text /\ Len(s) \in Nat /\ \A k \in 1 .. Len(s) : s[k] \in A /\ s[k] \in Int
    BY TextOver
  <2>2. acc.maths \in Seq(Span) /\ Len(acc.maths) \in Nat /\ Len(old) \in Nat /\ acc.text \in Text
    BY DEF Scanned
  <2>3. Consumed(acc, i - 1) \in Nat
    BY DEF Consumed, Scanned
  <2> QED BY <2>1, <2>2, <2>3 DEF PassShape
<1>1. now \in Scanned /\ (ReadsNothing(acc, now, i) \/ ReadsToken(s, acc, now, i)
                            \/ \E o \in BOOLEAN, mid \in Text : ReadsSpan(s, d, o, acc, now, i, mid))
  BY <1>0, ScanReads
<1> HIDE DEF now
<1>2. ASSUME ReadsNothing(acc, now, i) PROVE PassPlaced(s, old, now, i)
  BY <1>2 DEF ReadsNothing, PassPlaced
<1>3. ASSUME ReadsToken(s, acc, now, i) PROVE PassPlaced(s, old, now, i)
  <2>1. /\ Consumed(acc, i - 1) = i - 1 /\ Consumed(now, i) = i
        /\ now.text = Append(acc.text, s[i]) /\ now.maths = acc.maths
    BY <1>3 DEF ReadsToken
  <2>2. s[i] \in Int /\ s[i] <= Len(old)
    BY <1>0
  <2>3. ASSUME NEW n \in Len(old) + 1 .. Len(acc.maths) PROVE IsOnce(now.text, n)
    <3>1. IsOnce(acc.text, n) /\ n \in Int /\ s[i] # n
      BY <1>0, <2>2 DEF PassPlaced
    <3> QED BY <1>0, <2>1, <2>2, <3>1, OneMoreToken
  <2>4. ASSUME NEW n \in 1 .. Len(old), NEW p \in 1 .. Len(s), IsAt(s, n, p)
        PROVE  /\ p <= i => IsOnce(now.text, n)
                              \/ \E m \in 1 .. Len(now.maths) : n \in Range(now.maths[m].tex)
               /\ p > i => IsNowhere(now.text, n)
    <3>1. /\ p <= i - 1 =>
               IsOnce(acc.text, n) \/ \E m \in 1 .. Len(acc.maths) : n \in Range(acc.maths[m].tex)
          /\ p > i - 1 => IsNowhere(acc.text, n)
      BY <2>1, <2>4 DEF PassPlaced
    <3>2. s[i] = n <=> i = p
      BY <2>4 DEF IsAt
    <3>3. n \in Int
      OBVIOUS
    <3>4. CASE p <= i - 1
      BY <1>0, <2>1, <2>2, <3>1, <3>2, <3>3, <3>4, OneMoreToken
    <3>5. CASE p = i
      BY <1>0, <2>1, <2>2, <3>1, <3>2, <3>3, <3>5, OneMoreToken
    <3>6. CASE p > i
      BY <1>0, <2>1, <2>2, <3>1, <3>2, <3>3, <3>6, OneMoreToken
    <3> QED BY <3>4, <3>5, <3>6
  <2> QED BY <2>1, <2>3, <2>4 DEF PassPlaced
<1>4. ASSUME NEW o \in BOOLEAN, NEW mid \in Text, ReadsSpan(s, d, o, acc, now, i, mid)
      PROVE  PassPlaced(s, old, now, i)
  <2> DEFINE span == [tex |-> Trimmed(mid), display |-> d, dollars |-> o]
             N == Len(acc.maths) + 1
             c == Consumed(now, i)
  <2>1. /\ Consumed(acc, i - 1) = i - 1
        /\ c = i + 2 * Margin(d, o) + Len(mid) - 1
        /\ c <= Len(s)
        /\ \A k \in 1 .. Len(mid) : mid[k] = s[k + i + Margin(d, o) - 1]
        /\ \A k \in i .. c :
             k \in i + Margin(d, o) .. i + Margin(d, o) + Len(mid) - 1 \/ s[k] \in Written
        /\ now.text = Append(acc.text, N)
        /\ now.maths = Append(acc.maths, span)
    BY <1>4 DEF ReadsSpan
  <2>2. Margin(d, o) \in 1 .. 2 /\ Len(mid) \in Nat
    BY DEF Margin, Text
  <2>3. span \in Span /\ span.tex = Trimmed(mid)
    BY TrimmedKeeps DEF Span, Text
  <2> HIDE DEF span, c
  <2>0. c \in Int /\ i \in Int /\ i <= c
    <3>1. c = i + 2 * Margin(d, o) + Len(mid) - 1 /\ i \in Int
      BY <1>0, <2>1
    <3> QED BY <2>2, <3>1
  <2>4. /\ Len(now.maths) = N
        /\ \A n \in 1 .. Len(acc.maths) : now.maths[n] = acc.maths[n]
        /\ now.maths[N] = span
    BY <1>0, <2>1, <2>3
  <2>5. N \in Int /\ N > Len(old)
    BY <1>0
  <2>6. IsNowhere(acc.text, N)
    <3>1. N \notin B
      BY <1>0
    <3>2. \A k \in 1 .. Len(acc.text) : acc.text[k] \in B
      <4> HIDE DEF B
      <4> QED BY <1>0
    <3> HIDE DEF B, N
    <3> QED BY <3>1, <3>2 DEF IsNowhere
  <2>7. ASSUME NEW n \in Len(old) + 1 .. Len(now.maths) PROVE IsOnce(now.text, n)
    <3>0. acc.text \in Text /\ n \in Int
      BY <1>0
    <3>1. CASE n = N
      <4> HIDE DEF N
      <4>1. IsOnce(Append(acc.text, N), n)
        BY <2>5, <2>6, <3>0, <3>1, OneMoreToken
      <4> QED BY <2>1, <4>1
    <3>2. CASE n # N
      <4>1. n \in Int /\ n \in Len(old) + 1 .. Len(acc.maths)
        BY <1>0, <2>4, <3>2
      <4>2. IsOnce(acc.text, n)
        BY <4>1 DEF PassPlaced
      <4> HIDE DEF N
      <4>3. IsOnce(Append(acc.text, N), n)
        BY <2>5, <3>0, <3>2, <4>2, OneMoreToken
      <4> QED BY <2>1, <4>3
    <3> QED BY <3>1, <3>2
  <2>8. ASSUME NEW n \in 1 .. Len(old), NEW p \in 1 .. Len(s), IsAt(s, n, p)
        PROVE  /\ p <= c => IsOnce(now.text, n)
                              \/ \E m \in 1 .. Len(now.maths) : n \in Range(now.maths[m].tex)
               /\ p > c => IsNowhere(now.text, n)
    <3>1. /\ p <= i - 1 =>
               IsOnce(acc.text, n) \/ \E m \in 1 .. Len(acc.maths) : n \in Range(acc.maths[m].tex)
          /\ p > i - 1 => IsNowhere(acc.text, n)
      BY <2>1, <2>8 DEF PassPlaced
    <3>2. n \in Int /\ n # N /\ s[p] = n
      BY <1>0, <2>8 DEF IsAt
    <3>3. c \in Int /\ i \in Int /\ p \in Int /\ i <= c + 1
      <4>1. p \in Int
        BY <1>0
      <4> QED BY <2>0, <4>1
    <3>4. CASE p <= i - 1
      <4>1. p <= c
        BY <3>3, <3>4
      <4>2. CASE IsOnce(acc.text, n)
        <5>1. now.text = Append(acc.text, N) /\ acc.text \in Text
          BY <1>0, <2>1
        <5> HIDE DEF N
        <5>2. IsOnce(now.text, n)
          BY <2>5, <3>2, <4>2, <5>1, OneMoreToken
        <5> QED BY <3>3, <4>1, <5>2
      <4>3. ASSUME NEW m \in 1 .. Len(acc.maths), n \in Range(acc.maths[m].tex)
            PROVE  \E k \in 1 .. Len(now.maths) : n \in Range(now.maths[k].tex)
        <5>1. m \in 1 .. Len(now.maths) /\ now.maths[m] = acc.maths[m]
          BY <1>0, <2>4
        <5> QED BY <4>3, <5>1
      <4>4. ~ (p > c)
        BY <2>1, <2>2, <4>1
      <4> QED BY <3>1, <3>4, <4>2, <4>3, <4>4
    <3>5. CASE p > i - 1 /\ p <= c
      <4>1. p \in i .. c
        BY <1>0, <2>1, <2>2, <3>5
      <4>2. s[p] \notin Written
        BY <3>2, WrittenIs
      <4>3. p \in i + Margin(d, o) .. i + Margin(d, o) + Len(mid) - 1
        BY <2>1, <4>1, <4>2
      <4>4. p - i - Margin(d, o) + 1 \in 1 .. Len(mid) /\ p - i - Margin(d, o) + 1 + i + Margin(d, o) - 1 = p
        <5> DEFINE M == Margin(d, o)
                   L == Len(mid)
        <5>1. M \in Int /\ L \in Int /\ i + M <= p /\ p <= i + M + L - 1
          BY <2>2, <3>3, <4>3
        <5> HIDE DEF M, L
        <5>2. p - i - M + 1 \in 1 .. L /\ p - i - M + 1 + i + M - 1 = p
          BY <3>3, <5>1
        <5> QED BY <5>2 DEF M, L
      <4>5. mid[p - i - Margin(d, o) + 1] = n
        BY <2>1, <3>2, <4>4
      <4>6. n \in Range(mid) /\ n # Space
        <5>1. DOMAIN mid = 1 .. Len(mid)
          BY DEF Text
        <5> QED BY <3>2, <4>4, <4>5, <5>1 DEF Range, Space
      <4>7. n \in Range(Trimmed(mid))
        BY <4>6, TrimmedKeeps DEF Text
      <4>8. N \in 1 .. Len(now.maths) /\ n \in Range(now.maths[N].tex)
        BY <1>0, <2>3, <2>4, <4>7
      <4>9. ~ (p > c)
        BY <2>1, <2>2, <3>5
      <4> QED BY <4>8, <4>9
    <3>6. CASE p > c
      <4>1. p > i - 1 /\ ~ (p <= c)
        BY <3>6, <3>3
      <4>2. IsNowhere(acc.text, n)
        BY <3>1, <4>1
      <4>3. now.text = Append(acc.text, N) /\ acc.text \in Text
        BY <1>0, <2>1
      <4> HIDE DEF N
      <4>4. IsNowhere(now.text, n)
        BY <2>5, <3>2, <4>2, <4>3, OneMoreToken
      <4> QED BY <4>1, <4>4
    <3> QED BY <3>4, <3>5, <3>6, <3>3
  <2> QED BY <2>7, <2>8 DEF PassPlaced, c
<1> QED BY <1>1, <1>2, <1>3, <1>4 DEF now

\* What one call of replace() makes of a text s over A, with the spans old found before.
PassMakes(R, s, A, old) ==
  /\ R \in Rendered
  /\ R.text \in Seq(A \cup (Len(old) + 1 .. Len(R.maths)))
  /\ Len(old) <= Len(R.maths) /\ \A n \in 1 .. Len(old) : R.maths[n] = old[n]
  /\ \A n \in Len(old) + 1 .. Len(R.maths) : R.maths[n].tex \in Seq(A)
  /\ \A h \in Pieces :
       /\ h[Space] = << >>
       /\ \A n \in Len(old) + 1 .. Len(R.maths) : h[n] = Rewrite(h, Source(R.maths, n))
       => Rewrite(h, R.text) = Rewrite(h, s)
  /\ \A n \in Len(old) + 1 .. Len(R.maths) : IsOnce(R.text, n)
  /\ \A n \in 1 .. Len(old) : IsOnce(s, n) =>
       IsOnce(R.text, n) \/ \E m \in 1 .. Len(R.maths) : n \in Range(R.maths[m].tex)

\* It makes that: the three invariants hold after its last step.
LEMMA PassDone ==
  ASSUME NEW A \in SUBSET Int, NEW s \in Seq(A), NEW d \in BOOLEAN, NEW old \in Seq(Span),
         \A x \in A : x <= Len(old)
  PROVE  PassMakes(Replace([text |-> s, maths |-> old], d), s, A, old)
<1> DEFINE r == [text |-> s, maths |-> old]
           L == Len(s)
<1>0. s \in Text /\ L \in Nat /\ Len(old) \in Nat /\ r \in Rendered /\ r.text = s /\ r.maths = old
  <2>1. s \in Text /\ L \in Nat
    BY TextOver
  <2> QED BY <2>1 DEF Rendered
<1> HIDE DEF r, L
<1>1. PICK f : IsScan(f, r, d) /\ Replace(r, d) = [text |-> f[L].text, maths |-> f[L].maths]
  BY <1>0, ReplaceScans DEF L
<1>2. /\ f \in [0 .. L -> Scanned]
      /\ f[0] = [done |-> 0, text |-> << >>, maths |-> old]
      /\ \A i \in 1 .. L : f[i] = Scan(s, d, f[i - 1], i)
  BY <1>0, <1>1 DEF IsScan, L
<1> DEFINE Good(i) ==
             /\ PassShape(s, A, old, f[i], i)
             /\ \A h \in Pieces : h[Space] = << >> => PassText(s, h, old, f[i], i)
             /\ PassPlaced(s, old, f[i], i)
           P == {i \in 0 .. L : Good(i)}
<1>3. 0 \in P
  <2>1. f[0].done = 0 /\ f[0].text = << >> /\ f[0].maths = old /\ f[0] \in Scanned
    BY <1>0, <1>2
  <2>2. Consumed(f[0], 0) = 0
    BY <2>1 DEF Consumed
  <2>3. PassShape(s, A, old, f[0], 0)
    <3>1. << >> \in Seq(A \cup (Len(old) + 1 .. Len(old)))
      OBVIOUS
    <3> QED BY <1>0, <2>1, <2>2, <3>1 DEF PassShape, L
  <2>4. ASSUME NEW h \in Pieces PROVE PassText(s, h, old, f[0], 0)
    <3>1. SubSeq(s, 1, 0) = << >>
      <4>1. SubSeq(s, 1, 0) \in Text /\ Len(SubSeq(s, 1, 0)) = 0
        <5>1. /\ SubSeq(s, 1, 0) \in Text /\ Len(SubSeq(s, 1, 0)) = 0 - 1 + 1
              /\ \A k \in 1 .. 0 - 1 + 1 : SubSeq(s, 1, 0)[k] = s[k + 1 - 1]
          BY <1>0, TextCut DEF L
        <5> QED BY <5>1
      <4> QED BY <4>1 DEF Text
    <3> QED BY <2>1, <2>2, <3>1 DEF PassText
  <2>5. PassPlaced(s, old, f[0], 0)
    <3>1. \A n : IsNowhere(f[0].text, n)
      <4>1. Len(f[0].text) = 0
        BY <2>1
      <4> QED BY <4>1 DEF IsNowhere
    <3>2. \A n \in Len(old) + 1 .. Len(f[0].maths) : FALSE
      BY <1>0, <2>1
    <3>3. \A p \in 1 .. Len(s) : ~ (p <= Consumed(f[0], 0))
      BY <2>2
    <3> QED BY <3>1, <3>2, <3>3 DEF PassPlaced
  <2> QED BY <1>0, <2>3, <2>4, <2>5
<1>4. ASSUME NEW i \in 0 .. L - 1, i \in P PROVE i + 1 \in P
  <2>1. i + 1 \in 1 .. L /\ i + 1 - 1 = i /\ i + 1 \in 0 .. L
    BY <1>0
  <2>2. f[i + 1] = Scan(s, d, f[i], i + 1) /\ f[i] \in Scanned
    <3>1. f[i + 1] = Scan(s, d, f[i + 1 - 1], i + 1)
      BY <1>2, <2>1
    <3>2. i \in 0 .. L
      BY <1>0
    <3> QED BY <1>2, <2>1, <3>1, <3>2
  <2>3. Good(i)
    BY <1>4
  <2> DEFINE k   == i + 1
             acc == f[i]
  <2>4. /\ k \in 1 .. Len(s) /\ acc \in Scanned /\ f[k] = Scan(s, d, acc, k)
        /\ PassShape(s, A, old, acc, k - 1) /\ PassPlaced(s, old, acc, k - 1)
        /\ \A h \in Pieces : h[Space] = << >> => PassText(s, h, old, acc, k - 1)
    <3>1. k \in 1 .. Len(s) /\ acc \in Scanned /\ f[k] = Scan(s, d, acc, k) /\ k - 1 = i
      BY <2>1, <2>2 DEF L
    <3> HIDE DEF k
    <3> QED BY <2>3, <3>1
  <2>5. Good(k)
    <3> HIDE DEF k, acc, P
    <3>1. PassShape(s, A, old, f[k], k)
      BY <2>4, PassShapeStep
    <3>2. ASSUME NEW h \in Pieces, h[Space] = << >> PROVE PassText(s, h, old, f[k], k)
      <4>1. PassText(s, h, old, acc, k - 1)
        BY <2>4, <3>2
      <4> QED BY <2>4, <3>2, <4>1, PassTextStep
    <3>3. PassPlaced(s, old, f[k], k)
      BY <2>4, PassPlacedStep
    <3> QED BY <3>1, <3>2, <3>3
  <2> HIDE DEF Good
  <2> QED BY <2>1, <2>5
<1>5. Good(L)
  <2> HIDE DEF P
  <2>1. \A i \in 0 .. L : i \in P
    BY <1>0, <1>3, <1>4, NumberInduction
  <2> QED BY <1>0, <2>1 DEF P
<1> DEFINE R == Replace(r, d)
<1>6. R.text = f[L].text /\ R.maths = f[L].maths /\ R \in Rendered
  <2>1. f[L] \in Scanned
    BY <1>0, <1>2
  <2> QED BY <1>1, <2>1 DEF Scanned, Rendered
<1>7. Consumed(f[L], L) = L
  <2>1. f[L].done \in Nat
    BY <1>0, <1>2 DEF Scanned
  <2>2. Consumed(f[L], L) \in Nat
    BY <1>0, <2>1 DEF Consumed
  <2>3. L <= Consumed(f[L], L) /\ Consumed(f[L], L) <= L
    BY <1>5 DEF PassShape, L
  <2> QED BY <1>0, <2>2, <2>3
<1> HIDE DEF R
<1>8. /\ Len(old) <= Len(R.maths) /\ \A n \in 1 .. Len(old) : R.maths[n] = old[n]
      /\ \A n \in Len(old) + 1 .. Len(R.maths) : R.maths[n].tex \in Seq(A)
      /\ R.text \in Seq(A \cup (Len(old) + 1 .. Len(R.maths)))
  BY <1>5, <1>6 DEF PassShape
<1>9. ASSUME NEW h \in Pieces, h[Space] = << >>,
             \A n \in Len(old) + 1 .. Len(R.maths) : h[n] = Rewrite(h, Source(R.maths, n))
      PROVE  Rewrite(h, R.text) = Rewrite(h, s)
  <2>1. PassText(s, h, old, f[L], L)
    BY <1>5, <1>9
  <2>2. Rewrite(h, R.text) = Rewrite(h, SubSeq(s, 1, L))
    BY <1>6, <1>7, <1>9, <2>1 DEF PassText
  <2>3. SubSeq(s, 1, L) = s
    BY <1>0 DEF L, Text
  <2> QED BY <2>2, <2>3
<1>10. \A n \in Len(old) + 1 .. Len(R.maths) : IsOnce(R.text, n)
  BY <1>5, <1>6 DEF PassPlaced
<1>11. ASSUME NEW n \in 1 .. Len(old), IsOnce(s, n)
       PROVE  IsOnce(R.text, n) \/ \E m \in 1 .. Len(R.maths) : n \in Range(R.maths[m].tex)
  <2>1. PICK p \in 1 .. Len(s) : IsAt(s, n, p)
    BY <1>11 DEF IsOnce, IsAt
  <2>2. p <= Consumed(f[L], L)
    BY <1>0, <1>7 DEF L
  <2> QED BY <1>5, <1>6, <2>1, <2>2 DEF PassPlaced
<1>12. PassMakes(R, s, A, old)
  <2> HIDE DEF Good, P
  <2> QED BY <1>6, <1>8, <1>9, <1>10, <1>11 DEF PassMakes
<1> QED BY <1>12 DEF R, r

\* The two passes together.
LEMMA TwoPasses ==
  ASSUME NEW s \in Seq(Written)
  PROVE  \E M1, M2, t1 :
           /\ PassMakes([text |-> t1, maths |-> M1], s, Written, << >>)
           /\ PassMakes(RenderMarkdown(s), t1, Written \cup 1 .. Len(M1), M1)
           /\ RenderMarkdown(s).maths = M2
           /\ t1 \in Seq(Written \cup 1 .. Len(M1)) /\ M1 \in Seq(Span)
<1> DEFINE R1 == Replace([text |-> s, maths |-> << >>], TRUE)
           B  == Written \cup 1 .. Len(R1.maths)
<1>1. Written \in SUBSET Int /\ \A x \in Written : x <= 0
  BY WrittenIs
<1>2. PassMakes(R1, s, Written, << >>)
  <2>1. << >> \in Seq(Span) /\ Len(<< >>) = 0
    OBVIOUS
  <2> QED BY <1>1, <2>1, PassDone
<1> HIDE DEF R1
<1>3. /\ R1 \in Rendered /\ R1 = [text |-> R1.text, maths |-> R1.maths]
      /\ R1.maths \in Seq(Span) /\ Len(R1.maths) \in Nat
      /\ R1.text \in Seq(Written \cup (Len(<< >>) + 1 .. Len(R1.maths)))
  <2>1. R1 \in Rendered
    BY <1>2 DEF PassMakes
  <2>2. R1 = [text |-> R1.text, maths |-> R1.maths] /\ R1.maths \in Seq(Span)
    BY <2>1 DEF Rendered
  <2>3. Len(R1.maths) \in Nat
    BY <2>2
  <2> QED BY <1>2, <2>1, <2>2, <2>3 DEF PassMakes
<1>4. R1.text \in Seq(B)
  <2>1. Len(<< >>) + 1 = 1
    OBVIOUS
  <2> QED BY <1>3, <2>1
<1>5. B \in SUBSET Int /\ \A x \in B : x <= Len(R1.maths)
  BY <1>1, <1>3
<1> HIDE DEF B
<1>6. PassMakes(Replace(R1, FALSE), R1.text, B, R1.maths)
  <2>1. PassMakes(Replace([text |-> R1.text, maths |-> R1.maths], FALSE), R1.text, B, R1.maths)
    BY <1>3, <1>4, <1>5, PassDone
  <2> QED BY <1>3, <2>1
<1>7. RenderMarkdown(s) = Replace(R1, FALSE)
  BY DEF RenderMarkdown, R1
<1> QED BY <1>2, <1>3, <1>4, <1>6, <1>7 DEF B

-----------------------------------------------------------------------------
(* Post bodies: the two calls, and putting the math back.                  *)

\* Rewriting one token gives its piece.
LEMMA RewriteOne ==
  ASSUME NEW p \in Pieces, NEW x \in Int
  PROVE  Rewrite(p, <<x>>) = p[x]
<1>1. << >> \in Text /\ Append(<< >>, x) = <<x>> /\ p[x] \in Text
  BY DEF Text, Pieces
<1>2. Rewrite(p, Append(<< >>, x)) = Rewrite(p, << >>) \o p[x] /\ Rewrite(p, << >>) = << >>
  BY <1>1, RewriteEquations
<1>3. << >> \o p[x] = p[x]
  BY <1>1 DEF Text
<1> QED BY <1>1, <1>2, <1>3

\* A text rewritten with pieces over a set is a text over that set.
LEMMA RewriteOver ==
  ASSUME NEW A, NEW B, NEW t \in Seq(A), NEW p, \A x \in A : p[x] \in Seq(B)
  PROVE  Rewrite(p, t) \in Seq(B)
<1>1. [i \in DOMAIN t |-> p[t[i]]] \in Seq(Seq(B))
  <2>1. Len(t) \in Nat /\ DOMAIN t = 1 .. Len(t) /\ \A i \in 1 .. Len(t) : t[i] \in A
    OBVIOUS
  <2>2. \A i \in 1 .. Len(t) : p[t[i]] \in Seq(B)
    BY <2>1
  <2> DEFINE C == Seq(B)
  <2> HIDE DEF C
  <2>3. [i \in 1 .. Len(t) |-> p[t[i]]] \in [1 .. Len(t) -> C]
    BY <2>2 DEF C
  <2>4. [i \in 1 .. Len(t) |-> p[t[i]]] \in Seq(C)
    BY <2>1, <2>3
  <2> QED BY <2>1, <2>4 DEF C
<1> QED BY <1>1, Flattened DEF Rewrite

\* The source for each placeholder, and nothing for a space.
Back(maths) == [x \in Int |-> IF x \in 1 .. Len(maths) THEN Source(maths, x) ELSE <<x>>]
Ink == [x \in Int |-> IF x = Space THEN << >> ELSE <<x>>]

\* The source of a span is a text over what its TeX is over.
LEMMA SourceIsText ==
  ASSUME NEW A \in SUBSET Int, NEW maths \in Seq(Span), NEW n \in 1 .. Len(maths),
         Written \subseteq A, maths[n].tex \in Seq(A)
  PROVE  Source(maths, n) \in Seq(A)
<1> DEFINE E == Opening(maths[n].display, maths[n].dollars)
           F == Closing(maths[n].display, maths[n].dollars)
           tex == maths[n].tex
<1>1. maths[n] \in Span
  OBVIOUS
<1>2. maths[n].display \in BOOLEAN /\ maths[n].dollars \in BOOLEAN
  BY <1>1 DEF Span
<1>3. E \in Seq(A) /\ F \in Seq(A)
  <2>1. E \in Seq(Written) /\ F \in Seq(Written)
    BY <1>2, EdgesAre
  <2> HIDE DEF E, F
  <2> QED BY <2>1, SequencesOfMore
<1>4. Source(maths, n) = E \o tex \o F
  BY SourceIs
<1>5. tex \in Seq(A)
  OBVIOUS
<1> HIDE DEF E, F, tex
<1>6. E \o tex \in Seq(A)
  BY <1>3, <1>5
<1>7. E \o tex \o F \in Seq(A)
  BY <1>3, <1>6
<1> QED BY <1>4, <1>7

\* Putting the spans back is rewriting the text with their sources.
LEMMA BackIs ==
  ASSUME NEW maths \in Seq(Span)
  PROVE  /\ Back(maths) \in Pieces
         /\ \A n \in 1 .. Len(maths) : Back(maths)[n] = Source(maths, n)
         /\ \A x \in Int : x <= 0 => Back(maths)[x] = <<x>>
         /\ \A t \in Seq(Written \cup 1 .. Len(maths)) :
              PutBack(maths, t) = Rewrite(Back(maths), t)
<1> DEFINE b == Back(maths)
<1>0. Len(maths) \in Nat /\ Written \subseteq Int /\ Int \in SUBSET Int
  BY WrittenIs
<1>1. \A n \in 1 .. Len(maths) : Source(maths, n) \in Text
  <2> TAKE n \in 1 .. Len(maths)
  <2>1. maths[n].tex \in Seq(Int)
    <3>1. maths[n] \in Span
      OBVIOUS
    <3> QED BY <3>1 DEF Span, Text
  <2> QED BY <1>0, <2>1, SourceIsText DEF Text
<1>2. \A x \in Int : <<x>> \in Text
  BY DEF Text
<1>3. b \in Pieces
  BY <1>1, <1>2 DEF Back, Pieces
<1>4. \A n \in 1 .. Len(maths) : b[n] = Source(maths, n)
  BY <1>0 DEF Back
<1>5. \A x \in Int : x <= 0 => b[x] = <<x>>
  BY <1>0 DEF Back
<1> HIDE DEF b
<1>6. ASSUME NEW t \in Seq(Written \cup 1 .. Len(maths))
      PROVE  PutBack(maths, t) = Rewrite(b, t)
  <2>1. ASSUME NEW x \in Written \cup 1 .. Len(maths)
        PROVE  b[x] = IF x > 0 THEN Source(maths, x) ELSE <<x>>
    <3>1. x \in 1 .. Len(maths) \/ (x \in Int /\ x <= 0 /\ ~ (x > 0))
      BY WrittenIs
    <3>2. x \in 1 .. Len(maths) => x > 0
      BY <1>0
    <3> QED BY <1>4, <1>5, <3>1, <3>2
  <2>2. \A i \in DOMAIN t : t[i] \in Written \cup 1 .. Len(maths)
    OBVIOUS
  <2>3. [i \in DOMAIN t |-> b[t[i]]]
          = [i \in DOMAIN t |-> IF t[i] > 0 THEN Source(maths, t[i]) ELSE <<t[i]>>]
    BY <2>1, <2>2
  <2> QED BY <2>3 DEF PutBack, Rewrite
<1> QED BY <1>3, <1>4, <1>5, <1>6 DEF b

\* Dropping the spaces is rewriting as well.
LEMMA InkIs ==
  /\ Ink \in Pieces /\ Ink[Space] = << >>
  /\ \A t \in Text : Inked(t) = Rewrite(Ink, t)
<1>1. \A x \in Int : <<x>> \in Text /\ << >> \in Text
  BY DEF Text
<1>2. Ink \in Pieces /\ Ink[Space] = << >>
  BY <1>1 DEF Ink, Pieces, Space
<1>3. ASSUME NEW t \in Text PROVE Inked(t) = Rewrite(Ink, t)
  <2>1. \A i \in DOMAIN t : t[i] \in Int
    BY DEF Text
  <2>2. \A x \in Int : Ink[x] = IF x = Space THEN << >> ELSE <<x>>
    BY DEF Ink
  <2>3. [i \in DOMAIN t |-> Ink[t[i]]]
          = [i \in DOMAIN t |-> IF t[i] = Space THEN << >> ELSE <<t[i]>>]
    BY <2>1, <2>2
  <2> QED BY <2>3 DEF Inked, Rewrite
<1> QED BY <1>2, <1>3

\* Putting the math back where it was cut out, in two passes, gives the text.
LEMMA SourceIsBack ==
  ASSUME NEW s \in Seq(Written)
  PROVE  Inked(Restored(RenderMarkdown(s))) = Inked(s)
<1> DEFINE R == RenderMarkdown(s)
<1>1. PICK M1, M2, t1 :
        /\ PassMakes([text |-> t1, maths |-> M1], s, Written, << >>)
        /\ PassMakes(R, t1, Written \cup 1 .. Len(M1), M1)
        /\ R.maths = M2
        /\ t1 \in Seq(Written \cup 1 .. Len(M1)) /\ M1 \in Seq(Span)
  BY TwoPasses
<1> HIDE DEF R
<1> DEFINE N1 == Len(M1)
           N2 == Len(M2)
           A1 == Written \cup 1 .. N1
           A2 == Written \cup 1 .. N2
           b  == Back(M2)
           bb == [x \in Int |-> Rewrite(b, b[x])]
           h1 == [x \in Int |-> Rewrite(Ink, b[x])]
           h2 == [x \in Int |-> Rewrite(Ink, bb[x])]
<1>2. /\ M2 \in Seq(Span) /\ N1 \in Nat /\ N2 \in Nat /\ N1 <= N2
      /\ \A n \in 1 .. N1 : M2[n] = M1[n] /\ M1[n].tex \in Seq(Written)
      /\ \A n \in N1 + 1 .. N2 : M2[n].tex \in Seq(A1)
      /\ R.text \in Seq(A1 \cup (N1 + 1 .. N2))
  <2>1. M2 \in Seq(Span)
    BY <1>1 DEF PassMakes, Rendered
  <2>2. N1 \in Nat /\ N2 \in Nat
    BY <1>1, <2>1
  <2>3. \A n \in 1 .. N1 : M1[n].tex \in Seq(Written)
    <3>1. Len(<< >>) + 1 = 1
      OBVIOUS
    <3>2. \A n \in Len(<< >>) + 1 .. Len(M1) : M1[n].tex \in Seq(Written)
      BY <1>1 DEF PassMakes
    <3> QED BY <3>1, <3>2
  <2> QED BY <1>1, <2>1, <2>2, <2>3 DEF PassMakes
<1>3. /\ Written \in SUBSET Int /\ A1 \in SUBSET Int /\ A2 \in SUBSET Int
      /\ Written \subseteq A1 /\ Written \subseteq A2 /\ A1 \subseteq A2
      /\ \A x \in Written : x <= 0
      /\ Space \in Written
      /\ A1 \cup (N1 + 1 .. N2) = A2
  <2>1. Written \in SUBSET Int /\ (\A x \in Written : x <= 0) /\ Dollar \in Written /\ Space \in Written
    BY WrittenIs
  <2> HIDE DEF N1, N2
  <2> QED BY <1>2, <2>1
<1>4. s \in Text /\ t1 \in Text /\ R.text \in Seq(A2) /\ R.text \in Text
  <2>1. t1 \in Seq(A1)
    BY <1>1
  <2>2. R.text \in Seq(A2)
    BY <1>2, <1>3
  <2> HIDE DEF A1, A2
  <2> QED BY <1>3, <2>1, <2>2, TextOver
<1> HIDE DEF N1, N2, A1, A2
<1>5. /\ b \in Pieces /\ \A n \in 1 .. N2 : b[n] = Source(M2, n)
      /\ \A x \in Int : x <= 0 => b[x] = <<x>>
      /\ \A t \in Seq(A2) : PutBack(M2, t) = Rewrite(b, t)
  BY <1>2, BackIs DEF N2, A2
<1> HIDE DEF b
<1>6. \A t \in Seq(Written) : Rewrite(b, t) = t
  <2>1. \A x \in Written : b[x] = <<x>>
    BY <1>3, <1>5
  <2> QED BY <1>3, <1>5, <2>1, RewriteKeeps
<1>7. \A n \in 1 .. N1 : Source(M2, n) = Source(M1, n) /\ Source(M1, n) \in Seq(Written) /\ n \in 1 .. N2
  <2> TAKE n \in 1 .. N1
  <2>1. M2[n] = M1[n] /\ M1[n].tex \in Seq(Written) /\ n \in 1 .. Len(M1) /\ n \in 1 .. N2
    BY <1>2 DEF N1
  <2>2. Source(M2, n) = Source(M1, n)
    BY <2>1, SourceIs
  <2>3. Source(M1, n) \in Seq(Written)
    BY <1>1, <1>3, <2>1, SourceIsText
  <2> QED BY <2>1, <2>2, <2>3
<1>8. \A n \in N1 + 1 .. N2 : Source(M2, n) \in Seq(A1) /\ n \in 1 .. N2
  <2> TAKE n \in N1 + 1 .. N2
  <2>1. M2[n].tex \in Seq(A1) /\ n \in 1 .. Len(M2) /\ n \in 1 .. N2
    BY <1>2 DEF N2
  <2>2. Written \subseteq A1
    BY <1>3
  <2> QED BY <1>2, <1>3, <2>1, <2>2, SourceIsText
<1>9. /\ bb \in Pieces /\ \A t \in Text : Rewrite(b, Rewrite(b, t)) = Rewrite(bb, t)
      /\ \A x \in Int : bb[x] = Rewrite(b, b[x])
  BY <1>5, RewriteTwice
<1>10. /\ h1 \in Pieces /\ \A t \in Text : Rewrite(Ink, Rewrite(b, t)) = Rewrite(h1, t)
       /\ \A x \in Int : h1[x] = Rewrite(Ink, b[x])
  BY <1>5, InkIs, RewriteTwice
<1> HIDE DEF bb
<1>11. /\ h2 \in Pieces /\ \A t \in Text : Rewrite(Ink, Rewrite(bb, t)) = Rewrite(h2, t)
       /\ \A x \in Int : h2[x] = Rewrite(Ink, bb[x])
  BY <1>9, InkIs, RewriteTwice
<1> HIDE DEF h1, h2
\* Putting back once is enough for what the first pass found.
<1>12. \A x \in A1 : bb[x] = b[x]
  <2> TAKE x \in A1
  <2>1. CASE x \in Written
    <3>1. x \in Int /\ b[x] = <<x>>
      BY <1>3, <1>5, <2>1
    <3>2. Rewrite(b, <<x>>) = b[x]
      BY <1>5, <3>1, RewriteOne
    <3> QED BY <1>9, <3>1, <3>2
  <2>2. CASE x \in 1 .. N1
    <3>1. b[x] \in Seq(Written) /\ x \in Int
      BY <1>5, <1>7, <2>2
    <3> QED BY <1>6, <1>9, <3>1
  <2> QED BY <2>1, <2>2 DEF A1
<1>13. \A t \in Seq(A1) : Rewrite(h2, t) = Rewrite(h1, t)
  <2>1. \A x \in A1 : h2[x] = h1[x]
    BY <1>3, <1>10, <1>11, <1>12
  <2> QED BY <2>1, RewriteAlike
<1>14. h1[Space] = << >> /\ h2[Space] = << >>
  <2>1. Space \in Int /\ Space \in A1 /\ b[Space] = <<Space>>
    BY <1>3, <1>5
  <2>2. h1[Space] = << >>
    BY <1>10, <2>1, InkIs, RewriteOne
  <2> QED BY <1>10, <1>11, <1>12, <2>1, <2>2
<1>15. Rewrite(h1, t1) = Rewrite(Ink, s)
  <2>1. ASSUME NEW n \in 1 .. N1 PROVE h1[n] = Rewrite(h1, Source(M1, n))
    <3>1. n \in Int /\ b[n] = Source(M1, n) /\ Source(M1, n) \in Seq(Written)
      BY <1>5, <1>7
    <3>2. Source(M1, n) \in Text
      BY <1>3, <3>1, TextOver
    <3> QED BY <1>6, <1>10, <3>1, <3>2
  <2>2. Rewrite(h1, t1) = Rewrite(h1, s)
    <3>1. Len(<< >>) + 1 = 1
      OBVIOUS
    <3> QED BY <1>1, <1>10, <1>14, <2>1, <3>1 DEF PassMakes, N1
  <2>3. Rewrite(h1, s) = Rewrite(Ink, s)
    BY <1>4, <1>6, <1>10
  <2> QED BY <2>2, <2>3
<1>16. Rewrite(h2, R.text) = Rewrite(h2, t1)
  <2>1. ASSUME NEW n \in N1 + 1 .. N2 PROVE h2[n] = Rewrite(h2, Source(M2, n))
    <3>1. n \in Int /\ b[n] = Source(M2, n) /\ Source(M2, n) \in Seq(A1)
      BY <1>2, <1>5, <1>8
    <3>2. Source(M2, n) \in Text
      BY <1>3, <3>1, TextOver
    <3>3. h2[n] = Rewrite(Ink, Rewrite(b, Source(M2, n)))
      BY <1>9, <1>11, <3>1
    <3>4. h2[n] = Rewrite(h1, Source(M2, n))
      BY <1>10, <3>2, <3>3
    <3> QED BY <1>13, <3>1, <3>4
  <2> QED BY <1>1, <1>11, <1>14, <2>1 DEF PassMakes, N1, N2
<1>17. Rewrite(h2, R.text) = Rewrite(Ink, s)
  <2>1. t1 \in Seq(A1)
    BY <1>1 DEF A1, N1
  <2> QED BY <1>13, <1>15, <1>16, <2>1
<1>18. Restored(R) = Rewrite(bb, R.text)
  <2>1. PutBack(M2, R.text) = Rewrite(b, R.text)
    BY <1>4, <1>5
  <2>2. Rewrite(b, R.text) \in Seq(A2)
    <3>1. ASSUME NEW x \in A2 PROVE b[x] \in Seq(A2)
      <4>1. CASE x \in Written
        <5>1. b[x] = <<x>>
          BY <1>3, <1>5, <4>1
        <5>2. <<x>> \in Seq(A2)
          OBVIOUS
        <5> QED BY <5>1, <5>2
      <4>2. CASE x \in 1 .. N2
        <5>1. b[x] = Source(M2, x) /\ (x \in 1 .. N1 \/ x \in N1 + 1 .. N2)
          BY <1>2, <1>5, <4>2
        <5>2. CASE x \in 1 .. N1
          <6>1. b[x] \in Seq(Written) /\ Written \subseteq A2
            BY <1>3, <1>7, <5>1, <5>2
          <6> QED BY <6>1, SequencesOfMore
        <5>3. CASE x \in N1 + 1 .. N2
          <6>1. b[x] \in Seq(A1) /\ A1 \subseteq A2
            BY <1>3, <1>8, <5>1, <5>3
          <6> QED BY <6>1, SequencesOfMore
        <5> QED BY <5>1, <5>2, <5>3
      <4> QED BY <4>1, <4>2 DEF A2
    <3> QED BY <1>4, <3>1, RewriteOver
  <2>3. Restored(R) = Rewrite(b, Rewrite(b, R.text))
    BY <1>1, <1>5, <2>1, <2>2 DEF Restored
  <2> QED BY <1>4, <1>9, <2>3
<1>19. Inked(Restored(R)) = Rewrite(h2, R.text)
  <2>1. Rewrite(bb, R.text) \in Text
    BY <1>4, <1>9, RewriteEquations
  <2> QED BY <1>4, <1>11, <1>18, <2>1, InkIs
<1>20. Inked(s) = Rewrite(Ink, s)
  BY <1>4, InkIs
<1> QED BY <1>17, <1>19, <1>20 DEF R

\* The tokens of a text that stand at the places S.
Picked(t, S) == FlattenSeq([i \in DOMAIN t |-> IF i \in S THEN <<t[i]>> ELSE << >>])

\* A token that is in a text at one place, which is picked, is once in what is picked.
LEMMA PickedOnce ==
  ASSUME NEW t \in Text, NEW S
  PROVE  /\ Picked(t, S) \in Text
         /\ \A n \in Int, p \in S : IsAt(t, n, p) => IsOnce(Picked(t, S), n)
<1> DEFINE L == Len(t)
           part(i) == IF i \in S THEN <<t[i]>> ELSE << >>
           each(k) == [i \in 1 .. k |-> part(i)]
           flat(k) == FlattenSeq(each(k))
<1>1. L \in Nat /\ DOMAIN t = 1 .. L /\ \A i \in 1 .. L : t[i] \in Int
  BY DEF Text
<1>2. Picked(t, S) = flat(L)
  BY <1>1 DEF Picked
<1> HIDE DEF L
<1>3. \A i \in 1 .. L : part(i) \in Text
  <2> TAKE i \in 1 .. L
  <2>1. t[i] \in Int
    BY <1>1
  <2>2. <<t[i]>> \in Text /\ << >> \in Text
    BY <2>1 DEF Text
  <2> QED BY <2>2
<1>4. ASSUME NEW k \in 0 .. L PROVE each(k) \in Seq(Text)
  <2>1. k \in Nat /\ \A i \in 1 .. k : i \in 1 .. L
    BY <1>1
  <2> HIDE DEF part
  <2>2. each(k) \in [1 .. k -> Text]
    BY <1>3, <2>1
  <2> QED BY <2>1, <2>2
<1>5. ASSUME NEW k \in 0 .. L - 1 PROVE each(k + 1) = Append(each(k), part(k + 1))
  <2>1. k \in Nat
    BY <1>1
  <2> HIDE DEF part
  <2>2. each(k) \in Seq({part(i) : i \in 1 .. k}) /\ Len(each(k)) = k
    BY <2>1
  <2> QED BY <2>1, <2>2
<1>6. flat(0) = << >>
  <2>1. each(0) = << >>
    OBVIOUS
  <2> QED BY <2>1, Flattened
<1>7. \A k \in 0 .. L : flat(k) \in Text
  BY <1>4, Flattened DEF Text
<1>8. ASSUME NEW k \in 0 .. L - 1 PROVE flat(k + 1) = flat(k) \o part(k + 1)
  <2>1. each(k) \in Seq(Text) /\ part(k + 1) \in Text
    BY <1>1, <1>3, <1>4
  <2> HIDE DEF each, part
  <2> QED BY <1>5, <2>1, Flattened DEF Text
<1> HIDE DEF each, flat
<1>9. ASSUME NEW n \in Int, NEW p \in S, IsAt(t, n, p) PROVE IsOnce(flat(L), n)
  <2>1. p \in 1 .. L /\ t[p] = n /\ \A q \in 1 .. L : t[q] = n => q = p
    BY <1>9 DEF IsAt, L
  <2> DEFINE Good(k) == /\ k < p => IsNowhere(flat(k), n)
                        /\ p <= k => IsOnce(flat(k), n)
             P == {k \in 0 .. L : Good(k)}
  <2>2. 0 \in P
    <3>1. IsNowhere(<< >>, n)
      BY DEF IsNowhere
    <3> QED BY <1>1, <1>6, <2>1, <3>1
  <2>3. ASSUME NEW k \in 0 .. L - 1, k \in P PROVE k + 1 \in P
    <3>1. k + 1 \in 0 .. L /\ k + 1 \in 1 .. L /\ k \in 0 .. L /\ Good(k)
      BY <1>1, <2>3
    <3>2. flat(k) \in Text /\ t[k + 1] \in Int /\ (t[k + 1] = n <=> k + 1 = p)
      BY <1>1, <1>7, <2>1, <3>1
    <3>3. CASE k + 1 \in S
      <4>1. flat(k + 1) = Append(flat(k), t[k + 1])
        <5>1. part(k + 1) = <<t[k + 1]>>
          BY <3>3
        <5> QED BY <1>8, <3>2, <5>1 DEF Text
      <4>2. /\ IsOnce(flat(k), n) /\ t[k + 1] # n => IsOnce(flat(k + 1), n)
            /\ IsNowhere(flat(k), n) /\ t[k + 1] = n => IsOnce(flat(k + 1), n)
            /\ IsNowhere(flat(k), n) /\ t[k + 1] # n => IsNowhere(flat(k + 1), n)
        BY <3>2, <4>1, OneMoreToken
      <4> QED BY <2>1, <3>1, <3>2, <4>2
    <3>4. CASE k + 1 \notin S
      <4>1. flat(k + 1) = flat(k)
        <5>1. part(k + 1) = << >>
          BY <3>4
        <5>2. \A u \in Text : u \o << >> = u
          BY DEF Text
        <5> HIDE DEF part
        <5> QED BY <1>8, <3>2, <5>1, <5>2
      <4> QED BY <2>1, <3>1, <3>4, <4>1
    <3> QED BY <3>3, <3>4
  <2> HIDE DEF Good
  <2>4. L \in P
    <3>1. \A k \in 0 .. L : k \in P
      <4> HIDE DEF P
      <4> QED BY <1>1, <2>2, <2>3, NumberInduction
    <3> QED BY <1>1, <3>1
  <2> QED BY <1>1, <2>1, <2>4 DEF Good
<1> QED BY <1>1, <1>2, <1>7, <1>9

\* A token that is in a text once is the token of one place.
LEMMA OnceIsOne ==
  ASSUME NEW t \in Text, NEW n \in Int, IsOnce(t, n)
  PROVE  Cardinality({i \in DOMAIN t : t[i] = n}) = 1
<1>1. DOMAIN t = 1 .. Len(t)
  BY DEF Text
<1>2. PICK k \in 1 .. Len(t) : t[k] = n /\ \A j \in 1 .. Len(t) : t[j] = n => j = k
  BY DEF IsOnce
<1>3. {i \in DOMAIN t : t[i] = n} = {k}
  BY <1>1, <1>2
<1> QED BY <1>3, FS_Singleton

\* The text that is rendered, and the numbers of its spans.
LEMMA RenderedIs ==
  ASSUME NEW s \in Seq(Written)
  PROVE  /\ RenderMarkdown(s) \in Rendered
         /\ \A n \in 1 .. Len(RenderMarkdown(s).maths) :
              IsOnce(RenderMarkdown(s).text, n) \/ Swallowed(RenderMarkdown(s), n)
<1> DEFINE R == RenderMarkdown(s)
<1>1. PICK M1, M2, t1 :
        /\ PassMakes([text |-> t1, maths |-> M1], s, Written, << >>)
        /\ PassMakes(R, t1, Written \cup 1 .. Len(M1), M1)
        /\ R.maths = M2
        /\ t1 \in Seq(Written \cup 1 .. Len(M1)) /\ M1 \in Seq(Span)
  BY TwoPasses
<1> HIDE DEF R
<1>2. R \in Rendered /\ M2 \in Seq(Span) /\ Len(M1) \in Nat /\ Len(M2) \in Nat
  BY <1>1 DEF PassMakes, Rendered
<1>3. ASSUME NEW n \in 1 .. Len(M2) PROVE IsOnce(R.text, n) \/ Swallowed(R, n)
  <2>1. CASE n \in 1 .. Len(M1)
    <3>1. IsOnce(t1, n)
      <4>1. Len(<< >>) + 1 = 1
        OBVIOUS
      <4> QED BY <1>1, <2>1, <4>1 DEF PassMakes
    <3>2. IsOnce(R.text, n) \/ \E m \in 1 .. Len(R.maths) : n \in Range(R.maths[m].tex)
      BY <1>1, <2>1, <3>1 DEF PassMakes
    <3>3. DOMAIN R.maths = 1 .. Len(R.maths)
      BY <1>1, <1>2
    <3> QED BY <3>2, <3>3 DEF Swallowed
  <2>2. CASE n \in Len(M1) + 1 .. Len(M2)
    BY <1>1, <2>2 DEF PassMakes
  <2> QED BY <1>2, <2>1, <2>2
<1> QED BY <1>1, <1>2, <1>3 DEF R

\* Every span is shown once, is in code, or is inside another span.
LEMMA MathHasItsPlace ==
  ASSUME NEW s \in Seq(Written), NEW n \in 1 .. Len(RenderMarkdown(s).maths)
  PROVE  LET b == Dressed(RenderMarkdown(s))
         IN  \/ Cardinality({i \in DOMAIN b.shown : b.shown[i] = n}) = 1
             \/ \E i \in DOMAIN b.text : b.text[i] = n /\ InCode(b.text, i)
             \/ Swallowed(b, n)
<1> DEFINE R == RenderMarkdown(s)
           b == Dressed(R)
           S == {i \in DOMAIN R.text : R.text[i] > 0 /\ ~ InCode(R.text, i)}
<1>1. R \in Rendered /\ n \in 1 .. Len(R.maths) /\ (IsOnce(R.text, n) \/ Swallowed(R, n))
  BY RenderedIs
<1>2. b.text = R.text /\ b.maths = R.maths /\ b.shown = Picked(R.text, S)
  BY DEF Dressed, Placeholders, Picked
<1>3. CASE Swallowed(R, n)
  BY <1>2, <1>3 DEF Swallowed
<1>4. CASE IsOnce(R.text, n)
  <2>1. /\ R.text \in Text /\ n \in Int /\ n > 0
        /\ DOMAIN R.text = 1 .. Len(R.text)
    BY <1>1 DEF Rendered, Text
  <2>2. PICK p \in 1 .. Len(R.text) : IsAt(R.text, n, p)
    BY <1>4 DEF IsOnce, IsAt
  <2>3. R.text[p] = n
    BY <2>2 DEF IsAt
  <2>4. CASE InCode(R.text, p)
    BY <1>2, <2>1, <2>3, <2>4
  <2>5. CASE p \in S
    <3> HIDE DEF S, R, b
    <3>1. Picked(R.text, S) \in Text /\ IsOnce(Picked(R.text, S), n)
      BY <2>1, <2>2, <2>5, PickedOnce
    <3>2. Cardinality({i \in DOMAIN b.shown : b.shown[i] = n}) = 1
      BY <1>2, <2>1, <3>1, OnceIsOne
    <3> QED BY <3>2 DEF R, b
  <2> QED BY <2>1, <2>3, <2>4, <2>5
<1> QED BY <1>1, <1>3, <1>4

-----------------------------------------------------------------------------
(* PostBody: types.                                                        *)

\* How many placeholders there are is a number, and settled.
LEMMA CountIsNat == TypeOK => Count \in Nat
<1> SUFFICES ASSUME TypeOK PROVE Count \in Nat
  OBVIOUS
<1> DEFINE R == RenderMarkdown(raw)
           S == {i \in DOMAIN R.text : R.text[i] > 0 /\ ~ InCode(R.text, i)}
<1>1. R.text \in Text
  <2>1. raw \in Seq(Written)
    BY PostBodyAssumption DEF TypeOK
  <2>2. R \in Rendered
    BY <2>1, RenderedIs
  <2> QED BY <2>2 DEF Rendered
<1>2. body.shown = Picked(R.text, S)
  BY DEF TypeOK, Dressed, Placeholders, Picked
<1> HIDE DEF R, S
<1>3. body.shown \in Text
  BY <1>1, <1>2, PickedOnce
<1> QED BY <1>3 DEF Count, Text

\* No action changes the post.
LEMMA CountIsSettled == [Next]_vars => UNCHANGED page_
<1> SUFFICES ASSUME [Next]_vars PROVE UNCHANGED page_
  OBVIOUS
<1>1. ASSUME NEW h \in Hosts, Mount(h) \/ Unmount(h)
      PROVE  UNCHANGED page_
  BY <1>1 DEF Mount, Unmount
<1>2. CASE Settle
  BY <1>2 DEF Settle, GrammarSettles, DocumentSettles
<1>3. ASSUME NEW r \in Runs, Step(r)
      PROVE  UNCHANGED page_
  BY <1>3 DEF Step, Highlight, CopyButtons, MathStyles, NextSpan, Typeset
<1>4. CASE UNCHANGED vars
  BY <1>4 DEF vars
<1> QED BY <1>1, <1>2, <1>3, <1>4 DEF Next

\* Every step keeps the types.
LEMMA TypeStep == TypeOK /\ BodyInv /\ [Next]_vars => TypeOK'
<1> SUFFICES ASSUME TypeOK, BodyInv, [Next]_vars PROVE TypeOK'
  OBVIOUS
<1>0. UNCHANGED page_ /\ Count \in Nat
  BY CountIsNat, CountIsSettled
<1>1. ASSUME NEW h \in Hosts, Mount(h)
      PROVE  TypeOK'
  <2> PICK runs \in SUBSET Runs : StartCode(h, runs) /\ StartMath(h, runs)
    BY <1>1 DEF Mount, Runs
  <2>1. /\ place' = [place EXCEPT ![h] = "in"]
        /\ UNCHANGED <<loaded, painted, buttons, faults>>
    BY <1>1 DEF Mount
  <2>2. Wanted(h) \subseteq Languages
    BY DEF Wanted
  <2>3. /\ flying' \in SUBSET Languages /\ pending' \in SUBSET Languages
        /\ needs' \in [Runs -> SUBSET Languages]
        /\ code' \in [Runs -> {"unborn", "waiting", "bare", "highlighted", "over"}]
    BY <2>2 DEF StartCode, TypeOK
  <2>4. /\ doc' \in {"none", "loading", "ready", "failed"}
        /\ styles' = styles
        /\ math' \in [Runs -> {"unborn", "styles", "loop", "typesetting", "over"}]
        /\ at' \in [Runs -> Nat]
    BY DEF StartMath, TypeOK
  <2>5. spans' \in [Hosts -> Seq({"blank", "set", "source"})]
    <3>1. [i \in 1 .. Count |-> "blank"] \in Seq({"blank", "set", "source"})
      BY <1>0
    <3> QED BY <3>1 DEF StartMath, TypeOK
  <2>6. place' \in [Hosts -> {"out", "in", "gone"}]
    BY <2>1 DEF TypeOK
  <2> QED BY <1>0, <2>1, <2>3, <2>4, <2>5, <2>6 DEF TypeOK, page_
<1>2. ASSUME NEW h \in Hosts, Unmount(h)
      PROVE  TypeOK'
  <2>1. place' \in [Hosts -> {"out", "in", "gone"}]
    BY <1>2 DEF Unmount, TypeOK
  <2> QED BY <1>2, <2>1 DEF Unmount, TypeOK, page_, code_, math_
<1>3. ASSUME NEW l \in Languages, NEW arrived \in BOOLEAN, GrammarSettles(l, arrived)
      PROVE  TypeOK'
  <2>1. /\ faults' \in 0 .. MaxFaults
        /\ flying' \in SUBSET Languages /\ pending' \in SUBSET Languages
        /\ loaded' \in SUBSET Languages
    BY <1>3, PostBodyAssumption DEF GrammarSettles, PendingAfter, TypeOK
  <2>2. /\ needs' \in [Runs -> SUBSET Languages]
        /\ code' \in [Runs -> {"unborn", "waiting", "bare", "highlighted", "over"}]
    BY <1>3 DEF GrammarSettles, TypeOK
  <2>3. UNCHANGED <<page_, place, painted, buttons, math_>>
    BY <1>3 DEF GrammarSettles
  <2> QED BY <2>1, <2>2, <2>3 DEF TypeOK, page_, math_
<1>4. ASSUME NEW arrived \in BOOLEAN, DocumentSettles(arrived)
      PROVE  TypeOK'
  <2>1. /\ faults' \in 0 .. MaxFaults
        /\ doc' \in {"none", "loading", "ready", "failed"}
        /\ UNCHANGED <<page_, place, code_, styles, math, at, spans>>
    BY <1>4, PostBodyAssumption DEF DocumentSettles, TypeOK
  <2> QED BY <2>1 DEF TypeOK, page_, code_
<1>5. ASSUME NEW r \in Runs, Highlight(r)
      PROVE  TypeOK'
  <2>1. /\ code' \in [Runs -> {"unborn", "waiting", "bare", "highlighted", "over"}]
        /\ painted' \in [Hosts -> Nat]
    BY <1>5 DEF Highlight, TypeOK, Host, Runs
  <2> QED BY <1>5, <2>1 DEF Highlight, TypeOK, page_, math_
<1>6. ASSUME NEW r \in Runs, CopyButtons(r)
      PROVE  TypeOK'
  <2>1. /\ code' \in [Runs -> {"unborn", "waiting", "bare", "highlighted", "over"}]
        /\ buttons' \in [Hosts -> Nat]
    BY <1>6 DEF CopyButtons, TypeOK, Host, Runs
  <2> QED BY <1>6, <2>1 DEF CopyButtons, TypeOK, page_, math_
<1>7. ASSUME NEW r \in Runs, MathStyles(r)
      PROVE  TypeOK'
  <2>1. /\ math' \in [Runs -> {"unborn", "styles", "loop", "typesetting", "over"}]
        /\ styles' \in Nat
    BY <1>7 DEF MathStyles, TypeOK
  <2> QED BY <1>7, <2>1 DEF MathStyles, TypeOK, page_, code_
<1>8. ASSUME NEW r \in Runs, NextSpan(r)
      PROVE  TypeOK'
  <2>1. math' \in [Runs -> {"unborn", "styles", "loop", "typesetting", "over"}]
    BY <1>8 DEF NextSpan, TypeOK
  <2> QED BY <1>8, <2>1 DEF NextSpan, TypeOK, page_, code_
<1>9. ASSUME NEW r \in Runs, NEW result, Typeset(r, result)
      PROVE  TypeOK'
  <2>1. /\ math' \in [Runs -> {"unborn", "styles", "loop", "typesetting", "over"}]
        /\ at' \in [Runs -> Nat]
    <3>1. CASE LooksCancelled(r)
      BY <1>9, <3>1 DEF Typeset, TypeOK
    <3>2. CASE ~ LooksCancelled(r)
      <4>1. /\ math' = [math EXCEPT ![r] = "loop"]
            /\ at' = [at EXCEPT ![r] = @ + 1]
        BY <1>9, <3>2 DEF Typeset
      <4> QED BY <4>1 DEF TypeOK
    <3> QED BY <3>1, <3>2
  <2>2. spans' \in [Hosts -> Seq({"blank", "set", "source"})]
    <3>1. CASE LooksCancelled(r)
      BY <1>9, <3>1 DEF Typeset, TypeOK
    <3>2. CASE ~ LooksCancelled(r)
      <4> DEFINE show == IF result = "node" THEN "set" ELSE AfterError
                 old  == spans[Host(r)]
                 new  == [old EXCEPT ![at[r]] = show]
      <4>1. spans' = [spans EXCEPT ![Host(r)] = new]
        BY <1>9, <3>2 DEF Typeset
      <4>2. show \in {"blank", "set", "source"}
        BY DEF AfterError
      <4>3. old \in Seq({"blank", "set", "source"})
        BY DEF TypeOK, Host, Runs
      <4>4. new \in Seq({"blank", "set", "source"})
        <5>1. old \in [1 .. Len(old) -> {"blank", "set", "source"}]
                /\ Len(old) \in Nat
          BY <4>3
        <5> HIDE DEF old, show
        <5>2. new \in [1 .. Len(old) -> {"blank", "set", "source"}]
          BY <4>2, <5>1
        <5> QED BY <5>1, <5>2
      <4> QED BY <4>1, <4>4 DEF TypeOK
    <3> QED BY <3>1, <3>2
  <2> QED BY <1>9, <2>1, <2>2 DEF Typeset, TypeOK, page_, code_
<1>10. CASE UNCHANGED vars
  BY <1>10 DEF vars, TypeOK, page_, code_, math_
<1> QED BY <1>1, <1>2, <1>3, <1>4, <1>5, <1>6, <1>7, <1>8, <1>9, <1>10
           DEF Next, Settle, Step

-----------------------------------------------------------------------------
(* PostBody: the invariant.                                                *)

\* A host that is gone does not come back, and a second run has come to stay.
LEMMA CancelledForGood ==
  ASSUME TypeOK, [Next]_vars, NEW r \in Runs, Cancelled(r)
  PROVE  Cancelled(r)'
<1>1. /\ Host(r) \in Hosts /\ <<Host(r), 2>> \in Runs
  BY DEF Host, Runs
<1>2. ASSUME NEW h \in Hosts, Mount(h)
      PROVE  Cancelled(r)'
  <2> PICK runs \in SUBSET Runs : StartCode(h, runs)
    BY <1>2 DEF Mount, Runs
  <2>1. code'[<<Host(r), 2>>] \in {"waiting", code[<<Host(r), 2>>]}
    BY <1>1 DEF StartCode
  <2>2. place[Host(r)] = "gone" => place'[Host(r)] = "gone"
    BY <1>1, <1>2 DEF Mount, TypeOK
  <2> QED BY <2>1, <2>2 DEF Cancelled
<1>3. ASSUME NEW h \in Hosts, Unmount(h)
      PROVE  Cancelled(r)'
  BY <1>1, <1>3 DEF Unmount, Cancelled, TypeOK, code_
<1>4. ASSUME NEW l \in Languages, NEW arrived \in BOOLEAN, GrammarSettles(l, arrived)
      PROVE  Cancelled(r)'
  BY <1>1, <1>4 DEF GrammarSettles, Cancelled
<1>5. ASSUME NEW s \in Runs, Highlight(s) \/ CopyButtons(s)
      PROVE  Cancelled(r)'
  BY <1>1, <1>5 DEF Highlight, CopyButtons, Cancelled, TypeOK
<1>6. CASE UNCHANGED <<place, code>>
  BY <1>6 DEF Cancelled
<1>7. ASSUME NEW arrived \in BOOLEAN, DocumentSettles(arrived)
      PROVE  Cancelled(r)'
  BY <1>6, <1>7 DEF DocumentSettles, code_
<1>8. ASSUME NEW s \in Runs, NEW result, MathStyles(s) \/ NextSpan(s) \/ Typeset(s, result)
      PROVE  Cancelled(r)'
  BY <1>6, <1>8 DEF MathStyles, NextSpan, Typeset, code_
<1>9. CASE UNCHANGED vars
  BY <1>6, <1>9 DEF vars, code_
<1> QED BY <1>2, <1>3, <1>4, <1>5, <1>7, <1>8, <1>9 DEF Next, Settle, Step

\* A run that does not move keeps what holds of it, while placeholders are filled
\* and never emptied.
LEMMA RunFrame ==
  ASSUME TypeOK, [Next]_vars, NEW r \in Runs, RunOK(r),
         code'[r] = "unborn" <=> code[r] = "unborn",
         place'[Host(r)] = "out" <=> place[Host(r)] = "out",
         math'[r] = math[r], at'[r] = at[r],
         doc = "failed" => doc' = "failed",
         DOMAIN spans'[Host(r)] = DOMAIN spans[Host(r)],
         \A i \in DOMAIN spans[Host(r)] :
           spans'[Host(r)][i] = "blank" => spans[Host(r)][i] = "blank"
  PROVE  RunOK(r)'
<1>1. Count' = Count
  BY CountIsSettled DEF page_, Count
<1>2. ~ Cancelled(r)' => ~ Cancelled(r)
  BY CancelledForGood
<1>3. \A n : DoneBefore(Host(r), n) => DoneBefore(Host(r), n)'
  BY DEF DoneBefore
<1> QED BY <1>1, <1>2, <1>3 DEF RunOK, DoneBefore

\* Every step keeps what is said of each run.
LEMMA RunsStep == TypeOK /\ BodyInv /\ [Next]_vars => \A r \in Runs : RunOK(r)'
<1> SUFFICES ASSUME TypeOK, BodyInv, [Next]_vars, NEW r \in Runs
             PROVE  RunOK(r)'
  OBVIOUS
<1> DEFINE g == Host(r)
<1>0. /\ RunOK(r) /\ g \in Hosts /\ r = <<g, r[2]>> /\ r[2] \in {1, 2}
      /\ Count \in Nat /\ Count' = Count
      /\ ~ Cancelled(r)' => ~ Cancelled(r)
  BY CountIsNat, CountIsSettled, CancelledForGood DEF BodyInv, Host, Runs, page_, Count
<1>1. ASSUME NEW h \in Hosts, Mount(h)
      PROVE  RunOK(r)'
  <2> DEFINE runs == {<<h, 1>>} \cup (IF twice THEN {<<h, 2>>} ELSE {})
  <2>1. /\ place[h] = "out" /\ place' = [place EXCEPT ![h] = "in"]
        /\ StartCode(h, runs) /\ StartMath(h, runs)
    BY <1>1 DEF Mount
  <2>2. \A s \in runs : Host(s) = h
    BY DEF Host
  <2>3. r[2] = 1 /\ g = h => r \in runs
    BY <1>0
  <2> HIDE DEF runs
  <2>4. /\ code'[r] = IF r \in runs THEN "waiting" ELSE code[r]
        /\ math'[r] = IF r \notin runs THEN math[r]
                      ELSE IF styles > 0 THEN "loop" ELSE "styles"
        /\ at'[r] = IF r \in runs THEN 1 ELSE at[r]
        /\ doc = "failed" => doc' = "failed"
        /\ spans' = [spans EXCEPT ![h] = [i \in 1 .. Count |-> "blank"]]
    BY <2>1 DEF StartCode, StartMath
  <2>5. CASE g # h
    <3>1. r \notin runs /\ place'[g] = place[g] /\ spans'[g] = spans[g]
      BY <1>0, <2>1, <2>2, <2>4, <2>5 DEF TypeOK
    <3> QED BY <1>0, <2>4, <3>1, RunFrame
  <2>6. CASE g = h /\ r \in runs
    <3>1. place'[g] = "in" /\ spans'[g] = [i \in 1 .. Count |-> "blank"]
      BY <1>0, <2>1, <2>4, <2>6 DEF TypeOK
    <3>2. DoneBefore(g, at[r])'
      <4>1. at'[r] = 1 /\ DOMAIN spans'[g] = 1 .. Count
        BY <2>4, <2>6, <3>1
      <4> QED BY <1>0, <4>1 DEF DoneBefore
    <3> QED BY <2>4, <2>6, <3>1, <3>2 DEF RunOK
  <2>7. CASE g = h /\ r \notin runs
    <3>1. code'[r] = "unborn" /\ math'[r] = "unborn" /\ r[2] # 1
      BY <1>0, <2>1, <2>3, <2>4, <2>7 DEF RunOK
    <3> QED BY <3>1 DEF RunOK
  <2> QED BY <2>5, <2>6, <2>7
<1>2. ASSUME NEW h \in Hosts, Unmount(h)
      PROVE  RunOK(r)'
  <2>1. place'[g] = "out" <=> place[g] = "out"
    BY <1>0, <1>2 DEF Unmount, TypeOK
  <2> QED BY <1>0, <1>2, <2>1, RunFrame DEF Unmount, code_, math_
<1>3. ASSUME NEW l \in Languages, NEW arrived \in BOOLEAN, GrammarSettles(l, arrived)
      PROVE  RunOK(r)'
  <2>1. /\ code'[r] = "unborn" <=> code[r] = "unborn"
        /\ UNCHANGED <<place, math_>>
    BY <1>3 DEF GrammarSettles
  <2> QED BY <1>0, <2>1, RunFrame DEF math_
<1>4. ASSUME NEW arrived \in BOOLEAN, DocumentSettles(arrived)
      PROVE  RunOK(r)'
  BY <1>0, <1>4, RunFrame DEF DocumentSettles, code_
<1>5. ASSUME NEW s \in Runs, Highlight(s) \/ CopyButtons(s)
      PROVE  RunOK(r)'
  <2>1. /\ code'[r] = "unborn" <=> code[r] = "unborn"
        /\ UNCHANGED <<place, math_>>
    BY <1>5 DEF Highlight, CopyButtons, TypeOK
  <2> QED BY <1>0, <2>1, RunFrame DEF math_
<1>6. ASSUME NEW s \in Runs, MathStyles(s)
      PROVE  RunOK(r)'
  <2>1. /\ math[s] = "styles" /\ doc \in {"ready", "failed"}
        /\ math' = [math EXCEPT ![s] = IF doc = "ready" THEN "loop" ELSE "over"]
        /\ UNCHANGED <<place, code_, doc, at, spans>>
    BY <1>6 DEF MathStyles
  <2>2. CASE r # s
    BY <1>0, <2>1, <2>2, RunFrame DEF code_, TypeOK
  <2>3. CASE r = s
    <3>1. CASE doc = "ready"
      <4>1. math'[r] = "loop"
        BY <2>1, <2>3, <3>1 DEF TypeOK
      <4>2. at[r] = 1
        BY <1>0, <2>1, <2>3 DEF RunOK
      <4>3. DoneBefore(g, at[r])'
        BY <1>0, <2>1, <4>2 DEF DoneBefore, TypeOK
      <4> QED BY <1>0, <2>1, <2>3, <4>1, <4>3 DEF RunOK, code_
    <3>2. CASE doc = "failed"
      <4>1. math'[r] = "over"
        BY <2>1, <2>3, <3>2 DEF TypeOK
      <4> QED BY <1>0, <2>1, <2>3, <3>2, <4>1 DEF RunOK, code_
    <3> QED BY <2>1, <3>1, <3>2
  <2> QED BY <2>2, <2>3
<1>7. ASSUME NEW s \in Runs, NextSpan(s)
      PROVE  RunOK(r)'
  <2>1. /\ math[s] = "loop"
        /\ math' = [math EXCEPT ![s] =
             IF at[s] > Count \/ Cancelled(s) THEN "over" ELSE "typesetting"]
        /\ UNCHANGED <<page_, place, code_, doc, at, spans>>
    BY <1>7 DEF NextSpan
  <2>2. CASE r # s
    BY <1>0, <2>1, <2>2, RunFrame DEF code_, TypeOK
  <2>3. CASE r = s
    <3>1. at[r] \in Nat /\ DOMAIN spans[g] = 1 .. Len(spans[g]) /\ place[g] # "out"
            /\ Len(spans[g]) = Count
      BY <1>0, <2>1, <2>3 DEF TypeOK, BodyInv, RunOK
    <3>2. \A n : DoneBefore(g, n)' <=> DoneBefore(g, n)
      BY <2>1 DEF DoneBefore
    <3>3. CASE Cancelled(r)
      <4>1. Cancelled(r)' /\ math'[r] = "over"
        BY <2>1, <2>3, <3>3, CancelledForGood DEF TypeOK
      <4> QED BY <1>0, <2>1, <2>3, <4>1 DEF RunOK, code_
    <3>4. CASE ~ Cancelled(r) /\ at[r] > Count
      <4>1. math'[r] = "over" /\ DoneBefore(g, at[r])
        BY <1>0, <2>1, <2>3, <3>4 DEF RunOK, TypeOK
      <4>2. DoneBefore(g, Count + 1)
        BY <1>0, <3>1, <3>4, <4>1 DEF DoneBefore
      <4>3. DoneBefore(g, Count + 1)'
        BY <1>0, <2>1, <4>2 DEF DoneBefore
      <4> QED BY <1>0, <2>1, <2>3, <4>1, <4>3 DEF RunOK, code_
    <3>5. CASE ~ Cancelled(r) /\ ~ (at[r] > Count)
      <4>1. math'[r] = "typesetting" /\ at[r] <= Count /\ DoneBefore(g, at[r])
        BY <1>0, <2>1, <2>3, <3>1, <3>5 DEF RunOK, TypeOK
      <4>2. DoneBefore(g, at[r])'
        BY <2>1, <4>1 DEF DoneBefore
      <4> QED BY <1>0, <2>1, <2>3, <4>1, <4>2 DEF RunOK, code_
    <3> QED BY <3>3, <3>4, <3>5
  <2> QED BY <2>2, <2>3
<1>8. ASSUME NEW s \in Runs, NEW result, Typeset(s, result)
      PROVE  RunOK(r)'
  <2>1. /\ math[s] = "typesetting"
        /\ UNCHANGED <<page_, place, code_, doc>>
    BY <1>8 DEF Typeset
  <2>2. CASE LooksCancelled(s)
    <3>1. math' = [math EXCEPT ![s] = "over"] /\ UNCHANGED <<at, spans>>
      BY <1>8, <2>2 DEF Typeset
    <3>2. CASE r # s
      BY <1>0, <2>1, <3>1, <3>2, RunFrame DEF code_, TypeOK
    <3>3. CASE r = s
      <4>1. Cancelled(r)' /\ math'[r] = "over"
        BY <2>2, <3>1, <3>3, CancelledForGood DEF LooksCancelled, TypeOK
      <4> QED BY <1>0, <2>1, <3>1, <3>3, <4>1 DEF RunOK, code_
    <3> QED BY <3>2, <3>3
  <2>3. CASE ~ LooksCancelled(s)
    <3> DEFINE show == IF result = "node" THEN "set" ELSE AfterError
               k == Host(s)
    <3>1. /\ math' = [math EXCEPT ![s] = "loop"]
          /\ at' = [at EXCEPT ![s] = @ + 1]
          /\ spans' = [spans EXCEPT ![k] = [spans[k] EXCEPT ![at[s]] = show]]
      BY <1>8, <2>3 DEF Typeset
    <3>2. show # "blank" /\ k \in Hosts
      BY DEF AfterError, Host, Runs
    <3> HIDE DEF show
    <3>3. /\ DOMAIN spans'[g] = DOMAIN spans[g]
          /\ \A i \in DOMAIN spans[g] :
               spans'[g][i] = "blank" => spans[g][i] = "blank"
      BY <1>0, <3>1, <3>2 DEF TypeOK
    <3>4. CASE r # s
      BY <1>0, <2>1, <3>1, <3>3, <3>4, RunFrame DEF code_, TypeOK
    <3>5. CASE r = s
      <4>1. math'[r] = "loop" /\ at'[r] = at[r] + 1 /\ at[r] \in Nat /\ k = g
        BY <3>1, <3>5 DEF TypeOK
      <4>2. DoneBefore(g, at[r])
        BY <1>0, <2>1, <2>3, <3>5 DEF RunOK, LooksCancelled
      <4>3. \A i \in DOMAIN spans'[g] : i < at'[r] => spans'[g][i] # "blank"
        <5> SUFFICES ASSUME NEW i \in DOMAIN spans[g], i < at[r] + 1
                     PROVE  spans'[g][i] # "blank"
          BY <3>3, <4>1
        <5>1. i \in Int
          BY <1>0 DEF TypeOK
        <5>2. CASE i = at[r]
          BY <1>0, <3>1, <3>2, <3>5, <4>1, <5>2 DEF TypeOK
        <5>3. CASE i < at[r]
          BY <3>3, <4>2, <5>3 DEF DoneBefore
        <5> QED BY <4>1, <5>1, <5>2, <5>3
      <4>4. DoneBefore(g, at[r])'
        BY <4>3 DEF DoneBefore
      <4> QED BY <1>0, <2>1, <3>5, <4>1, <4>4 DEF RunOK, code_
    <3> QED BY <3>4, <3>5
  <2> QED BY <2>2, <2>3
<1>9. CASE UNCHANGED vars
  BY <1>0, <1>9, RunFrame DEF vars, code_, math_
<1> QED BY <1>1, <1>2, <1>3, <1>4, <1>5, <1>6, <1>7, <1>8, <1>9
           DEF Next, Settle, Step

\* A host has the placeholders of its body from the moment it is put in the page.
LEMMA PlacesStep ==
  TypeOK /\ BodyInv /\ [Next]_vars
    => \A h \in Hosts : place'[h] # "out" => Len(spans'[h]) = Count'
<1> SUFFICES ASSUME TypeOK, BodyInv, [Next]_vars, NEW g \in Hosts, place'[g] # "out"
             PROVE  Len(spans'[g]) = Count'
  OBVIOUS
<1>0. Count \in Nat /\ Count' = Count
  BY CountIsNat, CountIsSettled DEF page_, Count
<1>1. CASE place[g] # "out" /\ spans'[g] = spans[g]
  BY <1>0, <1>1 DEF BodyInv
<1>2. ASSUME NEW h \in Hosts, Mount(h)
      PROVE  Len(spans'[g]) = Count'
  <2>1. /\ place[h] = "out" /\ place' = [place EXCEPT ![h] = "in"]
        /\ spans' = [spans EXCEPT ![h] = [i \in 1 .. Count |-> "blank"]]
    BY <1>2 DEF Mount, StartMath
  <2>2. CASE g = h
    <3>1. spans'[g] = [i \in 1 .. Count |-> "blank"]
      BY <2>1, <2>2 DEF TypeOK
    <3> QED BY <1>0, <3>1
  <2>3. CASE g # h
    BY <1>1, <2>1, <2>3 DEF TypeOK
  <2> QED BY <2>2, <2>3
<1>3. ASSUME NEW h \in Hosts, Unmount(h)
      PROVE  Len(spans'[g]) = Count'
  <2>1. place[g] # "out" /\ spans' = spans
    BY <1>3 DEF Unmount, TypeOK, math_
  <2> QED BY <1>1, <2>1
<1>4. ASSUME NEW r \in Runs, NEW result, Typeset(r, result)
      PROVE  Len(spans'[g]) = Count'
  <2>0. place' = place
    BY <1>4 DEF Typeset
  <2>1. CASE LooksCancelled(r)
    BY <1>1, <1>4, <2>0, <2>1 DEF Typeset
  <2>2. CASE ~ LooksCancelled(r)
    <3> DEFINE show == IF result = "node" THEN "set" ELSE AfterError
               k == Host(r)
    <3>1. spans' = [spans EXCEPT ![k] = [spans[k] EXCEPT ![at[r]] = show]]
      BY <1>4, <2>2 DEF Typeset
    <3>2. k \in Hosts
      BY DEF Host, Runs
    <3> HIDE DEF show, k
    <3>3. CASE g # k
      BY <1>1, <2>0, <3>1, <3>3 DEF TypeOK
    <3>4. CASE g = k
      <4>1. spans'[g] = [spans[g] EXCEPT ![at[r]] = show]
        BY <3>1, <3>4 DEF TypeOK
      <4>2. DOMAIN spans'[g] = 1 .. Count
        BY <1>0, <2>0, <4>1 DEF TypeOK, BodyInv
      <4>3. spans'[g] = [i \in 1 .. Count |-> spans'[g][i]]
        BY <4>1, <4>2
      <4> QED BY <1>0, <4>3
    <3> QED BY <3>3, <3>4
  <2> QED BY <2>1, <2>2
<1>5. CASE UNCHANGED <<place, spans>>
  BY <1>1, <1>5
<1>6. ASSUME NEW r \in Runs, Highlight(r) \/ CopyButtons(r) \/ MathStyles(r) \/ NextSpan(r)
      PROVE  Len(spans'[g]) = Count'
  BY <1>5, <1>6 DEF Highlight, CopyButtons, MathStyles, NextSpan, math_
<1>7. ASSUME NEW l \in Languages, NEW arrived \in BOOLEAN,
             GrammarSettles(l, arrived)
      PROVE  Len(spans'[g]) = Count'
  BY <1>5, <1>7 DEF GrammarSettles, math_
<1>8. ASSUME NEW arrived \in BOOLEAN, DocumentSettles(arrived)
      PROVE  Len(spans'[g]) = Count'
  BY <1>5, <1>8 DEF DocumentSettles
<1>9. CASE UNCHANGED vars
  BY <1>5, <1>9 DEF vars, math_
<1> QED BY <1>2, <1>3, <1>4, <1>6, <1>7, <1>8, <1>9 DEF Next, Settle, Step

\* It all holds at first.
LEMMA Initially == Init => TypeOK /\ BodyInv
<1> SUFFICES ASSUME Init PROVE TypeOK /\ BodyInv
  OBVIOUS
<1>1. \A r \in Runs : Host(r) \in Hosts
  BY DEF Host, Runs
<1>2. TypeOK
  <2>1. twice \in BOOLEAN
    <3>1. CASE raw \in Opened
      BY <3>1 DEF Init
    <3>2. CASE raw \notin Opened
      BY <3>2 DEF Init
    <3> QED BY <3>1, <3>2
  <2>2. /\ faults \in 0 .. MaxFaults /\ styles \in Nat
        /\ painted \in [Hosts -> Nat] /\ buttons \in [Hosts -> Nat]
        /\ at \in [Runs -> Nat]
    BY PostBodyAssumption DEF Init
  <2>3. spans \in [Hosts -> Seq({"blank", "set", "source"})]
    BY DEF Init
  <2>4. /\ place \in [Hosts -> {"out", "in", "gone"}]
        /\ code \in [Runs -> {"unborn", "waiting", "bare", "highlighted", "over"}]
        /\ math \in [Runs -> {"unborn", "styles", "loop", "typesetting", "over"}]
        /\ needs \in [Runs -> SUBSET Languages]
    BY DEF Init
  <2> QED BY <2>1, <2>2, <2>3, <2>4 DEF Init, TypeOK
<1>3. \A h \in Hosts : place[h] = "out"
  BY DEF Init
<1>4. ASSUME NEW r \in Runs
      PROVE  RunOK(r)
  BY <1>1 DEF Init, RunOK
<1> QED BY <1>2, <1>3, <1>4 DEF BodyInv

\* Every reachable state of a page that shows posts has values of the declared
\* types, and the run of a host that is not cancelled has passed no placeholder
\* that is blank.
THEOREM InvariantHolds == Spec => [](TypeOK /\ BodyInv)
<1>1. TypeOK /\ BodyInv /\ [Next]_vars => (TypeOK /\ BodyInv)'
  BY TypeStep, RunsStep, PlacesStep DEF BodyInv
<1> QED BY Initially, <1>1, PTL DEF Spec

-----------------------------------------------------------------------------
(* PostBody: the properties.                                               *)

\* renderMarkdown cuts the math out of any text that is written and shows each span
\* once, but for those cut out of code or put inside another: no formula is lost, shown
\* twice or swapped for another, and with the sources put back it is the text again, up
\* to spaces.
THEOREM BodiesKeepTheirText == Spec => []TextSurvives
<1>1. TypeOK => TextSurvives
  <2> SUFFICES ASSUME TypeOK PROVE TextSurvives
    OBVIOUS
  <2> DEFINE R == RenderMarkdown(raw)
  <2>1. raw \in Seq(Written) /\ body = Dressed(R)
    BY PostBodyAssumption DEF TypeOK
  <2>2. R.maths \in Seq(Span) /\ body.maths = R.maths /\ body.text = R.text
    BY <2>1, RenderedIs DEF Rendered, Dressed
  <2>3. MathIsPlaced
    <3>1. DOMAIN body.maths = 1 .. Len(R.maths)
      BY <2>2
    <3> QED BY <2>1, <3>1, MathHasItsPlace DEF MathIsPlaced
  <2>4. SourceSurvives
    <3>1. Restored(body) = Restored(R)
      BY <2>2 DEF Restored
    <3> QED BY <2>1, <3>1, SourceIsBack DEF SourceSurvives
  <2> QED BY <2>3, <2>4 DEF TextSurvives
<1> QED BY <1>1, InvariantHolds, PTL

\* When the effects of a host have ended and one of its placeholders is blank, the
\* document of MathJax could not be loaded: no order of runs, cancellations and
\* loads leaves a formula out otherwise.
THEOREM BlanksHaveCauses == Spec => []BlankHasCause
<1>1. TypeOK /\ BodyInv => BlankHasCause
  <2> SUFFICES ASSUME TypeOK, BodyInv, NEW h \in Hosts, place[h] = "in",
                      \A r \in Runs : Host(r) = h => math[r] \in {"unborn", "over"},
                      NEW i \in DOMAIN spans[h], spans[h][i] = "blank"
               PROVE  doc = "failed"
    BY DEF BlankHasCause
  <2> DEFINE first == <<h, 1>>
             second == <<h, 2>>
             last == IF code[second] = "unborn" THEN first ELSE second
  <2>1. /\ first \in Runs /\ second \in Runs /\ Host(first) = h /\ Host(second) = h
        /\ first[1] = h /\ first[2] = 1 /\ second[1] = h /\ second[2] = 2
    BY DEF Runs, Host
  <2>2. RunOK(first) /\ RunOK(second) /\ code[first] # "unborn"
    BY <2>1 DEF BodyInv, RunOK
  <2>3. /\ last \in Runs /\ Host(last) = h /\ RunOK(last)
        /\ code[last] # "unborn" /\ ~ Cancelled(last)
    BY <2>1, <2>2 DEF Cancelled
  <2>4. math[last] = "over"
    BY <2>3 DEF RunOK
  <2>5. doc = "failed" \/ DoneBefore(h, Count + 1)
    BY <2>3, <2>4 DEF RunOK
  <2>6. Len(spans[h]) = Count /\ i < Count + 1
    BY CountIsNat DEF BodyInv, TypeOK
  <2> QED BY <2>5, <2>6 DEF DoneBefore
<1> QED BY InvariantHolds, <1>1, PTL

\* Every step keeps the page at one stylesheet: a run that waited for the document
\* adds it only when it finds none.
LEMMA StyledStep == TypeOK /\ StyledOnce /\ [Next]_vars => StyledOnce'
<1> SUFFICES ASSUME TypeOK, StyledOnce, [Next]_vars PROVE StyledOnce'
  OBVIOUS
<1>0. styles \in Nat /\ styles <= 1
  BY DEF TypeOK, StyledOnce
<1>1. ASSUME styles' = styles,
             \A r \in Runs : math'[r] \in {"loop", "typesetting"} =>
                styles = 1 \/ math[r] \in {"loop", "typesetting"}
      PROVE  StyledOnce'
  BY <1>1 DEF StyledOnce
<1>2. ASSUME NEW h \in Hosts, Mount(h)
      PROVE  StyledOnce'
  <2> PICK runs \in SUBSET Runs : StartMath(h, runs)
    BY <1>2 DEF Mount, Runs
  <2>1. styles' = styles
    BY DEF StartMath
  <2>2. ASSUME NEW r \in Runs, math'[r] \in {"loop", "typesetting"}
        PROVE  styles = 1 \/ math[r] \in {"loop", "typesetting"}
    <3>1. math'[r] = IF r \notin runs THEN math[r] ELSE IF styles > 0 THEN "loop" ELSE "styles"
      BY DEF StartMath
    <3> QED BY <1>0, <2>2, <3>1
  <2> QED BY <1>1, <2>1, <2>2
<1>3. ASSUME NEW r \in Runs, MathStyles(r)
      PROVE  StyledOnce'
  <2>1. CASE doc = "ready"
    <3>1. styles' = IF styles > 0 THEN styles ELSE styles + 1
      BY <1>3, <2>1 DEF MathStyles, AddedMeanwhile
    <3>2. styles' = 1
      BY <1>0, <3>1
    <3> QED BY <3>2 DEF StyledOnce
  <2>2. CASE doc # "ready"
    <3>1. styles' = styles /\ math' = [math EXCEPT ![r] = "over"]
      BY <1>3, <2>2 DEF MathStyles
    <3> QED BY <1>1, <3>1 DEF TypeOK
  <2> QED BY <2>1, <2>2
<1>4. ASSUME NEW r \in Runs, NextSpan(r)
      PROVE  StyledOnce'
  <2>1. math[r] = "loop" /\ styles' = styles /\ \A q \in Runs : q # r => math'[q] = math[q]
    BY <1>4 DEF NextSpan, TypeOK
  <2> QED BY <1>1, <2>1
<1>5. ASSUME NEW r \in Runs, NEW result, Typeset(r, result)
      PROVE  StyledOnce'
  <2>1. math[r] = "typesetting" /\ styles' = styles /\ \A q \in Runs : q # r => math'[q] = math[q]
    BY <1>5 DEF Typeset, TypeOK
  <2> QED BY <1>1, <2>1
<1>6. ASSUME NEW r \in Runs, Highlight(r) \/ CopyButtons(r)
      PROVE  StyledOnce'
  BY <1>1, <1>6 DEF Highlight, CopyButtons, math_
<1>7. ASSUME NEW h \in Hosts, Unmount(h)
      PROVE  StyledOnce'
  BY <1>1, <1>7 DEF Unmount, math_
<1>8. ASSUME NEW l \in Languages, NEW arrived \in BOOLEAN, GrammarSettles(l, arrived)
      PROVE  StyledOnce'
  BY <1>1, <1>8 DEF GrammarSettles, math_
<1>9. ASSUME NEW arrived \in BOOLEAN, DocumentSettles(arrived)
      PROVE  StyledOnce'
  BY <1>1, <1>9 DEF DocumentSettles
<1>10. CASE UNCHANGED vars
  BY <1>1, <1>10 DEF vars, math_
<1> QED BY <1>2, <1>3, <1>4, <1>5, <1>6, <1>7, <1>8, <1>9, <1>10 DEF Next, Settle, Step

\* However many bodies wait for MathJax at once, the page gets its stylesheet before a
\* formula is typeset, and never a second one.
LEMMA PagesAreStyledOnce == Spec => []StyledOnce
<1>1. Init => StyledOnce
  BY DEF Init, StyledOnce
<1>2. TypeOK /\ StyledOnce /\ [Next]_vars => StyledOnce'
  BY StyledStep
<1> QED BY InvariantHolds, <1>1, <1>2, PTL DEF Spec

\* Every step keeps code dressed once: of two runs of one host the later one finds
\* what the earlier one did.
LEMMA DressedStep == TypeOK /\ CodeDressedOnce /\ [Next]_vars => CodeDressedOnce'
<1> SUFFICES ASSUME TypeOK, CodeDressedOnce, [Next]_vars PROVE CodeDressedOnce'
  OBVIOUS
<1>0. /\ painted \in [Hosts -> Nat] /\ buttons \in [Hosts -> Nat]
      /\ \A h \in Hosts : painted[h] <= 1 /\ buttons[h] <= 1
      /\ \A r \in Runs : Host(r) \in Hosts
      /\ Coded' = Coded
  BY CountIsSettled DEF TypeOK, CodeDressedOnce, Host, Runs, page_, Coded
<1>1. ASSUME painted' = painted, buttons' = buttons,
             \A r \in Runs : /\ code'[r] \in {"highlighted", "over"} => code[r] \in {"highlighted", "over"}
                             /\ code'[r] = "over" => code[r] = "over"
      PROVE  CodeDressedOnce'
  <2>1. \A r \in Runs : ~ Cancelled(r)' => ~ Cancelled(r)
    BY CancelledForGood
  <2> QED BY <1>0, <1>1, <2>1 DEF CodeDressedOnce
<1>2. ASSUME NEW h \in Hosts, Mount(h)
      PROVE  CodeDressedOnce'
  <2> PICK runs \in SUBSET Runs : StartCode(h, runs)
    BY <1>2 DEF Mount, Runs
  <2>1. \A r \in Runs : code'[r] = "waiting" \/ code'[r] = code[r]
    BY DEF StartCode
  <2> QED BY <1>1, <1>2, <2>1 DEF Mount
<1>3. ASSUME NEW s \in Runs, Highlight(s)
      PROVE  CodeDressedOnce'
  <2> DEFINE g == Host(s)
  <2>1. /\ code[s] = "waiting" /\ code' = [code EXCEPT ![s] = "highlighted"]
        /\ painted' = IF ~ Coded \/ painted[g] > 0 THEN painted
                      ELSE [painted EXCEPT ![g] = @ + 1]
        /\ buttons' = buttons
    BY <1>3 DEF Highlight, Marked
  <2>2. Coded => painted'[g] = 1
    BY <1>0, <2>1
  <2>3. \A h \in Hosts : painted'[h] = painted[h] \/ (Coded /\ h = g)
    BY <1>0, <2>1
  <2> HIDE DEF g
  <2>4. \A h \in Hosts : painted'[h] <= 1 /\ buttons'[h] <= 1
    BY <1>0, <2>1, <2>2, <2>3
  <2>5. ASSUME NEW r \in Runs, Coded
        PROVE  /\ code'[r] \in {"highlighted", "over"} => painted'[Host(r)] = 1
               /\ code'[r] = "over" /\ ~ Cancelled(r)' => buttons'[Host(r)] = 1
    <3>1. CASE r = s
      <4>1. code'[r] = "highlighted"
        BY <2>1, <3>1 DEF TypeOK
      <4> QED BY <2>2, <2>5, <3>1, <4>1 DEF g
    <3>2. CASE r # s
      <4>1. code'[r] = code[r]
        BY <2>1, <3>2 DEF TypeOK
      <4>2. ~ Cancelled(r)' => ~ Cancelled(r)
        BY CancelledForGood
      <4>3. painted[Host(r)] = 1 => painted'[Host(r)] = 1
        BY <1>0, <2>2, <2>3
      <4> QED BY <2>1, <2>5, <4>1, <4>2, <4>3 DEF CodeDressedOnce
    <3> QED BY <3>1, <3>2
  <2> QED BY <1>0, <2>4, <2>5 DEF CodeDressedOnce
<1>4. ASSUME NEW s \in Runs, CopyButtons(s)
      PROVE  CodeDressedOnce'
  <2> DEFINE g == Host(s)
  <2>1. /\ code[s] = "highlighted" /\ code' = [code EXCEPT ![s] = "over"]
        /\ buttons' = IF Cancelled(s) \/ ~ Coded \/ buttons[g] > 0 THEN buttons
                      ELSE [buttons EXCEPT ![g] = @ + 1]
        /\ painted' = painted
    BY <1>4 DEF CopyButtons, LooksCancelled
  <2>2. Coded /\ ~ Cancelled(s) => buttons'[g] = 1
    BY <1>0, <2>1
  <2>3. \A h \in Hosts : buttons'[h] = buttons[h] \/ (Coded /\ ~ Cancelled(s) /\ h = g)
    BY <1>0, <2>1
  <2> HIDE DEF g
  <2>4. \A h \in Hosts : painted'[h] <= 1 /\ buttons'[h] <= 1
    BY <1>0, <2>1, <2>2, <2>3
  <2>5. ASSUME NEW r \in Runs, Coded
        PROVE  /\ code'[r] \in {"highlighted", "over"} => painted'[Host(r)] = 1
               /\ code'[r] = "over" /\ ~ Cancelled(r)' => buttons'[Host(r)] = 1
    <3>0. ~ Cancelled(r)' => ~ Cancelled(r)
      BY CancelledForGood
    <3>1. CASE r = s
      <4>1. painted[Host(r)] = 1
        BY <2>1, <2>5, <3>1 DEF CodeDressedOnce
      <4> QED BY <2>1, <2>2, <2>5, <3>0, <3>1, <4>1 DEF g
    <3>2. CASE r # s
      <4>1. code'[r] = code[r]
        BY <2>1, <3>2 DEF TypeOK
      <4>2. buttons[Host(r)] = 1 => buttons'[Host(r)] = 1
        BY <1>0, <2>2, <2>3
      <4> QED BY <2>1, <2>5, <3>0, <4>1, <4>2 DEF CodeDressedOnce
    <3> QED BY <3>1, <3>2
  <2> QED BY <1>0, <2>4, <2>5 DEF CodeDressedOnce
<1>5. ASSUME NEW h \in Hosts, Unmount(h)
      PROVE  CodeDressedOnce'
  BY <1>1, <1>5 DEF Unmount, code_
<1>6. ASSUME NEW l \in Languages, NEW arrived \in BOOLEAN, GrammarSettles(l, arrived)
      PROVE  CodeDressedOnce'
  <2>1. painted' = painted /\ buttons' = buttons
    BY <1>6 DEF GrammarSettles
  <2>2. \A r \in Runs : code'[r] = "bare" \/ code'[r] = code[r]
    BY <1>6 DEF GrammarSettles
  <2> QED BY <1>1, <2>1, <2>2
<1>7. ASSUME NEW arrived \in BOOLEAN, DocumentSettles(arrived)
      PROVE  CodeDressedOnce'
  BY <1>1, <1>7 DEF DocumentSettles, code_
<1>8. ASSUME NEW r \in Runs, NEW result, MathStyles(r) \/ NextSpan(r) \/ Typeset(r, result)
      PROVE  CodeDressedOnce'
  BY <1>1, <1>8 DEF MathStyles, NextSpan, Typeset, code_
<1>9. CASE UNCHANGED vars
  BY <1>1, <1>9 DEF vars, code_
<1> QED BY <1>2, <1>3, <1>4, <1>5, <1>6, <1>7, <1>8, <1>9 DEF Next, Settle, Step

\* Where the effect of a host runs twice, and the first run goes on after it was
\* cancelled, a block is highlighted once and has one button in the end.
LEMMA CodeIsDressedOnce == Spec => []CodeDressedOnce
<1>1. Init => CodeDressedOnce
  <2> SUFFICES ASSUME Init PROVE CodeDressedOnce
    OBVIOUS
  <2>1. \A h \in Hosts : painted[h] = 0 /\ buttons[h] = 0
    BY DEF Init
  <2>2. \A r \in Runs : code[r] = "unborn"
    BY DEF Init
  <2> QED BY <2>1, <2>2 DEF CodeDressedOnce
<1>2. TypeOK /\ CodeDressedOnce /\ [Next]_vars => CodeDressedOnce'
  BY DressedStep
<1> QED BY InvariantHolds, <1>1, <1>2, PTL DEF Spec

\* Of what the runs of several bodies, or both runs of one, would do at once, nothing
\* is done twice or left undone.
THEOREM BodiesAreDressedOnce == Spec => []DressedOnce
<1>1. StyledOnce /\ CodeDressedOnce => DressedOnce
  BY DEF DressedOnce
<1> QED BY PagesAreStyledOnce, CodeIsDressedOnce, <1>1, PTL

\* An effect that wakes up after its host is gone puts nothing more in it.
THEOREM GoneHostsAreLeft == Spec => GoneIsLeftAlone
<1>1. TypeOK /\ [Next]_vars
        => [\A h \in Hosts : place[h] = "gone" =>
              spans'[h] = spans[h] /\ buttons'[h] = buttons[h]]_vars
  <2> SUFFICES ASSUME TypeOK, [Next]_vars, NEW h \in Hosts, place[h] = "gone"
               PROVE  spans'[h] = spans[h] /\ buttons'[h] = buttons[h]
    OBVIOUS
  <2>1. ASSUME NEW g \in Hosts, Mount(g)
        PROVE  spans'[h] = spans[h] /\ buttons'[h] = buttons[h]
    BY <2>1 DEF Mount, StartMath, TypeOK
  <2>2. ASSUME NEW r \in Runs, CopyButtons(r)
        PROVE  spans'[h] = spans[h] /\ buttons'[h] = buttons[h]
    <3>1. CASE Host(r) = h
      BY <2>2, <3>1 DEF CopyButtons, LooksCancelled, Cancelled, math_
    <3>2. CASE Host(r) # h
      BY <2>2, <3>2 DEF CopyButtons, math_, TypeOK
    <3> QED BY <3>1, <3>2
  <2>3. ASSUME NEW r \in Runs, NEW result, Typeset(r, result)
        PROVE  spans'[h] = spans[h] /\ buttons'[h] = buttons[h]
    <3>1. CASE Host(r) = h
      BY <2>3, <3>1 DEF Typeset, LooksCancelled, Cancelled, code_
    <3>2. CASE Host(r) # h
      BY <2>3, <3>2 DEF Typeset, code_, TypeOK
    <3> QED BY <3>1, <3>2
  <2>4. CASE UNCHANGED <<spans, buttons>>
    BY <2>4
  <2>5. ASSUME NEW g \in Hosts, Unmount(g)
        PROVE  spans'[h] = spans[h] /\ buttons'[h] = buttons[h]
    BY <2>5 DEF Unmount, code_, math_
  <2>6. ASSUME NEW l \in Languages, NEW arrived \in BOOLEAN, GrammarSettles(l, arrived)
        PROVE  spans'[h] = spans[h] /\ buttons'[h] = buttons[h]
    BY <2>6 DEF GrammarSettles, math_
  <2>7. ASSUME NEW arrived \in BOOLEAN, DocumentSettles(arrived)
        PROVE  spans'[h] = spans[h] /\ buttons'[h] = buttons[h]
    BY <2>7 DEF DocumentSettles, code_
  <2>8. ASSUME NEW r \in Runs, Highlight(r) \/ MathStyles(r) \/ NextSpan(r)
        PROVE  spans'[h] = spans[h] /\ buttons'[h] = buttons[h]
    BY <2>8 DEF Highlight, MathStyles, NextSpan, code_, math_
  <2>9. CASE UNCHANGED vars
    BY <2>9 DEF vars, code_, math_
  <2> QED BY <2>1, <2>2, <2>3, <2>5, <2>6, <2>7, <2>8, <2>9 DEF Next, Settle, Step
<1> QED BY InvariantHolds, <1>1, PTL DEF Spec, GoneIsLeftAlone

-----------------------------------------------------------------------------
(* Search.  Its safety properties are nearly inductive by themselves: a    *)
(* step that changes the question asks it, and one that resets the draft   *)
(* says so.                                                                *)

\* What a question asks is determined by the text and the filters.
LEMMA AskAnswers ==
  ASSUME NEW t, NEW f, NEW before, Ask(t, f, before)
  PROVE  HitsAreForTheQuestion'
<1>1. CASE Question(t, f) \in answered
  <2>1. shown' = {Question(t, f)}
    BY <1>1 DEF Ask, Hits
  <2> QED BY <2>1 DEF Ask, HitsAreForTheQuestion, Question
<1>2. CASE Question(t, f) \notin answered
  <2>1. Question(t, f) \in asked' /\ text' = t /\ filters' = f
    BY <1>2 DEF Ask
  <2> QED BY <2>1 DEF HitsAreForTheQuestion, Question
<1> QED BY <1>1, <1>2

\* An address, a question or a screen that does not change leaves the hits right.
LEMMA HitsFrame ==
  ASSUME HitsAreForTheQuestion, UNCHANGED <<location, text, filters, shown>>,
         asked \subseteq asked', failed \subseteq failed'
  PROVE  HitsAreForTheQuestion'
BY DEF HitsAreForTheQuestion, Question, OnSearch

LEMMA HitsStep ==
  HitsAreForTheQuestion /\ [SearchNext]_searchVars => HitsAreForTheQuestion'
<1> SUFFICES ASSUME HitsAreForTheQuestion, [SearchNext]_searchVars
             PROVE  HitsAreForTheQuestion'
  OBVIOUS
<1>1. CASE UNCHANGED <<location, screen, cache>>
  BY <1>1, HitsFrame DEF screen, cache
<1>2. ASSUME NEW q, Go(q)
      PROVE  HitsAreForTheQuestion'
  <2>1. CASE OnSearch
    <3>1. location'.page = "search" /\ UNCHANGED <<screen, cache>>
      BY <1>2, <2>1 DEF Go
    <3> QED BY <2>1, <3>1 DEF OnSearch, HitsAreForTheQuestion, Question,
                              screen, cache
  <2>2. CASE ~ OnSearch
    BY <1>2, <2>2, AskAnswers DEF Go, MountScreen
  <2> QED BY <2>1, <2>2
<1>3. ASSUME NEW q, Fire(q)
      PROVE  HitsAreForTheQuestion'
  <2>1. CASE q # ""
    BY <1>2, <1>3, <2>1 DEF Fire
  <2>2. CASE q = ""
    BY <1>1, <1>3, <2>2 DEF Fire
  <2> QED BY <2>1, <2>2
<1>4. CASE OpenSearch
  BY <1>2, <1>4 DEF OpenSearch
<1>5. CASE Leave
  <2>1. ~ OnSearch'
    BY <1>5 DEF Leave, OnSearch
  <2> QED BY <2>1 DEF HitsAreForTheQuestion
<1>6. CASE ToggleSidebar
  <2>1. CASE OnSearch
    BY <1>6, <2>1, AskAnswers DEF ToggleSidebar, MountScreen
  <2>2. CASE ~ OnSearch
    BY <1>1, <1>6, <2>2 DEF ToggleSidebar
  <2> QED BY <2>1, <2>2
<1>7. ASSUME NEW t, TypeText(t)
      PROVE  HitsAreForTheQuestion'
  BY <1>7, AskAnswers DEF TypeText
<1>8. CASE Apply
  BY <1>8, AskAnswers DEF Apply
<1>9. CASE Submit
  BY <1>9, HitsFrame DEF Submit, screen, cache, OnSearch,
     HitsAreForTheQuestion, Question
<1>10. ASSUME NEW question \in asked, NEW ok \in BOOLEAN, Arrive(question, ok)
       PROVE  HitsAreForTheQuestion'
  <2> DEFINE now == Question(text, filters)
  <2>0. /\ UNCHANGED <<location, text, filters>> /\ now' = now
        /\ OnSearch' = OnSearch
        /\ asked' = asked \ {question} /\ failed \subseteq failed'
        /\ ok => question \in answered'
        /\ ~ ok => question \in failed'
    BY <1>10 DEF Arrive, screen, Question, OnSearch
  <2>1. CASE OnSearch /\ question = now /\ ok
    <3>1. shown' = {now}
      BY <1>10, <2>0, <2>1 DEF Arrive, Hits
    <3> QED BY <2>0, <3>1 DEF HitsAreForTheQuestion
  <2>2. CASE OnSearch /\ question = now /\ ~ ok
    BY <2>0, <2>2 DEF HitsAreForTheQuestion
  <2>3. CASE OnSearch /\ question # now
    <3>1. shown' = shown
      BY <1>10, <2>3 DEF Arrive
    <3> QED BY <2>0, <2>3, <3>1 DEF HitsAreForTheQuestion
  <2>4. CASE ~ OnSearch
    BY <2>0, <2>4 DEF HitsAreForTheQuestion
  <2> QED BY <2>1, <2>2, <2>3, <2>4
<1>11. ASSUME NEW question \in answered, Forget(question)
       PROVE  HitsAreForTheQuestion'
  BY <1>11, HitsFrame DEF Forget, screen
<1>12. ASSUME NEW q, Type(q) \/ Clear \/ SubforumsCome \/ OpenFilters
                     \/ Edit(q) \/ Cancel \/ Escape(q)
       PROVE  HitsAreForTheQuestion'
  BY <1>1, <1>12 DEF Type, Clear, SubforumsCome, OpenFilters,
                     Edit, Cancel, Escape
<1>13. CASE UNCHANGED searchVars
  BY <1>1, <1>13 DEF searchVars
<1> QED BY <1>3, <1>4, <1>5, <1>6, <1>7, <1>8, <1>9, <1>10, <1>11, <1>12, <1>13 DEF SearchNext

\* Rendering the screen again says so when it resets the draft.
LEMMA DraftStep == DraftLostHasCause /\ [SearchNext]_searchVars => DraftLostHasCause'
<1> SUFFICES ASSUME DraftLostHasCause, [SearchNext]_searchVars
             PROVE  DraftLostHasCause'
  OBVIOUS
<1>1. CASE ~ filtersOpen'
  BY <1>1 DEF DraftLostHasCause
<1>2. CASE Rerender
  BY <1>2 DEF Rerender, DraftLostHasCause
<1>3. CASE UNCHANGED panel
  BY <1>3 DEF panel, DraftLostHasCause
<1>4. CASE draft' = wanted'
  BY <1>4 DEF DraftLostHasCause
<1>5. ASSUME NEW q, Go(q)
      PROVE  DraftLostHasCause'
  BY <1>1, <1>2, <1>5 DEF Go, MountScreen
<1>6. ASSUME NEW q, Fire(q)
      PROVE  DraftLostHasCause'
  <2>1. CASE q # ""
    BY <1>5, <1>6, <2>1 DEF Fire
  <2>2. CASE q = ""
    BY <1>3, <1>6, <2>2 DEF Fire
  <2> QED BY <2>1, <2>2
<1>7. ASSUME NEW question, NEW ok, Arrive(question, ok)
      PROVE  DraftLostHasCause'
  <2>1. CASE OnSearch /\ question = Question(text, filters)
    BY <1>2, <1>7, <2>1 DEF Arrive
  <2>2. CASE ~ (OnSearch /\ question = Question(text, filters))
    BY <1>3, <1>7, <2>2 DEF Arrive
  <2> QED BY <2>1, <2>2
<1>8. CASE SubforumsCome
  <2>1. CASE OnSearch
    BY <1>2, <1>8, <2>1 DEF SubforumsCome
  <2>2. CASE ~ OnSearch
    BY <1>3, <1>8, <2>2 DEF SubforumsCome
  <2> QED BY <2>1, <2>2
<1>9. CASE ToggleSidebar
  <2>1. CASE OnSearch
    BY <1>1, <1>9, <2>1 DEF ToggleSidebar, MountScreen
  <2>2. CASE ~ OnSearch
    BY <1>3, <1>9, <2>2 DEF ToggleSidebar
  <2> QED BY <2>1, <2>2
<1>10. ASSUME NEW q, Leave \/ Apply \/ Cancel
       PROVE  DraftLostHasCause'
  BY <1>1, <1>10 DEF Leave, UnmountScreen, Apply, Cancel
<1>11. ASSUME NEW isComposing \in BOOLEAN, Escape(isComposing)
       PROVE  DraftLostHasCause'
  BY <1>11 DEF Escape, DraftLostHasCause
<1>12. ASSUME NEW d, OpenFilters \/ Edit(d)
       PROVE  DraftLostHasCause'
  BY <1>4, <1>12 DEF OpenFilters, Edit, DraftAtOpen
<1>13. ASSUME NEW q, Type(q) \/ Clear \/ TypeText(q) \/ Submit \/ Forget(q)
       PROVE  DraftLostHasCause'
  BY <1>3, <1>13 DEF Type, Clear, TypeText, Submit, Forget
<1>14. CASE OpenSearch
  BY <1>5, <1>14 DEF OpenSearch
<1>15. CASE UNCHANGED searchVars
  BY <1>3, <1>15 DEF searchVars
<1> QED BY <1>6, <1>7, <1>8, <1>9, <1>10, <1>11, <1>12, <1>13, <1>14, <1>15 DEF SearchNext

\* Every search that begins to wait ends the wait of the one before it.
LEMMA TimerStep == OneTimer /\ [SearchNext]_searchVars => OneTimer'
<1> SUFFICES ASSUME OneTimer, [SearchNext]_searchVars
             PROVE  OneTimer'
  OBVIOUS
<1>1. CASE UNCHANGED bar
  BY <1>1 DEF bar, OneTimer
<1>2. ASSUME NEW q \in Texts, Type(q)
      PROVE  OneTimer'
  BY <1>2 DEF Type, TimersAfter, OneTimer
<1>3. CASE Clear
  BY <1>3 DEF Clear, OneTimer
<1>4. ASSUME NEW q, Fire(q)
      PROVE  OneTimer'
  <2>1. value' = value /\ timers' \in {timers, timers \ {q}}
    BY <1>4 DEF Fire
  <2> QED BY <2>1 DEF OneTimer
<1>5. CASE ToggleSidebar
  BY <1>5 DEF ToggleSidebar, OneTimer
<1>6. ASSUME NEW q, NEW ok,
             \/ TypeText(q) \/ OpenSearch \/ Leave \/ Submit
             \/ Arrive(q, ok) \/ Forget(q)
      PROVE  OneTimer'
  BY <1>1, <1>6 DEF TypeText, OpenSearch, Leave, Submit, Arrive, Forget
<1>7. ASSUME NEW d,
             \/ SubforumsCome \/ OpenFilters \/ Edit(d) \/ Apply
             \/ Cancel \/ Escape(d)
      PROVE  OneTimer'
  BY <1>1, <1>7 DEF SubforumsCome, OpenFilters, Edit, Apply,
                    Cancel, Escape
<1>8. CASE UNCHANGED searchVars
  BY <1>1, <1>8 DEF searchVars
<1> QED BY <1>2, <1>3, <1>4, <1>5, <1>6, <1>7, <1>8 DEF SearchNext

\* A finite set of numbers has an n-th one for each n up to how many they are: the
\* next after the n-th is the least of those beyond it.
LEMMA NthIsThere ==
  ASSUME NEW S \in SUBSET Nat, IsFiniteSet(S), NEW n \in 1 .. Cardinality(S)
  PROVE  Nth(S, n) \in S
<1> DEFINE Before(i) == {j \in S : j < i}
           HasNth(m) == \E i \in S : Cardinality(Before(i)) = m - 1
           missing == {m \in 1 .. Cardinality(S) : ~ HasNth(m)}
<1>0. Cardinality(S) \in Nat /\ \A j \in S : j \in Int
  BY FS_CardinalityType
<1>1. SUFFICES missing = {}
  BY <1>1 DEF Nth
<1>2. SUFFICES ASSUME missing # {} PROVE FALSE
  BY <1>2
<1>3. PICK m \in missing : \A k \in missing : m <= k
  <2>1. missing \in SUBSET Nat
    BY <1>0
  <2> HIDE DEF missing
  <2> QED BY <1>2, <2>1, LeastNumber
<1>4. m \in 1 .. Cardinality(S) /\ ~ HasNth(m)
  OBVIOUS
<1>5. CASE m = 1
  <2>1. S # {}
    BY <1>4, FS_EmptySet
  <2>2. PICK i \in S : \A j \in S : i <= j
    BY <2>1, LeastNumber
  <2>3. Before(i) = {}
    <3>1. ASSUME NEW j \in S, j < i PROVE FALSE
      <4>1. j \in Int /\ i \in Int /\ i <= j
        BY <1>0, <2>2
      <4> QED BY <3>1, <4>1
    <3> QED BY <3>1
  <2>4. Cardinality(Before(i)) = 0
    BY <2>3, FS_EmptySet
  <2> QED BY <1>4, <1>5, <2>4
<1>6. CASE m # 1
  <2>1. m - 1 \in 1 .. Cardinality(S) /\ m - 1 \notin missing
    BY <1>0, <1>3, <1>4, <1>6
  <2>2. PICK i \in S : Cardinality(Before(i)) = m - 2
    BY <1>0, <1>4, <2>1
  <2> DEFINE upTo == Before(i) \cup {i}
             beyond == {j \in S : i < j}
  <2>3. Cardinality(upTo) = m - 1
    <3>1. IsFiniteSet(Before(i)) /\ i \notin Before(i)
      BY FS_Subset
    <3> HIDE DEF Before
    <3>2. Cardinality(upTo) = Cardinality(Before(i)) + 1
      BY <3>1, FS_AddElement
    <3> QED BY <1>0, <1>4, <2>2, <3>2
  <2>4. beyond # {}
    <3>1. ASSUME beyond = {} PROVE S = upTo
      <4>1. ASSUME NEW j \in S PROVE j \in upTo
        <5>1. j \in Int /\ i \in Int /\ ~ (i < j)
          BY <1>0, <3>1
        <5>2. j < i \/ j = i
          BY <5>1
        <5> QED BY <5>2
      <4> QED BY <4>1
    <3> HIDE DEF upTo, beyond
    <3> QED BY <1>0, <1>4, <2>3, <3>1
  <2>5. PICK k \in beyond : \A j \in beyond : k <= j
    BY <2>4, LeastNumber
  <2>6. Before(k) = upTo
    <3>1. i < k /\ i \in Int /\ k \in S /\ k \in Int
      BY <1>0
    <3>2. ASSUME NEW j \in S PROVE j < k <=> j < i \/ j = i
      <4>1. j \in Int /\ (i < j => k <= j)
        BY <1>0, <2>5
      <4> QED BY <3>1, <4>1
    <3> QED BY <3>2
  <2> QED BY <1>4, <2>3, <2>5, <2>6
<1> QED BY <1>5, <1>6

\* Of a list of rows apply makes a list of rows.
LEMMA TermsAreRows ==
  ASSUME NEW rows \in Seq(Rows)
  PROVE  Terms(rows) \in Seq(Rows)
<1> DEFINE kept == {i \in DOMAIN rows : IsTerm(rows[i])}
<1>1. DOMAIN rows = 1 .. Len(rows) /\ Len(rows) \in Nat
  OBVIOUS
<1>2. kept \in SUBSET Nat /\ IsFiniteSet(kept) /\ Cardinality(kept) \in Nat
  <2>1. kept \subseteq 1 .. Len(rows) /\ kept \subseteq Nat
    BY <1>1
  <2> HIDE DEF kept
  <2>2. IsFiniteSet(1 .. Len(rows))
    BY <1>1, FS_Interval
  <2>3. IsFiniteSet(kept)
    BY <2>1, <2>2, FS_Subset
  <2> QED BY <2>1, <2>3, FS_CardinalityType
<1>3. \A n \in 1 .. Cardinality(kept) : Nth(kept, n) \in kept
  BY <1>2, NthIsThere
<1>4. Terms(rows) = [n \in 1 .. Cardinality(kept) |-> rows[Nth(kept, n)]]
  BY DEF Terms
<1>5. \A n \in 1 .. Cardinality(kept) : rows[Nth(kept, n)] \in Rows
  BY <1>1, <1>3
<1> HIDE DEF kept
<1> QED BY <1>2, <1>4, <1>5

\* Whatever is done with the dialog, the filters and their draft are lists of rows.
LEMMA FiltersStep == FiltersAreRows /\ [SearchNext]_searchVars => FiltersAreRows'
<1> SUFFICES ASSUME FiltersAreRows, [SearchNext]_searchVars
             PROVE  FiltersAreRows'
  OBVIOUS
<1>0. NoFilters.terms \in Seq(Rows) /\ \A d \in Drafts : d.terms \in Seq(Rows)
  <2>1. ASSUME NEW d \in Drafts PROVE d.terms \in Seq(Rows)
    <3>1. PICK n \in 0 .. MaxRows : d.terms \in [1 .. n -> Rows]
      BY DEF Drafts
    <3>2. MaxRows \in Nat
      BY SearchAssumption
    <3>3. n \in Nat
      BY <3>2
    <3> QED BY <3>1, <3>3
  <2> QED BY <2>1 DEF NoFilters
<1>1. CASE UNCHANGED filters /\ draft' \in {draft, filters, NoFilters} \cup Drafts
  BY <1>0, <1>1 DEF FiltersAreRows
<1>2. ASSUME NEW q, MountScreen(q) \/ UnmountScreen
      PROVE  FiltersAreRows'
  BY <1>0, <1>2 DEF MountScreen, UnmountScreen, Ask, FiltersAreRows
<1>3. CASE UNCHANGED filters /\ Rerender
  BY <1>1, <1>3 DEF Rerender
<1>4. CASE UNCHANGED <<filters, panel>>
  BY <1>1, <1>4 DEF panel
<1>5. ASSUME NEW q, Go(q)
      PROVE  FiltersAreRows'
  BY <1>2, <1>3, <1>5 DEF Go, screen
<1>6. ASSUME NEW q, Fire(q)
      PROVE  FiltersAreRows'
  <2>1. CASE q # ""
    BY <1>5, <1>6, <2>1 DEF Fire
  <2>2. CASE q = ""
    BY <1>4, <1>6, <2>2 DEF Fire, screen
  <2> QED BY <2>1, <2>2
<1>7. CASE OpenSearch
  BY <1>5, <1>7 DEF OpenSearch
<1>8. CASE Leave
  BY <1>2, <1>8 DEF Leave
<1>9. CASE ToggleSidebar
  <2>1. CASE OnSearch
    BY <1>2, <1>9, <2>1 DEF ToggleSidebar
  <2>2. CASE ~ OnSearch
    BY <1>4, <1>9, <2>2 DEF ToggleSidebar, screen
  <2> QED BY <2>1, <2>2
<1>10. ASSUME NEW question, NEW ok, Arrive(question, ok) \/ SubforumsCome
       PROVE  FiltersAreRows'
  <2>1. UNCHANGED filters /\ (Rerender \/ UNCHANGED panel)
    BY <1>10 DEF Arrive, SubforumsCome, screen
  <2> QED BY <1>3, <1>4, <2>1
<1>11. ASSUME NEW d, OpenFilters \/ Cancel \/ (d \in Drafts /\ Edit(d))
       PROVE  FiltersAreRows'
  BY <1>1, <1>11 DEF OpenFilters, DraftAtOpen, Edit, Cancel, screen
<1>12. ASSUME NEW isComposing, Escape(isComposing)
       PROVE  FiltersAreRows'
  BY <1>1, <1>12 DEF Escape, screen
<1>13. CASE Apply
  <2>1. draft' = draft /\ filters'.terms = Terms(draft.terms)
    BY <1>13 DEF Apply, Ask
  <2> QED BY <2>1, TermsAreRows DEF FiltersAreRows
<1>14. ASSUME NEW t, TypeText(t)
       PROVE  FiltersAreRows'
  BY <1>4, <1>14 DEF TypeText, Ask
<1>15. ASSUME NEW q, Type(q) \/ Clear \/ Submit \/ Forget(q)
       PROVE  FiltersAreRows'
  BY <1>4, <1>15 DEF Type, Clear, Submit, Forget, screen
<1>16. CASE UNCHANGED searchVars
  BY <1>4, <1>16 DEF searchVars, screen
<1> QED
  BY <1>6, <1>7, <1>8, <1>9, <1>10, <1>11, <1>12, <1>13, <1>14, <1>15, <1>16 DEF SearchNext

\* In every reachable state of a tab the hits on the search screen are those of its
\* text and filters, or these are still asked for or have failed; a draft of the
\* filters that is not what the user made of it was reset by a rendering; at most one
\* search waits in the search bar, the last one typed; and filters and draft are lists
\* of rows.
THEOREM SearchHolds == SearchSpec => []SearchInv
<1>1. SearchInit => SearchInv
  <2> SUFFICES ASSUME SearchInit PROVE SearchInv
    OBVIOUS
  <2>1. ~ OnSearch
    BY DEF SearchInit, OnSearch
  <2>2. ~ filtersOpen /\ timers = {}
    BY DEF SearchInit
  <2>3. FiltersAreRows
    <3>1. << >> \in Seq(Rows) /\ NoFilters.terms = << >>
      BY DEF NoFilters
    <3>2. filters = NoFilters /\ draft = NoFilters
      BY DEF SearchInit
    <3> QED BY <3>1, <3>2 DEF FiltersAreRows
  <2> QED BY <2>1, <2>2, <2>3 DEF SearchInv, HitsAreForTheQuestion, DraftLostHasCause, OneTimer
<1>2. SearchInv /\ [SearchNext]_searchVars => SearchInv'
  BY HitsStep, DraftStep, TimerStep, FiltersStep DEF SearchInv
<1> QED BY <1>1, <1>2, PTL DEF SearchSpec

\* What the user typed into the dialog is lost only when an answer makes the screen
\* render again: no order of edits, escapes and answers loses it otherwise.
THEOREM DraftsAreLostByRenderings == SearchSpec => []DraftLostHasCause
<1>1. SearchInv => DraftLostHasCause
  BY DEF SearchInv
<1> QED BY SearchHolds, <1>1, PTL

\* However fast one types into the search bar and folds the sidebar, it waits with
\* one search at most, and with the one it shows or showed when it was cleared.
THEOREM OneSearchWaits == SearchSpec => []SearchIsLastTyped
<1>1. SearchInv => SearchIsLastTyped
  BY DEF SearchInv, OneTimer, SearchIsLastTyped
<1> QED BY SearchHolds, <1>1, PTL

\* Of the rows of one key the last one counts, and every other row has a later row of
\* its key: no term of a list of any length is dropped without one that replaces it.
LEMMA TermsAreAsked ==
  ASSUME filters.terms \in Seq(Rows)
  PROVE  TermIsAsked
<1> DEFINE terms == filters.terms
<1> SUFFICES ASSUME NEW i \in DOMAIN terms,
                    \A j \in DOMAIN terms : j > i => terms[j].key # terms[i].key
             PROVE  Metadata(terms)[terms[i].key] = terms[i].value
  BY DEF TermIsAsked
<1> DEFINE k == terms[i].key
           I == {j \in 1 .. Len(terms) : terms[j].key = k}
<1>1. DOMAIN terms = 1 .. Len(terms) /\ Len(terms) \in Nat
  OBVIOUS
<1>2. i \in I /\ \A j \in I : i >= j
  BY <1>1
<1>3. Max(I) = i
  BY <1>1, <1>2 DEF Max
<1>4. SelectLastInSeq(terms, LAMBDA row : row.key = k) = i
  BY <1>2, <1>3 DEF SelectLastInSeq
<1> QED BY <1>4 DEF Metadata

\* What the screen shows answers what it says: however one types, filters, folds the
\* sidebar and waits, the hits are those of the text and the filters or these are
\* asked for or have failed, and every filter narrows them but for one that a later
\* filter of its key replaces.
THEOREM HitsAnswerTheQuestion == SearchSpec => []HitsAnswerTheScreen
<1>1. SearchInv => HitsAnswerTheScreen
  BY TermsAreAsked DEF SearchInv, FiltersAreRows, HitsAnswerTheScreen
<1> QED BY SearchHolds, <1>1, PTL

-----------------------------------------------------------------------------
(* Widgets: texts and addresses.                                           *)

Tokens == Letters \cup Escapes

\* What comes in a token's place is a text: a value of the row, encoded or not, holds
\* no token that is not one.
LEMMA PiecesAreTexts ==
  ASSUME NEW row \in TableRows, NEW t \in Tokens
  PROVE  /\ \A f : Field(row, f) \in Seq(Letters)
         /\ \A held \in Seq(Letters) : Encode(held) \in WidgetTexts
         /\ \A encode \in BOOLEAN : Piece(t, row, encode) \in WidgetTexts
<1>1. \A f : Field(row, f) \in Seq(Letters)
  BY WidgetsAssumption DEF Field
<1>2. ASSUME NEW held \in Seq(Letters) PROVE Encode(held) \in WidgetTexts
  <2> DEFINE Escaped(u) == CASE u = "/" -> "%2F" [] u = "?" -> "%3F" [] u = "$id" -> "%24id"
                            [] OTHER -> u
  <2>1. Encode(held) = [i \in DOMAIN held |-> Escaped(held[i])]
    BY DEF Encode
  <2>2. \A u \in Letters : Escaped(u) \in Tokens
    BY DEF Tokens, Escapes
  <2>3. DOMAIN held = 1 .. Len(held) /\ \A i \in 1 .. Len(held) : held[i] \in Letters
    OBVIOUS
  <2> HIDE DEF Escaped
  <2>4. [i \in 1 .. Len(held) |-> Escaped(held[i])] \in Seq(Tokens)
    BY <2>2, <2>3
  <2> QED BY <2>1, <2>3, <2>4 DEF WidgetTexts, Tokens
<1>3. \A held \in Seq(Letters) : held \in WidgetTexts
  BY DEF WidgetTexts
<1>4. <<t>> \in WidgetTexts
  BY DEF WidgetTexts, Tokens
<1>5. ASSUME NEW encode \in BOOLEAN PROVE Piece(t, row, encode) \in WidgetTexts
  BY <1>1, <1>2, <1>3, <1>4 DEF Piece
<1> QED BY <1>1, <1>2, <1>5

\* A template is filled token by token.
LEMMA FilledEquations ==
  ASSUME NEW row \in TableRows, NEW encode \in BOOLEAN
  PROVE  /\ Interpolate(<< >>, row, encode) = << >>
         /\ \A s \in WidgetTexts : Interpolate(s, row, encode) \in WidgetTexts
         /\ \A s \in WidgetTexts, t \in Tokens :
              Interpolate(Append(s, t), row, encode)
                = Interpolate(s, row, encode) \o Piece(t, row, encode)
<1> DEFINE Value(f, s) ==
             IF s = << >> THEN << >> ELSE f[Front(s)] \o Piece(Last(s), row, encode)
           Solution(f) == f = [s \in WidgetTexts |-> Value(f, s)]
           step == [t \in Tokens |-> [w \in WidgetTexts |-> w \o Piece(t, row, encode)]]
           filled == CHOOSE f : Solution(f)
<1>1. \A t \in Tokens : Piece(t, row, encode) \in WidgetTexts
  BY PiecesAreTexts
<1>2. WidgetTexts = Seq(Tokens) /\ << >> \in WidgetTexts
  BY DEF WidgetTexts, Tokens
<1>3. \A w \in WidgetTexts, t \in Tokens : w \o Piece(t, row, encode) \in WidgetTexts
  BY <1>1, <1>2
<1>4. step \in [Tokens -> [WidgetTexts -> WidgetTexts]]
  BY <1>3
<1>5. \A t \in Tokens, w \in WidgetTexts : step[t][w] = w \o Piece(t, row, encode)
  OBVIOUS
<1> HIDE DEF step
<1>6. \E f : Solution(f)
  <2>1. PICK f : Solves(f, Tokens, WidgetTexts, << >>, step)
    BY <1>2, <1>4, SequenceRecursion
  <2>2. f \in [WidgetTexts -> WidgetTexts]
    BY <1>2, <2>1 DEF Solves
  <2>3. ASSUME NEW s \in WidgetTexts PROVE f[s] = Value(f, s)
    <3>1. f[s] = IF s = << >> THEN << >> ELSE step[Last(s)][f[Front(s)]]
      BY <1>2, <2>1 DEF Solves
    <3>2. s # << >> => Front(s) \in WidgetTexts /\ Last(s) \in Tokens
      BY <1>2, FrontAndLast
    <3> QED BY <1>5, <2>2, <3>1, <3>2
  <2> HIDE DEF Value
  <2>4. f = [s \in WidgetTexts |-> Value(f, s)]
    BY <2>2, <2>3
  <2> QED BY <2>4
<1>7. Solution(filled)
  <2> HIDE DEF Solution
  <2> QED BY <1>6
<1>8. \A s : Interpolate(s, row, encode) = filled[s]
  BY DEF Interpolate
<1>9. \A s \in WidgetTexts : filled[s] = Value(filled, s)
  <2> HIDE DEF Value, filled
  <2> QED BY <1>7
<1> HIDE DEF filled, Solution
<1>10. \A s \in WidgetTexts : filled[s] \in WidgetTexts
  <2> DEFINE P == {s \in WidgetTexts : filled[s] \in WidgetTexts}
  <2>1. << >> \in P
    BY <1>2, <1>9
  <2>2. ASSUME NEW s \in P \cap Seq(Tokens), NEW t \in Tokens PROVE Append(s, t) \in P
    <3>1. /\ Append(s, t) \in WidgetTexts /\ Append(s, t) # << >>
          /\ Front(Append(s, t)) = s /\ Last(Append(s, t)) = t
      BY <1>2, FrontAndLast
    <3>2. filled[Append(s, t)] = filled[s] \o Piece(t, row, encode)
      BY <1>9, <3>1
    <3> QED BY <1>3, <3>1, <3>2
  <2> HIDE DEF P
  <2>3. \A s \in Seq(Tokens) : s \in P
    BY <2>1, <2>2, SequenceInduction
  <2> QED BY <1>2, <2>3 DEF P
<1>11. ASSUME NEW s \in WidgetTexts, NEW t \in Tokens
       PROVE  filled[Append(s, t)] = filled[s] \o Piece(t, row, encode)
  <2>1. /\ Append(s, t) \in WidgetTexts /\ Append(s, t) # << >>
        /\ Front(Append(s, t)) = s /\ Last(Append(s, t)) = t
    BY <1>2, FrontAndLast
  <2> QED BY <1>9, <2>1
<1>12. filled[<< >>] = << >>
  BY <1>2, <1>9
<1> QED BY <1>8, <1>10, <1>11, <1>12

\* What has been read of a text.
Reads == {r \in [parts : Seq(WidgetTexts), marked : BOOLEAN, query : WidgetTexts] :
            r.parts # << >>}

\* A token more.
LEMMA ReadingReads ==
  ASSUME NEW r \in Reads, NEW t \in Tokens
  PROVE  /\ Reading(r, t) \in Reads
         /\ r.marked => Reading(r, t).marked /\ Reading(r, t).parts = r.parts
         /\ ~ r.marked =>
              /\ t = "?" => Reading(r, t).marked /\ Reading(r, t).parts = r.parts
              /\ t = "/" => /\ ~ Reading(r, t).marked
                            /\ Reading(r, t).parts = Append(r.parts, << >>)
              /\ t \notin {"?", "/"} =>
                   /\ ~ Reading(r, t).marked
                   /\ Reading(r, t).parts
                        = Append(Front(r.parts), Append(Last(r.parts), t))
<1>1. /\ r \in [parts : Seq(WidgetTexts), marked : BOOLEAN, query : WidgetTexts]
      /\ r.parts \in Seq(WidgetTexts) /\ r.marked \in BOOLEAN /\ r.query \in WidgetTexts
      /\ r.parts # << >>
  BY DEF Reads
<1>2. /\ Append(r.query, t) \in WidgetTexts
      /\ << >> \in WidgetTexts
      /\ \A w \in WidgetTexts : Append(w, t) \in WidgetTexts
  BY <1>1 DEF WidgetTexts, Tokens
<1>3. Front(r.parts) \in Seq(WidgetTexts) /\ Last(r.parts) \in WidgetTexts
  BY <1>1, FrontAndLast
<1>4. /\ \A w \in WidgetTexts : /\ Append(r.parts, w) \in Seq(WidgetTexts)
                                /\ Append(r.parts, w) # << >>
      /\ \A w \in WidgetTexts : /\ Append(Front(r.parts), w) \in Seq(WidgetTexts)
                                /\ Append(Front(r.parts), w) # << >>
  BY <1>1, <1>3, FrontAndLast
<1>5. CASE r.marked
  <2>1. Reading(r, t) = [r EXCEPT !.query = Append(@, t)]
    BY <1>5 DEF Reading
  <2> QED BY <1>1, <1>2, <1>5, <2>1 DEF Reads
<1>6. CASE ~ r.marked /\ t = "?"
  <2>1. Reading(r, t) = [r EXCEPT !.marked = TRUE]
    BY <1>6 DEF Reading
  <2> QED BY <1>1, <1>6, <2>1 DEF Reads
<1>7. CASE ~ r.marked /\ t = "/"
  <2>1. Reading(r, t) = [r EXCEPT !.parts = Append(@, << >>)]
    BY <1>7 DEF Reading
  <2> QED BY <1>1, <1>2, <1>4, <1>7, <2>1 DEF Reads
<1>8. CASE ~ r.marked /\ t \notin {"?", "/"}
  <2>1. Reading(r, t) = [r EXCEPT !.parts = Append(Front(@), Append(Last(@), t))]
    BY <1>8 DEF Reading
  <2>2. Append(Last(r.parts), t) \in WidgetTexts
    BY <1>2, <1>3
  <2>3. /\ Append(Front(r.parts), Append(Last(r.parts), t)) \in Seq(WidgetTexts)
        /\ Append(Front(r.parts), Append(Last(r.parts), t)) # << >>
    BY <1>4, <2>2
  <2> DEFINE longer == Append(Front(r.parts), Append(Last(r.parts), t))
  <2>4. Reading(r, t) = [r EXCEPT !.parts = longer]
    BY <2>1
  <2> HIDE DEF longer
  <2>5. longer \in Seq(WidgetTexts) /\ longer # << >>
    BY <2>3 DEF longer
  <2>6. /\ Reading(r, t) \in Reads /\ ~ Reading(r, t).marked
        /\ Reading(r, t).parts = longer
    BY <1>1, <1>8, <2>4, <2>5 DEF Reads
  <2> QED BY <1>8, <2>6 DEF longer
<1> QED BY <1>1, <1>5, <1>6, <1>7, <1>8

\* A text is split token by token.
LEMMA SplitEquations ==
  /\ Split[<< >>] = Start
  /\ \A s \in WidgetTexts : Split[s] \in Reads
  /\ \A s \in WidgetTexts, t \in Tokens : Split[Append(s, t)] = Reading(Split[s], t)
<1> DEFINE Value(f, s) == IF s = << >> THEN Start ELSE Reading(f[Front(s)], Last(s))
           Solution(f) == f = [s \in WidgetTexts |-> Value(f, s)]
           step == [t \in Tokens |-> [r \in Reads |-> Reading(r, t)]]
<1>1. Start \in Reads
  BY DEF Start, Reads, WidgetTexts
<1>2. WidgetTexts = Seq(Tokens) /\ << >> \in WidgetTexts
  BY DEF WidgetTexts, Tokens
<1>3. \A r \in Reads, t \in Tokens : Reading(r, t) \in Reads
  BY ReadingReads
<1>4. step \in [Tokens -> [Reads -> Reads]]
  BY <1>3
<1>5. \A t \in Tokens, r \in Reads : step[t][r] = Reading(r, t)
  OBVIOUS
<1> HIDE DEF step
<1>6. \E f : Solution(f)
  <2>1. PICK f : Solves(f, Tokens, Reads, Start, step)
    BY <1>1, <1>4, SequenceRecursion
  <2>2. f \in [WidgetTexts -> Reads]
    BY <1>2, <2>1 DEF Solves
  <2>3. ASSUME NEW s \in WidgetTexts PROVE f[s] = Value(f, s)
    <3>1. f[s] = IF s = << >> THEN Start ELSE step[Last(s)][f[Front(s)]]
      BY <1>2, <2>1 DEF Solves
    <3>2. s # << >> => Front(s) \in WidgetTexts /\ Last(s) \in Tokens
      BY <1>2, FrontAndLast
    <3> QED BY <1>5, <2>2, <3>1, <3>2
  <2> HIDE DEF Value
  <2>4. f = [s \in WidgetTexts |-> Value(f, s)]
    BY <2>2, <2>3
  <2> QED BY <2>4
<1>7. Solution(Split)
  <2>1. Split = CHOOSE f : Solution(f)
    BY DEF Split
  <2> HIDE DEF Solution
  <2> QED BY <1>6, <2>1
<1>8. \A s \in WidgetTexts : Split[s] = Value(Split, s)
  <2> HIDE DEF Value
  <2> QED BY <1>7
<1> HIDE DEF Solution
<1>9. ASSUME NEW s \in WidgetTexts, NEW t \in Tokens
      PROVE  Append(s, t) \in WidgetTexts /\ Split[Append(s, t)] = Reading(Split[s], t)
  <2>1. /\ Append(s, t) \in WidgetTexts /\ Append(s, t) # << >>
        /\ Front(Append(s, t)) = s /\ Last(Append(s, t)) = t
    BY <1>2, FrontAndLast
  <2> QED BY <1>8, <2>1
<1>10. Split[<< >>] = Start
  BY <1>2, <1>8
<1>11. \A s \in WidgetTexts : Split[s] \in Reads
  <2> DEFINE P == {s \in WidgetTexts : Split[s] \in Reads}
  <2>1. << >> \in P
    BY <1>1, <1>2, <1>10
  <2>2. ASSUME NEW s \in P \cap Seq(Tokens), NEW t \in Tokens PROVE Append(s, t) \in P
    BY <1>3, <1>9
  <2> HIDE DEF P
  <2>3. \A s \in Seq(Tokens) : s \in P
    BY <2>1, <2>2, SequenceInduction
  <2> QED BY <1>2, <2>3 DEF P
<1> QED BY <1>9, <1>10, <1>11

\* A path without dot segments is left as it is.
LEMMA NoDotsToDrop ==
  ASSUME NEW path \in Seq(WidgetTexts),
         \A i \in DOMAIN path : path[i] \notin {<<".">>, <<".", ".">>}
  PROVE  Dots[path] = path
<1> DEFINE Add(p, w) == CASE w = <<".">> -> p
                          [] w = <<".", ".">> -> SubSeq(p, 1, Len(p) - 1)
                          [] OTHER -> Append(p, w)
           Value(f, s) == IF s = << >> THEN << >> ELSE Add(f[Front(s)], Last(s))
           Paths == Seq(WidgetTexts)
           Solution(f) == f = [s \in Paths |-> Value(f, s)]
           step == [w \in WidgetTexts |-> [p \in Paths |-> Add(p, w)]]
<1>1. << >> \in Paths
  OBVIOUS
<1>2. \A p \in Paths : SubSeq(p, 1, Len(p) - 1) \in Paths
  OBVIOUS
<1>3. \A p \in Paths, w \in WidgetTexts : Append(p, w) \in Paths
  OBVIOUS
<1> HIDE DEF Paths
<1>4. \A p \in Paths, w \in WidgetTexts : Add(p, w) \in Paths
  BY <1>2, <1>3
<1> HIDE DEF Add
<1>5. step \in [WidgetTexts -> [Paths -> Paths]]
  BY <1>4
<1>6. \A w \in WidgetTexts, p \in Paths : step[w][p] = Add(p, w)
  OBVIOUS
<1> HIDE DEF step
<1>7. \E f : Solution(f)
  <2>1. PICK f : Solves(f, WidgetTexts, Paths, << >>, step)
    BY <1>1, <1>5, SequenceRecursion
  <2>2. f \in [Paths -> Paths]
    BY <2>1 DEF Solves, Paths
  <2>3. ASSUME NEW s \in Paths PROVE f[s] = Value(f, s)
    <3>1. f[s] = IF s = << >> THEN << >> ELSE step[Last(s)][f[Front(s)]]
      BY <2>1, <2>3 DEF Solves, Paths
    <3>2. s # << >> => Front(s) \in Paths /\ Last(s) \in WidgetTexts
      BY <2>3, FrontAndLast DEF Paths
    <3> QED BY <1>6, <2>2, <3>1, <3>2
  <2> HIDE DEF Value
  <2>4. f = [s \in Paths |-> Value(f, s)]
    BY <2>2, <2>3
  <2> QED BY <2>4
<1>8. Solution(Dots)
  <2>1. Dots = CHOOSE f : Solution(f)
    BY DEF Dots, Add, Paths
  <2> HIDE DEF Solution
  <2> QED BY <1>7, <2>1
<1>9. \A s \in Paths : Dots[s] = Value(Dots, s)
  <2> HIDE DEF Value
  <2> QED BY <1>8
<1> HIDE DEF Solution
<1> DEFINE Plain(s) == \A i \in DOMAIN s : s[i] \notin {<<".">>, <<".", ".">>}
           P == {s \in Paths : Plain(s) => Dots[s] = s}
<1>10. << >> \in P
  BY <1>1, <1>9
<1>11. ASSUME NEW s \in P \cap Seq(WidgetTexts), NEW w \in WidgetTexts
       PROVE  Append(s, w) \in P
  <2>1. /\ Append(s, w) \in Paths /\ Append(s, w) # << >>
        /\ Front(Append(s, w)) = s /\ Last(Append(s, w)) = w
    BY FrontAndLast DEF Paths
  <2>2. Dots[Append(s, w)] = Add(Dots[s], w)
    BY <1>9, <2>1
  <2>3. ASSUME Plain(Append(s, w)) PROVE Dots[Append(s, w)] = Append(s, w)
    <3>1. /\ DOMAIN s = 1 .. Len(s) /\ Len(s) \in Nat
          /\ DOMAIN Append(s, w) = 1 .. Len(s) + 1
          /\ \A i \in 1 .. Len(s) : Append(s, w)[i] = s[i]
          /\ Append(s, w)[Len(s) + 1] = w
      OBVIOUS
    <3>2. Plain(s) /\ w \notin {<<".">>, <<".", ".">>}
      BY <2>3, <3>1
    <3>3. Dots[s] = s
      BY <3>2
    <3> QED BY <2>2, <3>2, <3>3 DEF Add
  <2> QED BY <2>1, <2>3
<1> HIDE DEF P
<1>12. \A s \in Seq(WidgetTexts) : s \in P
  BY <1>10, <1>11, SequenceInduction
<1> QED BY <1>12 DEF P

\* A text without a slash or a question mark only makes the last segment longer.
LEMMA PlainTextGoesOn ==
  ASSUME NEW a \in WidgetTexts, NEW v \in Seq(Tokens \ {"/", "?"})
  PROVE  /\ a \o v \in WidgetTexts
         /\ Split[a \o v].marked = Split[a].marked
         /\ Split[a].marked => Split[a \o v].parts = Split[a].parts
         /\ ~ Split[a].marked =>
              Split[a \o v].parts = Append(Front(Split[a].parts), Last(Split[a].parts) \o v)
<1> DEFINE Plain == Tokens \ {"/", "?"}
           parts == Split[a].parts
           marked == Split[a].marked
           GoesOn(w) == /\ a \o w \in WidgetTexts
                        /\ Split[a \o w].marked = marked
                        /\ marked => Split[a \o w].parts = parts
                        /\ ~ marked =>
                             Split[a \o w].parts = Append(Front(parts), Last(parts) \o w)
           P == {w \in Seq(Plain) : GoesOn(w)}
<1>1. /\ Split[a] \in Reads /\ parts \in Seq(WidgetTexts) /\ parts # << >>
      /\ marked \in BOOLEAN
  BY SplitEquations DEF Reads
<1>2. /\ Front(parts) \in Seq(WidgetTexts) /\ Last(parts) \in WidgetTexts
      /\ parts = Append(Front(parts), Last(parts))
  BY <1>1, FrontAndLast
<1>3. WidgetTexts = Seq(Tokens)
  BY DEF WidgetTexts, Tokens
<1>4. << >> \in P
  <2>1. a \o << >> = a /\ Last(parts) \o << >> = Last(parts)
    <3> HIDE DEF parts
    <3> QED BY <1>2, <1>3
  <2> HIDE DEF parts, marked
  <2>2. Split[a].marked = marked /\ Split[a].parts = parts
    BY DEF parts, marked
  <2>3. GoesOn(<< >>)
    BY <1>2, <2>1, <2>2
  <2> HIDE DEF GoesOn
  <2> QED BY <2>3
<1>5. ASSUME NEW w \in P \cap Seq(Plain), NEW t \in Plain
      PROVE  Append(w, t) \in P
  <2>1. Append(w, t) \in Seq(Plain) /\ GoesOn(w) /\ t \in Tokens /\ t \notin {"/", "?"}
    OBVIOUS
  <2>2. a \o w \in WidgetTexts /\ w \in WidgetTexts
    BY <1>3, <2>1
  <2>3. a \o Append(w, t) = Append(a \o w, t) /\ Append(a \o w, t) \in WidgetTexts
    <3>1. a \in Seq(Tokens) /\ w \in Seq(Tokens)
      BY <1>3, <2>2
    <3> QED BY <1>3, <2>1, <3>1
  <2>4. Last(parts) \o Append(w, t) = Append(Last(parts) \o w, t)
        /\ Last(parts) \o w \in WidgetTexts
    <3> HIDE DEF parts
    <3>1. Last(parts) \in Seq(Tokens) /\ w \in Seq(Tokens)
      BY <1>2, <1>3, <2>2
    <3> QED BY <1>3, <2>1, <3>1
  <2> DEFINE r == Split[a \o w]
  <2>5. r \in Reads /\ Split[a \o Append(w, t)] = Reading(r, t)
    BY <2>1, <2>2, <2>3, SplitEquations
  <2>6. /\ r.marked = marked
        /\ marked => r.parts = parts
        /\ ~ marked => r.parts = Append(Front(parts), Last(parts) \o w)
    BY <2>1
  <2> HIDE DEF r, parts, marked
  <2>7. CASE marked
    <3>1. Reading(r, t).marked /\ Reading(r, t).parts = r.parts
      BY <2>1, <2>5, <2>6, <2>7, ReadingReads
    <3>2. GoesOn(Append(w, t))
      BY <1>1, <2>3, <2>5, <2>6, <2>7, <3>1 DEF Reads
    <3> QED BY <2>1, <3>2
  <2>8. CASE ~ marked
    <3>1. ~ Reading(r, t).marked
          /\ Reading(r, t).parts = Append(Front(r.parts), Append(Last(r.parts), t))
      BY <2>1, <2>5, <2>6, <2>8, ReadingReads
    <3>2. Front(r.parts) = Front(parts) /\ Last(r.parts) = Last(parts) \o w
      <4>1. Front(parts) \in Seq(WidgetTexts) /\ Last(parts) \o w \in WidgetTexts
        BY <1>2, <2>4
      <4>2. r.parts = Append(Front(parts), Last(parts) \o w)
        BY <2>6, <2>8
      <4>3. \A q \in Seq(WidgetTexts), x \in WidgetTexts :
              Front(Append(q, x)) = q /\ Last(Append(q, x)) = x
        BY FrontAndLast
      <4> QED BY <4>1, <4>2, <4>3
    <3>3. Reading(r, t).parts = Append(Front(parts), Last(parts) \o Append(w, t))
      BY <2>4, <3>1, <3>2
    <3>4. Reading(r, t).marked = marked
      <4>1. Reading(r, t) \in Reads
        BY <2>1, <2>5, ReadingReads
      <4>2. Reading(r, t).marked \in BOOLEAN
        BY <4>1 DEF Reads
      <4> QED BY <1>1, <2>8, <3>1, <4>2
    <3>5. GoesOn(Append(w, t))
      BY <2>3, <2>5, <2>8, <3>3, <3>4
    <3> QED BY <2>1, <3>5
  <2> QED BY <1>1, <2>7, <2>8
<1> HIDE DEF P
<1>6. \A w \in Seq(Plain) : w \in P
  BY <1>4, <1>5, SequenceInduction
<1> QED BY <1>6 DEF P

\* The segments of a template, each filled with the row's values.
Filled(parts, row) == [i \in DOMAIN parts |-> Interpolate(parts[i], row, TRUE)]

LEMMA FilledSegments ==
  ASSUME NEW row \in TableRows
  PROVE  /\ Filled(<< >>, row) = << >>
         /\ \A parts \in Seq(WidgetTexts) : Filled(parts, row) \in Seq(WidgetTexts)
         /\ \A parts \in Seq(WidgetTexts), w \in WidgetTexts :
              Filled(Append(parts, w), row)
                = Append(Filled(parts, row), Interpolate(w, row, TRUE))
<1> DEFINE E(w) == Interpolate(w, row, TRUE)
<1>1. \A w \in WidgetTexts : E(w) \in WidgetTexts
  BY FilledEquations
<1>2. \A parts : Filled(parts, row) = [i \in DOMAIN parts |-> E(parts[i])]
  BY DEF Filled
<1> HIDE DEF E
<1>3. Filled(<< >>, row) = << >>
  BY <1>2
<1>4. ASSUME NEW parts \in Seq(WidgetTexts), NEW w \in WidgetTexts
      PROVE  /\ Filled(parts, row) \in Seq(WidgetTexts)
             /\ Filled(Append(parts, w), row) = Append(Filled(parts, row), E(w))
  <2>1. /\ DOMAIN parts = 1 .. Len(parts) /\ Len(parts) \in Nat
        /\ DOMAIN Append(parts, w) = 1 .. Len(parts) + 1
        /\ \A i \in 1 .. Len(parts) :
             Append(parts, w)[i] = parts[i] /\ parts[i] \in WidgetTexts
        /\ Append(parts, w)[Len(parts) + 1] = w
    OBVIOUS
  <2>2. Filled(parts, row) = [i \in 1 .. Len(parts) |-> E(parts[i])]
    BY <1>2, <2>1
  <2>3. Filled(parts, row) \in Seq(WidgetTexts) /\ Len(Filled(parts, row)) = Len(parts)
    BY <1>1, <2>1, <2>2
  <2>4. Filled(Append(parts, w), row)
          = [i \in 1 .. Len(parts) + 1 |-> E(Append(parts, w)[i])]
    BY <1>2, <2>1
  <2>5. Append(Filled(parts, row), E(w)) \in Seq(WidgetTexts)
        /\ Len(Append(Filled(parts, row), E(w))) = Len(parts) + 1
    BY <1>1, <2>3
  <2>6. ASSUME NEW i \in 1 .. Len(parts) + 1
        PROVE  E(Append(parts, w)[i]) = Append(Filled(parts, row), E(w))[i]
    <3>1. CASE i \in 1 .. Len(parts)
      <4>1. Append(Filled(parts, row), E(w))[i] = Filled(parts, row)[i]
        BY <2>3, <3>1
      <4>2. Filled(parts, row)[i] = E(parts[i])
        BY <2>2, <3>1
      <4> QED BY <2>1, <3>1, <4>1, <4>2
    <3>2. CASE i = Len(parts) + 1
      BY <2>1, <2>3, <3>2
    <3>3. i \in 1 .. Len(parts) \/ i = Len(parts) + 1
      BY <2>1, <2>6
    <3> HIDE DEF E
    <3> QED BY <3>1, <3>2, <3>3
  <2>7. Append(Filled(parts, row), E(w))
          = [i \in 1 .. Len(parts) + 1 |-> Append(Filled(parts, row), E(w))[i]]
    <3> DEFINE longer == Append(Filled(parts, row), E(w))
    <3>1. longer \in Seq(WidgetTexts) /\ Len(longer) = Len(parts) + 1
      BY <2>5
    <3> HIDE DEF longer
    <3>2. longer = [i \in 1 .. Len(longer) |-> longer[i]]
      BY <3>1
    <3>3. longer = [i \in 1 .. Len(parts) + 1 |-> longer[i]]
      BY <3>1, <3>2
    <3> QED BY <3>3 DEF longer
  <2>8. Filled(Append(parts, w), row)
          = [i \in 1 .. Len(parts) + 1 |-> Append(Filled(parts, row), E(w))[i]]
    BY <2>4, <2>6
  <2> QED BY <2>3, <2>7, <2>8
<1>5. << >> \in WidgetTexts
  BY DEF WidgetTexts
<1> QED BY <1>3, <1>4, <1>5 DEF E

\* The value that comes in a token's place brings no segment of its own.
LEMMA EncodedIsPlain ==
  ASSUME NEW held \in Seq(Letters)
  PROVE  /\ Encode(held) \in Seq(Tokens \ {"/", "?"})
         /\ Decode(Encode(held)) = held
<1> DEFINE Escaped(u) == CASE u = "/" -> "%2F" [] u = "?" -> "%3F" [] u = "$id" -> "%24id"
                          [] OTHER -> u
           Unescape(u) == CASE u = "%2F" -> "/" [] u = "%3F" -> "?" [] u = "%24id" -> "$id"
                            [] OTHER -> u
<1>1. Encode(held) = [i \in DOMAIN held |-> Escaped(held[i])]
  BY DEF Encode
<1>2. \A w : Decode(w) = [i \in DOMAIN w |-> Unescape(w[i])]
  BY DEF Decode
<1>3. \A u \in Letters : Escaped(u) \in Tokens \ {"/", "?"}
  BY DEF Tokens, Escapes
<1>4. \A u \in Letters : Unescape(Escaped(u)) = u
  BY WidgetsAssumption DEF Escapes
<1>5. DOMAIN held = 1 .. Len(held) /\ Len(held) \in Nat
      /\ \A i \in 1 .. Len(held) : held[i] \in Letters
  OBVIOUS
<1> HIDE DEF Escaped, Unescape
<1>6. [i \in 1 .. Len(held) |-> Escaped(held[i])] \in Seq(Tokens \ {"/", "?"})
  BY <1>3, <1>5
<1>7. DOMAIN Encode(held) = 1 .. Len(held)
      /\ \A i \in 1 .. Len(held) : Encode(held)[i] = Escaped(held[i])
  BY <1>1, <1>5
<1>8. Decode(Encode(held)) = [i \in 1 .. Len(held) |-> held[i]]
  BY <1>2, <1>4, <1>5, <1>7
<1>9. held = [i \in 1 .. Len(held) |-> held[i]]
  OBVIOUS
<1> QED BY <1>1, <1>5, <1>6, <1>8, <1>9

\* A text with the row's values in it, encoded, has the segments of its template, each
\* with the values in it.
LEMMA FilledKeepsItsShape ==
  ASSUME NEW row \in TableRows, NEW to \in WidgetTexts
  PROVE  /\ Split[Interpolate(to, row, TRUE)].marked = Split[to].marked
         /\ Split[Interpolate(to, row, TRUE)].parts = Filled(Split[to].parts, row)
<1> DEFINE E(w) == Interpolate(w, row, TRUE)
           Shape(s) == /\ Split[E(s)].marked = Split[s].marked
                       /\ Split[E(s)].parts = Filled(Split[s].parts, row)
           P == {s \in WidgetTexts : Shape(s)}
<1>1. /\ E(<< >>) = << >>
      /\ \A w \in WidgetTexts : E(w) \in WidgetTexts
      /\ \A w \in WidgetTexts, t \in Tokens : E(Append(w, t)) = E(w) \o Piece(t, row, TRUE)
  BY FilledEquations
<1>2. WidgetTexts = Seq(Tokens) /\ << >> \in WidgetTexts
  BY DEF WidgetTexts, Tokens
<1>3. /\ Filled(<< >>, row) = << >>
      /\ \A parts \in Seq(WidgetTexts), w \in WidgetTexts :
           /\ Filled(parts, row) \in Seq(WidgetTexts)
           /\ Filled(Append(parts, w), row) = Append(Filled(parts, row), E(w))
  BY FilledSegments
<1>4. \A parts \in Seq(WidgetTexts), w \in WidgetTexts :
        Front(Append(parts, w)) = parts /\ Last(Append(parts, w)) = w
  BY FrontAndLast
<1>5. \A s \in WidgetTexts : Split[s] \in Reads
  BY SplitEquations
<1>6. \A w \in WidgetTexts, t \in Tokens :
         Append(w, t) \in WidgetTexts /\ w \o <<t>> = Append(w, t)
  <2>1. \A w \in Seq(Tokens), t \in Tokens :
          Append(w, t) \in Seq(Tokens) /\ w \o <<t>> = Append(w, t)
    OBVIOUS
  <2> QED BY <1>2, <2>1
<1> HIDE DEF E
<1>7. << >> \in P
  <2>1. Split[<< >>] = Start /\ Start.parts = << << >> >>
    BY SplitEquations DEF Start
  <2>2. << << >> >> = Append(<< >>, << >>) /\ << >> \in Seq(WidgetTexts)
    OBVIOUS
  <2>3. Filled(Append(<< >>, << >>), row) = Append(Filled(<< >>, row), E(<< >>))
    BY <1>2, <1>3, <2>2
  <2>4. Filled(<< << >> >>, row) = << << >> >>
    BY <1>1, <1>3, <2>2, <2>3
  <2>5. Shape(<< >>)
    BY <1>1, <2>1, <2>4
  <2> HIDE DEF Shape
  <2> QED BY <1>2, <2>5
<1>8. ASSUME NEW s \in P \cap Seq(Tokens), NEW t \in Tokens
      PROVE  Append(s, t) \in P
  <2> DEFINE r == Split[s]
             e == Split[E(s)]
  <2>1. s \in WidgetTexts /\ Append(s, t) \in WidgetTexts /\ E(s) \in WidgetTexts
    BY <1>1, <1>2
  <2>2. /\ r \in Reads /\ e \in Reads
        /\ Split[Append(s, t)] = Reading(r, t)
        /\ E(Append(s, t)) = E(s) \o Piece(t, row, TRUE)
    BY <1>1, <1>5, <2>1, SplitEquations
  <2>3. e.marked = r.marked /\ e.parts = Filled(r.parts, row)
    OBVIOUS
  <2> HIDE DEF P, Shape
  <2>4. SUFFICES Shape(Append(s, t))
    BY <2>1 DEF P
  <2>5. /\ r.parts \in Seq(WidgetTexts) /\ r.parts # << >> /\ r.marked \in BOOLEAN
        /\ Reading(r, t) \in Reads /\ Reading(r, t).marked \in BOOLEAN
    BY <2>2, ReadingReads DEF Reads
  <2> DEFINE front == Front(r.parts)
             last  == Last(r.parts)
  <2>6. front \in Seq(WidgetTexts) /\ last \in WidgetTexts /\ r.parts = Append(front, last)
    BY <2>5, FrontAndLast
  <2>7. /\ e.parts = Append(Filled(front, row), E(last))
        /\ Filled(front, row) \in Seq(WidgetTexts) /\ E(last) \in WidgetTexts
        /\ Front(e.parts) = Filled(front, row) /\ Last(e.parts) = E(last)
    <3> HIDE DEF e, r, front, last
    <3>1. e.parts = Append(Filled(front, row), E(last))
      BY <1>3, <2>3, <2>6
    <3>2. Filled(front, row) \in Seq(WidgetTexts) /\ E(last) \in WidgetTexts
      BY <1>1, <1>3, <2>6
    <3> QED BY <1>4, <3>1, <3>2
  <2>8. CASE t \notin DOMAIN FieldOf
    <3>1. Piece(t, row, TRUE) = <<t>>
      BY <2>8 DEF Piece
    <3>2. E(Append(s, t)) = Append(E(s), t)
      BY <1>6, <2>1, <2>2, <3>1
    <3>3. Split[E(Append(s, t))] = Reading(e, t)
      BY <2>1, <3>2, SplitEquations
    <3>4. E(Append(last, t)) = Append(E(last), t) /\ Append(last, t) \in WidgetTexts
      <4> HIDE DEF last
      <4>1. E(Append(last, t)) = E(last) \o Piece(t, row, TRUE)
        BY <1>1, <2>6
      <4> QED BY <1>6, <2>6, <2>7, <3>1, <4>1
    <3>5. /\ Filled(Append(front, Append(last, t)), row)
               = Append(Filled(front, row), E(Append(last, t)))
          /\ Filled(Append(r.parts, << >>), row) = Append(e.parts, << >>)
      <4> HIDE DEF e, r, front, last
      <4>1. Filled(Append(r.parts, << >>), row) = Append(Filled(r.parts, row), E(<< >>))
        BY <1>2, <1>3, <2>5
      <4>2. Filled(Append(front, Append(last, t)), row)
               = Append(Filled(front, row), E(Append(last, t)))
        BY <1>3, <2>6, <3>4
      <4> QED BY <1>1, <2>3, <4>1, <4>2
    <3>6. /\ r.marked => Reading(r, t).marked /\ Reading(r, t).parts = r.parts
          /\ ~ r.marked =>
              /\ t = "?" => Reading(r, t).marked /\ Reading(r, t).parts = r.parts
              /\ t = "/" => /\ ~ Reading(r, t).marked
                            /\ Reading(r, t).parts = Append(r.parts, << >>)
              /\ t \notin {"?", "/"} =>
                   /\ ~ Reading(r, t).marked
                   /\ Reading(r, t).parts = Append(front, Append(last, t))
      BY <2>2, ReadingReads
    <3>7. /\ e.marked => Reading(e, t).marked /\ Reading(e, t).parts = e.parts
          /\ ~ e.marked =>
              /\ t = "?" => Reading(e, t).marked /\ Reading(e, t).parts = e.parts
              /\ t = "/" => /\ ~ Reading(e, t).marked
                            /\ Reading(e, t).parts = Append(e.parts, << >>)
              /\ t \notin {"?", "/"} =>
                   /\ ~ Reading(e, t).marked
                   /\ Reading(e, t).parts = Append(Front(e.parts), Append(Last(e.parts), t))
      BY <2>2, ReadingReads
    <3>8. Reading(e, t) \in Reads /\ Reading(e, t).marked \in BOOLEAN
      BY <2>2, ReadingReads DEF Reads
    <3> HIDE DEF e, r, front, last
    <3>9. Reading(e, t).marked = Reading(r, t).marked
      BY <2>3, <2>5, <3>6, <3>7, <3>8
    <3>10. Reading(e, t).parts = Filled(Reading(r, t).parts, row)
      <4>1. CASE r.marked \/ t = "?"
        BY <2>3, <2>5, <3>6, <3>7, <4>1
      <4>2. CASE ~ r.marked /\ t = "/"
        BY <2>3, <3>5, <3>6, <3>7, <4>2
      <4>3. CASE ~ r.marked /\ t \notin {"?", "/"}
        <5>1. Reading(r, t).parts = Append(front, Append(last, t))
          BY <3>6, <4>3
        <5>2. Reading(e, t).parts = Append(Filled(front, row), Append(E(last), t))
          BY <2>3, <2>7, <3>7, <4>3
        <5> QED BY <3>4, <3>5, <5>1, <5>2
      <4> QED BY <2>5, <4>1, <4>2, <4>3
    <3> QED BY <2>2, <3>3, <3>9, <3>10 DEF Shape
  <2>9. CASE t \in DOMAIN FieldOf
    <3> DEFINE v == Encode(Field(row, FieldOf[t]))
    <3>1. Piece(t, row, TRUE) = v
      BY <2>9 DEF Piece
    <3>2. v \in Seq(Tokens \ {"/", "?"})
      BY PiecesAreTexts, EncodedIsPlain
    <3>3. t \notin {"/", "?"}
      BY <2>9 DEF FieldOf
    <3> HIDE DEF v
    <3>4. /\ Split[E(s) \o v].marked = e.marked
          /\ e.marked => Split[E(s) \o v].parts = e.parts
          /\ ~ e.marked =>
               Split[E(s) \o v].parts = Append(Front(e.parts), Last(e.parts) \o v)
      BY <2>1, <3>2, PlainTextGoesOn
    <3>5. E(Append(s, t)) = E(s) \o v
      BY <2>2, <3>1
    <3>6. E(Append(last, t)) = E(last) \o v /\ Append(last, t) \in WidgetTexts
      <4> HIDE DEF last
      <4>1. E(Append(last, t)) = E(last) \o Piece(t, row, TRUE)
        BY <1>1, <2>6
      <4> QED BY <1>6, <2>6, <3>1, <4>1
    <3>7. /\ r.marked => Reading(r, t).marked /\ Reading(r, t).parts = r.parts
          /\ ~ r.marked => /\ ~ Reading(r, t).marked
                           /\ Reading(r, t).parts = Append(front, Append(last, t))
      BY <2>2, <3>3, ReadingReads
    <3> HIDE DEF e, r, front, last
    <3>8. Filled(Append(front, Append(last, t)), row)
            = Append(Filled(front, row), E(last) \o v)
      BY <1>3, <2>6, <3>6
    <3>9. Split[E(Append(s, t))].marked = Reading(r, t).marked
      BY <2>3, <2>5, <3>4, <3>5, <3>7
    <3>10. Split[E(Append(s, t))].parts = Filled(Reading(r, t).parts, row)
      <4>1. CASE r.marked
        BY <2>3, <3>4, <3>5, <3>7, <4>1
      <4>2. CASE ~ r.marked
        BY <2>3, <2>7, <3>4, <3>5, <3>7, <3>8, <4>2
      <4> QED BY <2>5, <4>1, <4>2
    <3> QED BY <2>2, <3>9, <3>10 DEF Shape
  <2> QED BY <2>8, <2>9
<1> HIDE DEF P
<1>9. \A s \in Seq(Tokens) : s \in P
  BY <1>7, <1>8, SequenceInduction
<1>10. Shape(to)
  BY <1>2, <1>9 DEF P
<1> QED BY <1>10 DEF E

\* What is decoded of a filled text is the text with the row's values in it.
LEMMA DecodedIsFilled ==
  ASSUME NEW row \in TableRows, NEW part \in Seq(Letters)
  PROVE  Decode(Interpolate(part, row, TRUE)) = Interpolate(part, row, FALSE)
<1> DEFINE E(w) == Interpolate(w, row, TRUE)
           I(w) == Interpolate(w, row, FALSE)
           Unescape(u) == CASE u = "%2F" -> "/" [] u = "%3F" -> "?" [] u = "%24id" -> "$id"
                            [] OTHER -> u
           P == {w \in Seq(Letters) : Decode(E(w)) = I(w)}
<1>1. /\ E(<< >>) = << >> /\ I(<< >>) = << >>
      /\ \A w \in WidgetTexts : E(w) \in WidgetTexts
      /\ \A w \in WidgetTexts, t \in Tokens :
           /\ E(Append(w, t)) = E(w) \o Piece(t, row, TRUE)
           /\ I(Append(w, t)) = I(w) \o Piece(t, row, FALSE)
  BY FilledEquations
<1>2. WidgetTexts = Seq(Tokens) /\ (\A w \in Seq(Letters) : w \in WidgetTexts)
      /\ \A t \in Letters : t \in Tokens
  BY DEF WidgetTexts, Tokens
<1>3. \A w : Decode(w) = [i \in DOMAIN w |-> Unescape(w[i])]
  BY DEF Decode
<1>4. \A t \in Letters : Unescape(t) = t
  BY WidgetsAssumption DEF Escapes
<1> HIDE DEF E, I, Unescape
<1>5. ASSUME NEW v \in WidgetTexts, NEW w \in WidgetTexts
      PROVE  Decode(v \o w) = Decode(v) \o Decode(w)
  <2>1. /\ v \in Seq(Tokens) /\ w \in Seq(Tokens) /\ v \o w \in Seq(Tokens)
        /\ DOMAIN v = 1 .. Len(v) /\ DOMAIN w = 1 .. Len(w)
        /\ Len(v) \in Nat /\ Len(w) \in Nat
        /\ DOMAIN (v \o w) = 1 .. Len(v) + Len(w)
    BY <1>2
  <2> DEFINE S == {Unescape(t) : t \in Tokens}
  <2>2. \A q \in Seq(Tokens) : /\ Decode(q) \in Seq(S) /\ Len(Decode(q)) = Len(q)
                               /\ \A i \in 1 .. Len(q) : Decode(q)[i] = Unescape(q[i])
    <3> SUFFICES ASSUME NEW q \in Seq(Tokens)
                 PROVE  /\ Decode(q) \in Seq(S) /\ Len(Decode(q)) = Len(q)
                        /\ \A i \in 1 .. Len(q) : Decode(q)[i] = Unescape(q[i])
      OBVIOUS
    <3>1. DOMAIN q = 1 .. Len(q) /\ Len(q) \in Nat /\ \A i \in 1 .. Len(q) : q[i] \in Tokens
      OBVIOUS
    <3>2. Decode(q) = [i \in 1 .. Len(q) |-> Unescape(q[i])]
      BY <1>3, <3>1
    <3>3. \A i \in 1 .. Len(q) : Unescape(q[i]) \in S
      BY <3>1
    <3> HIDE DEF S
    <3> QED BY <3>1, <3>2, <3>3
  <2> HIDE DEF S
  <2>3. /\ Decode(v \o w) \in Seq(S) /\ Len(Decode(v \o w)) = Len(v) + Len(w)
        /\ Decode(v) \o Decode(w) \in Seq(S)
        /\ Len(Decode(v) \o Decode(w)) = Len(v) + Len(w)
    <3>1. Len(v \o w) = Len(v) + Len(w)
      BY <2>1
    <3>2. Decode(v) \in Seq(S) /\ Decode(w) \in Seq(S) /\ Decode(v \o w) \in Seq(S)
          /\ Len(Decode(v)) = Len(v) /\ Len(Decode(w)) = Len(w)
          /\ Len(Decode(v \o w)) = Len(v) + Len(w)
      BY <2>1, <2>2, <3>1
    <3>3. \A x, y \in Seq(S) : x \o y \in Seq(S) /\ Len(x \o y) = Len(x) + Len(y)
      OBVIOUS
    <3> QED BY <3>2, <3>3
  <2>4. ASSUME NEW i \in 1 .. Len(v) + Len(w)
        PROVE  Decode(v \o w)[i] = (Decode(v) \o Decode(w))[i]
    <3>1. Decode(v \o w)[i] = Unescape((v \o w)[i])
      <4>1. i \in 1 .. Len(v \o w)
        BY <2>1, <2>4
      <4> QED BY <2>1, <2>2, <4>1
    <3>2. /\ Decode(v) \in Seq(S) /\ Decode(w) \in Seq(S)
          /\ Len(Decode(v)) = Len(v) /\ Len(Decode(w)) = Len(w)
      BY <2>1, <2>2
    <3>3. CASE i <= Len(v)
      <4>1. i \in 1 .. Len(v) /\ (v \o w)[i] = v[i]
        BY <2>1, <2>4, <3>3
      <4>2. (Decode(v) \o Decode(w))[i] = Decode(v)[i]
        BY <3>2, <4>1
      <4>3. Decode(v)[i] = Unescape(v[i])
        BY <2>1, <2>2, <4>1
      <4> QED BY <3>1, <4>1, <4>2, <4>3
    <3>4. CASE ~ i <= Len(v)
      <4> DEFINE j == i - Len(v)
      <4>1. j \in 1 .. Len(w) /\ (v \o w)[i] = w[j]
        BY <2>1, <2>4, <3>4
      <4>2. (Decode(v) \o Decode(w))[i] = Decode(w)[j]
        BY <2>1, <2>4, <3>2, <3>4
      <4> HIDE DEF j
      <4>3. Decode(w)[j] = Unescape(w[j])
        BY <2>1, <2>2, <4>1
      <4> QED BY <3>1, <4>1, <4>2, <4>3
    <3> QED BY <3>3, <3>4
  <2> QED BY <2>3, <2>4
<1>6. ASSUME NEW t \in Letters
      PROVE  Decode(Piece(t, row, TRUE)) = Piece(t, row, FALSE)
  <2>1. CASE t \notin DOMAIN FieldOf
    <3>1. Decode(<<t>>) = <<t>>
      BY <1>3, <1>4
    <3> QED BY <2>1, <3>1 DEF Piece
  <2>2. CASE t \in DOMAIN FieldOf
    <3>1. Field(row, FieldOf[t]) \in Seq(Letters)
      BY <1>2, PiecesAreTexts
    <3> QED BY <2>2, <3>1, EncodedIsPlain DEF Piece
  <2> QED BY <2>1, <2>2
<1>7. << >> \in P
  <2>1. Decode(<< >>) = << >>
    BY <1>3
  <2> QED BY <1>1, <2>1
<1>8. ASSUME NEW w \in P \cap Seq(Letters), NEW t \in Letters
      PROVE  Append(w, t) \in P
  <2>1. /\ w \in WidgetTexts /\ t \in Tokens /\ E(w) \in WidgetTexts
        /\ Piece(t, row, TRUE) \in WidgetTexts
    BY <1>1, <1>2, PiecesAreTexts
  <2>2. Decode(E(Append(w, t))) = Decode(E(w)) \o Decode(Piece(t, row, TRUE))
    BY <1>1, <1>5, <2>1
  <2>3. Decode(E(Append(w, t))) = I(Append(w, t))
    <3>1. Decode(E(w)) = I(w) /\ Decode(Piece(t, row, TRUE)) = Piece(t, row, FALSE)
      BY <1>6, <2>1
    <3> QED BY <1>1, <2>1, <2>2, <3>1
  <2> QED BY <2>3
<1> HIDE DEF P
<1>9. \A w \in Seq(Letters) : w \in P
  BY <1>7, <1>8, SequenceInduction
<1> QED BY <1>9 DEF P, E, I

\* The segments of a text without escapes have none.
LEMMA SegmentsOfLetters ==
  ASSUME NEW to \in Seq(Letters)
  PROVE  Split[to].parts \in Seq(Seq(Letters)) /\ Split[to].parts # << >>
<1> DEFINE Lettered(s) == Split[s].parts \in Seq(Seq(Letters)) /\ Split[s].parts # << >>
           P == {s \in Seq(Letters) : Lettered(s)}
<1>1. /\ \A s \in Seq(Letters) : s \in WidgetTexts
      /\ \A t \in Letters : t \in Tokens
  BY DEF WidgetTexts, Tokens
<1>2. << >> \in P
  <2>1. Split[<< >>].parts = << << >> >>
    BY SplitEquations DEF Start
  <2>2. << << >> >> \in Seq(Seq(Letters)) /\ << << >> >> # << >>
    OBVIOUS
  <2>3. Lettered(<< >>) /\ << >> \in Seq(Letters)
    BY <2>1, <2>2
  <2> HIDE DEF Lettered
  <2> QED BY <2>3
<1>3. ASSUME NEW s \in P \cap Seq(Letters), NEW t \in Letters
      PROVE  Append(s, t) \in P
  <2> DEFINE r == Split[s]
  <2>1. /\ s \in WidgetTexts /\ t \in Tokens /\ r \in Reads
        /\ Split[Append(s, t)] = Reading(r, t)
    BY <1>1, SplitEquations
  <2>2. r.parts \in Seq(Seq(Letters)) /\ r.parts # << >> /\ r.marked \in BOOLEAN
    BY <2>1 DEF Reads
  <2>3. Front(r.parts) \in Seq(Seq(Letters)) /\ Last(r.parts) \in Seq(Letters)
    BY <2>2, FrontAndLast
  <2> HIDE DEF r
  <2>0. \A q \in Seq(Seq(Letters)), x \in Seq(Letters) :
          Append(q, x) \in Seq(Seq(Letters)) /\ Append(q, x) # << >>
    <3> DEFINE L == Seq(Letters)
    <3> HIDE DEF L
    <3>1. \A q \in Seq(L), x \in L : Append(q, x) \in Seq(L) /\ Append(q, x) # << >>
      BY FrontAndLast
    <3> QED BY <3>1 DEF L
  <2>4. /\ Append(r.parts, << >>) \in Seq(Seq(Letters)) /\ Append(r.parts, << >>) # << >>
        /\ Append(Last(r.parts), t) \in Seq(Letters)
    <3>1. << >> \in Seq(Letters) /\ Append(Last(r.parts), t) \in Seq(Letters)
      BY <2>3
    <3> QED BY <2>0, <2>2, <3>1
  <2>5. /\ Append(Front(r.parts), Append(Last(r.parts), t)) \in Seq(Seq(Letters))
        /\ Append(Front(r.parts), Append(Last(r.parts), t)) # << >>
    BY <2>0, <2>3, <2>4
  <2>6. \/ Reading(r, t).parts = r.parts
        \/ Reading(r, t).parts = Append(r.parts, << >>)
        \/ Reading(r, t).parts = Append(Front(r.parts), Append(Last(r.parts), t))
    BY <2>1, <2>2, ReadingReads
  <2>7. Lettered(Append(s, t))
    BY <2>1, <2>2, <2>4, <2>5, <2>6
  <2>8. Append(s, t) \in Seq(Letters)
    OBVIOUS
  <2> HIDE DEF Lettered
  <2> QED BY <2>7, <2>8
<1> HIDE DEF P
<1>4. \A s \in Seq(Letters) : s \in P
  BY <1>2, <1>3, SequenceInduction
<1> QED BY <1>4 DEF P

\* The router reads of an address what its template says with the row's values in
\* place, unless a segment becomes "." or "..".
LEMMA PathIsMeant ==
  ASSUME NEW row \in TableRows, NEW action, action.to \in Seq(Letters),
         Range(Meant(action, row)) \cap {<<".">>, <<".", ".">>} = {}
  PROVE  Read(Url(Interpolate(action.to, row, TRUE)).path) = Meant(action, row)
<1> DEFINE to    == action.to
           parts == Segments(to)
           whole == Split[to].parts
           there == Filled(parts, row)
           meant == Meant(action, row)
<1>1. to \in WidgetTexts /\ \A w \in Seq(Letters) : w \in WidgetTexts
  BY DEF WidgetTexts
<1>2. whole \in Seq(Seq(Letters)) /\ whole # << >>
  BY SegmentsOfLetters
<1>3. parts = Tail(whole)
  BY DEF Segments
<1>4. Segments(Interpolate(to, row, TRUE)) = Tail(Filled(whole, row))
  BY <1>1, FilledKeepsItsShape DEF Segments
<1> HIDE DEF to, parts, whole
<1>5. /\ parts \in Seq(Seq(Letters)) /\ Len(whole) \in Nat \ {0}
      /\ DOMAIN parts = 1 .. Len(whole) - 1 /\ DOMAIN whole = 1 .. Len(whole)
      /\ \A i \in 1 .. Len(whole) - 1 : parts[i] = whole[i + 1] /\ parts[i] \in Seq(Letters)
  BY <1>2, <1>3
<1>6. /\ Filled(whole, row) \in Seq(WidgetTexts)
      /\ there \in Seq(WidgetTexts)
  <2>1. whole \in Seq(WidgetTexts) /\ parts \in Seq(WidgetTexts)
    BY <1>1, <1>2, <1>5
  <2>2. \A q \in Seq(WidgetTexts) : Filled(q, row) \in Seq(WidgetTexts)
    BY FilledSegments
  <2> QED BY <2>1, <2>2
<1>7. /\ there = [i \in 1 .. Len(whole) - 1 |-> Interpolate(parts[i], row, TRUE)]
      /\ Filled(whole, row) = [i \in 1 .. Len(whole) |-> Interpolate(whole[i], row, TRUE)]
      /\ meant = [i \in 1 .. Len(whole) - 1 |-> Interpolate(parts[i], row, FALSE)]
  BY <1>5 DEF Filled, Meant, parts, to
<1>8. Tail(Filled(whole, row)) = there
  <2> DEFINE filled == Filled(whole, row)
  <2>1. filled \in Seq(WidgetTexts) /\ Len(filled) = Len(whole)
    <3>1. filled \in Seq(WidgetTexts) /\ DOMAIN filled = 1 .. Len(whole)
      BY <1>6, <1>7
    <3> HIDE DEF filled
    <3> QED BY <1>5, <3>1
  <2>2. ASSUME NEW i \in 1 .. Len(whole) - 1 PROVE filled[i + 1] = there[i]
    <3>1. i + 1 \in 1 .. Len(whole)
      BY <1>5, <2>2
    <3>2. filled[i + 1] = Interpolate(whole[i + 1], row, TRUE)
      BY <1>7, <3>1
    <3>3. there[i] = Interpolate(parts[i], row, TRUE)
      BY <1>7, <2>2
    <3> QED BY <1>5, <2>2, <3>2, <3>3
  <2>3. Len(there) = Len(whole) - 1
    BY <1>5, <1>6, <1>7
  <2> HIDE DEF filled, there
  <2>4. /\ Tail(filled) \in Seq(WidgetTexts) /\ Len(Tail(filled)) = Len(whole) - 1
        /\ \A i \in 1 .. Len(whole) - 1 : Tail(filled)[i] = filled[i + 1]
    BY <1>5, <2>1
  <2>5. Tail(filled) = there
    <3>1. \A i \in 1 .. Len(whole) - 1 : Tail(filled)[i] = there[i]
      BY <2>2, <2>4
    <3> QED BY <1>6, <2>3, <2>4, <3>1, SameElements
  <2> QED BY <2>5 DEF filled
<1>9. ASSUME NEW i \in 1 .. Len(whole) - 1 PROVE Decode(there[i]) = meant[i]
  <2>1. parts[i] \in Seq(Letters)
    BY <1>5
  <2>2. /\ there[i] = Interpolate(parts[i], row, TRUE)
        /\ meant[i] = Interpolate(parts[i], row, FALSE)
    BY <1>7
  <2> HIDE DEF there, meant
  <2> QED BY <2>1, <2>2, DecodedIsFilled
<1>10. \A i \in DOMAIN there : there[i] \notin {<<".">>, <<".", ".">>}
  <2>1. ASSUME NEW i \in DOMAIN there, NEW dots \in {<<".">>, <<".", ".">>}, there[i] = dots
        PROVE  FALSE
    <3>1. i \in 1 .. Len(whole) - 1
      BY <1>7, <2>1
    <3>2. Decode(dots) = dots
      BY DEF Decode
    <3>3. meant[i] = dots
      BY <1>9, <2>1, <3>1, <3>2
    <3>4. meant[i] \in Range(meant)
      BY <1>7, <3>1 DEF Range
    <3> QED BY <3>3, <3>4
  <2> QED BY <2>1
<1>11. Dots[there] = there
  <2> HIDE DEF there
  <2> QED BY <1>6, <1>10, NoDotsToDrop
<1>12. Url(Interpolate(to, row, TRUE)).path = there
  BY <1>4, <1>8, <1>11 DEF Url
<1>13. Read(there) = [i \in 1 .. Len(whole) - 1 |-> Decode(there[i])]
  BY <1>7 DEF Read
<1> HIDE DEF there, meant
<1>14. Read(there) = [i \in 1 .. Len(whole) - 1 |-> meant[i]]
  BY <1>9, <1>13
<1>15. meant = [i \in 1 .. Len(whole) - 1 |-> meant[i]]
  BY <1>7
<1> QED BY <1>12, <1>14, <1>15 DEF meant, to

-----------------------------------------------------------------------------
(* Widgets.                                                                *)

\* A set of one element is put in a sequence of one, and the empty set in the empty
\* sequence.
LEMMA SequencesOfFew ==
  /\ SetToSeq({}) = << >>
  /\ \A x : SetToSeq({x}) = <<x>>
<1>1. SetToSeq({}) = << >>
  <2> DEFINE P(f) == f \in [1 .. 0 -> {}] /\ IsInjective(f)
  <2>1. SetToSeq({}) = CHOOSE f \in [1 .. 0 -> {}] : IsInjective(f)
    BY FS_EmptySet DEF SetToSeq
  <2>2. P(<< >>) /\ \A f : P(f) => f = << >>
    BY DEF IsInjective
  <2> QED BY <2>1, <2>2
<1>2. ASSUME NEW x PROVE SetToSeq({x}) = <<x>>
  <2>1. SetToSeq({x}) = CHOOSE f \in [1 .. 1 -> {x}] : IsInjective(f)
    BY FS_Singleton DEF SetToSeq
  <2>2. <<x>> \in [1 .. 1 -> {x}] /\ IsInjective(<<x>>)
    BY DEF IsInjective
  <2>3. \A f \in [1 .. 1 -> {x}] : f = <<x>>
    OBVIOUS
  <2> QED BY <2>1, <2>2, <2>3
<1> QED BY <1>1, <1>2

\* What a click on a part with the actions does: one of them, for its row and by this
\* click, or nothing; what asks is done when the user agrees.
DoesOne(result, c, actions, row, agreed) ==
  \/ result = << >>
  \/ \E a \in actions : /\ result = <<DeedOf(c, a, row)>>
                        /\ table.host \/ ~ Asks(a) \/ agreed

AtMostOne(actions) == \A a, b \in actions : a = b

LEMMA DispatchDoesOne ==
  ASSUME NEW c, NEW actions, NEW row, NEW agreed, AtMostOne(actions)
  PROVE  DoesOne(Dispatch(c, actions, row, agreed), c, actions, row, agreed)
<1> DEFINE doing ==
             {b \in actions : table.host \/ ((~ Asks(b) \/ agreed) /\ ~ Idle(b, row))}
           results == {DeedOf(c, a, row) : a \in doing}
<1>1. Dispatch(c, actions, row, agreed) = SetToSeq(results)
  BY DEF Dispatch
<1>2. CASE doing = {}
  <2>1. results = {}
    BY <1>2
  <2>2. Dispatch(c, actions, row, agreed) = << >>
    BY <1>1, <2>1, SequencesOfFew
  <2> QED BY <2>2 DEF DoesOne
<1>3. ASSUME NEW a \in doing
      PROVE  DoesOne(Dispatch(c, actions, row, agreed), c, actions, row, agreed)
  <2>1. results = {DeedOf(c, a, row)}
    BY <1>3 DEF AtMostOne
  <2>2. Dispatch(c, actions, row, agreed) = <<DeedOf(c, a, row)>>
    BY <1>1, <2>1, SequencesOfFew
  <2>3. a \in actions /\ (table.host \/ ~ Asks(a) \/ agreed)
    BY <1>3
  <2> QED BY <2>2, <2>3, Zenon DEF DoesOne
<1> QED BY <1>2, <1>3

\* A click that does nothing leaves what was done, by the clicks before it.
LEMMA ClickFrame ==
  ASSUME ClickInv, UNCHANGED <<table, did>>,
         \/ UNCHANGED clicks
         \/ \E click : clicks' = Append(clicks, click)
  PROVE  ClickInv'
<1>1. CASE UNCHANGED clicks
  BY <1>1 DEF ClickInv, ClickDoesItsOwn, Range, Asks
<1>2. ASSUME NEW click, clicks' = Append(clicks, click)
      PROVE  ClickInv'
  <2>1. clicks \in Seq(Range(clicks))
    BY DEF ClickInv
  <2>2. /\ clicks' \in Seq(Range(clicks) \cup {click})
        /\ Len(clicks') = Len(clicks) + 1 /\ Len(clicks) \in Nat
        /\ DOMAIN clicks = 1 .. Len(clicks) /\ DOMAIN clicks' = 1 .. Len(clicks')
        /\ \A i \in DOMAIN clicks : i \in DOMAIN clicks' /\ clicks'[i] = clicks[i]
    BY <1>2, <2>1
  <2>3. clicks' \in Seq(Range(clicks'))
    BY <2>2 DEF Range
  <2>4. Range(did)' = Range(did)
    BY DEF Range
  <2> QED BY <2>2, <2>3, <2>4 DEF ClickInv, ClickDoesItsOwn, Asks
<1> QED BY <1>1, <1>2

\* A click that does one thing.
LEMMA ClickDeed ==
  ASSUME ClickInv, UNCHANGED table,
         NEW click, clicks' = Append(clicks, click),
         NEW a, NEW row, did' = Append(did, DeedOf(Len(clicks'), a, row)),
         row = click.row,
         a \in IF click.part = "row" THEN table.select ELSE table.button,
         table.host \/ ~ Asks(a) \/ click.agreed
  PROVE  ClickInv'
<1> DEFINE c == Len(clicks')
           d == DeedOf(c, a, row)
<1>1. clicks \in Seq(Range(clicks)) /\ did \in Seq(Range(did))
  BY DEF ClickInv
<1>2. /\ clicks' \in Seq(Range(clicks) \cup {click})
      /\ c = Len(clicks) + 1 /\ Len(clicks) \in Nat
      /\ DOMAIN clicks = 1 .. Len(clicks) /\ DOMAIN clicks' = 1 .. c
      /\ \A i \in DOMAIN clicks : i \in DOMAIN clicks' /\ clicks'[i] = clicks[i]
      /\ clicks'[c] = click /\ c \in DOMAIN clicks' /\ c \notin DOMAIN clicks
  BY <1>1
<1>3. d.click = c /\ d.action = a /\ d.row = row
  BY DEF DeedOf
<1> HIDE DEF c, d
<1>4. /\ did' \in Seq(Range(did) \cup {d})
      /\ Len(did') = Len(did) + 1 /\ Len(did) \in Nat
      /\ DOMAIN did = 1 .. Len(did) /\ DOMAIN did' = 1 .. Len(did')
      /\ \A i \in DOMAIN did' : \/ i \in DOMAIN did /\ did'[i] = did[i]
                                \/ i = Len(did) + 1 /\ did'[i] = d
  BY <1>1 DEF c, d
<1>5. clicks' \in Seq(Range(clicks')) /\ did' \in Seq(Range(did'))
  <2>1. clicks' \in Seq(Range(clicks'))
    BY <1>2 DEF Range
  <2>2. did' \in Seq(Range(did'))
    <3>1. \A i \in 1 .. Len(did') : did'[i] \in Range(did')
      BY <1>4 DEF Range
    <3>2. Len(did') \in Nat /\ did' = [i \in 1 .. Len(did') |-> did'[i]]
      BY <1>4
    <3> DEFINE now == did'
               n == Len(did')
               R == Range(did')
    <3>3. n \in Nat /\ now = [i \in 1 .. n |-> now[i]] /\ \A i \in 1 .. n : now[i] \in R
      BY <3>1, <3>2
    <3> HIDE DEF now, n, R
    <3>4. now \in [1 .. n -> R]
      BY <3>3
    <3>5. now \in Seq(R)
      BY <3>3, <3>4
    <3> QED BY <3>5 DEF now, R
  <2> QED BY <2>1, <2>2
<1>6. ASSUME NEW e \in Range(did') PROVE e \in Range(did) \/ e = d
  <2>1. PICK i \in DOMAIN did' : e = did'[i]
    BY DEF Range
  <2> QED BY <1>4, <2>1 DEF Range
<1>7. \A e \in Range(did) : e.click \in DOMAIN clicks
  BY DEF ClickInv
<1>8. \A e \in Range(did') : e.click \in DOMAIN clicks'
  BY <1>2, <1>3, <1>6, <1>7
<1>9. ASSUME NEW i \in DOMAIN did', NEW j \in DOMAIN did', did'[i].click = did'[j].click
      PROVE  i = j
  <2>1. CASE i \in DOMAIN did /\ j \in DOMAIN did
    <3>1. did'[i] = did[i] /\ did'[j] = did[j]
      BY <1>4, <2>1
    <3> QED BY <1>9, <2>1, <3>1 DEF ClickInv, ClickDoesItsOwn
  <2>2. \A k \in DOMAIN did : did'[k].click # c
    BY <1>2, <1>4, <1>7 DEF Range
  <2> QED BY <1>3, <1>4, <1>9, <2>1, <2>2
<1>10. ASSUME NEW e \in Range(did')
       PROVE  LET k == clicks'[e.click]
              IN  /\ e.row = k.row
                  /\ e.action \in IF k.part = "row" THEN table.select ELSE table.button
                  /\ table.host \/ ~ Asks(e.action) \/ k.agreed
  <2>1. CASE e \in Range(did)
    <3>1. clicks'[e.click] = clicks[e.click]
      BY <1>2, <1>7, <2>1
    <3> QED BY <2>1, <3>1 DEF ClickInv, ClickDoesItsOwn
  <2>2. CASE e = d
    BY <1>2, <1>3, <2>2
  <2> QED BY <1>6, <2>1, <2>2
<1> QED BY <1>5, <1>8, <1>9, <1>10 DEF ClickInv, ClickDoesItsOwn, Asks

\* A click on a row or on its button.
LEMMA ClickStep ==
  ASSUME ClickInv, UNCHANGED table, NEW click, clicks' = Append(clicks, click),
         NEW actions, actions = IF click.part = "row" THEN table.select ELSE table.button,
         AtMostOne(actions),
         Perform(Dispatch(Len(clicks'), actions, click.row, click.agreed))
  PROVE  ClickInv'
<1> DEFINE results == Dispatch(Len(clicks'), actions, click.row, click.agreed)
<1>1. did \in Seq(Range(did)) /\ did' = did \o results
  BY DEF ClickInv, Perform
<1>2. CASE results = << >>
  <2>1. did' = did
    BY <1>1, <1>2
  <2> QED BY <2>1, ClickFrame
<1>3. ASSUME NEW a \in actions, results = <<DeedOf(Len(clicks'), a, click.row)>>,
             table.host \/ ~ Asks(a) \/ click.agreed
      PROVE  ClickInv'
  <2> DEFINE d == DeedOf(Len(clicks'), a, click.row)
  <2>1. did' = Append(did, d)
    <3> HIDE DEF d
    <3>1. did' = did \o <<d>>
      BY <1>1, <1>3 DEF d
    <3> QED BY <1>1, <3>1
  <2> QED BY <1>3, <2>1, ClickDeed
<1> HIDE DEF results
<1>4. DoesOne(results, Len(clicks'), actions, click.row, click.agreed)
  BY DispatchDoesOne DEF results
<1> QED BY <1>2, <1>3, <1>4 DEF DoesOne

LEMMA ClicksStep ==
  ASSUME ClickInv, [WidgetsNext]_widgetsVars
  PROVE  ClickInv'
<1>0. AtMostOne(table.select) /\ AtMostOne(table.button)
  BY WidgetsAssumption DEF ClickInv, AtMostOne
<1>1. ASSUME NEW row \in TableRows, ClickRow(row)
      PROVE  ClickInv'
  <2> PICK agreed \in BOOLEAN :
        /\ clicks' = Append(clicks, [part |-> "row", row |-> row, agreed |-> agreed])
        /\ Perform(Dispatch(Len(clicks'), table.select, row, agreed))
        /\ UNCHANGED table
    BY <1>1 DEF ClickRow
  <2> DEFINE click == [part |-> "row", row |-> row, agreed |-> agreed]
  <2>1. click.part = "row" /\ click.row = row /\ click.agreed = agreed
    OBVIOUS
  <2>2. clicks' = Append(clicks, click)
    OBVIOUS
  <2> HIDE DEF click
  <2>3. Perform(Dispatch(Len(clicks'), table.select, click.row, click.agreed))
    BY <2>1
  <2>4. table.select = IF click.part = "row" THEN table.select ELSE table.button
    BY <2>1
  <2> QED BY <1>0, <2>2, <2>3, <2>4, ClickStep
<1>2. ASSUME NEW row \in TableRows, ClickButton(row)
      PROVE  ClickInv'
  <2> PICK agreed \in BOOLEAN :
        /\ clicks' = Append(clicks, [part |-> "button", row |-> row, agreed |-> agreed])
        /\ Perform(Dispatch(Len(clicks'), table.button, row, agreed) \o << >>)
        /\ UNCHANGED table
    BY <1>2 DEF ClickButton, Stops
  <2> DEFINE click == [part |-> "button", row |-> row, agreed |-> agreed]
             results == Dispatch(Len(clicks'), table.button, click.row, click.agreed)
  <2>1. click.part = "button" /\ click.row = row /\ click.agreed = agreed
    OBVIOUS
  <2>2. clicks' = Append(clicks, click)
    OBVIOUS
  <2> HIDE DEF click
  <2>3. results \o << >> = results
    <3> HIDE DEF results
    <3>1. DoesOne(results, Len(clicks'), table.button, click.row, click.agreed)
      BY <1>0, DispatchDoesOne DEF results
    <3>2. results = << >> \/ \E d : results = <<d>>
      BY <3>1 DEF DoesOne
    <3> QED BY <3>2
  <2>4. Perform(results \o << >>)
    BY <2>1
  <2>5. Perform(results)
    BY <2>3, <2>4
  <2>6. table.button = IF click.part = "row" THEN table.select ELSE table.button
    BY <2>1
  <2> QED BY <1>0, <2>2, <2>5, <2>6, ClickStep
<1>3. CASE FollowLink
  BY <1>3, ClickFrame DEF FollowLink
<1>4. ASSUME NEW n, UnmountRegion \/ MountRegion \/ Answer(n) \/ Fade(n)
      PROVE  ClickInv'
  BY <1>4, ClickFrame DEF UnmountRegion, MountRegion, Answer, Fade
<1>5. CASE UNCHANGED widgetsVars
  BY <1>5, ClickFrame DEF widgetsVars
<1> QED BY <1>1, <1>2, <1>3, <1>4, <1>5 DEF WidgetsNext

\* What a deed was to lead to, and where it led.
Reaches(d) ==
  LET meant == Meant(d.action, d.row)
  IN  Range(meant) \cap {<<".">>, <<".", ".">>} = {} => Read(d.place.path) = meant

AsksFor(d) ==
  \A key \in DOMAIN d.action.query \ d.action.preserve :
    LET is == Resolve(d.action.query[key], d.row)
    IN  Get(d.place.query, key) = IF d.action.omitEmpty /\ is = << >> THEN {} ELSE {is}

Leads(d) ==
  /\ d.kind \in {"navigate", "download"} => Reaches(d)
  /\ d.kind = "navigate" => AsksFor(d)

LEMMA EachLeads == LeadsWhereItSays <=> \A d \in Range(did) : Leads(d)
BY DEF LeadsWhereItSays, RowReachesItsPage, QueryAsksForTheRow, Done, Leads, Reaches,
       AsksFor

\* Where an action done for a row leads is where it says.
LEMMA DeedLeads ==
  ASSUME NEW c, NEW row \in TableRows,
         NEW actions \in Selects \cup Buttons, NEW a \in actions
  PROVE  Leads(DeedOf(c, a, row))
<1> DEFINE d == DeedOf(c, a, row)
           base == Url(Interpolate(a.to, row, TRUE))
           keys == a.preserve \cup DOMAIN a.query
           query == [key \in keys |-> Kept(a, key) \o Own(a, key, row)]
<1>1. /\ d.kind = a.kind /\ d.action = a /\ d.row = row
      /\ a.kind = "navigate" => d.place = Target(a, row)
      /\ a.kind = "download" => d.place = base
  BY DEF DeedOf
<1>2. Target(a, row) = IF keys = {} THEN base ELSE [base EXCEPT !.query = query]
  BY DEF Target
<1>3. \E path, says : base = [path |-> path, query |-> says]
  BY DEF Url
<1> HIDE DEF d, base, keys, query
<1>4. Target(a, row).path = base.path /\ (keys # {} => Target(a, row).query = query)
  BY <1>2, <1>3
<1>5. ASSUME a.kind \in {"navigate", "download"} PROVE Reaches(d)
  <2>1. a.to \in Seq(Letters)
    BY <1>5, WidgetsAssumption
  <2>2. d.place.path = base.path
    BY <1>1, <1>4, <1>5
  <2>3. Range(Meant(a, row)) \cap {<<".">>, <<".", ".">>} = {}
          => Read(base.path) = Meant(a, row)
    BY <2>1, PathIsMeant DEF base
  <2> QED BY <1>1, <2>2, <2>3 DEF Reaches
<1>6. ASSUME a.kind = "navigate" PROVE AsksFor(d)
  <2> SUFFICES ASSUME NEW key \in DOMAIN a.query \ a.preserve
               PROVE  Get(d.place.query, key)
                        = IF a.omitEmpty /\ Resolve(a.query[key], row) = << >> THEN {}
                          ELSE {Resolve(a.query[key], row)}
    BY <1>1 DEF AsksFor
  <2> DEFINE is == Resolve(a.query[key], row)
  <2>1. keys # {} /\ key \in keys
    BY DEF keys
  <2>2. d.place.query = query
    BY <1>1, <1>4, <1>6, <2>1
  <2>3. query[key] = Kept(a, key) \o Own(a, key, row) /\ key \in DOMAIN query
    BY <2>1 DEF query
  <2>4. Kept(a, key) = << >>
    BY DEF Kept
  <2>5. Own(a, key, row) = IF a.omitEmpty /\ is = << >> THEN << >> ELSE <<is>>
    BY DEF Own
  <2> HIDE DEF is
  <2>6. << >> \o << >> = << >> /\ << >> \o <<is>> = <<is>>
    OBVIOUS
  <2>7. GetAll(d.place.query, key) = IF a.omitEmpty /\ is = << >> THEN << >> ELSE <<is>>
    BY <2>2, <2>3, <2>4, <2>5, <2>6 DEF GetAll
  <2>8. <<is>> # << >> /\ <<is>>[1] = is
    OBVIOUS
  <2> QED BY <2>7, <2>8 DEF Get, is
<1> QED BY <1>1, <1>5, <1>6 DEF Leads, d

\* A click adds a deed that leads where it says, or none.
LEMMA LeadsStep ==
  ASSUME ClickInv, LeadsWhereItSays, [WidgetsNext]_widgetsVars
  PROVE  LeadsWhereItSays'
<1>1. \A d \in Range(did) : Leads(d)
  BY EachLeads
<1>2. did \in Seq(Range(did))
  BY ClickInv DEF ClickInv
<1>3. /\ table.select \in Selects \cup Buttons /\ table.button \in Selects \cup Buttons
  BY DEF ClickInv
<1>4. ASSUME NEW c, NEW actions \in Selects \cup Buttons,
             NEW row \in TableRows, NEW agreed \in BOOLEAN,
             did' = did \o Dispatch(c, actions, row, agreed)
      PROVE  \A d \in Range(did') : Leads(d)
  <2> DEFINE results == Dispatch(c, actions, row, agreed)
  <2>1. CASE results = << >>
    BY <1>1, <1>2, <1>4, <2>1
  <2>2. ASSUME NEW a \in actions, results = <<DeedOf(c, a, row)>>
        PROVE  \A d \in Range(did') : Leads(d)
    <3> DEFINE e == DeedOf(c, a, row)
    <3>1. Leads(e)
      BY DeedLeads
    <3> HIDE DEF e
    <3>2. did' = did \o <<e>>
      BY <1>4, <2>2 DEF e
    <3>3. ASSUME NEW i \in DOMAIN did'
          PROVE  (i \in DOMAIN did /\ did'[i] = did[i]) \/ did'[i] = e
      BY <1>2, <3>2, <3>3
    <3> QED BY <1>1, <3>1, <3>3 DEF Range
  <2>3. AtMostOne(actions)
    BY WidgetsAssumption DEF AtMostOne
  <2> HIDE DEF results
  <2>4. results = << >> \/ \E a \in actions : results = <<DeedOf(c, a, row)>>
    <3>1. DoesOne(results, c, actions, row, agreed)
      BY <2>3, DispatchDoesOne DEF results
    <3> QED BY <3>1 DEF DoesOne
  <2> QED BY <2>1, <2>2, <2>4
<1>5. ASSUME NEW row \in TableRows, ClickRow(row)
      PROVE  \A d \in Range(did') : Leads(d)
  <2>1. PICK agreed \in BOOLEAN : Perform(Dispatch(Len(clicks'), table.select, row, agreed))
    BY <1>5 DEF ClickRow
  <2>2. did' = did \o Dispatch(Len(clicks'), table.select, row, agreed)
    BY <2>1 DEF Perform
  <2> QED BY <1>3, <1>4, <2>2
<1>6. ASSUME NEW row \in TableRows, ClickButton(row)
      PROVE  \A d \in Range(did') : Leads(d)
  <2>1. PICK agreed \in BOOLEAN :
          Perform(Dispatch(Len(clicks'), table.button, row, agreed) \o << >>)
    BY <1>6 DEF ClickButton, Stops
  <2> DEFINE results == Dispatch(Len(clicks'), table.button, row, agreed)
  <2>2. results \o << >> = results
    <3>1. AtMostOne(table.button)
      BY <1>3, WidgetsAssumption DEF AtMostOne
    <3> HIDE DEF results
    <3>2. DoesOne(results, Len(clicks'), table.button, row, agreed)
      BY <3>1, DispatchDoesOne DEF results
    <3>3. results = << >> \/ \E d : results = <<d>>
      BY <3>2 DEF DoesOne
    <3> QED BY <3>3
  <2>3. did' = did \o results
    BY <2>1, <2>2 DEF Perform
  <2> QED BY <1>3, <1>4, <2>3
<1>7. ASSUME UNCHANGED did PROVE \A d \in Range(did') : Leads(d)
  BY <1>1, <1>7
<1>8. ASSUME NEW n, FollowLink \/ UnmountRegion \/ MountRegion \/ Answer(n) \/ Fade(n)
      PROVE  UNCHANGED did
  BY <1>8 DEF FollowLink, UnmountRegion, MountRegion, Answer, Fade
<1>9. \A d \in Range(did)' : Leads(d)
  <2>1. Range(did)' = Range(did')
    BY DEF Range
  <2>2. \A d \in Range(did') : Leads(d)
    BY <1>5, <1>6, <1>7, <1>8 DEF WidgetsNext, widgetsVars
  <2> QED BY <2>1, <2>2
<1>10. LeadsWhereItSays' <=> \A d \in Range(did)' : Leads(d)
  BY DEF LeadsWhereItSays, RowReachesItsPage, QueryAsksForTheRow, Done, Leads, Reaches,
         AsksFor
<1> QED BY <1>9, <1>10

\* Nothing but a toast starts a deadline, and a toast ends the one before it.
LEMMA ToastStep == ToastInv /\ [WidgetsNext]_widgetsVars => ToastInv'
<1> SUFFICES ASSUME ToastInv, [WidgetsNext]_widgetsVars PROVE ToastInv'
  OBVIOUS
<1>1. CASE UNCHANGED <<toast, deadlines>>
  BY <1>1 DEF ToastInv
<1>2. ASSUME NEW n, Answer(n)
      PROVE  ToastInv'
  <2>1. CASE UNCHANGED <<toast, deadlines>>
    BY <1>1, <2>1
  <2>2. CASE Show(n)
    BY <1>1, <2>2 DEF Show, DeadlinesAfter, ToastInv
  <2> QED BY <1>2, <2>1, <2>2 DEF Answer
<1>3. ASSUME NEW n, Fade(n)
      PROVE  ToastInv'
  BY <1>3 DEF Fade, ToastInv
<1>4. CASE UnmountRegion
  BY <1>4 DEF UnmountRegion, ToastInv
<1>5. ASSUME NEW row, ClickRow(row) \/ ClickButton(row) \/ FollowLink \/ MountRegion
      PROVE  ToastInv'
  BY <1>1, <1>5 DEF ClickRow, ClickButton, FollowLink, MountRegion
<1>6. CASE UNCHANGED widgetsVars
  BY <1>1, <1>6 DEF widgetsVars
<1> QED BY <1>2, <1>3, <1>4, <1>5, <1>6 DEF WidgetsNext

\* In every reachable state of a page of widgets each deed was done by a click of its
\* own, and a deadline runs for the toast that is shown and for no other.
THEOREM WidgetsHold == WidgetsSpec => []WidgetsInv
<1>1. WidgetsInit => WidgetsInv
  <2> SUFFICES ASSUME WidgetsInit PROVE WidgetsInv
    OBVIOUS
  <2>1. /\ table \in [select : Selects, button : Buttons, host : BOOLEAN]
        /\ did = << >> /\ clicks = << >> /\ toast = {} /\ deadlines = {}
    BY DEF WidgetsInit
  <2>2. Range(did) = {}
    BY <2>1 DEF Range
  <2>3. did \in Seq(Range(did)) /\ clicks \in Seq(Range(clicks))
    BY <2>1
  <2> QED BY <2>1, <2>2, <2>3
             DEF WidgetsInv, ClickInv, ToastInv, ClickDoesItsOwn
<1>2. WidgetsInv /\ [WidgetsNext]_widgetsVars => WidgetsInv'
  BY ClicksStep, ToastStep DEF WidgetsInv
<1> QED BY <1>1, <1>2, PTL DEF WidgetsSpec

\* However many rows and buttons are clicked, a click does one thing at most, that of
\* the part and the row that were clicked, and nothing the user did not agree to.
THEOREM ClicksDoTheirOwn == WidgetsSpec => []ClickDoesItsOwn
<1>1. WidgetsInv => ClickDoesItsOwn
  BY DEF WidgetsInv, ClickInv
<1> QED BY WidgetsHold, <1>1, PTL

\* Every address that a click led to says what its action says, with the values of the
\* row that was clicked, whatever those hold; only a value that makes a whole segment
\* "." or ".." is excepted.
THEOREM ClicksLeadWhereTheySay == WidgetsSpec => []LeadsWhereItSays
<1>1. WidgetsInit => LeadsWhereItSays
  <2>1. WidgetsInit => Range(did) = {}
    BY DEF WidgetsInit, Range
  <2> QED BY <2>1, EachLeads
<1>2. WidgetsInv /\ LeadsWhereItSays /\ [WidgetsNext]_widgetsVars => LeadsWhereItSays'
  BY LeadsStep DEF WidgetsInv
<1> QED BY WidgetsHold, <1>1, <1>2, PTL DEF WidgetsSpec

\* No toast goes by the deadline of one before it, however the answers come.
THEOREM ToastsHaveTheirTime == WidgetsSpec => ToastHasItsTime
<1>1. ASSUME WidgetsInv, [WidgetsNext]_widgetsVars, toast # {}, toast' = {}
      PROVE  ~ region' \/ (toast \subseteq deadlines /\ toast \cap deadlines' = {})
  <2>1. deadlines = toast /\ \A m, n \in toast : m = n
    BY <1>1 DEF WidgetsInv, ToastInv
  <2>2. toast' # toast
    BY <1>1
  <2>3. ASSUME NEW n, Answer(n)
        PROVE  FALSE
    BY <1>1, <2>3 DEF Answer, Show
  <2>4. ASSUME NEW n \in deadlines, Fade(n)
        PROVE  deadlines' = {}
    BY <2>1, <2>4 DEF Fade
  <2>5. CASE UnmountRegion
    BY <2>5 DEF UnmountRegion
  <2>6. ASSUME NEW row, ClickRow(row) \/ ClickButton(row) \/ FollowLink \/ MountRegion
        PROVE  FALSE
    BY <2>2, <2>6 DEF ClickRow, ClickButton, FollowLink, MountRegion
  <2>7. CASE UNCHANGED widgetsVars
    BY <2>2, <2>7 DEF widgetsVars
  <2> QED BY <1>1, <2>1, <2>3, <2>4, <2>5, <2>6, <2>7 DEF WidgetsNext
<1>2. WidgetsInv /\ [WidgetsNext]_widgetsVars
        => [toast # {} /\ toast' = {} =>
              \/ ~ region'
              \/ toast \subseteq deadlines /\ toast \cap deadlines' = {}]_widgetsVars
  BY <1>1
<1> QED BY WidgetsHold, <1>2, PTL DEF WidgetsSpec, ToastHasItsTime
=============================================================================
