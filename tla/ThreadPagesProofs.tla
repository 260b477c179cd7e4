-------------------------- MODULE ThreadPagesProofs --------------------------
(***************************************************************************)
(* What was loaded of a thread has no holes without a cause.  The argument *)
(* keeps the page in flight beside the list: a row missing from both that  *)
(* comes before a row of the page is either beyond the page's cursor, and  *)
(* then LIMIT would have taken it first, or it is not, and then it is tied *)
(* with the cursor, which is in the list, or comes before it.              *)
(*                                                                         *)
(* It is in order but for the same causes, since rows are added only       *)
(* behind what is there; and a reader that has only gone on has come to    *)
(* the end when the button goes, since a page that is not full held all    *)
(* that came after its cursor.                                             *)
(***************************************************************************)
EXTENDS ThreadPages, FiniteSetTheorems, WellFoundedInduction, TLAPS

-----------------------------------------------------------------------------
(* The order of the rows.                                                  *)

LEMMA RankIsInt == \A n \in Nat : TextRank(n) \in Int
<1> SUFFICES ASSUME NEW n \in Nat PROVE TextRank(n) \in Int
  OBVIOUS
<1> DEFINE b == Base * Base
           s == n \div b
           t == (n \div Base) % Base
           o == n % Base
           r == IF o # 0 THEN t * (Base + 1) + o
                ELSE IF t # 0 THEN t * (Base + 1) + Base
                ELSE Base * (Base + 1)
<1>1. Base \in Nat /\ Base > 0
  BY PagesAssumption
<1>2. b \in Nat /\ b > 0
  BY <1>1
<1>3. s \in Int
  BY <1>2
<1>4. n \div Base \in Int
  BY <1>1
<1>5. t \in Int /\ o \in Int
  BY <1>1, <1>4
<1>6. t * (Base + 1) \in Int /\ Base * (Base + 1) \in Int
  BY <1>1, <1>5
<1>7. r \in Int
  BY <1>1, <1>5, <1>6
<1> DEFINE u == s * (Base * (Base + 1) + 1)
<1>8. u \in Int
  BY <1>1, <1>3
<1>9. TextRank(n) = u + r
  BY DEF TextRank
<1> HIDE DEF r, u
<1> QED BY <1>7, <1>8, <1>9

\* A row of the table.
LEMMA RowType ==
  TypeOK => \A p \in DOMAIN post :
              post[p] \in [stage : Stages, at : 0 .. MaxTime, own : BOOLEAN]
<1> DEFINE Row == [stage : Stages, at : 0 .. MaxTime, own : BOOLEAN]
<1>1. TypeOK => post \in Seq(Row)
  BY DEF TypeOK
<1> HIDE DEF Row
<1>2. TypeOK => \A p \in DOMAIN post : post[p] \in Row
  BY <1>1
<1> QED BY <1>2 DEF Row

LEMMA KeyIsInt == TypeOK => \A p \in DOMAIN post : Key(p) \in Int
<1> SUFFICES ASSUME TypeOK, NEW p \in DOMAIN post
             PROVE  Key(p) \in Int
  OBVIOUS
<1>1. post[p].at \in 0 .. MaxTime
  BY RowType
<1>2. post[p].at \in Nat
  BY <1>1, PagesAssumption
<1> QED BY <1>2, RankIsInt DEF Key

LEMMA BeforeIsTransitive ==
  ASSUME TypeOK, NEW p \in DOMAIN post, NEW q \in DOMAIN post,
         NEW r \in DOMAIN post, Before(p, q), Before(q, r)
  PROVE  Before(p, r)
<1>1. Key(p) \in Int /\ Key(q) \in Int /\ Key(r) \in Int
  BY KeyIsInt
<1>2. p \in Int /\ q \in Int /\ r \in Int
  BY DEF TypeOK
<1>3. /\ Key(p) < Key(q) \/ (Key(p) = Key(q) /\ p < q)
      /\ Key(q) < Key(r) \/ (Key(q) = Key(r) /\ q < r)
  BY DEF Before
<1>4. Key(p) < Key(r) \/ (Key(p) = Key(r) /\ p < r)
  BY <1>1, <1>2, <1>3
<1> QED BY <1>4 DEF Before

LEMMA CommittedIsFinite == TypeOK => IsFiniteSet(Committed)
<1> SUFFICES ASSUME TypeOK PROVE IsFiniteSet(Committed)
  OBVIOUS
<1>1. IsFiniteSet(1 .. Len(post))
  BY FS_Interval DEF TypeOK
<1>2. Committed \subseteq 1 .. Len(post)
  BY DEF TypeOK, Committed
<1> QED BY <1>1, <1>2, FS_Subset

\* LIMIT leaves no row out that comes before one it takes.
LEMMA LimitTakesTheFirst ==
  ASSUME TypeOK, NEW S \in SUBSET Committed, NEW p \in S,
         NEW q \in FirstRows(S, PageSize), Before(p, q)
  PROVE  p \in FirstRows(S, PageSize)
<1> DEFINE Ahead(r) == {s \in S : Before(s, r)}
<1>1. q \in S /\ Cardinality(Ahead(q)) < PageSize
  BY DEF FirstRows
<1>2. S \subseteq DOMAIN post
  BY DEF Committed
<1>3. Ahead(p) \subseteq Ahead(q)
  BY <1>1, <1>2, BeforeIsTransitive
<1>4. IsFiniteSet(Ahead(q))
  <2>1. Ahead(q) \subseteq Committed
    OBVIOUS
  <2> QED BY <2>1, CommittedIsFinite, FS_Subset
<1>5. /\ Cardinality(Ahead(p)) \in Nat /\ Cardinality(Ahead(q)) \in Nat
      /\ Cardinality(Ahead(p)) <= Cardinality(Ahead(q))
  BY <1>3, <1>4, FS_Subset, FS_CardinalityType
<1>6. Cardinality(Ahead(p)) < PageSize
  BY <1>1, <1>5, PagesAssumption
<1> QED BY <1>6 DEF FirstRows

\* A set of numbers has a least one.
LEMMA LeastNumber ==
  ASSUME NEW T \in SUBSET Nat, T # {}
  PROVE  \E m \in T : \A n \in T : m <= n
<1> DEFINE R == OpToRel(<, Nat)
<1>1. IsWellFoundedOn(R, Nat)
  BY NatLessThanWellFounded
<1>2. \A m, n \in Nat : m < n => <<m, n>> \in R
  BY DEF OpToRel
<1> HIDE DEF R
<1>3. PICK m \in T : \A n \in T : ~ (<<n, m>> \in R)
  BY <1>1, WFMin
<1>4. ASSUME NEW n \in T PROVE m <= n
  <2>1. m \in Nat /\ n \in Nat
    OBVIOUS
  <2>2. ~ (n < m)
    BY <1>2, <1>3, <2>1
  <2> QED BY <2>1, <2>2
<1> QED BY <1>4

\* A page that is not full has all the rows there were: of the rows left out,
\* one with the fewest rows before it has only rows of the page before it, and
\* so many that they fill the page.
LEMMA ShortPageHasAll ==
  ASSUME TypeOK, NEW S \in SUBSET Committed,
         Cardinality(FirstRows(S, PageSize)) < PageSize
  PROVE  FirstRows(S, PageSize) = S
<1> DEFINE F == FirstRows(S, PageSize)
           Ahead(r) == {s \in S : Before(s, r)}
           T == {Cardinality(Ahead(p)) : p \in S \ F}
<1>1. F \subseteq S /\ S \subseteq DOMAIN post
  BY DEF FirstRows, Committed
<1>2. IsFiniteSet(S) /\ IsFiniteSet(F)
  BY <1>1, CommittedIsFinite, FS_Subset
<1>3. \A p \in S : IsFiniteSet(Ahead(p)) /\ Cardinality(Ahead(p)) \in Nat
  BY <1>2, FS_Subset, FS_CardinalityType
<1> SUFFICES ASSUME S \ F # {} PROVE FALSE
  BY <1>1
<1>4. T \subseteq Nat /\ T # {}
  BY <1>3
<1>5. PICK m \in T : \A n \in T : m <= n
  BY <1>4, LeastNumber
<1>6. PICK p \in S \ F : m = Cardinality(Ahead(p))
  OBVIOUS
<1>7. \A r \in S \ F : Cardinality(Ahead(p)) <= Cardinality(Ahead(r))
  BY <1>5, <1>6
<1>8. Cardinality(Ahead(p)) >= PageSize
  <2>1. \A r \in S : Cardinality(Ahead(r)) < PageSize => r \in F
    BY DEF FirstRows
  <2>2. Cardinality(Ahead(p)) \in Nat /\ ~ (Cardinality(Ahead(p)) < PageSize)
    BY <1>3, <2>1
  <2> QED BY <2>2, PagesAssumption
<1>9. Ahead(p) \subseteq F
  <2> SUFFICES ASSUME NEW r \in Ahead(p), r \notin F PROVE FALSE
    OBVIOUS
  <2>1. r \in S \ F /\ Before(r, p)
    OBVIOUS
  <2>2. Ahead(r) \subseteq Ahead(p)
    BY <1>1, <2>1, BeforeIsTransitive
  <2>3. r \notin Ahead(r)
    <3>1. Key(r) \in Int /\ r \in Int
      BY <1>1, <2>1, KeyIsInt DEF TypeOK
    <3> QED BY <3>1 DEF Before
  <2>4. Ahead(r) # Ahead(p)
    BY <2>1, <2>3
  <2>5. Cardinality(Ahead(r)) <= Cardinality(Ahead(p))
          /\ Cardinality(Ahead(r)) # Cardinality(Ahead(p))
    BY <1>3, <2>2, <2>4, FS_Subset
  <2>6. /\ Cardinality(Ahead(p)) <= Cardinality(Ahead(r))
        /\ Cardinality(Ahead(p)) \in Nat /\ Cardinality(Ahead(r)) \in Nat
    BY <1>3, <1>7, <2>1
  <2> QED BY <2>5, <2>6
<1>10. Cardinality(Ahead(p)) <= Cardinality(F) /\ Cardinality(F) \in Nat
  BY <1>2, <1>9, FS_Subset, FS_CardinalityType
<1> QED BY <1>3, <1>8, <1>10, PagesAssumption

-----------------------------------------------------------------------------
(* Types.                                                                  *)

\* The places of a merged list: the old ones, and after them the new rows in
\* their order.
LEMMA MergedPlaces ==
  ASSUME TypeOK, NEW q \in Listed(Unseen)
  PROVE  /\ list \o q \in Seq(Committed)
         /\ Cardinality(Unseen) \in Nat
         /\ Len(list \o q) = Len(list) + Cardinality(Unseen)
         /\ \A i \in DOMAIN list : i \in DOMAIN (list \o q) /\ (list \o q)[i] = list[i]
         /\ \A i \in DOMAIN (list \o q) \ DOMAIN list :
              (list \o q)[i] \in Unseen /\ i > Len(list)
         /\ \A i, j \in DOMAIN (list \o q) \ DOMAIN list :
              i < j => Before((list \o q)[i], (list \o q)[j])
         /\ \A p \in Unseen :
              \E i \in DOMAIN (list \o q) \ DOMAIN list : (list \o q)[i] = p
<1> DEFINE l == list \o q
           n == Cardinality(Unseen)
<1>1. Unseen \subseteq Committed
  BY DEF TypeOK, Unseen
<1>2. n \in Nat
  BY <1>1, CommittedIsFinite, FS_Subset, FS_CardinalityType
<1>3. /\ q \in [1 .. n -> Unseen]
      /\ Elements(q) = Unseen
      /\ \A i, j \in DOMAIN q : i < j => Before(q[i], q[j])
  BY DEF Listed
<1>4. q \in Seq(Committed) /\ Len(q) = n /\ DOMAIN q = 1 .. n
  BY <1>1, <1>2, <1>3
<1>5. list \in Seq(Committed) /\ Len(list) \in Nat /\ DOMAIN list = 1 .. Len(list)
  BY DEF TypeOK
<1>6. /\ l \in Seq(Committed)
      /\ Len(l) = Len(list) + n
      /\ DOMAIN l = 1 .. (Len(list) + n)
  BY <1>4, <1>5
<1>7. \A i \in DOMAIN list : i \in DOMAIN l /\ l[i] = list[i]
  BY <1>2, <1>4, <1>5, <1>6
<1>8. \A i \in DOMAIN q : /\ Len(list) + i \in DOMAIN l \ DOMAIN list
                          /\ l[Len(list) + i] = q[i]
  BY <1>2, <1>4, <1>5, <1>6
<1>9. \A i \in DOMAIN l \ DOMAIN list :
        /\ i \in Int /\ i > Len(list)
        /\ i - Len(list) \in DOMAIN q
        /\ l[i] = q[i - Len(list)]
  BY <1>2, <1>4, <1>5, <1>6
<1>10. \A i \in DOMAIN l \ DOMAIN list : l[i] \in Unseen
  BY <1>3, <1>9
<1>11. \A i, j \in DOMAIN l \ DOMAIN list : i < j => Before(l[i], l[j])
  <2> SUFFICES ASSUME NEW i \in DOMAIN l \ DOMAIN list,
                      NEW j \in DOMAIN l \ DOMAIN list, i < j
               PROVE  Before(l[i], l[j])
    OBVIOUS
  <2>1. i - Len(list) < j - Len(list)
    BY <1>5, <1>9
  <2> QED BY <1>3, <1>9, <2>1
<1>12. \A p \in Unseen : \E i \in DOMAIN l \ DOMAIN list : l[i] = p
  BY <1>3, <1>8 DEF Elements
<1> QED BY <1>2, <1>6, <1>7, <1>9, <1>10, <1>11, <1>12

\* What a merge makes of the list.
LEMMA MergedList ==
  ASSUME TypeOK, NEW q \in Listed(Unseen)
  PROVE  /\ list \o q \in Seq(Committed)
         /\ Len(list \o q) \in Nat
         /\ Len(list) <= Len(list \o q)
         /\ Elements(list \o q) = Elements(list) \cup request.page
         /\ \A i, j \in DOMAIN (list \o q) :
              i # j => (list \o q)[i] # (list \o q)[j]
<1> DEFINE l == list \o q
<1>1. /\ l \in Seq(Committed)
      /\ Cardinality(Unseen) \in Nat
      /\ Len(l) = Len(list) + Cardinality(Unseen)
      /\ \A i \in DOMAIN list : i \in DOMAIN l /\ l[i] = list[i]
      /\ \A i \in DOMAIN l \ DOMAIN list : l[i] \in Unseen
      /\ \A i, j \in DOMAIN l \ DOMAIN list : i < j => Before(l[i], l[j])
      /\ \A p \in Unseen : \E i \in DOMAIN l \ DOMAIN list : l[i] = p
  BY MergedPlaces
<1>2. Len(list) \in Nat
  BY DEF TypeOK
<1>3. Elements(l) = Elements(list) \cup Unseen
  <2>1. Elements(l) \subseteq Elements(list) \cup Unseen
    BY <1>1 DEF Elements
  <2>2. Elements(list) \subseteq Elements(l)
    BY <1>1 DEF Elements
  <2>3. Unseen \subseteq Elements(l)
    BY <1>1 DEF Elements
  <2> QED BY <2>1, <2>2, <2>3
<1>4. Elements(l) = Elements(list) \cup request.page
  BY <1>3 DEF Unseen
<1>5. \A i, j \in DOMAIN l : i # j => l[i] # l[j]
  <2>1. ASSUME NEW i \in DOMAIN l \ DOMAIN list,
               NEW j \in DOMAIN l \ DOMAIN list, i < j
        PROVE  l[i] # l[j]
    <3>1. Before(l[i], l[j])
      BY <1>1, <2>1
    <3>2. l[i] \in DOMAIN post
      BY <1>1 DEF Committed
    <3>3. Key(l[i]) \in Int /\ l[i] \in Int
      BY <3>2, KeyIsInt DEF TypeOK
    <3> QED BY <3>1, <3>3 DEF Before
  <2>2. \A i \in DOMAIN l : i \in Int
    BY <1>1
  <2>3. \A i, j \in DOMAIN l \ DOMAIN list : i # j => l[i] # l[j]
    BY <2>1, <2>2
  <2>4. \A i \in DOMAIN list, j \in DOMAIN l \ DOMAIN list : l[i] # l[j]
    BY <1>1 DEF Unseen, Elements
  <2>5. \A i, j \in DOMAIN list : i # j => l[i] # l[j]
    BY <1>1 DEF TypeOK
  <2> QED BY <2>3, <2>4, <2>5
<1> QED BY <1>1, <1>2, <1>4, <1>5

\* What the steps change of the rows: a step adds one that is not committed, or
\* changes the stage of one, so that the order of the rows is settled.
LEMMA RowsAreSettled ==
  ASSUME TypeOK, [Next]_vars
  PROVE  /\ post' \in Seq([stage : Stages, at : 0 .. MaxTime, own : BOOLEAN])
         /\ Committed \subseteq Committed'
         /\ \A p \in DOMAIN post : p \in DOMAIN post' /\ Key(p)' = Key(p)
         /\ clock' \in 0 .. MaxTime
<1>1. CASE Tick
  BY <1>1, PagesAssumption DEF Tick, TypeOK, Committed, Key
<1>2. CASE \E own \in BOOLEAN : Draft(own)
  BY <1>2 DEF Draft, TypeOK, Committed, Key, Stages
<1>3. CASE \E p \in DOMAIN post : Commit(p)
  <2> PICK p \in DOMAIN post : Commit(p)
    BY <1>3
  <2>1. post' = [post EXCEPT ![p].stage = "committed"] /\ clock' = clock
    BY DEF Commit
  <2>2. post \in Seq([stage : Stages, at : 0 .. MaxTime, own : BOOLEAN])
    BY DEF TypeOK
  <2>3. post' \in Seq([stage : Stages, at : 0 .. MaxTime, own : BOOLEAN])
    <3>1. post[p] \in [stage : Stages, at : 0 .. MaxTime, own : BOOLEAN]
      BY RowType
    <3>2. [post[p] EXCEPT !.stage = "committed"]
            \in [stage : Stages, at : 0 .. MaxTime, own : BOOLEAN]
      BY <3>1 DEF Stages
    <3>3. post' = [post EXCEPT ![p] = [post[p] EXCEPT !.stage = "committed"]]
      BY <2>1
    <3> QED BY <2>2, <3>2, <3>3
  <2>4. \A q \in DOMAIN post : /\ q \in DOMAIN post'
                              /\ post'[q].at = post[q].at
                              /\ post'[q].stage \in {post[q].stage, "committed"}
    BY <2>1, <2>2
  <2>5. Committed \subseteq Committed'
    BY <2>4 DEF Committed
  <2> QED BY <2>1, <2>3, <2>4, <2>5 DEF TypeOK, Key
<1>4. CASE \E p \in DOMAIN post : Answer(p)
  <2> PICK p \in DOMAIN post : Answer(p)
    BY <1>4
  <2>1. post' = [post EXCEPT ![p].stage = "answered"] /\ clock' = clock
    BY DEF Answer
  <2>2. post \in Seq([stage : Stages, at : 0 .. MaxTime, own : BOOLEAN])
    BY DEF TypeOK
  <2>3. post' \in Seq([stage : Stages, at : 0 .. MaxTime, own : BOOLEAN])
    <3>1. post[p] \in [stage : Stages, at : 0 .. MaxTime, own : BOOLEAN]
      BY RowType
    <3>2. [post[p] EXCEPT !.stage = "answered"]
            \in [stage : Stages, at : 0 .. MaxTime, own : BOOLEAN]
      BY <3>1 DEF Stages
    <3>3. post' = [post EXCEPT ![p] = [post[p] EXCEPT !.stage = "answered"]]
      BY <2>1
    <3> QED BY <2>2, <3>2, <3>3
  <2>4. \A q \in DOMAIN post : /\ q \in DOMAIN post'
                              /\ post'[q].at = post[q].at
                              /\ post'[q].stage \in {post[q].stage, "answered"}
    BY <2>1, <2>2
  <2>5. Committed \subseteq Committed'
    BY <2>4 DEF Committed
  <2> QED BY <2>1, <2>3, <2>4, <2>5 DEF TypeOK, Key
<1>5. CASE UNCHANGED <<clock, post>>
  BY <1>5 DEF TypeOK, Committed, Key
<1>6. Serve \/ Merge \/ Fail \/ Invalidate \/ Expire \/ Mount \/ Unmount
        \/ LoadMore \/ UNCHANGED vars
        => UNCHANGED <<clock, post>>
  BY DEF Serve, Merge, Fail, Invalidate, Expire, Mount, Unmount, LoadMore,
         server, vars
<1> QED BY <1>1, <1>2, <1>3, <1>4, <1>5, <1>6 DEF Next

\* A step that only concerns the rows.
LEMMA RowsKeepTypes ==
  ASSUME TypeOK, [Next]_vars, UNCHANGED <<list, loaded, lastArg, request,
         screen, faults, served, full, onward>>,
         stale' \in BOOLEAN, late' \in SUBSET Committed'
  PROVE  TypeOK'
<1>1. /\ post' \in Seq([stage : Stages, at : 0 .. MaxTime, own : BOOLEAN])
      /\ Committed \subseteq Committed'
      /\ clock' \in 0 .. MaxTime
  BY RowsAreSettled
<1>2. list' \in Seq(Committed')
  BY <1>1 DEF TypeOK
<1>3. Elements(list') = Elements(list)
  OBVIOUS
<1> QED BY <1>1, <1>2, <1>3 DEF TypeOK, screen

\* A step that leaves the rows and the list alone.
LEMMA ListKeepsTypes ==
  ASSUME TypeOK, UNCHANGED <<clock, post, list>>,
         loaded' \in BOOLEAN, lastArg' \in {0} \cup Committed,
         request' \in [state : {"idle", "sent", "served"},
                       arg : {0} \cup Committed, page : SUBSET Committed],
         stale' \in BOOLEAN, mounted' \in BOOLEAN,
         after' \in {0} \cup Elements(list), prevLen' \in 0 .. Len(list),
         hasMore' \in BOOLEAN, faults' \in 0 .. MaxFaults,
         late' \in SUBSET Committed, served' \in SUBSET Committed,
         full' \in BOOLEAN, onward' \in BOOLEAN
  PROVE  TypeOK'
<1>1. Committed' = Committed
  BY DEF Committed
<1>2. Elements(list') = Elements(list) /\ Len(list') = Len(list)
  OBVIOUS
<1> QED BY <1>1, <1>2 DEF TypeOK

\* A step that leaves the rows alone and empties the list of a screen that is
\* not there.
LEMMA DropKeepsTypes ==
  ASSUME TypeOK, CacheOK, ~ mounted, Drop, UNCHANGED <<clock, post, screen>>,
         stale' \in BOOLEAN, UNCHANGED <<faults, served, full, onward>>
  PROVE  TypeOK' /\ CacheOK'
<1>1. Committed' = Committed
  BY DEF Committed
<1>2. list' = << >> /\ loaded' = FALSE /\ lastArg' = 0 /\ request' = Idle
        /\ late' = {}
  BY DEF Drop
<1>3. after' = 0 /\ prevLen' = 0 /\ mounted' = mounted /\ hasMore' = hasMore
  BY DEF CacheOK, screen
<1>4. list' \in Seq(Committed') /\ Len(list') = 0 /\ DOMAIN list' = {}
  BY <1>2
<1>5. request' \in [state : {"idle", "sent", "served"},
                    arg : {0} \cup Committed', page : SUBSET Committed']
  BY <1>2 DEF Idle
<1>6. prevLen' \in 0 .. Len(list')
  BY <1>3, <1>4
<1>7. TypeOK'
  BY <1>1, <1>2, <1>3, <1>4, <1>5, <1>6 DEF TypeOK
<1>8. CacheOK'
  BY <1>2, <1>3 DEF CacheOK, Idle
<1> QED BY <1>7, <1>8

LEMMA TypeStep == TypeOK /\ CacheOK /\ [Next]_vars => TypeOK' /\ CacheOK'
<1> SUFFICES ASSUME TypeOK, CacheOK, [Next]_vars
             PROVE  TypeOK' /\ CacheOK'
  OBVIOUS
<1>1. CASE Tick
  <2>1. TypeOK'
    BY <1>1, RowsKeepTypes, RowsAreSettled DEF Tick, cache, screen, past, TypeOK
  <2>2. CacheOK'
    BY <1>1 DEF Tick, cache, screen, CacheOK
  <2> QED BY <2>1, <2>2
<1>2. CASE \E own \in BOOLEAN : Draft(own)
  <2>1. TypeOK'
    BY <1>2, RowsKeepTypes, RowsAreSettled DEF Draft, cache, screen, past, TypeOK
  <2>2. CacheOK'
    BY <1>2 DEF Draft, cache, screen, CacheOK
  <2> QED BY <2>1, <2>2
<1>3. ASSUME NEW p \in DOMAIN post, Commit(p)
      PROVE  TypeOK' /\ CacheOK'
  <2>1. late' \in SUBSET Committed'
    <3>1. p \in Committed'
      BY <1>3 DEF Commit, Committed, TypeOK
    <3> QED BY <1>3, <3>1, RowsAreSettled DEF Commit, TypeOK
  <2>2. TypeOK'
    BY <1>3, <2>1, RowsKeepTypes DEF Commit, cache, screen, past, TypeOK
  <2>3. CacheOK'
    BY <1>3 DEF Commit, cache, screen, CacheOK
  <2> QED BY <2>2, <2>3
<1>4. ASSUME NEW p \in DOMAIN post, Answer(p)
      PROVE  TypeOK' /\ CacheOK'
  <2>1. TypeOK'
    BY <1>4, RowsKeepTypes, RowsAreSettled DEF Answer, screen, past, TypeOK
  <2>2. CacheOK'
    BY <1>4 DEF Answer, screen, CacheOK
  <2> QED BY <2>1, <2>2
<1>5. CASE Serve
  <2>1. FirstRows(Beyond(request.arg), PageSize) \subseteq Committed
    BY DEF FirstRows, Beyond
  <2>2. UNCHANGED <<post, list>> /\ Committed' = Committed
    BY <1>5 DEF Serve, server, Committed
  <2>3. TypeOK'
    BY <1>5, <2>1, <2>2 DEF Serve, server, screen, TypeOK
  <2>4. CacheOK'
    BY <1>5, <2>2 DEF Serve, screen, CacheOK, TypeOK
  <2> QED BY <2>3, <2>4
<1>6. CASE Merge
  <2> PICK q \in Listed(Unseen) : list' = list \o q
    BY <1>6 DEF Merge
  <2>1. /\ list' \in Seq(Committed)
        /\ Len(list') \in Nat
        /\ Len(list) <= Len(list')
        /\ Elements(list') = Elements(list) \cup request.page
        /\ \A i, j \in DOMAIN list' : i # j => list'[i] # list'[j]
    BY MergedList
  <2>2. UNCHANGED post /\ Committed' = Committed
    BY <1>6 DEF Merge, server, Committed
  <2>3. prevLen' \in 0 .. Len(list') /\ hasMore' \in BOOLEAN
    <3>1. prevLen \in 0 .. Len(list) /\ hasMore \in BOOLEAN
      BY DEF TypeOK
    <3>2. CASE mounted /\ Len(list') > prevLen
      <4>1. prevLen' = Len(list') /\ hasMore' = (Len(list') - prevLen >= PageSize)
        BY <1>6, <3>2 DEF Merge, Effect
      <4> QED BY <2>1, <4>1
    <3>3. CASE ~ (mounted /\ Len(list') > prevLen)
      <4>1. prevLen' = prevLen /\ hasMore' = hasMore
        BY <1>6, <3>3 DEF Merge, Effect
      <4>2. Len(list) \in Nat
        BY DEF TypeOK
      <4> QED BY <2>1, <3>1, <4>1, <4>2
    <3> QED BY <3>2, <3>3
  <2>4. TypeOK'
    BY <1>6, <2>1, <2>2, <2>3 DEF Merge, server, Idle, TypeOK
  <2>5. hasMore' => list' # << >>
    <3>1. CASE hasMore
      <4>1. list # << >> /\ list \in Seq(Committed)
        BY <3>1 DEF CacheOK, TypeOK
      <4>2. Len(list) \in Nat /\ Len(list) # 0
        BY <4>1
      <4> QED BY <2>1, <4>2
    <3>2. CASE ~ hasMore
      <4>1. hasMore' => Len(list') > prevLen
        BY <1>6, <3>2 DEF Merge, Effect
      <4>2. prevLen \in Nat
        BY DEF TypeOK
      <4> QED BY <2>1, <4>1, <4>2
    <3> QED BY <3>1, <3>2
  <2>6. CacheOK'
    BY <1>6, <2>1, <2>5 DEF Merge, Effect, Idle, CacheOK
  <2> QED BY <2>4, <2>6
<1>7. CASE Fail
  <2>1. request' \in [state : {"idle", "sent", "served"},
                       arg : {0} \cup Committed, page : SUBSET Committed]
    BY <1>7 DEF Fail, Idle
  <2>2. faults' \in 0 .. MaxFaults
    BY <1>7, PagesAssumption DEF Fail, TypeOK
  <2>3. TypeOK'
    BY <1>7, <2>1, <2>2, ListKeepsTypes DEF Fail, server, screen, TypeOK
  <2>4. CacheOK'
    BY <1>7 DEF Fail, screen, Idle, CacheOK
  <2> QED BY <2>3, <2>4
<1>8. CASE Invalidate
  <2>1. CASE mounted
    <3>1. request' = [Idle EXCEPT !.state = "sent", !.arg = lastArg]
      BY <1>8, <2>1 DEF Invalidate
    <3>2. request' \in [state : {"idle", "sent", "served"},
                       arg : {0} \cup Committed, page : SUBSET Committed]
      BY <3>1 DEF Idle, TypeOK
    <3>3. TypeOK'
      BY <1>8, <2>1, <3>2, ListKeepsTypes DEF Invalidate, server, screen, TypeOK
    <3>4. CacheOK'
      BY <1>8, <2>1, <3>1 DEF Invalidate, screen, Idle, CacheOK
    <3> QED BY <3>3, <3>4
  <2>2. CASE ~ mounted
    BY <1>8, <2>2, DropKeepsTypes DEF Invalidate, server
  <2> QED BY <2>1, <2>2
<1>9. CASE Expire
  BY <1>9, DropKeepsTypes DEF Expire, server, TypeOK
<1>10. CASE Mount
  <2>1. request' \in [state : {"idle", "sent", "served"},
                       arg : {0} \cup Committed, page : SUBSET Committed]
          /\ lastArg' \in {0} \cup Committed
    BY <1>10 DEF Mount, Fetch, Idle, TypeOK
  <2>2. Len(list) \in Nat /\ prevLen' \in 0 .. Len(list) /\ after' = 0
    BY <1>10 DEF Mount, TypeOK
  <2>3. onward' \in BOOLEAN /\ hasMore' \in BOOLEAN /\ mounted' \in BOOLEAN
    BY <1>10 DEF Mount
  <2>4. TypeOK'
    BY <1>10, <2>1, <2>2, <2>3, ListKeepsTypes DEF Mount, server, TypeOK
  <2>5. CacheOK'
    BY <1>10 DEF Mount, Fetch, Idle, CacheOK
  <2> QED BY <2>4, <2>5
<1>11. CASE Unmount
  <2>1. Len(list) \in Nat /\ prevLen' \in 0 .. Len(list) /\ after' = 0
    BY <1>11 DEF Unmount, TypeOK
  <2>2. TypeOK'
    BY <1>11, <2>1, ListKeepsTypes DEF Unmount, server, cache, past, TypeOK
  <2>3. CacheOK'
    BY <1>11 DEF Unmount, cache, CacheOK
  <2> QED BY <2>2, <2>3
<1>12. CASE LoadMore
  <2> DEFINE c == list[Len(list)]
  <2>1. c \in Elements(list) /\ c \in Committed
    BY <1>12 DEF LoadMore, TypeOK, CacheOK, Elements
  <2>2. after' = c /\ Fetch(c)
    BY <1>12 DEF LoadMore
  <2> HIDE DEF c
  <2>3. request' \in [state : {"idle", "sent", "served"},
                       arg : {0} \cup Committed, page : SUBSET Committed]
          /\ lastArg' \in {0} \cup Committed
    BY <2>1, <2>2 DEF Fetch, Idle, TypeOK
  <2>4. TypeOK'
    BY <1>12, <2>1, <2>2, <2>3, ListKeepsTypes
       DEF LoadMore, server, past, TypeOK
  <2>5. CacheOK'
    BY <1>12, <2>1, <2>2 DEF LoadMore, Fetch, Idle, CacheOK
  <2> QED BY <2>4, <2>5
<1>13. CASE UNCHANGED vars
  BY <1>13 DEF vars, server, cache, screen, past, TypeOK, CacheOK, Committed
<1> QED BY <1>1, <1>2, <1>3, <1>4, <1>5, <1>6, <1>7, <1>8, <1>9, <1>10, <1>11,
           <1>12, <1>13 DEF Next

-----------------------------------------------------------------------------
(* The invariant.                                                          *)

\* What the rows of a step that keeps the list and the page leave true: only a
\* row that has just been committed is new, and it is late if it must be.
LEMMA GapsStep ==
  TypeOK /\ TypeOK' /\ PagesInv /\ [Next]_vars => PageHasCause' /\ GapHasCause'
<1> SUFFICES ASSUME TypeOK, TypeOK', PagesInv, [Next]_vars
             PROVE  PageHasCause' /\ GapHasCause'
  OBVIOUS
<1>1. /\ Committed \subseteq Committed'
      /\ \A p \in DOMAIN post : Key(p)' = Key(p)
  BY RowsAreSettled
<1>2. Sent \subseteq Committed /\ Committed \subseteq DOMAIN post
  <2>1. list \in Seq(Committed) /\ request.page \subseteq Committed
    BY DEF TypeOK
  <2>2. Elements(list) \subseteq Committed
    BY <2>1 DEF Elements
  <2> QED BY <2>1, <2>2 DEF Sent, Committed
<1>3. \A p, q \in DOMAIN post : Before(p, q)' <=> Before(p, q)
  BY <1>1 DEF Before
<1>4. /\ \A p \in Committed \ Sent, q \in request.page :
           Before(p, q) => HasCause(p)
      /\ \A p \in Committed \ Elements(list), q \in Elements(list) :
           Before(p, q) => HasCause(p)
  BY DEF PagesInv, PageHasCause, GapHasCause
<1>5. \A p \in DOMAIN post :
        HasCause(p) /\ late \subseteq late' /\ Elements(list) \subseteq Elements(list)'
          => HasCause(p)'
  BY <1>1, <1>2 DEF HasCause, Tied, Sent
<1>6. CASE /\ UNCHANGED <<late, list>> /\ Committed' = Committed
           /\ request'.page \subseteq {}
  BY <1>2, <1>3, <1>4, <1>5, <1>6 DEF PageHasCause, GapHasCause, Sent
<1>7. CASE UNCHANGED <<late, list, request>> /\ Committed' = Committed
  BY <1>2, <1>3, <1>4, <1>5, <1>7 DEF PageHasCause, GapHasCause, Sent
<1>8. CASE Elements(list)' = {} /\ request'.page = {}
  BY <1>8 DEF PageHasCause, GapHasCause
<1>9. ASSUME NEW x \in DOMAIN post, Commit(x)
      PROVE  PageHasCause' /\ GapHasCause'
  <2>1. UNCHANGED <<list, request>> /\ Sent' = Sent
    BY <1>9 DEF Commit, cache, Sent
  <2>2. Committed' \subseteq Committed \cup {x}
    BY <1>9 DEF Commit, Committed, TypeOK
  <2>3. late \subseteq late' /\ \A q \in Sent : Before(x, q) => x \in late'
    BY <1>9 DEF Commit
  <2>4. Elements(list)' = Elements(list) /\ request'.page = request.page
    BY <2>1
  <2>5. ASSUME NEW p \in Committed', NEW q \in Sent, Before(p, q)',
               \/ p \notin Sent /\ q \in request.page
               \/ p \notin Elements(list) /\ q \in Elements(list)
        PROVE  HasCause(p)'
    <3>1. p \in DOMAIN post /\ Before(p, q)
      BY <1>2, <1>3, <2>2, <2>5
    <3>2. CASE p = x
      BY <2>3, <2>5, <3>1, <3>2 DEF HasCause
    <3>3. CASE p \in Committed
      BY <1>4, <1>5, <2>3, <2>4, <2>5, <3>1, <3>3
    <3> QED BY <2>2, <3>2, <3>3
  <2> QED BY <2>1, <2>4, <2>5 DEF PageHasCause, GapHasCause, Sent
<1>10. CASE Serve
  <2> DEFINE page == FirstRows(Beyond(request.arg), PageSize)
  <2>1. UNCHANGED <<list, late, post>> /\ Committed' = Committed
    BY <1>10 DEF Serve, server, Committed
  <2>2. request'.page = page
    BY <1>10 DEF Serve, TypeOK
  <2>3. page \subseteq Beyond(request.arg) /\ Beyond(request.arg) \subseteq Committed
    BY DEF FirstRows, Beyond
  <2>4. ASSUME NEW p \in Committed, p \notin Elements(list), p \notin page,
               NEW q \in page, Before(p, q)
        PROVE  HasCause(p)
    <3>1. p \notin Beyond(request.arg)
      BY <2>3, <2>4, LimitTakesTheFirst
    <3>2. request.arg # 0 /\ ~ (Key(p) > Key(request.arg))
      BY <3>1 DEF Beyond
    <3>3. request.arg \in Elements(list)
      BY <3>2 DEF PagesInv, CacheOK
    <3>4. Key(p) \in Int /\ Key(request.arg) \in Int
      BY <1>2, <3>3, KeyIsInt DEF Sent
    <3>5. Key(p) = Key(request.arg) \/ Before(p, request.arg)
      BY <3>2, <3>4 DEF Before
    <3> QED BY <1>4, <2>4, <3>3, <3>5 DEF HasCause, Tied
  <2>5. GapHasCause'
    BY <1>2, <1>3, <1>4, <1>5, <2>1 DEF GapHasCause, Sent
  <2>6. PageHasCause'
    BY <1>2, <1>3, <1>5, <2>1, <2>2, <2>3, <2>4 DEF PageHasCause, Sent
  <2> QED BY <2>5, <2>6
<1>11. CASE Merge
  <2> PICK s \in Listed(Unseen) : list' = list \o s
    BY <1>11 DEF Merge
  <2>1. Elements(list)' = Sent
    BY MergedList DEF Sent
  <2>2. UNCHANGED <<late, post>> /\ Committed' = Committed /\ request'.page = {}
    BY <1>11 DEF Merge, server, Committed, Idle
  <2>3. \A p \in Committed \ Sent, q \in Sent : Before(p, q) => HasCause(p)
    BY <1>4 DEF Sent
  <2>4. GapHasCause'
    BY <1>2, <1>3, <1>5, <2>1, <2>2, <2>3 DEF GapHasCause, Sent
  <2> QED BY <2>2, <2>4 DEF PageHasCause
<1>12. CASE Tick \/ (\E own \in BOOLEAN : Draft(own)) \/ Unmount
            \/ (\E p \in DOMAIN post : Answer(p)) \/ UNCHANGED vars
  <2>1. UNCHANGED <<late, list, request>>
    BY <1>12 DEF Tick, Draft, Unmount, Answer, vars, cache, past
  <2>2. Committed' = Committed
    <3>1. CASE Tick \/ Unmount \/ UNCHANGED vars
      BY <3>1 DEF Tick, Unmount, vars, server, Committed
    <3>2. CASE \E own \in BOOLEAN : Draft(own)
      BY <3>2 DEF Draft, Committed, TypeOK
    <3>3. CASE \E p \in DOMAIN post : Answer(p)
      <4> PICK p \in DOMAIN post : Answer(p)
        BY <3>3
      <4>1. /\ post' = [post EXCEPT ![p].stage = "answered"]
            /\ post[p].stage = "committed"
        BY DEF Answer
      <4>2. DOMAIN post' = DOMAIN post
        BY <4>1 DEF TypeOK
      <4>3. \A q \in DOMAIN post : q # p => post'[q] = post[q]
        BY <4>1 DEF TypeOK
      <4>4. post'[p].stage = "answered"
        BY <4>1 DEF TypeOK
      <4> QED BY <4>1, <4>2, <4>3, <4>4 DEF Committed
    <3> QED BY <1>12, <3>1, <3>2, <3>3
  <2> QED BY <1>7, <2>1, <2>2
<1>13. CASE Fail \/ (Invalidate /\ mounted) \/ Mount \/ LoadMore
  <2>1. UNCHANGED <<late, list>> /\ Committed' = Committed
    BY <1>13 DEF Fail, Invalidate, Mount, LoadMore, server, past, Committed
  <2>2. request'.page \subseteq {} \/ request' = request
    <3>1. CASE Fail \/ (Invalidate /\ mounted)
      <4>1. request' = Idle \/ request' = [Idle EXCEPT !.state = "sent", !.arg = lastArg]
        BY <3>1 DEF Fail, Invalidate
      <4>2. Idle.page = {} /\ [Idle EXCEPT !.state = "sent", !.arg = lastArg].page = {}
        BY DEF Idle
      <4> QED BY <4>1, <4>2
    <3>2. CASE Mount
      <4>1. Fetch(0)
        BY <3>2 DEF Mount
      <4> QED BY <4>1 DEF Fetch, Idle
    <3>3. CASE LoadMore
      <4>1. Fetch(list[Len(list)])
        BY <3>3 DEF LoadMore
      <4> QED BY <4>1 DEF Fetch, Idle
    <3> QED BY <1>13, <3>1, <3>2, <3>3
  <2> QED BY <1>6, <1>7, <2>1, <2>2
<1>14. CASE Expire \/ (Invalidate /\ ~ mounted)
  <2>1. list' = << >> /\ request'.page = {}
    BY <1>14 DEF Expire, Invalidate, Drop, Idle
  <2> QED BY <1>8, <2>1 DEF Elements
<1> QED BY <1>9, <1>10, <1>11, <1>12, <1>13, <1>14 DEF Next

-----------------------------------------------------------------------------
(* The order of the list.                                                  *)

\* Steps that are not a merge keep the list or empty it, and late with it.
LEMMA OnlyMergesAppend ==
  ASSUME [Next]_vars
  PROVE  \/ Merge
         \/ list' = list /\ late \subseteq late'
         \/ list' = << >>
<1>1. CASE \E p \in DOMAIN post : Commit(p)
  BY <1>1 DEF Commit, cache
<1>2. CASE \E p \in DOMAIN post : Answer(p)
  BY <1>2 DEF Answer, past
<1>3. CASE Tick \/ (\E own \in BOOLEAN : Draft(own)) \/ Serve \/ Fail
            \/ Mount \/ Unmount \/ LoadMore \/ UNCHANGED vars
  BY <1>3 DEF Tick, Draft, Serve, Fail, Mount, Unmount, LoadMore, vars, cache,
              past
<1>4. CASE Invalidate \/ Expire
  BY <1>4 DEF Invalidate, Expire, Drop
<1> QED BY <1>1, <1>2, <1>3, <1>4 DEF Next

\* A merge puts a row behind one it comes before only where the list had a gap,
\* and the gap had its cause.
LEMMA DisorderStep ==
  TypeOK /\ PagesInv /\ DisorderHasCause /\ [Next]_vars => DisorderHasCause'
<1> SUFFICES ASSUME TypeOK, PagesInv, DisorderHasCause, [Next]_vars
             PROVE  DisorderHasCause'
  OBVIOUS
<1>1. /\ list \in Seq(Committed) /\ Committed \subseteq DOMAIN post
      /\ \A i \in DOMAIN list : list[i] \in Committed
  BY DEF TypeOK, Committed
<1>2. \A p \in DOMAIN post : Key(p)' = Key(p) /\ Key(p) \in Int /\ p \in Int
  BY RowsAreSettled, KeyIsInt DEF TypeOK
<1>3. \A p, q \in DOMAIN post : Before(p, q)' <=> Before(p, q)
  BY <1>2 DEF Before
<1>4. CASE list' = << >>
  BY <1>4 DEF DisorderHasCause
<1>5. CASE list' = list /\ late \subseteq late'
  <2>1. \A i \in DOMAIN list : list[i] \in DOMAIN post
    BY <1>1
  <2>2. \A i, j \in DOMAIN list :
          i < j => \/ Before(list[i], list[j])'
                   \/ list[j] \in late'
                   \/ \E k \in DOMAIN list \ {j} : Key(list[k])' = Key(list[j])'
    <3> SUFFICES ASSUME NEW i \in DOMAIN list, NEW j \in DOMAIN list, i < j
                 PROVE  \/ Before(list[i], list[j])'
                        \/ list[j] \in late'
                        \/ \E k \in DOMAIN list \ {j} :
                             Key(list[k])' = Key(list[j])'
      OBVIOUS
    <3>1. /\ Before(list[i], list[j])' <=> Before(list[i], list[j])
          /\ \A k \in DOMAIN list : Key(list[k])' = Key(list[k])
      BY <1>2, <1>3, <1>5, <2>1 DEF Before, Key
    <3> QED BY <1>5, <3>1 DEF DisorderHasCause
  <2> QED BY <1>5, <2>2 DEF DisorderHasCause
<1>6. CASE Merge
  <2> PICK s \in Listed(Unseen) : list' = list \o s
    BY <1>6 DEF Merge
  <2>1. late' = late
    BY <1>6 DEF Merge
  <2>2. /\ list' \in Seq(Committed)
        /\ \A i \in DOMAIN list : i \in DOMAIN list' /\ list'[i] = list[i]
        /\ \A i \in DOMAIN list' \ DOMAIN list :
             list'[i] \in Unseen /\ i > Len(list)
        /\ \A i, j \in DOMAIN list' \ DOMAIN list :
             i < j => Before(list'[i], list'[j])
    BY MergedPlaces
  <2>3. /\ \A i \in DOMAIN list' : list'[i] \in DOMAIN post
        /\ Unseen \subseteq Committed \ Elements(list)
    BY <1>1, <2>2 DEF Unseen, TypeOK
  <2>4. ASSUME NEW i \in DOMAIN list', NEW j \in DOMAIN list', i < j
        PROVE  \/ Before(list'[i], list'[j])
               \/ list'[j] \in late
               \/ \E k \in DOMAIN list' \ {j} : Key(list'[k]) = Key(list'[j])
    <3>1. CASE j \in DOMAIN list
      <4>1. i \in DOMAIN list
        BY <1>1, <2>2, <2>4, <3>1
      <4> QED BY <2>2, <2>4, <3>1, <4>1 DEF DisorderHasCause
    <3>2. CASE i \notin DOMAIN list /\ j \notin DOMAIN list
      BY <2>2, <2>4, <3>2
    <3>3. CASE i \in DOMAIN list /\ j \notin DOMAIN list /\ ~ Before(list'[i], list'[j])
      <4> DEFINE p == list'[j]
                 q == list[i]
      <4>1. p \in Committed \ Elements(list) /\ q \in Elements(list) /\ list'[i] = q
        BY <2>2, <2>3, <3>3 DEF Elements
      <4>2. p # q /\ p \in DOMAIN post /\ q \in DOMAIN post
        BY <1>1, <3>3, <4>1
      <4>3. Before(p, q)
        BY <1>2, <3>3, <4>1, <4>2 DEF Before
      <4>4. HasCause(p)
        BY <4>1, <4>3 DEF PagesInv, GapHasCause
      <4>5. ASSUME Tied(p)
            PROVE  \E k \in DOMAIN list' \ {j} : Key(list'[k]) = Key(list'[j])
        <5>1. PICK k \in DOMAIN list : Key(list[k]) = Key(p)
          BY <4>5 DEF Tied, Elements
        <5> QED BY <2>2, <3>3, <5>1
      <4> QED BY <4>4, <4>5 DEF HasCause
    <3> QED BY <3>1, <3>2, <3>3
  <2>5. \A i, j \in DOMAIN list' :
          /\ Key(list[i])' = Key(list'[i])
          /\ Before(list[i], list[j])' <=> Before(list'[i], list'[j])
    BY <1>2, <2>3 DEF Before, Key
  <2> QED BY <2>1, <2>4, <2>5 DEF DisorderHasCause
<1> QED BY <1>4, <1>5, <1>6, OnlyMergesAppend

-----------------------------------------------------------------------------
(* The walk.                                                               *)

LEMMA CountStep == TypeOK /\ CountOK /\ [Next]_vars => CountOK'
<1> SUFFICES ASSUME TypeOK, CountOK, [Next]_vars
             PROVE  CountOK'
  OBVIOUS
<1>1. CASE Merge
  <2>1. Len(list) <= Len(list') /\ Len(list') \in Nat
    BY <1>1, MergedList DEF Merge
  <2>2. mounted => prevLen = Len(list) /\ Len(list) \in Nat
    BY DEF CountOK, TypeOK
  <2>3. mounted => prevLen' = Len(list')
    BY <1>1, <2>1, <2>2 DEF Merge, Effect
  <2> QED BY <1>1, <2>3 DEF Merge, CountOK
<1>2. CASE Invalidate \/ Expire
  BY <1>2 DEF Invalidate, Expire, Drop, screen, CountOK
<1>3. CASE Mount \/ Unmount
  BY <1>3 DEF Mount, Unmount, cache, CountOK
<1>4. CASE Serve \/ Fail \/ LoadMore
  BY <1>4 DEF Serve, Fail, LoadMore, screen, CountOK
<1>5. CASE UNCHANGED <<cache, screen>>
  BY <1>5 DEF cache, screen, CountOK
<1>6. CASE Tick \/ (\E own \in BOOLEAN : Draft(own)) \/ UNCHANGED vars
  BY <1>5, <1>6 DEF Tick, Draft, vars
<1>7. CASE \E p \in DOMAIN post : Commit(p) \/ Answer(p)
  BY <1>7 DEF Commit, Answer, cache, screen, CountOK
<1> QED BY <1>1, <1>2, <1>3, <1>4, <1>6, <1>7 DEF Next

LEMMA OnwardStep ==
  TypeOK /\ PagesInv /\ CountOK /\ OnwardOK /\ [Next]_vars => OnwardOK'
<1> SUFFICES ASSUME TypeOK, PagesInv, CountOK, OnwardOK, [Next]_vars
             PROVE  OnwardOK'
  OBVIOUS
<1>1. /\ list \in Seq(Committed) /\ Len(list) \in Nat
      /\ DOMAIN list = 1 .. Len(list)
      /\ Elements(list) \subseteq DOMAIN post
      /\ Committed \subseteq DOMAIN post
      /\ request.page \subseteq Committed /\ served \subseteq Committed
      /\ request.arg # 0 => request.arg \in DOMAIN post
      /\ list # << >> => list[Len(list)] \in Elements(list)
  BY DEF TypeOK, Committed, Elements
<1>2. \A p \in DOMAIN post : Key(p)' = Key(p) /\ Key(p) \in Int
  BY RowsAreSettled, KeyIsInt
<1>3. CASE ~ mounted' \/ ~ onward'
  BY <1>3 DEF OnwardOK
<1>4. CASE UNCHANGED <<mounted, onward, list, request, hasMore, served>>
  BY <1>1, <1>2, <1>4 DEF OnwardOK, Further, Elements, Key
<1>5. CASE Serve
  <2> DEFINE page == FirstRows(Beyond(request.arg), PageSize)
  <2>1. UNCHANGED <<mounted, onward, list, hasMore, post>>
    BY <1>5 DEF Serve, server, screen
  <2>2. /\ request.state = "sent" /\ served' = Committed
        /\ request'.arg = request.arg /\ request'.page = page
    BY <1>5 DEF Serve, TypeOK
  <2>3. page \subseteq Beyond(request.arg) /\ Beyond(request.arg) \subseteq Committed
    BY DEF FirstRows, Beyond
  <2>4. Cardinality(page) < PageSize => page = Beyond(request.arg)
    BY <2>3, ShortPageHasAll
  <2>5. \A p \in page : Further(p)
    BY <2>3 DEF Beyond, Further
  <2>6. Cardinality(page) < PageSize => \A p \in Committed : Further(p) => p \in page
    BY <2>4 DEF Beyond, Further
  <2> HIDE DEF page
  <2> QED BY <2>1, <2>2, <2>5, <2>6 DEF OnwardOK, Further, Elements, Key
<1>6. CASE Merge
  <2> SUFFICES ASSUME mounted, onward,
                      NEW p \in Elements(list')
               PROVE  Key(p) <= Key(list'[Len(list')])
    <3>1. request' = Idle /\ post' = post /\ mounted' = mounted /\ onward' = onward
      BY <1>6 DEF Merge, server
    <3> QED BY <3>1 DEF OnwardOK, Idle, Elements, Key
  <2> PICK s \in Listed(Unseen) : list' = list \o s
    BY <1>6 DEF Merge
  <2>1. /\ list' \in Seq(Committed)
        /\ Cardinality(Unseen) \in Nat
        /\ Len(list') = Len(list) + Cardinality(Unseen)
        /\ \A i \in DOMAIN list : i \in DOMAIN list' /\ list'[i] = list[i]
        /\ \A i \in DOMAIN list' \ DOMAIN list : list'[i] \in Unseen
        /\ \A i, j \in DOMAIN list' \ DOMAIN list :
             i < j => Before(list'[i], list'[j])
    BY MergedPlaces
  <2>2. PICK i \in DOMAIN list' : p = list'[i]
    BY DEF Elements
  <2>3. \A q \in Elements(list) : Key(q) <= Key(list[Len(list)])
    BY DEF OnwardOK
  <2>4. CASE Cardinality(Unseen) = 0
    <3>1. Len(list') = Len(list) /\ i \in DOMAIN list /\ Len(list) \in DOMAIN list
      BY <1>1, <2>1, <2>2, <2>4
    <3>2. p \in Elements(list) /\ list'[Len(list')] = list[Len(list)]
      BY <2>1, <2>2, <3>1 DEF Elements
    <3> QED BY <2>3, <3>2
  <2>5. CASE Cardinality(Unseen) # 0
    <3> DEFINE z == Len(list')
    <3>1. z \in DOMAIN list' \ DOMAIN list /\ i \in 1 .. z
      BY <1>1, <2>1, <2>5
    <3>2. list'[z] \in Unseen /\ list'[z] \in request.page /\ list'[z] \in DOMAIN post
      BY <1>1, <2>1, <3>1 DEF Unseen
    <3>3. Key(list'[z]) \in Int
      BY <1>2, <3>2
    <3>4. CASE i \notin DOMAIN list
      <4>1. i = z \/ Before(list'[i], list'[z])
        <5>1. i = z \/ i < z
          BY <1>1, <2>1, <3>1
        <5> QED BY <2>1, <3>1, <3>4, <5>1
      <4>2. list'[i] \in DOMAIN post
        BY <1>1, <2>1
      <4>3. Key(list'[i]) \in Int
        BY <1>2, <4>2
      <4> QED BY <2>2, <3>3, <4>1, <4>3 DEF Before
    <3>5. CASE i \in DOMAIN list
      <4>1. list # << >> /\ p \in Elements(list)
        BY <2>1, <2>2, <3>5 DEF Elements
      <4>2. request.state = "served"
        BY <1>6 DEF Merge
      <4>3. request.arg = list[Len(list)] /\ Further(list'[z])
        BY <3>2, <4>1, <4>2 DEF OnwardOK
      <4>4. list[Len(list)] \in DOMAIN post /\ list[Len(list)] # 0
        BY <1>1, <4>1 DEF TypeOK
      <4>5. Key(list'[z]) > Key(list[Len(list)])
        BY <4>3, <4>4 DEF Further
      <4>6. Key(p) \in Int /\ Key(list[Len(list)]) \in Int
        BY <1>1, <1>2, <4>1, <4>4
      <4> QED BY <2>3, <3>3, <4>1, <4>5, <4>6
    <3> QED BY <3>4, <3>5
  <2> QED BY <2>1, <2>4, <2>5
<1>7. CASE Mount
  <2> SUFFICES ASSUME onward' PROVE OnwardOK'
    BY <1>3
  <2>1. ~ loaded /\ request.state = "idle" /\ list' = list /\ Fetch(0)
    BY <1>7 DEF Mount
  <2>2. list' = << >> /\ Elements(list') = {}
    BY <2>1 DEF CountOK, Elements
  <2>3. request'.arg = 0 /\ request'.state = "sent"
    BY <2>1 DEF Fetch, Idle
  <2> QED BY <2>2, <2>3 DEF OnwardOK
<1>8. CASE LoadMore
  <2>1. /\ UNCHANGED <<mounted, onward, list, hasMore, served, post>>
        /\ mounted /\ hasMore /\ list # << >>
    BY <1>8 DEF LoadMore, server, past, PagesInv, CacheOK
  <2>2. Fetch(list[Len(list)])
    BY <1>8 DEF LoadMore
  <2>3. CASE request' = request
    BY <1>4, <2>1, <2>3
  <2>4. CASE request'.state = "sent" /\ request'.arg = list[Len(list)]
    BY <2>1, <2>4 DEF OnwardOK, Elements, Key
  <2> QED BY <2>2, <2>3, <2>4 DEF Fetch, Idle
<1>9. CASE Fail \/ Invalidate \/ Expire \/ Unmount
  BY <1>3, <1>9 DEF Fail, Invalidate, Expire, Unmount, screen
<1>10. CASE Tick \/ (\E own \in BOOLEAN : Draft(own)) \/ UNCHANGED vars
  BY <1>4, <1>10 DEF Tick, Draft, vars, cache, screen, past
<1>11. CASE \E p \in DOMAIN post : Commit(p) \/ Answer(p)
  BY <1>4, <1>11 DEF Commit, Answer, cache, screen, past
<1> QED BY <1>5, <1>6, <1>7, <1>8, <1>9, <1>10, <1>11 DEF Next

\* The button goes when a page was not full.  It had all the rows beyond the last
\* post then, and a row that is not beyond it is in the list or has its cause.
LEMMA WalkStep ==
  TypeOK /\ PagesInv /\ WalkInv /\ [Next]_vars => WalkIsComplete'
<1> SUFFICES ASSUME TypeOK, PagesInv, WalkInv, [Next]_vars,
                    mounted', loaded', request'.state = "idle", onward',
                    ~ hasMore', NEW p \in served'
             PROVE  ~ (Hidden(p)')
  BY DEF WalkIsComplete
<1>1. /\ list \in Seq(Committed) /\ Len(list) \in Nat
      /\ Elements(list) \subseteq Committed /\ Committed \subseteq DOMAIN post
      /\ request.page \subseteq Committed /\ served \subseteq Committed
      /\ list # << >> => list[Len(list)] \in Elements(list)
  BY DEF TypeOK, Committed, Elements
<1>2. \A q \in DOMAIN post : Key(q)' = Key(q) /\ Key(q) \in Int
  BY RowsAreSettled, KeyIsInt
<1>3. CASE /\ UNCHANGED <<mounted, loaded, request, onward, hasMore, list, served>>
           /\ late \subseteq late'
  <2>1. ~ Hidden(p)
    BY <1>3 DEF WalkInv, WalkIsComplete
  <2>2. p \in DOMAIN post /\ Elements(list)' = Elements(list)
    BY <1>1, <1>3 DEF Elements
  <2>3. Tied(p) => Tied(p)'
    BY <1>1, <1>2, <2>2 DEF Tied
  <2> QED BY <1>3, <2>1, <2>2, <2>3 DEF Hidden, HasCause
<1>4. CASE Merge
  <2> PICK s \in Listed(Unseen) : list' = list \o s
    BY <1>4 DEF Merge
  <2>1. /\ mounted /\ onward /\ request.state = "served"
        /\ UNCHANGED <<late, served, post>>
        /\ Effect(Len(list'))
    BY <1>4 DEF Merge, server
  <2>2. /\ Cardinality(Unseen) \in Nat
        /\ Len(list') = Len(list) + Cardinality(Unseen)
        /\ Elements(list') = Elements(list) \cup request.page
    BY MergedPlaces, MergedList
  <2>3. prevLen = Len(list)
    BY <2>1 DEF WalkInv, CountOK
  <2>4. /\ \A q \in Elements(list) : Key(q) <= Key(list[Len(list)])
        /\ \A q \in request.page : Further(q)
        /\ Cardinality(request.page) < PageSize =>
             \A q \in served : Further(q) => q \in request.page
        /\ IF list = << >> THEN request.arg = 0
                           ELSE request.arg = list[Len(list)] /\ hasMore
    BY <2>1 DEF WalkInv, OnwardOK
  <2>5. Unseen = request.page
    <3>1. ASSUME NEW q \in request.page, q \in Elements(list)
          PROVE  FALSE
      <4>1. list # << >> /\ list[Len(list)] \in DOMAIN post
        BY <1>1, <3>1 DEF Elements
      <4>2. request.arg = list[Len(list)] /\ request.arg # 0
        BY <2>4, <4>1 DEF TypeOK
      <4>3. Key(q) > Key(list[Len(list)]) /\ Key(q) <= Key(list[Len(list)])
        BY <2>4, <3>1, <4>2 DEF Further
      <4>4. Key(q) \in Int /\ Key(list[Len(list)]) \in Int
        BY <1>1, <1>2, <3>1, <4>1
      <4> QED BY <4>3, <4>4
    <3> QED BY <3>1 DEF Unseen
  <2>6. Cardinality(request.page) < PageSize
    <3>1. CASE Cardinality(Unseen) = 0
      BY <2>5, <3>1, PagesAssumption
    <3>2. CASE Cardinality(Unseen) # 0
      <4>1. Len(list') > prevLen
        BY <1>1, <2>2, <2>3, <3>2
      <4>2. ~ (Len(list') - prevLen >= PageSize)
        BY <2>1, <4>1 DEF Effect
      <4> QED BY <1>1, <2>2, <2>3, <2>5, <4>2, PagesAssumption
    <3> QED BY <3>1, <3>2
  <2>7. CASE p \in Elements(list')
    BY <2>7 DEF Hidden, Elements
  <2>8. CASE p \notin Elements(list')
    <3>1. p \in served /\ p \in Committed \ Elements(list) /\ p \in DOMAIN post
      BY <1>1, <2>1, <2>2, <2>8
    <3>2. ~ Further(p)
      BY <2>2, <2>4, <2>6, <2>8, <3>1
    <3>3. request.arg # 0 /\ ~ (Key(p) > Key(request.arg))
      BY <3>2 DEF Further
    <3>4. request.arg \in Elements(list) /\ request.arg \in DOMAIN post
      BY <1>1, <2>4, <3>3
    <3>5. Key(p) \in Int /\ Key(request.arg) \in Int
      BY <1>2, <3>1, <3>4
    <3>6. Key(p) = Key(request.arg) \/ Before(p, request.arg)
      BY <3>3, <3>5 DEF Before
    <3>7. HasCause(p)
      BY <3>1, <3>4, <3>6 DEF PagesInv, GapHasCause, HasCause, Tied
    <3>8. HasCause(p)'
      <4>1. Elements(list) \subseteq Elements(list') /\ late' = late
        BY <2>1, <2>2
      <4>2. Tied(p) => \E q \in Elements(list') : Key(q) = Key(p)
        BY <4>1 DEF Tied
      <4>3. Elements(list') = Elements(list)'
        BY DEF Elements
      <4>4. Tied(p) => Tied(p)'
        BY <2>1, <4>2, <4>3 DEF Tied, Key
      <4> QED BY <3>7, <4>1, <4>4 DEF HasCause
    <3> QED BY <3>8 DEF Hidden
  <2> QED BY <2>7, <2>8
<1>5. CASE Serve \/ Fail \/ Invalidate \/ Expire \/ Mount \/ Unmount \/ LoadMore
  <2>1. CASE Serve
    <3>1. request'.state = "served"
      BY <2>1 DEF Serve, TypeOK
    <3> QED BY <3>1
  <2>2. CASE Mount
    BY <2>2 DEF Mount
  <2>3. CASE Fail \/ Unmount
    BY <2>3 DEF Fail, Unmount
  <2>4. CASE LoadMore
    BY <2>4 DEF LoadMore
  <2>5. CASE Invalidate \/ Expire
    <3>1. mounted' = mounted
      BY <2>5 DEF Invalidate, Expire, screen
    <3>2. ~ mounted \/ ~ onward'
      BY <2>5 DEF Invalidate, Expire
    <3> QED BY <3>1, <3>2
  <2> QED BY <1>5, <2>1, <2>2, <2>3, <2>4, <2>5
<1>6. CASE Tick \/ (\E own \in BOOLEAN : Draft(own)) \/ UNCHANGED vars
  BY <1>3, <1>6 DEF Tick, Draft, vars, cache, screen, past
<1>7. CASE \E q \in DOMAIN post : Commit(q) \/ Answer(q)
  BY <1>3, <1>7 DEF Commit, Answer, cache, screen, past
<1> QED BY <1>4, <1>5, <1>6, <1>7 DEF Next

-----------------------------------------------------------------------------
(* Theorems.                                                               *)

LEMMA InitInvariant == Init => TypeOK /\ PagesInv
<1> SUFFICES ASSUME Init PROVE TypeOK /\ PagesInv
  OBVIOUS
<1>1. Committed = {} /\ Elements(list) = {} /\ request.page = {}
  BY DEF Init, Committed, Elements, Idle
<1>2. TypeOK
  <2>1. /\ post \in Seq([stage : Stages, at : 0 .. MaxTime, own : BOOLEAN])
        /\ list \in Seq(Committed) /\ DOMAIN list = {} /\ Len(list) = 0
    BY DEF Init
  <2>2. clock \in 0 .. MaxTime /\ faults \in 0 .. MaxFaults
    BY PagesAssumption DEF Init
  <2>3. request \in [state : {"idle", "sent", "served"},
                     arg : {0} \cup Committed, page : SUBSET Committed]
    BY DEF Init, Idle
  <2>4. 0 \in {0} \cup Committed /\ 0 \in {0} \cup Elements(list)
          /\ 0 \in 0 .. Len(list)
    BY <2>1
  <2>5. \A i, j \in DOMAIN list : i # j => list[i] # list[j]
    BY <2>1
  <2>6. /\ loaded = FALSE /\ lastArg = 0 /\ stale = FALSE /\ mounted = FALSE
        /\ after = 0 /\ prevLen = 0 /\ hasMore = FALSE /\ late = {}
        /\ served = {} /\ full = FALSE /\ onward = TRUE
    BY DEF Init
  <2> QED BY <2>1, <2>2, <2>3, <2>4, <2>5, <2>6 DEF TypeOK
<1>3. PagesInv
  BY <1>1 DEF Init, PagesInv, CacheOK, PageHasCause, GapHasCause, Idle
<1> QED BY <1>2, <1>3

\* TypeOK and PagesInv: the types, and the gaps of the list and of the page in
\* flight, for every size of pages, every length of the thread and any base of
\* the clock's fractions.
THEOREM InvariantHolds == Spec => [](TypeOK /\ PagesInv)
<1>1. TypeOK /\ PagesInv /\ [Next]_vars => (TypeOK /\ PagesInv)'
  BY TypeStep, GapsStep DEF PagesInv
<1> QED BY <1>1, InitInvariant, PTL DEF Spec

\* GapHasCause: what a reader has loaded of a thread has no holes but those left
\* by posts committed late and by equal times.
THEOREM GapsHaveCauses == Spec => []GapHasCause
<1>1. TypeOK /\ PagesInv => GapHasCause
  BY DEF PagesInv
<1> QED BY <1>1, InvariantHolds, PTL

\* DisorderHasCause: two posts that a reader sees in another order than that of
\* the rows are a late one and one that had been loaded, or have the same time as
\* a third.
THEOREM DisorderHasCauses == Spec => []DisorderHasCause
<1>1. Init => DisorderHasCause
  BY DEF Init, DisorderHasCause
<1>2. TypeOK /\ PagesInv /\ DisorderHasCause /\ [Next]_vars => DisorderHasCause'
  BY DisorderStep
<1> QED BY <1>1, <1>2, InvariantHolds, PTL DEF Spec

\* WalkInv: a reader that only goes on has loaded page after page, each one
\* beyond the one before it.
THEOREM WalkHolds == Spec => []WalkInv
<1>1. Init => WalkInv
  BY DEF Init, WalkInv, CountOK, OnwardOK, WalkIsComplete
<1>2. TypeOK /\ PagesInv /\ WalkInv /\ [Next]_vars => WalkInv'
  BY CountStep, OnwardStep, WalkStep DEF WalkInv
<1> QED BY <1>1, <1>2, InvariantHolds, PTL DEF Spec

\* WalkIsComplete: a reader that has only gone on to further pages, and sees no
\* button, has seen every post there was at the last page, but for the late ones
\* and those of equal times.
THEOREM WalksAreComplete == Spec => []WalkIsComplete
<1>1. WalkInv => WalkIsComplete
  BY DEF WalkInv
<1> QED BY <1>1, WalkHolds, PTL

=============================================================================
