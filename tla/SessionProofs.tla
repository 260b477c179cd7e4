---------------------------- MODULE SessionProofs ----------------------------
(***************************************************************************)
(* Proofs about Accounts, and then about Session, whose tab is one of the  *)
(* callers of Accounts.                                                    *)
(***************************************************************************)
EXTENDS Session, TLAPS

USE DEF NoToken

\* What both parts rest on.
AccountsIInv == TypeOK /\ AccountsInv

-----------------------------------------------------------------------------
(* Profiles.                                                               *)

\* A new agent's profile holds values only.
LEMMA NewProfileType ==
  ASSUME NEW g \in Given
  PROVE  NewProfile(g) \in Profiles
BY AccountsAssumption DEF NewProfile, Profiles, Given

\* So does a profile with the given fields merged in.
LEMMA MergedType ==
  ASSUME NEW g \in Given, NEW old \in Profiles
  PROVE  Merged(old, g) \in Profiles
BY DEF Merged, Profiles, Given

LEMMA ProfilesGiven == Profiles \subseteq Given
BY DEF Profiles, Given

-----------------------------------------------------------------------------
(* Accounts.                                                               *)

LEMMA AccountsInit == Init => AccountsIInv
<1> SUFFICES ASSUME Init PROVE AccountsIInv
  OBVIOUS
<1>1. NothingGiven \in Given
  BY DEF NothingGiven, Given
<1>2. TypeOK
  BY <1>1, AccountsAssumption DEF Init, TypeOK, Answers, Tokens
<1>3. AccountsInv
  BY DEF Init, AccountsInv, RegistrationIsExclusive, ConflictIsTrue,
         LostUpdateHasCause
<1> QED BY <1>2, <1>3 DEF AccountsIInv

\* No step of a caller, and no replacement of the database, breaks it.
LEMMA AccountsStep ==
  ASSUME AccountsIInv, [Next]_accounts
  PROVE  AccountsIInv'
<1> USE AccountsAssumption DEF AccountsIInv, Goto, Reply
<1>1. ASSUME NEW c \in Callers, NEW n \in Names, NEW g \in Forms \cup {NothingGiven},
             Register(c, n, g)
      PROVE  AccountsIInv'
  <2>1. g \in Given
    BY DEF NothingGiven, Given
  <2>2. TypeOK'
    BY <1>1, <2>1 DEF Register, history, TypeOK
  <2>3. AccountsInv'
    BY <1>1 DEF Register, history, TypeOK, AccountsInv, RegistrationIsExclusive,
       ConflictIsTrue, LostUpdateHasCause, Taken
  <2> QED BY <2>2, <2>3
<1>2. ASSUME NEW c \in Callers, CheckName(c)
      PROVE  AccountsIInv'
  <2>1. TypeOK'
    BY <1>2 DEF CheckName, history, TypeOK, Answers
  <2>2. AccountsInv'
    BY <1>2 DEF CheckName, history, TypeOK, AccountsInv, RegistrationIsExclusive,
       ConflictIsTrue, LostUpdateHasCause, Taken
  <2> QED BY <2>1, <2>2
<1>3. ASSUME NEW c \in Callers, InsertAgent(c)
      PROVE  AccountsIInv'
  <2> DEFINE t == issued + 1
             p == NewProfile(given[c])
  <2>1. /\ t \in 1 .. MaxAgents /\ t \notin DOMAIN agents /\ t \notin known
        /\ \A d \in Callers : bearer[d] # t
    BY <1>3 DEF InsertAgent, Tokens, TypeOK
  <2>2. p \in Profiles
    BY NewProfileType DEF TypeOK
  <2>3. name[c] \in Names /\ name[c] \notin Taken
    BY <1>3 DEF InsertAgent, Unique, AccountsInv
  <2>4. /\ DOMAIN agents' = DOMAIN agents \cup {t}
        /\ agents'[t] = [name |-> name[c], profile |-> p]
        /\ \A u \in DOMAIN agents : agents'[u] = agents[u]
    BY <1>3, <2>1 DEF InsertAgent
  <2>5. TypeOK'
    <3>1. agents' \in [DOMAIN agents' -> [name : Names, profile : Profiles]]
      BY <1>3, <2>2, <2>3, <2>4 DEF InsertAgent, TypeOK
    <3>2. settled' \in [Tokens -> Given]
      BY <1>3, <2>2, ProfilesGiven DEF InsertAgent, TypeOK
    <3> QED BY <1>3, <2>1, <2>4, <3>1, <3>2 DEF InsertAgent, TypeOK, Answers
  <2>6. RegistrationIsExclusive'
    <3>1. \A u, w \in DOMAIN agents' : agents'[u].name = agents'[w].name => u = w
      BY <2>3, <2>4 DEF AccountsInv, RegistrationIsExclusive, Taken
    <3>2. \A d \in Callers : answer'[d] = "created" =>
            /\ bearer'[d] \in DOMAIN agents' \ known'
            /\ agents'[bearer'[d]].name = name'[d]
            /\ \A e \in Callers : answer'[e] = "created" /\ bearer'[e] = bearer'[d]
                 => d = e
      BY <1>3, <2>1, <2>4 DEF InsertAgent, TypeOK, AccountsInv,
         RegistrationIsExclusive
    <3> QED BY <3>1, <3>2 DEF RegistrationIsExclusive
  <2>7. ConflictIsTrue'
    BY <1>3, <2>4 DEF InsertAgent, TypeOK, AccountsInv, ConflictIsTrue, Taken
  <2>8. LostUpdateHasCause'
    BY <1>3, <2>1, <2>4 DEF InsertAgent, TypeOK, AccountsInv, LostUpdateHasCause,
       Tokens
  <2>9. AccountsInv'
    BY <1>3, <2>1, <2>4, <2>6, <2>7, <2>8 DEF InsertAgent, TypeOK, AccountsInv
  <2> QED BY <2>5, <2>9
<1>4. ASSUME NEW c \in Callers, InsertRefused(c)
      PROVE  AccountsIInv'
  <2>1. TypeOK'
    BY <1>4 DEF InsertRefused, history, TypeOK, Answers
  <2>2. AccountsInv'
    BY <1>4 DEF InsertRefused, Unique, history, TypeOK, AccountsInv,
       RegistrationIsExclusive, ConflictIsTrue, LostUpdateHasCause, Taken
  <2> QED BY <2>1, <2>2
<1>5. ASSUME NEW c \in Callers, NEW t \in 0 .. issued, NEW g \in Forms,
             Update(c, t, g)
      PROVE  AccountsIInv'
  <2>1. TypeOK'
    BY <1>5 DEF Update, history, TypeOK
  <2>2. AccountsInv'
    BY <1>5 DEF Update, history, TypeOK, AccountsInv, RegistrationIsExclusive,
       ConflictIsTrue, LostUpdateHasCause, Taken
  <2> QED BY <2>1, <2>2
<1>6. ASSUME NEW c \in Callers, Resolve(c)
      PROVE  AccountsIInv'
  <2>1. agents[bearer[c]].profile \in Profiles
    BY <1>6 DEF Resolve, TypeOK
  <2>2. TypeOK'
    BY <1>6, <2>1, ProfilesGiven DEF Resolve, TypeOK
  <2>3. AccountsInv'
    BY <1>6, <2>1 DEF Resolve, TypeOK, AccountsInv, RegistrationIsExclusive,
       ConflictIsTrue, LostUpdateHasCause, Taken
  <2> QED BY <2>2, <2>3
<1>7. ASSUME NEW c \in Callers, Unauthenticated(c)
      PROVE  AccountsIInv'
  <2>1. TypeOK'
    BY <1>7 DEF Unauthenticated, history, TypeOK, Answers
  <2>2. AccountsInv'
    BY <1>7 DEF Unauthenticated, history, TypeOK, AccountsInv,
       RegistrationIsExclusive, ConflictIsTrue, LostUpdateHasCause, Taken
  <2> QED BY <2>1, <2>2
<1>8. ASSUME NEW c \in Callers, WriteBack(c)
      PROVE  AccountsIInv'
  <2> DEFINE t == bearer[c]
             p == Merged(row[c], given[c])
  <2>1. t \in DOMAIN agents /\ row[c] \in Profiles /\ given[c] \in Given
    BY <1>8 DEF WriteBack, AccountsInv, TypeOK
  <2>2. p \in Profiles
    BY <2>1, MergedType
  <2>3. /\ DOMAIN agents' = DOMAIN agents
        /\ agents'[t] = [name |-> agents[t].name, profile |-> p]
        /\ \A u \in DOMAIN agents \ {t} : agents'[u] = agents[u]
    BY <1>8, <2>1 DEF WriteBack, TypeOK
  <2>4. TypeOK'
    <3>1. agents' \in [DOMAIN agents' -> [name : Names, profile : Profiles]]
      BY <1>8, <2>1, <2>2, <2>3 DEF WriteBack, TypeOK
    <3>2. settled' \in [Tokens -> Given]
      BY <1>8, <2>1 DEF WriteBack, TypeOK, Given, Tokens
    <3> QED BY <1>8, <2>1, <2>3, <3>1, <3>2 DEF WriteBack, TypeOK, Answers, Tokens
  <2>5. \A u \in DOMAIN agents : agents'[u].name = agents[u].name
    BY <2>3
  <2>6. RegistrationIsExclusive'
    BY <1>8, <2>3, <2>5 DEF WriteBack, TypeOK, AccountsInv, RegistrationIsExclusive
  <2>7. Taken' = Taken
    BY <2>3, <2>5 DEF Taken
  <2>8. ConflictIsTrue'
    BY <1>8, <2>7 DEF WriteBack, TypeOK, AccountsInv, ConflictIsTrue
  <2>9. LostUpdateHasCause'
    <3> SUFFICES ASSUME NEW u \in DOMAIN agents', u \notin raced'
                 PROVE  agents'[u].profile = settled'[u]
      BY DEF LostUpdateHasCause
    <3>1. CASE u # t
      BY <1>8, <2>3, <3>1 DEF WriteBack, TypeOK, AccountsInv, LostUpdateHasCause,
         Tokens
    <3>2. CASE u = t
      <4>1. c \notin stale /\ t \notin raced
        BY <1>8, <3>2 DEF WriteBack
      <4>2. row[c] = settled[t]
        BY <1>8, <2>1, <4>1 DEF WriteBack, AccountsInv, LostUpdateHasCause
      <4>3. t \in Tokens
        BY <2>1 DEF TypeOK, Tokens
      <4>4. settled'[t] = [f \in Fields |-> IF given[c][f] = Absent THEN settled[t][f]
                                            ELSE given[c][f]]
        BY <1>8, <4>3 DEF WriteBack, TypeOK
      <4> QED BY <2>3, <3>2, <4>2, <4>4 DEF Merged
    <3> QED BY <3>1, <3>2
  <2>10. AccountsInv'
    BY <1>8, <2>3, <2>6, <2>8, <2>9 DEF WriteBack, TypeOK, AccountsInv
  <2> QED BY <2>4, <2>10
<1>9. ASSUME NEW c \in Callers, Refuse(c)
      PROVE  AccountsIInv'
  <2>1. TypeOK'
    BY <1>9 DEF Refuse, TypeOK, Answers
  <2>2. AccountsInv'
    BY <1>9 DEF Refuse, TypeOK, AccountsInv, RegistrationIsExclusive,
       ConflictIsTrue, LostUpdateHasCause, Taken
  <2> QED BY <2>1, <2>2
<1>10. ASSUME NEW c \in Callers, Break(c)
       PROVE  AccountsIInv'
  <2>1. TypeOK'
    BY <1>10 DEF Break, Fault, FailureReply, TypeOK, Answers
  <2>2. AccountsInv'
    BY <1>10 DEF Break, FailureReply, TypeOK, AccountsInv,
       RegistrationIsExclusive, ConflictIsTrue, LostUpdateHasCause, Taken
  <2> QED BY <2>1, <2>2
<1>11. ASSUME NEW c \in Callers, Receive(c) \/ LoseAnswer(c)
       PROVE  AccountsIInv'
  <2>1. /\ Forget(c)
        /\ known' = known \/ (answer[c] = "created" /\ known' = known \cup {bearer[c]})
        /\ faults' \in 0 .. MaxFaults
    BY <1>11 DEF Receive, LoseAnswer, Fault, TypeOK
  <2>2. NothingGiven \in Given
    BY DEF NothingGiven, Given
  <2>3. TypeOK'
    BY <2>1, <2>2 DEF Forget, history, TypeOK, Answers, AccountsInv,
       RegistrationIsExclusive
  <2>4. RegistrationIsExclusive'
    BY <2>1 DEF Forget, TypeOK, AccountsInv, RegistrationIsExclusive
  <2>5. AccountsInv'
    BY <2>1, <2>4 DEF Forget, history, TypeOK, AccountsInv, ConflictIsTrue,
       LostUpdateHasCause, Taken
  <2> QED BY <2>3, <2>5
<1>12. ASSUME ReplaceDatabase
       PROVE  AccountsIInv'
  <2>1. DOMAIN agents' = {} /\ \A c \in Callers : answer[c] = "none"
    BY <1>12 DEF ReplaceDatabase, AccountsInv
  <2>2. TypeOK'
    BY <1>12, <2>1 DEF ReplaceDatabase, Fault, call, history, TypeOK
  <2>3. AccountsInv'
    BY <1>12, <2>1 DEF ReplaceDatabase, call, history, TypeOK, AccountsInv,
       RegistrationIsExclusive, ConflictIsTrue, LostUpdateHasCause
  <2> QED BY <2>2, <2>3
<1>13. ASSUME UNCHANGED accounts
       PROVE  AccountsIInv'
  BY <1>13 DEF accounts, call, history, TypeOK, AccountsInv,
     RegistrationIsExclusive, ConflictIsTrue, LostUpdateHasCause, Taken
<1>14. known \cup {NoToken} \subseteq 0 .. issued
  BY DEF TypeOK
<1> QED
  BY <1>1, <1>2, <1>3, <1>4, <1>5, <1>6, <1>7, <1>8, <1>9, <1>10, <1>11, <1>12,
     <1>13, <1>14 DEF Next, Begin, Work, End

\* The rows, the calls and the answers have their types, and the inductive
\* invariant holds, however many callers work on the agents at one time.
THEOREM AccountsInvariant == Spec => []TypeOK /\ []AccountsInv
<1>1. Spec => []AccountsIInv
  BY AccountsInit, AccountsStep, PTL DEF Spec
<1>2. AccountsIInv => TypeOK /\ AccountsInv
  BY DEF AccountsIInv
<1> QED BY <1>1, <1>2, PTL

\* A name has one owner and a token one holder, although a name is looked up in
\* one step and inserted in another; and a conflict is never a failure.
THEOREM RegistrationHolds == Spec => []RegistrationIsExclusive /\ []ConflictIsTrue
<1>1. AccountsInv => RegistrationIsExclusive /\ ConflictIsTrue
  BY DEF AccountsInv
<1> QED BY <1>1, AccountsInvariant, PTL

\* A field is lost only to an update that wrote back a row it had read before
\* another one wrote it.
THEOREM UpdatesHold == Spec => []LostUpdateHasCause
<1>1. AccountsInv => LostUpdateHasCause
  BY DEF AccountsInv
<1> QED BY <1>1, AccountsInvariant, PTL

-----------------------------------------------------------------------------
(* Session.                                                                *)

\* Whatever the tab does is a step of Accounts or leaves the accounts alone.
LEMMA SessionStepRefines ==
  ASSUME SessionTypeOK, SessionInv, AccountsInv, [SessionNext]_<<accounts, session>>
  PROVE  [Next]_accounts
<1> USE TabAssumption
<1>1. ASSUME NEW n \in Names, Submit(n)
      PROVE  Next
  BY <1>1 DEF Submit, Next, Begin
<1>2. ASSUME NEW g \in Forms, Save(g)
      PROVE  Next
  <2>1. stored \in known \cup {NoToken}
    BY DEF SessionInv
  <2> QED BY <1>2, <2>1 DEF Save, Next, Begin
<1>3. ASSUME Settle
      PROVE  Next
  BY <1>3 DEF Settle, Next, End
<1>4. ASSUME Load \/ Gate \/ Logout \/ OtherTab
      PROVE  UNCHANGED accounts
  BY <1>4 DEF Load, Gate, Result, Superseded, Rerender, Logout, OtherTab
<1>5. ASSUME Elsewhere
      PROVE  Next
  BY <1>5 DEF Elsewhere, Next
<1>6. ASSUME UNCHANGED <<accounts, session>>
      PROVE  UNCHANGED accounts
  BY <1>6
<1> QED BY <1>1, <1>2, <1>3, <1>4, <1>5, <1>6 DEF SessionNext, Screen

SessionIInv == SessionTypeOK /\ AccountsInv /\ SessionInv

LEMMA SessionStarts == SessionInit => SessionIInv
<1> SUFFICES ASSUME SessionInit PROVE SessionIInv
  OBVIOUS
<1>1. TypeOK /\ AccountsInv
  BY AccountsInit DEF SessionInit, AccountsIInv
<1>2. SessionTypeOK
  <2>1. issued = 0
    BY DEF SessionInit, Init
  <2>2. NoToken \in 0 .. issued
    BY <2>1
  <2> QED BY <1>1, <2>2 DEF SessionInit, SessionTypeOK
<1>3. SessionInv
  BY TabAssumption DEF SessionInit, Init, SessionInv, WritesAsShown
<1> QED BY <1>1, <1>2, <1>3 DEF SessionIInv

\* The tokens issued and those that were told only become more.
LEMMA TokensGrow ==
  ASSUME TypeOK, AccountsInv, [Next]_accounts
  PROVE  issued \in 0 .. issued' /\ known \subseteq known'
<1>1. CASE UNCHANGED accounts
  BY <1>1 DEF accounts, TypeOK
<1>2. issued \in Nat
  BY AccountsAssumption DEF TypeOK
<1>3. ASSUME NEW c \in Callers, Begin(c)
      PROVE  issued' = issued /\ known' = known
  BY <1>3 DEF Begin, Register, Update
<1>4. ASSUME NEW c \in Callers, Work(c)
      PROVE  issued' \in {issued, issued + 1} /\ known' = known
  BY <1>4 DEF Work, CheckName, InsertAgent, InsertRefused, Resolve,
     Unauthenticated, WriteBack, Refuse, Break
<1>5. ASSUME NEW c \in Callers, End(c)
      PROVE  issued' = issued /\ known \subseteq known'
  BY <1>5 DEF End, Receive, LoseAnswer, Forget
<1>6. ASSUME ReplaceDatabase
      PROVE  issued' = issued /\ known' = known
  BY <1>6 DEF ReplaceDatabase
<1> QED BY <1>1, <1>2, <1>3, <1>4, <1>5, <1>6 DEF Next

\* What a call does, it does to itself.
LEMMA OtherCallsStay ==
  ASSUME TypeOK, NEW c \in Callers \ {Tab}, Work(c) \/ Begin(c) \/ End(c)
  PROVE  pc'[Tab] = pc[Tab] /\ bearer'[Tab] = bearer[Tab]
BY TabAssumption DEF Begin, Work, End, Register, CheckName, InsertAgent,
   InsertRefused, Update, Resolve, Unauthenticated, WriteBack, Refuse, Break,
   Receive, LoseAnswer, Forget, Goto, TypeOK

\* The tab's call works on without being begun again.
LEMMA OwnCallGoesOn ==
  ASSUME TypeOK, Work(Tab)
  PROVE  /\ pc[Tab] # "idle"
         /\ pc'[Tab] \in {"resolve", "write"} =>
              pc[Tab] \in {"resolve", "write"} /\ bearer'[Tab] = bearer[Tab]
BY TabAssumption DEF Work, CheckName, InsertAgent,
   InsertRefused, Resolve, Unauthenticated, WriteBack, Refuse, Break,
   Goto, TypeOK

LEMMA SessionStep ==
  ASSUME SessionIInv, [SessionNext]_<<accounts, session>>
  PROVE  SessionIInv'
<1> USE TabAssumption DEF SessionIInv
<1>1. [Next]_accounts
  BY SessionStepRefines
<1>2. TypeOK' /\ AccountsInv'
  BY <1>1, AccountsStep DEF AccountsIInv, SessionTypeOK
<1>3. issued \in 0 .. issued' /\ known \subseteq known'
  BY <1>1, TokensGrow DEF SessionTypeOK
<1>4. NoToken \in 0 .. issued' /\ \A t \in 0 .. issued : t \in 0 .. issued'
  BY <1>2, <1>3, AccountsAssumption DEF SessionTypeOK, TypeOK
<1>5. ASSUME Load
      PROVE  SessionTypeOK' /\ SessionInv'
  <2>1. UNCHANGED <<issued, known, pc, bearer, stored>> /\ pc[Tab] = "idle"
    BY <1>5 DEF Load, accounts, call
  <2>2. /\ page' = "open" /\ shown' = NoToken /\ moved' = FALSE
        /\ due' = FALSE /\ delayed' = FALSE
        /\ getMe' \in {"skipped", "loading"}
        /\ carried' \in {NoToken, stored}
        /\ stored # NoToken => carried' = stored
    BY <1>5 DEF Load, Skip, Send, Clean
  <2>3. SessionTypeOK'
    BY <1>2, <1>4, <2>1, <2>2 DEF SessionTypeOK
  <2>4. SessionInv'
    BY <2>1, <2>2 DEF SessionInv, WritesAsShown
  <2> QED BY <2>3, <2>4
<1>6. ASSUME Result
      PROVE  SessionTypeOK' /\ SessionInv'
  <2>1. UNCHANGED <<issued, known, pc, bearer, page, delayed, moved>>
    BY <1>6 DEF Result, accounts, call
  <2>2. /\ getMe # "skipped" /\ due' = FALSE
        /\ getMe' \in {"skipped", "settled"}
        /\ stored' \in {NoToken, stored}
        /\ carried' \in {NoToken, carried}
        /\ shown' \in {shown, carried}
        /\ stored = NoToken => shown' = shown /\ stored' = NoToken
        /\ stored # NoToken => carried' = carried
    BY <1>6 DEF Result, Pending, Show, Skip
  <2>3. SessionTypeOK'
    BY <1>2, <1>4, <2>1, <2>2 DEF SessionTypeOK
  <2>4. SessionInv'
    BY <2>1, <2>2 DEF SessionInv, WritesAsShown, SessionTypeOK
  <2> QED BY <2>3, <2>4
<1>7. ASSUME Superseded
      PROVE  SessionTypeOK' /\ SessionInv'
  BY <1>2, <1>7 DEF Superseded, Pending, Send, accounts, call, SessionTypeOK,
     SessionInv, WritesAsShown, TypeOK
<1>8. ASSUME Rerender
      PROVE  SessionTypeOK' /\ SessionInv'
  BY <1>2, <1>8 DEF Rerender, Skip, accounts, call, SessionTypeOK,
     SessionInv, WritesAsShown, TypeOK
<1>9. ASSUME NEW n \in Names, Submit(n)
      PROVE  SessionTypeOK' /\ SessionInv'
  <2>1. pc'[Tab] = "check"
    BY <1>9 DEF Submit, Register, Goto, SessionTypeOK, TypeOK
  <2> QED BY <1>2, <1>9, <2>1 DEF Submit, Register, session, gate, SessionTypeOK,
             SessionInv, WritesAsShown
<1>10. ASSUME NEW g \in Forms, Save(g)
       PROVE  SessionTypeOK' /\ SessionInv'
  <2>1. pc'[Tab] = "resolve" /\ bearer'[Tab] = stored
    BY <1>10 DEF Save, Update, Goto, SessionTypeOK, TypeOK
  <2> QED BY <1>2, <1>10, <2>1 DEF Save, Update, session, gate, SessionTypeOK,
             SessionInv, WritesAsShown
<1>11. ASSUME Settle
       PROVE  SessionTypeOK' /\ SessionInv'
  <2>1. pc'[Tab] = "idle"
    BY <1>11 DEF Settle, Receive, LoseAnswer, Forget, Goto, SessionTypeOK, TypeOK
  <2>2. /\ page' \in {"open", "leaving"}
        /\ stored' \in known' \cup {NoToken} /\ stored' \in 0 .. issued'
        /\ page' = "open" => stored' = stored /\ page = "open"
    BY <1>2, <1>3, <1>11 DEF Settle, Receive, LoseAnswer, StoreToken, SessionTypeOK,
       SessionInv, TypeOK
  <2>3. /\ getMe' \in {"skipped", "loading", "again", "settled"}
        /\ carried' \in {carried, stored} /\ shown' = shown
        /\ due' \in BOOLEAN /\ delayed' \in BOOLEAN /\ moved' = moved
        /\ getMe' # "skipped" => getMe # "skipped"
        /\ carried' = carried \/ carried' = stored
    BY <1>11 DEF Settle, Invalidate, Pending, Send, gate, SessionTypeOK
  <2>4. SessionTypeOK'
    BY <1>2, <1>4, <2>2, <2>3 DEF SessionTypeOK
  <2>5. SessionInv'
    BY <2>1, <2>2, <2>3 DEF SessionInv, WritesAsShown, SessionTypeOK
  <2> QED BY <2>4, <2>5
<1>12. ASSUME Logout
       PROVE  SessionTypeOK' /\ SessionInv'
  BY <1>2, <1>12 DEF Logout, accounts, call, gate, SessionTypeOK, SessionInv,
     WritesAsShown, TypeOK
<1>13. ASSUME OtherTab
       PROVE  SessionTypeOK' /\ SessionInv'
  BY <1>2, <1>13 DEF OtherTab, accounts, call, gate, SessionTypeOK, SessionInv,
     WritesAsShown, TypeOK
<1>14. ASSUME Elsewhere, UNCHANGED session
       PROVE  SessionTypeOK' /\ SessionInv'
  <2>1. SessionTypeOK'
    BY <1>2, <1>4, <1>14 DEF session, gate, SessionTypeOK
  <2>2. /\ pc[Tab] = "idle" => pc'[Tab] = "idle"
        /\ pc'[Tab] \in {"resolve", "write"} =>
             pc[Tab] \in {"resolve", "write"} /\ bearer'[Tab] = bearer[Tab]
    BY <1>14, OtherCallsStay, OwnCallGoesOn
       DEF Elsewhere, ReplaceDatabase, call, SessionTypeOK
  <2>3. SessionInv'
    BY <1>3, <1>14, <2>2 DEF session, gate, SessionInv, WritesAsShown
  <2> QED BY <2>1, <2>3
<1>15. ASSUME UNCHANGED <<accounts, session>>
       PROVE  SessionTypeOK' /\ SessionInv'
  BY <1>2, <1>15 DEF accounts, call, session, gate, SessionTypeOK, SessionInv,
     WritesAsShown
<1> QED
  BY <1>2, <1>5, <1>6, <1>7, <1>8, <1>9, <1>10, <1>11, <1>12, <1>13, <1>14, <1>15
     DEF SessionNext, Gate, Screen

\* The types of the session, and its inductive invariant: the tab that nobody
\* interferes with shows, and asks about, the token that is stored.
THEOREM SessionInvariant == SessionSpec => []SessionTypeOK /\ []SessionInv
<1>1. SessionSpec => []SessionIInv
  BY SessionStarts, SessionStep, PTL DEF SessionSpec
<1>2. SessionIInv => SessionTypeOK /\ SessionInv
  BY DEF SessionIInv
<1> QED BY <1>1, <1>2, PTL

\* A profile is saved under the name it is shown for, or refused.
THEOREM WritesHold == SessionSpec => []WritesAsShown
<1>1. SessionInv => WritesAsShown
  BY DEF SessionInv
<1> QED BY <1>1, SessionInvariant, PTL

\* The tab is a caller of Accounts like any other, so that what is proved of
\* the accounts holds whatever browsers do.
THEOREM SessionImplementsAccounts == SessionSpec => ImplementsAccounts
<1>1. SessionInit => Init
  BY DEF SessionInit
<1>2. SessionIInv /\ [SessionNext]_<<accounts, session>> => [Next]_accounts
  BY SessionStepRefines DEF SessionIInv
<1>3. SessionSpec => []SessionIInv
  BY SessionStarts, SessionStep, PTL DEF SessionSpec
<1> QED BY <1>1, <1>2, <1>3, PTL DEF SessionSpec, Spec, ImplementsAccounts

\* The gate clears a token that is of use only if the token was stored after the
\* request was sent that it is cleared for.
THEOREM ClearingHasACause == SessionSpec => ClearedHasCause
<1>1. SessionSpec => []SessionIInv
  BY SessionStarts, SessionStep, PTL DEF SessionSpec
<1>2. SessionIInv /\ [SessionNext]_<<accounts, session>> =>
        [GateClears => stored \notin DOMAIN agents \/ page = "leaving" \/ moved
          ]_<<accounts, session>>
  <2> SUFFICES ASSUME SessionIInv, GateClears, page # "leaving", ~moved
               PROVE  stored \notin DOMAIN agents
    OBVIOUS
  <2>1. Result
    BY DEF GateClears, Gate, Superseded, Rerender
  <2>2. Pending /\ Verdict = "unauthorized"
    BY <2>1 DEF GateClears, Result, Show, Clears
  <2>3. carried = stored
    BY <2>2 DEF SessionIInv, SessionTypeOK, SessionInv, Pending, GateClears
  <2> QED BY <2>2, <2>3 DEF Verdict
<1> QED BY <1>1, <1>2, PTL DEF SessionSpec, ClearedHasCause
=============================================================================
