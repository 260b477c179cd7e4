-------------------------- MODULE IdempotencyProofs --------------------------
(* Proofs about Idempotency, for every value of its constants.             *)
EXTENDS Idempotency, TLAPS

USE IdempotencyAssumption

-----------------------------------------------------------------------------
(* Type correctness.                                                       *)

LEMMA TypeInit == Init => TypeOK
  BY DEF Init, TypeOK, Executing

LEMMA ReleaseType ==
  ASSUME TypeOK, NEW x \in Attempts, Release(x)
  PROVE  /\ pc' \in [Attempts -> Executing \cup {"free", "reply"}]
         /\ request' \in [Attempts -> Requests \cup {NoRequest}]
         /\ \A y \in Attempts : request'[y] = NoRequest <=> pc'[y] = "free"
         /\ row' \in [Attempts -> 0 .. Len(made)]
         /\ \A y \in Attempts : row'[y] # 0 <=> pc'[y] \in {"save", "reply"}
         /\ waiting' \in [Requests -> Attempts \cup {NoAttempt}]
<1>1. Len(made) \in Nat
  BY DEF TypeOK
<1> QED BY <1>1 DEF TypeOK, Release, Executing

LEMMA TypeStep == TypeOK /\ [Next]_vars => TypeOK'
<1> SUFFICES ASSUME TypeOK, [Next]_vars PROVE TypeOK'
  OBVIOUS
<1> USE DEF Executing
<1>0. Len(made) \in Nat
  BY DEF TypeOK
<1>1. ASSUME NEW o \in Requests, NEW x \in Attempts, Send(o, x) PROVE TypeOK'
  BY <1>0, <1>1 DEF TypeOK, Send
<1>2. ASSUME NEW x \in Attempts, Lookup(x) PROVE TypeOK'
  <2>1. request[x] \in Requests
    BY <1>2 DEF TypeOK, Lookup
  <2>2. CASE Hit(request[x])
    <3>1. records[KeyOf[request[x]]] \in 1 .. Len(made)
      BY <1>0, <2>1, <2>2 DEF TypeOK, Hit
    <3>2. /\ pc' = [pc EXCEPT ![x] = "reply"]
          /\ row' = [row EXCEPT ![x] = records[KeyOf[request[x]]]]
          /\ UNCHANGED <<made, records, request, waiting, answered, faults,
                         spoiled>>
      BY <1>2, <2>2 DEF Lookup, client
    <3> QED BY <1>0, <1>2, <3>1, <3>2 DEF TypeOK, Lookup
  <2>3. CASE ~Hit(request[x])
    BY <1>0, <1>2, <2>1, <2>3 DEF TypeOK, Lookup, client
  <2> QED BY <2>2, <2>3
<1>3. ASSUME NEW x \in Attempts, Create(x) PROVE TypeOK'
  <2>1. request[x] \in Requests
    BY <1>3 DEF TypeOK, Create
  <2>2. made' \in Seq(Requests) /\ Len(made') = Len(made) + 1
    BY <1>3, <2>1 DEF TypeOK, Create
  <2> QED BY <1>0, <1>3, <2>2 DEF TypeOK, Create, client
<1>4. ASSUME NEW x \in Attempts, Save(x) PROVE TypeOK'
  BY <1>0, <1>4 DEF TypeOK, Save, client
<1>5. ASSUME NEW x \in Attempts, Reply(x) PROVE TypeOK'
  <2>1. answered' \in [Requests -> 0 .. Len(made)]
    BY <1>0, <1>5 DEF TypeOK, Reply
  <2>2. Release(x) /\ UNCHANGED <<made, records, faults, spoiled>>
    BY <1>5 DEF Reply
  <2> QED BY <2>1, <2>2, ReleaseType DEF TypeOK
<1>6. ASSUME NEW x \in Attempts, CallFails(x) PROVE TypeOK'
  <2>1. /\ Release(x) /\ UNCHANGED <<made, records, answered, spoiled>>
        /\ faults' \in 0 .. MaxFaults
    BY <1>6 DEF CallFails, Fault, TypeOK
  <2> QED BY <2>1, ReleaseType DEF TypeOK
<1>7. ASSUME NEW x \in Attempts, SaveFails(x) PROVE TypeOK'
  BY <1>0, <1>7 DEF TypeOK, SaveFails, Fault, client
<1>8. CASE Restart
  BY <1>0, <1>8 DEF TypeOK, Restart, Fault
<1>9. CASE UNCHANGED vars
  BY <1>9 DEF TypeOK, vars, client
<1> QED BY <1>1, <1>2, <1>3, <1>4, <1>5, <1>6, <1>7, <1>8, <1>9 DEF Next

(* TypeOK holds in every reachable state, for any requests, agents, keys   *)
(* and handlers.                                                           *)
THEOREM TypeCorrect == Spec => []TypeOK
  BY TypeInit, TypeStep, PTL DEF Spec

-----------------------------------------------------------------------------
(* Retries of one another are equally clean, and cleanness is never        *)
(* regained.                                                               *)

LEMMA CleanSame ==
  ASSUME NEW o \in Requests, NEW p \in Requests, Same(o, p), Clean(o)
  PROVE  Clean(p)
  BY DEF Clean, Rival, Same

LEMMA CleanBefore ==
  ASSUME spoiled \subseteq spoiled', NEW o, Clean(o)'
  PROVE  Clean(o)
  BY DEF Clean, Rival, Same

LEMMA SpoiledIsNotClean ==
  ASSUME NEW o, NEW p \in spoiled', Same(o, p)
  PROVE  ~Clean(o)'
  BY DEF Clean, Same

LEMMA SpoiledGrows == [Next]_vars => spoiled \subseteq spoiled'
  BY DEF Next, Send, Lookup, Create, Save, Reply, CallFails, SaveFails,
         Restart, vars

-----------------------------------------------------------------------------
(* The invariant.                                                          *)

LEMMA InvInit == Init => IdemInv
<1> SUFFICES ASSUME Init PROVE IdemInv
  OBVIOUS
<1>1. Len(made) = 0
  BY DEF Init
<1>2. RowsMatch
  BY DEF Init, RowsMatch, ReplyIsOwn
<1>3. OneAttempt
  BY DEF Init, OneAttempt, Executing
<1>4. RowIsKept
  BY <1>1 DEF Init, RowIsKept
<1>5. DuplicateHasCause
  BY <1>1 DEF DuplicateHasCause
<1> QED BY <1>2, <1>3, <1>4, <1>5 DEF IdemInv

(* The rows and the records stay as they are, and no attempt starts to     *)
(* execute or moves to the create: this leaves OneAttempt and              *)
(* DuplicateHasCause true.                                                 *)
LEMMA NothingStarts ==
  ASSUME TypeOK, IdemInv, spoiled \subseteq spoiled', made' = made,
         NEW x \in Attempts,
         \A y \in Attempts \ {x} : pc'[y] = pc[y] /\ request'[y] = request[y],
         pc'[x] \in Executing =>
           pc[x] \in Executing /\ request'[x] = request[x]
  PROVE  OneAttempt' /\ DuplicateHasCause'
<1>1. OneAttempt'
  <2> SUFFICES ASSUME NEW y \in Attempts, NEW z \in Attempts,
                      pc'[y] \in Executing, pc'[z] \in Executing,
                      Same(request'[y], request'[z]), Clean(request[y])'
               PROVE  y = z
    BY DEF OneAttempt, Same, Executing
  <2>1. /\ pc[y] \in Executing /\ request'[y] = request[y]
        /\ pc[z] \in Executing /\ request'[z] = request[z]
    OBVIOUS
  <2>2. Clean(request[y])
    BY <2>1 DEF Clean, Rival, Same
  <2> QED BY <2>1, <2>2 DEF IdemInv, OneAttempt
<1>2. DuplicateHasCause'
  BY DEF IdemInv, DuplicateHasCause, Clean, Rival, Same
<1> QED BY <1>1, <1>2

(* A client sends: if a retry of its request executes, it is spoiled.      *)
LEMMA InvSend ==
  ASSUME TypeOK, IdemInv, TypeOK', spoiled \subseteq spoiled',
         NEW o \in Requests, NEW x \in Attempts, Send(o, x)
  PROVE  IdemInv'
<1> USE DEF Executing
<1>1. /\ UNCHANGED <<made, records, row, answered>>
      /\ pc[x] = "free" /\ pc' = [pc EXCEPT ![x] = "lookup"]
      /\ request' = [request EXCEPT ![x] = o]
  BY DEF Send
<1>2. pc' [x] = "lookup" /\ request'[x] = o /\ row[x] = 0
  BY <1>1 DEF TypeOK
<1>3. RowsMatch'
  BY <1>1, <1>2 DEF IdemInv, RowsMatch, ReplyIsOwn, Same, TypeOK
<1>4. OneAttempt'
  <2>1. ASSUME NEW y \in Attempts, y # x, pc[y] \in Executing,
               Same(request[y], o)
        PROVE  ~Clean(o)' /\ ~Clean(request[y])'
    <3>1. o \in spoiled'
      BY <2>1 DEF Send
    <3>2. Same(o, o) /\ Same(request'[y], o)
      BY <1>1, <2>1 DEF Same
    <3> QED BY <3>1, <3>2 DEF Clean, Same
  <2>2. ASSUME NEW y \in Attempts, NEW z \in Attempts, y # z,
               pc'[y] \in Executing, pc'[z] \in Executing,
               Same(request'[y], request'[z]), Clean(request[y])'
        PROVE  FALSE
    <3>1. CASE y = x
      BY <1>1, <1>2, <2>1, <2>2, <3>1 DEF TypeOK, Same
    <3>2. CASE z = x
      BY <1>1, <1>2, <2>1, <2>2, <3>2 DEF TypeOK
    <3>3. CASE y # x /\ z # x
      <4>1. /\ request'[y] = request[y] /\ request'[z] = request[z]
            /\ pc'[y] = pc[y] /\ pc'[z] = pc[z]
        BY <1>1, <3>3 DEF TypeOK
      <4>2. Clean(request[y])
        BY <2>2, <4>1 DEF Clean, Rival, Same
      <4> QED BY <2>2, <4>1, <4>2 DEF IdemInv, OneAttempt
    <3> QED BY <3>1, <3>2, <3>3
  <2> QED BY <2>2 DEF OneAttempt, Same
<1>5. RowIsKept'
  <2>1. ASSUME NEW r \in 1 .. Len(made), Clean(made[r])'
        PROVE  \/ records[KeyOf[made[r]]] = r
               \/ \E y \in Attempts : pc'[y] = "save" /\ row[y] = r
    <3>1. Clean(made[r])
      BY <1>1, <2>1 DEF Clean, Rival, Same
    <3>2. \A y \in Attempts : pc[y] = "save" => pc'[y] = "save"
      BY <1>1 DEF TypeOK
    <3> QED BY <3>1, <3>2 DEF IdemInv, RowIsKept
  <2>2. ASSUME NEW y \in Attempts, pc'[y] = "create", Clean(request[y])',
               NEW r \in 1 .. Len(made)
        PROVE  ~Same(made[r], request'[y])
    <3>1. y # x /\ request'[y] = request[y] /\ pc[y] = "create"
      BY <1>1, <1>2, <2>2 DEF TypeOK
    <3>2. Clean(request[y])
      BY <2>2, <3>1 DEF Clean, Rival, Same
    <3> QED BY <2>2, <3>1, <3>2 DEF IdemInv, RowIsKept
  <2> QED BY <1>1, <2>1, <2>2 DEF RowIsKept, Same
<1>6. DuplicateHasCause'
  BY <1>1, CleanBefore DEF IdemInv, DuplicateHasCause, Clean, Same, Rival
<1> QED BY <1>3, <1>4, <1>5, <1>6 DEF IdemInv

(* The lookup: a miss means that no row of a clean request exists.         *)
LEMMA InvLookup ==
  ASSUME TypeOK, IdemInv, TypeOK', spoiled \subseteq spoiled',
         NEW x \in Attempts, Lookup(x)
  PROVE  IdemInv'
<1> USE DEF Executing
<1> DEFINE o == request[x]
           k == KeyOf[o]
<1>1. /\ UNCHANGED <<made, records, request, waiting, answered, faults, spoiled>>
      /\ pc[x] = "lookup" /\ o \in Requests
      /\ row[x] = 0
  BY DEF Lookup, client, TypeOK
<1>2. /\ \A y \in Attempts \ {x} : pc'[y] = pc[y] /\ row'[y] = row[y]
      /\ pc'[x] \in {"reply", "create"}
  BY DEF Lookup, TypeOK
<1>3. OneAttempt' /\ DuplicateHasCause'
  BY <1>1, <1>2, NothingStarts
<1>4. \A p : Clean(p)' <=> Clean(p)
  BY <1>1 DEF Clean, Rival, Same
<1>5. CASE Hit(o)
  <2>1. pc'[x] = "reply" /\ row'[x] = records[k]
    BY <1>5 DEF Lookup, TypeOK
  <2>2. k \in Keys /\ records[k] # 0
    BY <1>1, <1>5 DEF Hit, TypeOK
  <2>3. Same(made[records[k]], o)
    BY <1>5, <2>2 DEF Hit, IdemInv, RowsMatch, Same
  <2>4. RowsMatch'
    BY <1>1, <1>2, <2>1, <2>3 DEF IdemInv, RowsMatch, ReplyIsOwn, Same
  <2>5. RowIsKept'
    <3>1. \A r \in 1 .. Len(made) : Clean(made[r]) =>
            \/ records[KeyOf[made[r]]] = r
            \/ \E y \in Attempts : pc'[y] = "save" /\ row'[y] = r
      BY <1>1, <1>2 DEF IdemInv, RowIsKept
    <3>2. \A y \in Attempts : pc'[y] = "create" /\ Clean(request[y]) =>
            \A r \in 1 .. Len(made) : ~Same(made[r], request[y])
      BY <1>2, <2>1 DEF IdemInv, RowIsKept
    <3> QED BY <1>1, <3>1, <3>2 DEF RowIsKept, Clean, Rival, Same
  <2> QED BY <1>3, <2>4, <2>5 DEF IdemInv
<1>6. CASE ~Hit(o)
  <2>1. pc'[x] = "create" /\ row' = row
    BY <1>6 DEF Lookup, TypeOK
  <2>2. RowsMatch'
    BY <1>1, <2>1 DEF IdemInv, RowsMatch, ReplyIsOwn, Same
  <2>3. ASSUME Clean(o), NEW r \in 1 .. Len(made), Same(made[r], o)
        PROVE  FALSE
    <3>1. made[r] \in Requests
      BY DEF TypeOK
    <3>2. Same(o, made[r])
      BY <2>3 DEF Same
    <3>3. Clean(made[r]) /\ r # 0 /\ KeyOf[made[r]] = k /\ k # NoKey
      <4>1. Clean(made[r])
        BY <1>1, <2>3, <3>1, <3>2, CleanSame
      <4> QED BY <2>3, <4>1 DEF Same, Clean, TypeOK
    <3>4. CASE records[k] = r
      BY <1>6, <2>3, <3>3, <3>4 DEF Hit, Same
    <3>5. CASE \E y \in Attempts : pc[y] = "save" /\ row[y] = r
      <4>1. PICK y \in Attempts : pc[y] = "save" /\ row[y] = r
        BY <3>5
      <4>2. Same(made[r], request[y])
        BY <3>3, <4>1 DEF IdemInv, RowsMatch
      <4>3. Same(o, request[y])
        BY <2>3, <4>2 DEF Same
      <4>4. x = y
        BY <1>1, <2>3, <4>1, <4>3 DEF IdemInv, OneAttempt
      <4> QED BY <1>1, <4>1, <4>4
    <3> QED BY <3>3, <3>4, <3>5 DEF IdemInv, RowIsKept
  <2>4. RowIsKept'
    <3>1. \A r \in 1 .. Len(made) : Clean(made[r]) =>
            \/ records[KeyOf[made[r]]] = r
            \/ \E y \in Attempts : pc'[y] = "save" /\ row'[y] = r
      BY <1>1, <1>2, <2>1 DEF IdemInv, RowIsKept
    <3>2. \A y \in Attempts : pc'[y] = "create" /\ Clean(request[y]) =>
            \A r \in 1 .. Len(made) : ~Same(made[r], request[y])
      BY <1>2, <2>3 DEF IdemInv, RowIsKept
    <3> QED BY <1>1, <3>1, <3>2 DEF RowIsKept, Clean, Rival, Same
  <2> QED BY <1>3, <2>2, <2>4 DEF IdemInv
<1> QED BY <1>5, <1>6

(* The create: its row is new, and no other attempt is about to create it. *)
LEMMA InvCreate ==
  ASSUME TypeOK, IdemInv, TypeOK', spoiled \subseteq spoiled',
         NEW x \in Attempts, Create(x)
  PROVE  IdemInv'
<1> USE DEF Executing
<1> DEFINE o == request[x]
           n == Len(made) + 1
<1>1. /\ UNCHANGED <<records, request, waiting, answered, faults, spoiled>>
      /\ pc[x] = "create" /\ o \in Requests
      /\ pc' = [pc EXCEPT ![x] = "save"]
      /\ row' = [row EXCEPT ![x] = n]
  BY DEF Create, client, TypeOK
<1>2. /\ Len(made) \in Nat /\ Len(made') = n /\ made'[n] = o
      /\ \A r \in 1 .. Len(made) : made'[r] = made[r]
  BY <1>1 DEF Create, TypeOK
<1>3. /\ pc'[x] = "save" /\ row'[x] = n
      /\ \A y \in Attempts \ {x} : pc'[y] = pc[y] /\ row'[y] = row[y]
  BY <1>1 DEF TypeOK
<1>4. \A p : Clean(p)' <=> Clean(p)
  BY <1>1 DEF Clean, Rival, Same
<1>5. Same(o, o)
  BY DEF Same
<1>6. RowsMatch'
  <2> HIDE DEF n
  <2>0. \A i \in 0 .. Len(made) : i # 0 => made'[i] = made[i]
    BY <1>2
  <2>1. \A k \in Keys : records[k] # 0 => KeyOf[made'[records[k]]] = k
    BY <2>0 DEF IdemInv, RowsMatch, TypeOK
  <2>2. \A y \in Attempts : row'[y] # 0 => Same(made'[row'[y]], request[y])
    <3>1. ASSUME NEW y \in Attempts \ {x}, row[y] # 0
          PROVE  Same(made'[row[y]], request[y])
      <4>1. Same(made[row[y]], request[y])
        BY <3>1 DEF IdemInv, RowsMatch
      <4>2. made'[row[y]] = made[row[y]]
        BY <2>0, <3>1 DEF TypeOK
      <4> QED BY <4>1, <4>2
    <3>2. Same(made'[row'[x]], request[x])
      BY <1>2, <1>3, <1>5
    <3> QED BY <1>3, <3>1, <3>2
  <2>3. \A p \in Requests : answered[p] # 0 => Same(made'[answered[p]], p)
    <3>1. ASSUME NEW p \in Requests, answered[p] # 0
          PROVE  Same(made'[answered[p]], p)
      <4>1. Same(made[answered[p]], p)
        BY <3>1 DEF IdemInv, RowsMatch, ReplyIsOwn
      <4>2. made'[answered[p]] = made[answered[p]]
        BY <2>0, <3>1 DEF TypeOK
      <4> QED BY <4>1, <4>2
    <3> QED BY <3>1
  <2> QED BY <1>1, <2>1, <2>2, <2>3 DEF RowsMatch, ReplyIsOwn, Same
<1>7. OneAttempt'
  BY <1>1, <1>3, <1>4 DEF IdemInv, OneAttempt, Same
<1>8. ASSUME NEW r \in 1 .. Len(made), Clean(o) PROVE ~Same(made[r], o)
  BY <1>1, <1>8 DEF IdemInv, RowIsKept
<1>9. RowIsKept'
  <2>1. ASSUME NEW r \in 1 .. n, Clean(made'[r])
        PROVE  \/ records[KeyOf[made'[r]]] = r
               \/ \E y \in Attempts : pc'[y] = "save" /\ row'[y] = r
    <3>1. CASE r = n
      BY <1>3, <3>1
    <3>2. CASE r # n
      <4>1. r \in 1 .. Len(made) /\ made'[r] = made[r]
        BY <1>2, <3>2
      <4>2. \A y \in Attempts : pc[y] = "save" => pc'[y] = "save" /\ row'[y] = row[y]
        BY <1>1, <1>3
      <4> QED BY <2>1, <4>1, <4>2 DEF IdemInv, RowIsKept
    <3> QED BY <3>1, <3>2
  <2>2. ASSUME NEW y \in Attempts, pc'[y] = "create", Clean(request[y]),
               NEW r \in 1 .. n
        PROVE  ~Same(made'[r], request[y])
    <3>1. y # x /\ pc[y] = "create"
      BY <1>3, <2>2
    <3>2. CASE r = n
      BY <1>1, <1>2, <2>2, <3>1, <3>2 DEF IdemInv, OneAttempt, Same
    <3>3. CASE r # n
      <4>1. r \in 1 .. Len(made) /\ made'[r] = made[r]
        BY <1>2, <3>3
      <4> QED BY <2>2, <3>1, <4>1 DEF IdemInv, RowIsKept
    <3> QED BY <3>2, <3>3
  <2> QED BY <1>1, <1>2, <1>4, <2>1, <2>2 DEF RowIsKept, Same
<1>10. DuplicateHasCause'
  <2>1. ASSUME NEW r \in 1 .. n, NEW s \in 1 .. n, Same(made'[r], made'[s]),
               Clean(made'[r])
        PROVE  r = s
    <3>1. CASE r # n /\ s # n
      <4>1. /\ r \in 1 .. Len(made) /\ made'[r] = made[r]
            /\ s \in 1 .. Len(made) /\ made'[s] = made[s]
        BY <1>2, <3>1
      <4> QED BY <2>1, <4>1 DEF IdemInv, DuplicateHasCause
    <3>2. CASE r = n /\ s # n
      <4>1. s \in 1 .. Len(made) /\ made'[s] = made[s]
        BY <1>2, <3>2
      <4> QED BY <1>2, <1>8, <2>1, <3>2, <4>1 DEF Same
    <3>3. CASE r # n /\ s = n
      <4>1. r \in 1 .. Len(made) /\ made'[r] = made[r]
        BY <1>2, <3>3
      <4>2. made[r] \in Requests
        BY <4>1 DEF TypeOK
      <4>3. Clean(o)
        BY <1>1, <1>2, <2>1, <3>3, <4>1, <4>2, CleanSame
      <4> QED BY <1>2, <1>8, <2>1, <3>3, <4>1, <4>3
    <3> QED BY <3>1, <3>2, <3>3
  <2> QED BY <1>2, <1>4, <2>1 DEF DuplicateHasCause, Same
<1> QED BY <1>6, <1>7, <1>9, <1>10 DEF IdemInv

(* The record is saved.  Nothing else can have been recorded for a clean   *)
(* request, so the record of another request of this key is not replaced.  *)
LEMMA InvSave ==
  ASSUME TypeOK, IdemInv, TypeOK', spoiled \subseteq spoiled',
         NEW x \in Attempts, Save(x)
  PROVE  IdemInv'
<1> USE DEF Executing
<1> DEFINE o == request[x]
           k == KeyOf[o]
<1>1. /\ UNCHANGED <<made, request, row, waiting, answered, faults, spoiled>>
      /\ pc[x] = "save" /\ o \in Requests
      /\ pc' = [pc EXCEPT ![x] = "reply"]
      /\ row[x] \in 1 .. Len(made)
  BY DEF Save, client, TypeOK
<1>2. pc'[x] = "reply" /\ \A y \in Attempts \ {x} : pc'[y] = pc[y]
  BY <1>1 DEF TypeOK
<1>3. OneAttempt' /\ DuplicateHasCause'
  BY <1>1, <1>2, NothingStarts
<1>4. \A p : Clean(p)' <=> Clean(p)
  BY <1>1 DEF Clean, Rival, Same
<1>5. Same(made[row[x]], o) /\ made[row[x]] \in Requests
  BY <1>1 DEF IdemInv, RowsMatch, TypeOK
<1>6. /\ k # NoKey => records'[k] = row[x]
      /\ \A j \in Keys : j # k => records'[j] = records[j]
  BY DEF Save, TypeOK
<1>7. RowsMatch'
  <2>1. \A j \in Keys : records'[j] # 0 => KeyOf[made[records'[j]]] = j
    <3>1. ASSUME NEW j \in Keys, j # k, records'[j] # 0
          PROVE  KeyOf[made[records'[j]]] = j
      BY <1>6, <3>1 DEF IdemInv, RowsMatch
    <3>2. k \in Keys => records'[k] = row[x] /\ KeyOf[made[row[x]]] = k
      BY <1>5, <1>6 DEF Same
    <3> QED BY <3>1, <3>2
  <2> QED BY <1>1, <2>1 DEF IdemInv, RowsMatch, ReplyIsOwn, Same
<1>8. RowIsKept'
  <2>1. ASSUME NEW r \in 1 .. Len(made), Clean(made[r])
        PROVE  \/ records'[KeyOf[made[r]]] = r
               \/ \E y \in Attempts : pc'[y] = "save" /\ row[y] = r
    <3>1. made[r] \in Requests /\ KeyOf[made[r]] # NoKey
      BY <2>1 DEF Clean, TypeOK
    <3>2. CASE KeyOf[made[r]] = k
      <4>1. Same(made[r], o)
        BY <1>1, <2>1, <3>1, <3>2 DEF Clean, Rival
      <4>2. Same(made[r], made[row[x]])
        BY <1>5, <4>1 DEF Same
      <4>3. r = row[x]
        BY <1>1, <2>1, <4>2 DEF IdemInv, DuplicateHasCause
      <4> QED BY <1>6, <3>1, <3>2, <4>3
    <3>3. CASE KeyOf[made[r]] # k
      <4>1. records'[KeyOf[made[r]]] = records[KeyOf[made[r]]]
        BY <1>6, <3>1, <3>3
      <4>2. ASSUME NEW y \in Attempts, pc[y] = "save", row[y] = r
            PROVE  pc'[y] = "save"
        <5>1. Same(made[r], request[y])
          BY <4>2 DEF IdemInv, RowsMatch, TypeOK
        <5> QED BY <1>2, <3>3, <4>2, <5>1 DEF Same
      <4> QED BY <2>1, <4>1, <4>2 DEF IdemInv, RowIsKept
    <3> QED BY <3>2, <3>3
  <2>2. \A y \in Attempts : pc'[y] = "create" /\ Clean(request[y]) =>
          \A r \in 1 .. Len(made) : ~Same(made[r], request[y])
    BY <1>2 DEF IdemInv, RowIsKept
  <2> QED BY <1>1, <2>1, <2>2 DEF RowIsKept, Clean, Rival, Same
<1> QED BY <1>3, <1>7, <1>8 DEF IdemInv

(* An attempt ends without having recorded anything more.  If it was about *)
(* to record a row, that row's request is spoiled.                         *)
LEMMA InvEnd ==
  ASSUME TypeOK, IdemInv, spoiled \subseteq spoiled', NEW x \in Attempts,
         UNCHANGED <<made, records>>, ReplyIsOwn',
         pc'[x] \in {"free", "reply"},
         \A y \in Attempts \ {x} : pc'[y] = pc[y] /\ request'[y] = request[y]
                                   /\ row'[y] = row[y],
         row'[x] # 0 => row'[x] = row[x] /\ request'[x] = request[x],
         pc[x] = "save" => request[x] \in spoiled'
  PROVE  IdemInv'
<1>1. pc'[x] \notin Executing
  BY DEF Executing
<1>2. OneAttempt' /\ DuplicateHasCause'
  BY <1>1, NothingStarts
<1>3. RowsMatch'
  BY DEF IdemInv, RowsMatch, Same
<1>4. RowIsKept'
  <2>1. ASSUME NEW r \in 1 .. Len(made), Clean(made[r])'
        PROVE  \/ records[KeyOf[made[r]]] = r
               \/ \E y \in Attempts : pc'[y] = "save" /\ row'[y] = r
    <3>1. Clean(made[r])
      BY <2>1 DEF Clean, Rival, Same
    <3>2. CASE records[KeyOf[made[r]]] = r
      BY <3>2
    <3>3. CASE \E y \in Attempts : pc[y] = "save" /\ row[y] = r
      <4>1. PICK y \in Attempts : pc[y] = "save" /\ row[y] = r
        BY <3>3
      <4>2. Same(made[r], request[y])
        BY <4>1 DEF IdemInv, RowsMatch
      <4>3. y # x
        BY <2>1, <4>1, <4>2 DEF Clean, Same
      <4> QED BY <4>1, <4>3
    <3> QED BY <3>1, <3>2, <3>3 DEF IdemInv, RowIsKept
  <2>2. ASSUME NEW y \in Attempts, pc'[y] = "create", Clean(request[y])',
               NEW r \in 1 .. Len(made)
        PROVE  ~Same(made[r], request'[y])
    <3>1. y # x /\ request'[y] = request[y] /\ pc[y] = "create"
      BY <2>2
    <3>2. Clean(request[y])
      BY <2>2, <3>1 DEF Clean, Rival, Same
    <3> QED BY <3>1, <3>2 DEF IdemInv, RowIsKept
  <2> QED BY <2>1, <2>2 DEF RowIsKept, Same
<1> QED BY <1>2, <1>3, <1>4 DEF IdemInv

LEMMA ReleaseEffect ==
  ASSUME TypeOK, NEW x \in Attempts, Release(x)
  PROVE  /\ pc'[x] = "free" /\ row'[x] = 0
         /\ \A y \in Attempts \ {x} :
              pc'[y] = pc[y] /\ request'[y] = request[y] /\ row'[y] = row[y]
  BY DEF Release, TypeOK

(* All attempts end at once.                                               *)
LEMMA InvRestart ==
  ASSUME TypeOK, IdemInv, spoiled \subseteq spoiled', Restart
  PROVE  IdemInv'
<1>1. /\ UNCHANGED <<made, records, answered>>
      /\ \A x \in Attempts : pc'[x] = "free" /\ row'[x] = 0
      /\ \A x \in Attempts : pc[x] = "save" => request[x] \in spoiled'
  BY DEF Restart
<1>2. RowsMatch'
  BY <1>1 DEF IdemInv, RowsMatch, ReplyIsOwn, Same
<1>3. OneAttempt'
  BY <1>1 DEF OneAttempt, Executing
<1>4. RowIsKept'
  <2>1. ASSUME NEW r \in 1 .. Len(made), Clean(made[r])'
        PROVE  records[KeyOf[made[r]]] = r
    <3>1. Clean(made[r])
      BY <1>1, <2>1 DEF Clean, Rival, Same
    <3>2. ASSUME NEW y \in Attempts, pc[y] = "save", row[y] = r PROVE FALSE
      <4>1. Same(made[r], request[y])
        BY <3>2 DEF IdemInv, RowsMatch
      <4> QED BY <1>1, <2>1, <3>2, <4>1 DEF Clean, Same
    <3> QED BY <3>1, <3>2 DEF IdemInv, RowIsKept
  <2> QED BY <1>1, <2>1 DEF RowIsKept, Same
<1>5. DuplicateHasCause'
  BY <1>1 DEF IdemInv, DuplicateHasCause, Clean, Rival, Same
<1> QED BY <1>2, <1>3, <1>4, <1>5 DEF IdemInv

LEMMA InvStep == TypeOK /\ TypeOK' /\ IdemInv /\ [Next]_vars => IdemInv'
<1> SUFFICES ASSUME TypeOK, TypeOK', IdemInv, [Next]_vars PROVE IdemInv'
  OBVIOUS
<1>0. spoiled \subseteq spoiled'
  BY SpoiledGrows
<1>1. ASSUME NEW o \in Requests, NEW x \in Attempts, Send(o, x) PROVE IdemInv'
  BY <1>0, <1>1, InvSend
<1>2. ASSUME NEW x \in Attempts, Lookup(x) PROVE IdemInv'
  BY <1>0, <1>2, InvLookup
<1>3. ASSUME NEW x \in Attempts, Create(x) PROVE IdemInv'
  BY <1>0, <1>3, InvCreate
<1>4. ASSUME NEW x \in Attempts, Save(x) PROVE IdemInv'
  BY <1>0, <1>4, InvSave
<1>5. ASSUME NEW x \in Attempts, Reply(x) PROVE IdemInv'
  <2>1. /\ pc[x] = "reply" /\ Release(x) /\ UNCHANGED <<made, records>>
    BY <1>5 DEF Reply
  <2>2. Same(made[row[x]], request[x])
    BY <2>1 DEF IdemInv, RowsMatch, TypeOK
  <2>3. ReplyIsOwn'
    <3>1. ASSUME NEW p \in Requests, answered'[p] # 0
          PROVE  Same(made[answered'[p]], p)
      <4>1. CASE answered'[p] = answered[p]
        BY <3>1, <4>1 DEF IdemInv, RowsMatch, ReplyIsOwn
      <4>2. CASE answered'[p] # answered[p]
        <5>1. p = request[x] /\ answered'[p] = row[x]
          BY <1>5, <4>2 DEF Reply, TypeOK
        <5> QED BY <2>2, <5>1
      <4> QED BY <4>1, <4>2
    <3> QED BY <2>1, <3>1 DEF ReplyIsOwn, Same
  <2> QED BY <1>0, <2>1, <2>3, ReleaseEffect, InvEnd
<1>6. ASSUME NEW x \in Attempts, CallFails(x) PROVE IdemInv'
  <2>1. /\ pc[x] # "save" /\ Release(x)
        /\ UNCHANGED <<made, records, answered>>
    BY <1>6 DEF CallFails
  <2>2. ReplyIsOwn'
    BY <2>1 DEF IdemInv, RowsMatch, ReplyIsOwn, Same
  <2> QED BY <1>0, <2>1, <2>2, ReleaseEffect, InvEnd
<1>7. ASSUME NEW x \in Attempts, SaveFails(x) PROVE IdemInv'
  <2>1. /\ UNCHANGED <<made, records, request, row, answered>>
        /\ request[x] \in spoiled'
        /\ pc'[x] = "reply" /\ \A y \in Attempts \ {x} : pc'[y] = pc[y]
    BY <1>7 DEF SaveFails, client, TypeOK
  <2>2. ReplyIsOwn'
    BY <2>1 DEF IdemInv, RowsMatch, ReplyIsOwn, Same
  <2> QED BY <1>0, <2>1, <2>2, InvEnd
<1>8. CASE Restart
  BY <1>0, <1>8, InvRestart
<1>9. CASE UNCHANGED vars
  BY <1>9 DEF vars, client, IdemInv, RowsMatch, ReplyIsOwn, OneAttempt,
     RowIsKept, DuplicateHasCause, Clean, Rival, Same, Executing
<1> QED BY <1>1, <1>2, <1>3, <1>4, <1>5, <1>6, <1>7, <1>8, <1>9 DEF Next

(* The inductive invariant holds in every reachable state.                 *)
THEOREM InvariantHolds == Spec => []IdemInv
  BY TypeInit, TypeStep, InvInit, InvStep, PTL DEF Spec

(* DuplicateHasCause, for any number of requests, handlers, retries and    *)
(* faults: a keyed write is created twice only if a result went            *)
(* unrecorded, two attempts overlapped, or the key was used for something  *)
(* else.                                                                   *)
THEOREM DuplicatesHaveCauses == Spec => []DuplicateHasCause
<1>1. IdemInv => DuplicateHasCause
  BY DEF IdemInv
<1> QED BY <1>1, InvariantHolds, PTL

(* ReplyIsOwn: no client is ever told of a row that is not its request's,  *)
(* whatever keys the agents choose.                                        *)
THEOREM RepliesAreOwn == Spec => []ReplyIsOwn
<1>1. IdemInv => ReplyIsOwn
  BY DEF IdemInv, RowsMatch
<1> QED BY <1>1, InvariantHolds, PTL

(* AnswersAgree: an answer, once given for a clean request, is the answer  *)
(* every repetition gets.                                                  *)
THEOREM AnswersAgreeAlways == Spec => AnswersAgree
<1> DEFINE Agree == \A o, p \in Requests :
             answered[o] # 0 /\ answered'[p] # 0 /\ Same(o, p) /\ Clean(o)
               => answered'[p] = answered[o]
<1>1. TypeOK /\ TypeOK' /\ IdemInv /\ IdemInv' /\ [Next]_vars => [Agree]_vars
  <2> SUFFICES ASSUME TypeOK, TypeOK', IdemInv, IdemInv', [Next]_vars,
                      NEW o \in Requests, NEW p \in Requests,
                      Same(o, p), Clean(o), answered[o] # 0, answered'[p] # 0
               PROVE  answered'[p] = answered[o]
    OBVIOUS
  <2> DEFINE r == answered[o]
             s == answered'[p]
  <2>1. r \in 1 .. Len(made) /\ Same(made[r], o)
    BY DEF TypeOK, IdemInv, RowsMatch, ReplyIsOwn
  <2>2. s \in 1 .. Len(made) /\ Same(made[s], p)
    <3>1. CASE \E x \in Attempts : Create(x)
      <4>1. answered'[p] = answered[p]
        BY <3>1 DEF Create, client
      <4> QED BY <4>1 DEF TypeOK, IdemInv, RowsMatch, ReplyIsOwn
    <3>2. CASE ~ \E x \in Attempts : Create(x)
      <4>1. made' = made
        BY <3>2 DEF Next, Send, Lookup, Save, Reply, CallFails, SaveFails,
           Restart, vars
      <4> QED BY <4>1 DEF TypeOK, IdemInv, RowsMatch, ReplyIsOwn, Same
    <3> QED BY <3>1, <3>2
  <2>3. Same(made[r], made[s]) /\ Same(o, made[r]) /\ made[r] \in Requests
    BY <2>1, <2>2 DEF Same, TypeOK
  <2>4. Clean(made[r])
    BY <2>3, CleanSame
  <2> QED BY <2>1, <2>2, <2>3, <2>4 DEF IdemInv, DuplicateHasCause
<1> QED BY <1>1, TypeCorrect, InvariantHolds, PTL DEF Spec, AnswersAgree

=============================================================================
