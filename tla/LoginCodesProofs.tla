------------------------- MODULE LoginCodesProofs -------------------------
(***************************************************************************)
(* Proofs about LoginCodes, for any limit and any number of requests.      *)
(*                                                                         *)
(* How far a counter can run past a limit that is read before it is raised *)
(* is not visible in the counter: the invariant counts with it the         *)
(* requests that have passed the check and not raised it yet.              *)
(***************************************************************************)
EXTENDS LoginCodes, FiniteSetTheorems, TLAPS

\* The requests that may still raise the attempts of code i.
Counting(i) ==
    {r \in Request : /\ req[r].id = i
                     /\ req[r].pc \in {"checking", "counting"}
                     /\ req[r].attempts < MaxAttempts}

\* The requests that may still sign in with code i.
Accepting(i) == {r \in Request : req[r].id = i /\ req[r].pc \in {"checking", "accepting"}}

AttemptsCounted ==
    \A i \in CodeId :
       code[i].attempts + Cardinality(Counting(i)) <= MaxAttempts + Cardinality(Request) - 1

LoginsCounted ==
    \A i \in CodeId : logins[i] + Cardinality(Accepting(i)) <= Cardinality(Request)

\* A code that has signed somebody in is not handed to another verification.
LoginsRetire == \A i \in CodeId : logins[i] > 0 => code[i].state \notin {"none", "unused"}

\* A verification holds a code that exists; one that counts was within the limit.
RecordsHeld ==
    \A r \in Request :
       /\ req[r].pc \in {"checking", "rejecting", "counting", "accepting"} =>
             req[r].id \in CodeId /\ code[req[r].id].state # "none"
       /\ req[r].pc = "counting" => req[r].attempts < MaxAttempts

IInv == TypeOK /\ RecordsHeld /\ LoginsRetire /\ AttemptsCounted /\ LoginsCounted

-----------------------------------------------------------------------------
(* Sets of requests *)

\* Fewer requests, smaller cardinality; one of them gone, smaller by one at least.
LEMMA RequestSets ==
  /\ Cardinality(Request) \in Nat
  /\ \A T \in SUBSET Request : Cardinality(T) \in Nat /\ Cardinality(T) <= Cardinality(Request)
  /\ \A T \in SUBSET Request, S \in SUBSET Request : S \subseteq T => Cardinality(S) <= Cardinality(T)
  /\ \A T \in SUBSET Request, S \in SUBSET Request, r \in Request :
        r \in T /\ S \subseteq T \ {r} => Cardinality(S) <= Cardinality(T) - 1
<1>1. IsFiniteSet(Request)
  BY LoginCodeAssumption
<1>2. Cardinality(Request) \in Nat
  BY <1>1, FS_CardinalityType
<1>3. ASSUME NEW T \in SUBSET Request
      PROVE  IsFiniteSet(T) /\ Cardinality(T) \in Nat /\ Cardinality(T) <= Cardinality(Request)
  BY <1>1, <1>3, FS_Subset, FS_CardinalityType
<1>4. ASSUME NEW T \in SUBSET Request, NEW S \in SUBSET T
      PROVE  Cardinality(S) <= Cardinality(T)
  BY <1>3, <1>4, FS_Subset
<1>5. ASSUME NEW T \in SUBSET Request, NEW r \in T, NEW S \in SUBSET (T \ {r})
      PROVE  Cardinality(S) <= Cardinality(T) - 1
  <2>1. IsFiniteSet(T \ {r}) /\ Cardinality(T \ {r}) = Cardinality(T) - 1
    BY <1>3, <1>5, FS_RemoveElement
  <2> QED
    BY <1>5, <2>1, FS_Subset
<1> QED
  BY <1>2, <1>3, <1>4, <1>5

LEMMA PendingSets ==
  \A i : /\ Counting(i) \in SUBSET Request /\ Accepting(i) \in SUBSET Request
         /\ Counting(i)' \in SUBSET Request /\ Accepting(i)' \in SUBSET Request
  BY DEF Counting, Accepting

\* When no counter is raised and no request comes to a code, the counts stand.
LEMMA CountsKept ==
  ASSUME TypeOK, AttemptsCounted, LoginsCounted, NEW i \in CodeId,
         code'[i].attempts = code[i].attempts, logins'[i] = logins[i],
         Counting(i)' \subseteq Counting(i), Accepting(i)' \subseteq Accepting(i)
  PROVE  /\ code'[i].attempts + Cardinality(Counting(i)') <= MaxAttempts + Cardinality(Request) - 1
         /\ logins'[i] + Cardinality(Accepting(i)') <= Cardinality(Request)
<1>1. /\ Cardinality(Counting(i)') <= Cardinality(Counting(i))
      /\ Cardinality(Accepting(i)') <= Cardinality(Accepting(i))
  BY PendingSets, RequestSets
<1>2. /\ Cardinality(Counting(i)') \in Nat /\ Cardinality(Counting(i)) \in Nat
      /\ Cardinality(Accepting(i)') \in Nat /\ Cardinality(Accepting(i)) \in Nat
  BY PendingSets, RequestSets
<1>3. code[i].attempts \in Nat /\ logins[i] \in Nat /\ MaxAttempts \in Nat
      /\ Cardinality(Request) \in Nat
  BY LoginCodeAssumption, RequestSets DEF TypeOK, Code
<1>4. /\ code[i].attempts + Cardinality(Counting(i)) <= MaxAttempts + Cardinality(Request) - 1
      /\ logins[i] + Cardinality(Accepting(i)) <= Cardinality(Request)
  BY DEF AttemptsCounted, LoginsCounted
<1> QED
  BY <1>1, <1>2, <1>3, <1>4

-----------------------------------------------------------------------------
(* Types and records *)

LEMMA TypesKept == ASSUME TypeOK, RecordsHeld, [Next]_vars PROVE TypeOK'
<1> USE DEF TypeOK
<1>0. disturbed' \in BOOLEAN
  BY DEF Next, Watch, vars
<1>1. ASSUME NEW r \in Request, NEW step \in {"checking", "rejecting", "counting", "accepting"},
             Continue(r, step)
      PROVE  req' \in [Request -> RequestState]
  BY <1>1 DEF Continue, RequestState
<1>2. ASSUME NEW r \in Request, Finish(r) PROVE req' \in [Request -> RequestState]
  BY <1>2 DEF Finish, Idle, RequestState
<1>3. ASSUME NEW r \in Request, NEW step \in {"inserting", "mailing", "checking"},
             NEW i \in CodeId \cup {NoCode}, NEW n \in Nat, Begin(r, step, i, n)
      PROVE  req' \in [Request -> RequestState]
  BY <1>3 DEF Begin, RequestState
<1>4. ASSUME NEW as \in {"replaced", "rejected"}, DeleteUnused(as) PROVE code' \in [CodeId -> Code]
  BY <1>4 DEF DeleteUnused, Code
<1>5. ASSUME NEW r \in Request, SendDelete(r) PROVE TypeOK'
  BY <1>0, <1>3, <1>4, <1>5 DEF SendDelete
<1>6. ASSUME NEW r \in Request, SendInsert(r) PROVE TypeOK'
  <2>1. PICK i \in CodeId :
           /\ code' = [code EXCEPT ![i] = [state |-> "unused", attempts |-> 0, expired |-> FALSE]]
           /\ Begin(r, "mailing", i, 0)
    BY <1>6 DEF SendInsert
  <2>2. code' \in [CodeId -> Code]
    BY <2>1 DEF Code
  <2> QED
    BY <1>0, <1>3, <1>6, <2>1, <2>2 DEF SendInsert
<1>7. ASSUME NEW r \in Request, SendMail(r) PROVE TypeOK'
  BY <1>0, <1>2, <1>7 DEF SendMail
<1>8. ASSUME NEW r \in Request, VerifyRead(r) PROVE TypeOK'
  <2>1. \A i \in CodeId : code[i].attempts \in Nat
    BY DEF Code
  <2> QED
    BY <1>0, <1>3, <1>8, <2>1 DEF VerifyRead
<1>9. ASSUME NEW r \in Request, VerifyCheck(r) PROVE TypeOK'
  BY <1>0, <1>1, <1>9 DEF VerifyCheck
<1>10. ASSUME NEW r \in Request, VerifyReject(r) PROVE TypeOK'
  BY <1>0, <1>2, <1>4, <1>10 DEF VerifyReject
<1>11. ASSUME NEW r \in Request, VerifyCount(r) PROVE TypeOK'
  <2>1. PICK i \in CodeId : i = req[r].id
    BY <1>11 DEF VerifyCount, RecordsHeld
  <2>2. code' = [code EXCEPT ![i].attempts = @ + 1] \/ code' = code
    BY <1>11, <2>1 DEF VerifyCount
  <2>3. [code[i] EXCEPT !.attempts = @ + 1] \in Code
    <3>1. code[i] \in Code
      OBVIOUS
    <3> QED
      BY <3>1 DEF Code
  <2>4. code' \in [CodeId -> Code]
    BY <2>2, <2>3
  <2> QED
    BY <1>0, <1>2, <1>11, <2>4 DEF VerifyCount
<1>12. ASSUME NEW r \in Request, VerifyAccept(r) PROVE TypeOK'
  <2>1. PICK i \in CodeId : i = req[r].id
    BY <1>12 DEF VerifyAccept, RecordsHeld
  <2>2. /\ code' = [code EXCEPT ![i].state = "used"] \/ code' = code
        /\ logins' = [logins EXCEPT ![i] = @ + 1]
    BY <1>12, <2>1 DEF VerifyAccept
  <2>3. [code[i] EXCEPT !.state = "used"] \in Code
    <3>1. code[i] \in Code
      OBVIOUS
    <3> QED
      BY <3>1 DEF Code
  <2>4. code' \in [CodeId -> Code]
    BY <2>2, <2>3
  <2>5. logins' \in [CodeId -> Nat]
    BY <2>2
  <2> QED
    BY <1>0, <1>2, <1>12, <2>4, <2>5 DEF VerifyAccept
<1>13. ASSUME NEW r \in Request, Abort(r) PROVE TypeOK'
  BY <1>0, <1>2, <1>13 DEF Abort
<1>14. ASSUME NEW i \in CodeId, Expire(i) PROVE TypeOK'
  BY <1>0, <1>14 DEF Expire, Code
<1>15. CASE UNCHANGED vars
  BY <1>15 DEF vars
<1> QED
  BY <1>5, <1>6, <1>7, <1>8, <1>9, <1>10, <1>11, <1>12, <1>13, <1>14, <1>15 DEF Next

\* Where a request stands after a step, and that the others stand still.
LEMMA Moves ==
  ASSUME TypeOK, NEW r \in Request
  PROVE  /\ \A step, i, n : Begin(r, step, i, n) =>
               /\ req'[r].pc = step /\ req'[r].id = i /\ req'[r].attempts = n
               /\ \A q \in Request : q # r => req'[q] = req[q]
         /\ \A step : Continue(r, step) =>
               /\ req'[r].pc = step /\ req'[r].id = req[r].id /\ req'[r].attempts = req[r].attempts
               /\ \A q \in Request : q # r => req'[q] = req[q]
         /\ Finish(r) =>
               /\ req'[r].pc = "idle" /\ \A q \in Request : q # r => req'[q] = req[q]
  BY DEF TypeOK, Begin, Continue, Finish, Idle

\* A request that ends, or leaves for a step that only rejects or sends, is taken
\* off the counts.
LEMMA Leaves ==
  ASSUME NEW r \in Request, \A q \in Request : q # r => req'[q] = req[q],
         req'[r].pc \notin {"checking", "counting", "accepting"}
  PROVE  \A i : Counting(i)' \subseteq Counting(i) \ {r} /\ Accepting(i)' \subseteq Accepting(i) \ {r}
  BY DEF Counting, Accepting

\* What a step may do to a row: it stays, and once retired it is not handed out again.
LEMMA RowsMove ==
  ASSUME TypeOK, RecordsHeld, [Next]_vars, NEW i \in CodeId
  PROVE  /\ code[i].state # "none" => code'[i].state # "none"
         /\ code[i].state \notin {"none", "unused"} => code'[i].state \notin {"none", "unused"}
<1> USE DEF TypeOK
<1>1. ASSUME NEW as \in {"replaced", "rejected"}, DeleteUnused(as)
      PROVE  code'[i].state = IF Unused(i) THEN as ELSE code[i].state
  BY <1>1 DEF DeleteUnused, Unused, Code
<1>2. ASSUME NEW r \in Request, SendInsert(r)
      PROVE  code'[i].state = code[i].state \/ (code[i].state = "none" /\ code'[i].state = "unused")
  <2>1. PICK j \in CodeId :
           /\ code[j].state = "none"
           /\ code' = [code EXCEPT ![j] = [state |-> "unused", attempts |-> 0, expired |-> FALSE]]
    BY <1>2 DEF SendInsert, NextId
  <2>2. i = j => code'[i].state = "unused"
    BY <2>1
  <2>3. i # j => code'[i] = code[i]
    BY <2>1
  <2> QED
    BY <2>1, <2>2, <2>3
<1>3. ASSUME NEW r \in Request, VerifyCount(r) PROVE code'[i].state = code[i].state
  BY <1>3 DEF VerifyCount, RecordsHeld, Code
<1>4. ASSUME NEW r \in Request, VerifyAccept(r)
      PROVE  code'[i].state = code[i].state \/ (code[i].state = "unused" /\ code'[i].state = "used")
  <2>1. PICK j \in CodeId : j = req[r].id
    BY <1>4 DEF VerifyAccept, RecordsHeld
  <2>2. \/ code' = code
        \/ code[j].state = "unused" /\ code' = [code EXCEPT ![j].state = "used"]
    BY <1>4, <2>1 DEF VerifyAccept, Unused
  <2>3. code[j] \in Code
    OBVIOUS
  <2>4. [code[j] EXCEPT !.state = "used"].state = "used"
    BY <2>3 DEF Code
  <2>5. \/ code' = code
        \/ code[j].state = "unused" /\ code'[j].state = "used"
           /\ (i # j => code'[i] = code[i])
    BY <2>2, <2>4
  <2> QED
    BY <2>5
<1>5. ASSUME NEW j \in CodeId, Expire(j) PROVE code'[i].state = code[i].state
  BY <1>5 DEF Expire, Code
<1>6. ASSUME NEW r \in Request,
             SendMail(r) \/ VerifyRead(r) \/ VerifyCheck(r) \/ Abort(r)
      PROVE  code' = code
  BY <1>6 DEF SendMail, VerifyRead, VerifyCheck, Abort
<1>7. ASSUME NEW r \in Request, SendDelete(r) \/ VerifyReject(r)
      PROVE  DeleteUnused("replaced") \/ DeleteUnused("rejected")
  BY <1>7 DEF SendDelete, VerifyReject
<1>8. CASE UNCHANGED vars
  BY <1>8 DEF vars
<1> QED
  BY <1>1, <1>2, <1>3, <1>4, <1>5, <1>6, <1>7, <1>8 DEF Next, Unused

LEMMA RecordsKept == ASSUME TypeOK, RecordsHeld, [Next]_vars PROVE RecordsHeld'
<1>1. ASSUME NEW q \in Request, req'[q] = req[q]
      PROVE  /\ req'[q].pc \in {"checking", "rejecting", "counting", "accepting"} =>
                   req'[q].id \in CodeId /\ code'[req'[q].id].state # "none"
             /\ req'[q].pc = "counting" => req'[q].attempts < MaxAttempts
  BY <1>1, RowsMove DEF RecordsHeld
<1>2. ASSUME NEW r \in Request, \A q \in Request : q # r => req'[q] = req[q],
             req'[r].pc \notin {"checking", "rejecting", "counting", "accepting"}
      PROVE  RecordsHeld'
  BY <1>1, <1>2 DEF RecordsHeld
<1>3. ASSUME NEW r \in Request,
             SendDelete(r) \/ SendInsert(r) \/ SendMail(r) \/ VerifyReject(r) \/ VerifyCount(r)
             \/ VerifyAccept(r) \/ Abort(r)
      PROVE  RecordsHeld'
  <2>1. Finish(r) \/ \E step \in {"inserting", "mailing"}, i \in CodeId \cup {NoCode}, n \in Nat :
                       Begin(r, step, i, n)
    BY <1>3 DEF SendDelete, SendInsert, SendMail, VerifyReject, VerifyCount, VerifyAccept, Abort
  <2>2. /\ \A q \in Request : q # r => req'[q] = req[q]
        /\ req'[r].pc \in {"idle", "inserting", "mailing"}
    BY <2>1, Moves
  <2> QED
    BY <1>2, <2>2
<1>4. ASSUME NEW r \in Request, VerifyRead(r) PROVE RecordsHeld'
  <2>1. PICK i \in CodeId : GetActive(i) /\ Begin(r, "checking", i, code[i].attempts)
    BY <1>4 DEF VerifyRead
  <2>2. code'[i].state # "none"
    BY <2>1, RowsMove DEF GetActive, Unused
  <2>3. /\ req'[r].pc = "checking" /\ req'[r].id = i
        /\ \A q \in Request : q # r => req'[q] = req[q]
    BY <2>1, Moves
  <2> QED
    BY <1>1, <2>2, <2>3 DEF RecordsHeld
<1>5. ASSUME NEW r \in Request, VerifyCheck(r) PROVE RecordsHeld'
  <2>1. \/ Continue(r, "rejecting") \/ Continue(r, "accepting")
        \/ Continue(r, "counting") /\ ~(req[r].attempts >= MaxAttempts)
    BY <1>5 DEF VerifyCheck
  <2>2. /\ req'[r].pc \in {"rejecting", "accepting", "counting"}
        /\ req'[r].id = req[r].id /\ req'[r].attempts = req[r].attempts
        /\ req'[r].pc = "counting" => ~(req[r].attempts >= MaxAttempts)
        /\ \A q \in Request : q # r => req'[q] = req[q]
    BY <2>1, Moves
  <2>3. req[r].attempts \in Nat /\ MaxAttempts \in Nat
    BY LoginCodeAssumption DEF TypeOK, RequestState
  <2>4. req[r].id \in CodeId /\ code[req[r].id].state # "none"
    BY <1>5 DEF VerifyCheck, RecordsHeld
  <2>5. code'[req[r].id].state # "none"
    BY <2>4, RowsMove
  <2> QED
    BY <1>1, <2>2, <2>3, <2>4, <2>5 DEF RecordsHeld
<1>6. ASSUME UNCHANGED req PROVE RecordsHeld'
  BY <1>1, <1>6 DEF RecordsHeld
<1> QED
  BY <1>3, <1>4, <1>5, <1>6 DEF Next, vars, Expire

LEMMA RetireKept == ASSUME TypeOK, RecordsHeld, LoginsRetire, [Next]_vars PROVE LoginsRetire'
<1> SUFFICES ASSUME NEW i \in CodeId, logins'[i] > 0
             PROVE  code'[i].state \notin {"none", "unused"}
  BY DEF LoginsRetire
<1>1. CASE logins'[i] = logins[i]
  BY <1>1, RowsMove DEF LoginsRetire
<1>2. CASE logins'[i] # logins[i]
  <2>1. PICK r \in Request : VerifyAccept(r)
    BY <1>2 DEF Next, vars, SendDelete, SendInsert, SendMail, VerifyRead, VerifyCheck,
                VerifyReject, VerifyCount, Abort, Expire
  <2>2. PICK j \in CodeId : j = req[r].id /\ code[j].state # "none"
    BY <2>1 DEF VerifyAccept, RecordsHeld
  <2>3. logins' = [logins EXCEPT ![j] = @ + 1]
    BY <2>1, <2>2 DEF VerifyAccept
  <2>4. i = j
    BY <1>2, <2>3 DEF TypeOK
  <2>5. code[j].state = "unused" => code' = [code EXCEPT ![j].state = "used"]
    BY <2>1, <2>2 DEF VerifyAccept, Unused
  <2>6. code[j] \in Code
    BY DEF TypeOK
  <2>7. [code[j] EXCEPT !.state = "used"].state = "used"
    BY <2>6 DEF Code
  <2>8. code[j].state = "unused" => code'[j].state = "used"
    BY <2>5, <2>7 DEF TypeOK
  <2> QED
    BY <2>2, <2>4, <2>8, RowsMove
<1> QED
  BY <1>1, <1>2

-----------------------------------------------------------------------------
(* Counts *)

\* A row that is not inserted, counted on or signed in with keeps its numbers.
LEMMA NumbersStand ==
  ASSUME TypeOK, NEW i \in CodeId
  PROVE  /\ \A as : DeleteUnused(as) => code'[i].attempts = code[i].attempts
         /\ \A j \in CodeId : Expire(j) => code'[i].attempts = code[i].attempts
         /\ \A r \in Request : VerifyAccept(r) => code'[i].attempts = code[i].attempts
         /\ \A r \in Request : SendInsert(r) => code'[i].attempts = code[i].attempts \/ code'[i].attempts = 0
<1>1. code \in [CodeId -> Code] /\ code[i] \in Code
  BY DEF TypeOK
<1>2. ASSUME NEW as, DeleteUnused(as) PROVE code'[i].attempts = code[i].attempts
  <2>1. code'[i] = IF Unused(i) THEN [code[i] EXCEPT !.state = as] ELSE code[i]
    BY <1>2 DEF DeleteUnused
  <2> QED
    BY <1>1, <2>1 DEF Code
<1>3. ASSUME NEW j \in CodeId, Expire(j) PROVE code'[i].attempts = code[i].attempts
  <2>1. code' = [code EXCEPT ![j].expired = TRUE]
    BY <1>3 DEF Expire
  <2>2. code'[i] = code[i] \/ code'[i] = [code[i] EXCEPT !.expired = TRUE]
    BY <1>1, <2>1
  <2> QED
    BY <1>1, <2>2 DEF Code
<1>4. ASSUME NEW r \in Request, VerifyAccept(r) PROVE code'[i].attempts = code[i].attempts
  <2>1. code' = code \/ \E j : code' = [code EXCEPT ![j].state = "used"]
    BY <1>4 DEF VerifyAccept
  <2>2. code'[i] = code[i] \/ code'[i] = [code[i] EXCEPT !.state = "used"]
    BY <1>1, <2>1
  <2> QED
    BY <1>1, <2>2 DEF Code
<1>5. ASSUME NEW r \in Request, SendInsert(r)
      PROVE  code'[i].attempts = code[i].attempts \/ code'[i].attempts = 0
  <2>1. PICK j \in CodeId :
           code' = [code EXCEPT ![j] = [state |-> "unused", attempts |-> 0, expired |-> FALSE]]
    BY <1>5 DEF SendInsert
  <2>2. code'[i] = code[i] \/ code'[i] = [state |-> "unused", attempts |-> 0, expired |-> FALSE]
    BY <1>1, <2>1
  <2> QED
    BY <2>2
<1> QED
  BY <1>2, <1>3, <1>4, <1>5

\* The two bounds of one code, to prove after every step.
InBounds(i) ==
    /\ code[i].attempts + Cardinality(Counting(i)) <= MaxAttempts + Cardinality(Request) - 1
    /\ logins[i] + Cardinality(Accepting(i)) <= Cardinality(Request)

LEMMA CountsHold ==
  ASSUME TypeOK, RecordsHeld, LoginsRetire, AttemptsCounted, LoginsCounted, [Next]_vars,
         NEW i \in CodeId
  PROVE  InBounds(i)'
<1> DEFINE N == Cardinality(Request)
           C == Cardinality(Counting(i))
           A == Cardinality(Accepting(i))
           Cn == Cardinality(Counting(i)')
           An == Cardinality(Accepting(i)')
<1>a. /\ N \in Nat /\ C \in Nat /\ A \in Nat /\ Cn \in Nat /\ An \in Nat
      /\ Cn <= N /\ An <= N
      /\ code[i].attempts \in Nat /\ logins[i] \in Nat /\ MaxAttempts \in Nat
  BY LoginCodeAssumption, RequestSets, PendingSets DEF TypeOK, Code
<1>b. code[i].attempts + C <= MaxAttempts + N - 1 /\ logins[i] + A <= N
  BY DEF AttemptsCounted, LoginsCounted
<1>c. ASSUME code'[i].attempts = code[i].attempts, logins'[i] = logins[i], 
             Counting(i)' \subseteq Counting(i), Accepting(i)' \subseteq Accepting(i)
      PROVE  InBounds(i)'
  BY <1>c, CountsKept DEF InBounds
<1>d. ASSUME NEW r \in Request, \A q \in Request : q # r => req'[q] = req[q],
             req'[r].pc \notin {"checking", "counting", "accepting"}
      PROVE  /\ Counting(i)' \subseteq Counting(i) \ {r} /\ Accepting(i)' \subseteq Accepting(i) \ {r}
             /\ Counting(i)' \subseteq Counting(i) /\ Accepting(i)' \subseteq Accepting(i)
  BY <1>d, Leaves
<1>1. ASSUME NEW r \in Request,
             SendDelete(r) \/ SendMail(r) \/ VerifyReject(r) \/ Abort(r)
      PROVE  InBounds(i)'
  <2>1. /\ Finish(r) \/ Begin(r, "inserting", NoCode, 0)
        /\ code' = code \/ DeleteUnused("replaced") \/ DeleteUnused("rejected")
        /\ logins' = logins
    BY <1>1 DEF SendDelete, SendMail, VerifyReject, Abort
  <2>2. /\ \A q \in Request : q # r => req'[q] = req[q]
        /\ req'[r].pc \notin {"checking", "counting", "accepting"}
    BY <2>1, Moves
  <2>3. code'[i].attempts = code[i].attempts
    BY <2>1, NumbersStand
  <2> QED
    BY <1>c, <1>d, <2>1, <2>2, <2>3
<1>2. ASSUME NEW r \in Request, SendInsert(r) PROVE InBounds(i)'
  <2>1. (\E j : Begin(r, "mailing", j, 0)) /\ logins' = logins
    BY <1>2 DEF SendInsert
  <2>2. /\ \A q \in Request : q # r => req'[q] = req[q]
        /\ req'[r].pc \notin {"checking", "counting", "accepting"}
    BY <2>1, Moves
  <2>3. Counting(i)' \subseteq Counting(i) /\ Accepting(i)' \subseteq Accepting(i)
    BY <1>d, <2>2
  <2>4. Cn <= C /\ An <= A
    BY <2>3, RequestSets, PendingSets
  <2>5. code'[i].attempts = code[i].attempts \/ code'[i].attempts = 0
    BY <1>2, NumbersStand
  <2>6. code'[i].attempts + Cn <= MaxAttempts + N - 1 /\ logins'[i] + An <= N
    <3> HIDE DEF N, C, A, Cn, An
    <3> QED
      BY <1>a, <1>b, <2>1, <2>4, <2>5
  <2> QED
    BY <2>6 DEF InBounds
<1>3. ASSUME NEW r \in Request, VerifyRead(r) PROVE InBounds(i)'
  <2>1. PICK j \in CodeId : GetActive(j) /\ Begin(r, "checking", j, code[j].attempts)
    BY <1>3 DEF VerifyRead
  <2>2. /\ req'[r].pc = "checking" /\ req'[r].id = j /\ req'[r].attempts = code[j].attempts
        /\ \A q \in Request : q # r => req'[q] = req[q]
    BY <2>1, Moves
  <2>3. code' = code /\ logins' = logins
    BY <1>3 DEF VerifyRead
  <2>4. CASE i # j
    <3>1. Counting(i)' \subseteq Counting(i) /\ Accepting(i)' \subseteq Accepting(i)
      BY <2>2, <2>4 DEF Counting, Accepting
    <3> QED
      BY <1>c, <2>3, <3>1
  <2>5. CASE i = j
    <3>1. logins[i] = 0
      BY <1>a, <2>1, <2>5 DEF LoginsRetire, GetActive, Unused
    <3>2. CASE code[i].attempts < MaxAttempts
      <4>1. code'[i].attempts + Cn <= MaxAttempts + N - 1 /\ logins'[i] + An <= N
        <5> HIDE DEF N, C, A, Cn, An
        <5> QED
          BY <1>a, <2>3, <3>1, <3>2
      <4> QED
        BY <4>1 DEF InBounds
    <3>3. CASE ~(code[i].attempts < MaxAttempts)
      <4>1. Counting(i)' \subseteq Counting(i)
        BY <2>2, <2>5, <3>3 DEF Counting
      <4>2. Cn <= C
        BY <4>1, RequestSets, PendingSets
      <4>3. code'[i].attempts + Cn <= MaxAttempts + N - 1 /\ logins'[i] + An <= N
        <5> HIDE DEF N, C, A, Cn, An
        <5> QED
          BY <1>a, <1>b, <2>3, <3>1, <4>2
      <4> QED
        BY <4>3 DEF InBounds
    <3> QED
      BY <3>2, <3>3
  <2> QED
    BY <2>4, <2>5
<1>4. ASSUME NEW r \in Request, VerifyCheck(r) PROVE InBounds(i)'
  <2>1. /\ Continue(r, "rejecting") \/ Continue(r, "counting") \/ Continue(r, "accepting")
        /\ req[r].pc = "checking" /\ code' = code /\ logins' = logins
    BY <1>4 DEF VerifyCheck
  <2>2. /\ req'[r].pc \in {"rejecting", "counting", "accepting"}
        /\ req'[r].id = req[r].id /\ req'[r].attempts = req[r].attempts
        /\ \A q \in Request : q # r => req'[q] = req[q]
    BY <2>1, Moves
  <2>3. Counting(i)' \subseteq Counting(i) /\ Accepting(i)' \subseteq Accepting(i)
    BY <2>1, <2>2 DEF Counting, Accepting
  <2> QED
    BY <1>c, <2>1, <2>3
<1>5. ASSUME NEW r \in Request, VerifyCount(r) PROVE InBounds(i)'
  <2>1. PICK j \in CodeId : j = req[r].id /\ req[r].attempts < MaxAttempts
    BY <1>5 DEF VerifyCount, RecordsHeld
  <2>2. /\ code' = [code EXCEPT ![j].attempts = @ + 1] \/ code' = code
        /\ logins' = logins /\ Finish(r) /\ req[r].pc = "counting"
    BY <1>5, <2>1 DEF VerifyCount
  <2>3. /\ \A q \in Request : q # r => req'[q] = req[q]
        /\ req'[r].pc \notin {"checking", "counting", "accepting"}
    BY <2>2, Moves
  <2>4. CASE i # j
    <3>1. code'[i] = code[i]
      BY <2>2, <2>4 DEF TypeOK
    <3> QED
      BY <1>c, <1>d, <2>2, <2>3, <3>1
  <2>5. CASE i = j
    <3>1. r \in Counting(i)
      BY <2>1, <2>2, <2>5 DEF Counting
    <3>2. Cn <= C - 1 /\ An <= A
      BY <1>d, <2>3, <3>1, RequestSets, PendingSets
    <3>3. code[i] \in Code
      BY DEF TypeOK
    <3>4. [code[i] EXCEPT !.attempts = @ + 1].attempts = code[i].attempts + 1
      BY <3>3 DEF Code
    <3>5. code'[i].attempts = code[i].attempts + 1 \/ code'[i].attempts = code[i].attempts
      BY <2>2, <2>5, <3>4 DEF TypeOK
    <3>6. code'[i].attempts + Cn <= MaxAttempts + N - 1 /\ logins'[i] + An <= N
      <4> HIDE DEF N, C, A, Cn, An
      <4> QED
        BY <1>a, <1>b, <2>2, <3>2, <3>5
    <3> QED
      BY <3>6 DEF InBounds
  <2> QED
    BY <2>4, <2>5
<1>6. ASSUME NEW r \in Request, VerifyAccept(r) PROVE InBounds(i)'
  <2>1. PICK j \in CodeId : j = req[r].id
    BY <1>6 DEF VerifyAccept, RecordsHeld
  <2>2. logins' = [logins EXCEPT ![j] = @ + 1] /\ Finish(r) /\ req[r].pc = "accepting"
    BY <1>6, <2>1 DEF VerifyAccept
  <2>3. /\ \A q \in Request : q # r => req'[q] = req[q]
        /\ req'[r].pc \notin {"checking", "counting", "accepting"}
    BY <2>2, Moves
  <2>4. code'[i].attempts = code[i].attempts
    BY <1>6, NumbersStand
  <2>5. CASE i # j
    <3>1. logins'[i] = logins[i]
      BY <2>2, <2>5 DEF TypeOK
    <3> QED
      BY <1>c, <1>d, <2>3, <2>4, <3>1
  <2>6. CASE i = j
    <3>1. r \in Accepting(i)
      BY <2>1, <2>2, <2>6 DEF Accepting
    <3>2. Cn <= C /\ An <= A - 1
      BY <1>d, <2>3, <3>1, RequestSets, PendingSets
    <3>3. logins'[i] = logins[i] + 1
      BY <2>2, <2>6 DEF TypeOK
    <3>4. code'[i].attempts + Cn <= MaxAttempts + N - 1 /\ logins'[i] + An <= N
      <4> HIDE DEF N, C, A, Cn, An
      <4> QED
        BY <1>a, <1>b, <2>4, <3>2, <3>3
    <3> QED
      BY <3>4 DEF InBounds
  <2> QED
    BY <2>5, <2>6
<1>7. ASSUME NEW j \in CodeId, Expire(j) PROVE InBounds(i)'
  <2>1. code'[i].attempts = code[i].attempts /\ logins' = logins /\ req' = req
    BY <1>7, NumbersStand DEF Expire
  <2>2. Counting(i)' = Counting(i) /\ Accepting(i)' = Accepting(i)
    BY <2>1 DEF Counting, Accepting
  <2> QED
    BY <1>c, <2>1, <2>2
<1>8. CASE UNCHANGED vars
  <2>1. code' = code /\ logins' = logins /\ req' = req
    BY <1>8 DEF vars
  <2>2. Counting(i)' = Counting(i) /\ Accepting(i)' = Accepting(i)
    BY <2>1 DEF Counting, Accepting
  <2> QED
    BY <1>c, <2>1, <2>2
<1> QED
  BY <1>1, <1>2, <1>3, <1>4, <1>5, <1>6, <1>7, <1>8 DEF Next

-----------------------------------------------------------------------------
(* Requests one after the other *)

\* Without overlaps one request at most is under way.
Alone == \A q, r \in Request : q # r => req[q].pc = "idle" \/ req[r].pc = "idle"

OneUnused == \A i, j \in CodeId : Unused(i) /\ Unused(j) => i = j

\* A code that has been replaced, rejected or never sent has signed nobody in.
SignInsOfUsed == \A i \in CodeId : logins[i] <= 1 /\ (logins[i] = 1 => code[i].state = "used")

AttemptsWithin == \A i \in CodeId : code[i].attempts <= MaxAttempts

\* What a request has read is still so: the table is empty of unused codes after
\* DELETE, and the record of a verification is the unused code as it stands.
ReadStands ==
    \A r \in Request :
       /\ req[r].pc = "inserting" => \A i \in CodeId : ~Unused(i)
       /\ req[r].pc \in {"checking", "rejecting", "counting", "accepting"} =>
             Unused(req[r].id) /\ req[r].attempts = code[req[r].id].attempts
       /\ req[r].pc = "rejecting" =>
             code[req[r].id].expired \/ code[req[r].id].attempts >= MaxAttempts

Series == Alone /\ OneUnused /\ SignInsOfUsed /\ AttemptsWithin /\ ReadStands /\ RejectedForCause

InSeries == ~disturbed => Series

\* The rows after each kind of statement, column by column.
LEMMA RowsAfter ==
  ASSUME TypeOK, NEW i \in CodeId
  PROVE  /\ \A as : DeleteUnused(as) =>
               /\ code'[i].state = IF Unused(i) THEN as ELSE code[i].state
               /\ code'[i].attempts = code[i].attempts /\ code'[i].expired = code[i].expired
         /\ \A j \in CodeId : code' = [code EXCEPT ![j].attempts = @ + 1] =>
               /\ code'[i].state = code[i].state /\ code'[i].expired = code[i].expired
               /\ code'[i].attempts = IF i = j THEN code[i].attempts + 1 ELSE code[i].attempts
         /\ \A j \in CodeId : code' = [code EXCEPT ![j].state = "used"] =>
               /\ code'[i].state = IF i = j THEN "used" ELSE code[i].state
               /\ code'[i].attempts = code[i].attempts /\ code'[i].expired = code[i].expired
         /\ \A j \in CodeId : code' = [code EXCEPT ![j].expired = TRUE] =>
               /\ code'[i].state = code[i].state /\ code'[i].attempts = code[i].attempts
               /\ code'[i].expired = (i = j \/ code[i].expired)
<1>1. code \in [CodeId -> Code] /\ code[i] \in Code
  BY DEF TypeOK
<1>2. \A as : LET row == [code[i] EXCEPT !.state = as]
              IN row.state = as /\ row.attempts = code[i].attempts /\ row.expired = code[i].expired
  BY <1>1 DEF Code
<1>3. LET row == [code[i] EXCEPT !.attempts = @ + 1]
      IN row.state = code[i].state /\ row.attempts = code[i].attempts + 1 /\ row.expired = code[i].expired
  BY <1>1 DEF Code
<1>4. LET row == [code[i] EXCEPT !.expired = TRUE]
      IN row.state = code[i].state /\ row.attempts = code[i].attempts /\ row.expired
  BY <1>1 DEF Code
<1>5. code[i].expired \in BOOLEAN
  BY <1>1 DEF Code
<1>6. ASSUME NEW as, DeleteUnused(as)
      PROVE  /\ code'[i].state = IF Unused(i) THEN as ELSE code[i].state
             /\ code'[i].attempts = code[i].attempts /\ code'[i].expired = code[i].expired
  <2>1. code'[i] = IF Unused(i) THEN [code[i] EXCEPT !.state = as] ELSE code[i]
    BY <1>6 DEF DeleteUnused
  <2> QED
    BY <1>2, <2>1
<1>7. ASSUME NEW j \in CodeId, code' = [code EXCEPT ![j].attempts = @ + 1]
      PROVE  /\ code'[i].state = code[i].state /\ code'[i].expired = code[i].expired
             /\ code'[i].attempts = IF i = j THEN code[i].attempts + 1 ELSE code[i].attempts
  <2>1. code'[i] = IF i = j THEN [code[i] EXCEPT !.attempts = @ + 1] ELSE code[i]
    BY <1>1, <1>7
  <2> QED
    BY <1>3, <2>1
<1>8. ASSUME NEW j \in CodeId, code' = [code EXCEPT ![j].state = "used"]
      PROVE  /\ code'[i].state = IF i = j THEN "used" ELSE code[i].state
             /\ code'[i].attempts = code[i].attempts /\ code'[i].expired = code[i].expired
  <2>1. code'[i] = IF i = j THEN [code[i] EXCEPT !.state = "used"] ELSE code[i]
    BY <1>1, <1>8
  <2> QED
    BY <1>2, <2>1
<1>9. ASSUME NEW j \in CodeId, code' = [code EXCEPT ![j].expired = TRUE]
      PROVE  /\ code'[i].state = code[i].state /\ code'[i].attempts = code[i].attempts
             /\ code'[i].expired = (i = j \/ code[i].expired)
  <2>1. code'[i] = IF i = j THEN [code[i] EXCEPT !.expired = TRUE] ELSE code[i]
    BY <1>1, <1>9
  <2>2. CASE i = j
    BY <1>4, <2>1, <2>2
  <2>3. CASE i # j
    BY <1>5, <2>1, <2>3
  <2> QED
    BY <2>2, <2>3
<1> QED
  BY <1>6, <1>7, <1>8, <1>9

\* While nothing has overlapped, the requests but the one that steps are idle.
LEMMA OthersIdle ==
  ASSUME TypeOK, Alone, NEW r \in Request, Watch, ~disturbed',
         \A q \in Request : q # r => req'[q] = req[q],
         req[r].pc # "idle" \/ req'[r].pc # "idle"
  PROVE  /\ \A q \in Request : q # r => req[q].pc = "idle" /\ req'[q].pc = "idle"
         /\ Alone'
  BY DEF Alone, Watch

\* After a step of request r alone, what has been read need only be looked at for r.
LEMMA OnlyStepReads ==
  ASSUME NEW r \in Request, \A q \in Request : q # r => req'[q].pc = "idle",
         req'[r].pc = "inserting" => \A i \in CodeId : ~Unused(i)',
         req'[r].pc \in {"checking", "rejecting", "counting", "accepting"} =>
            code'[req'[r].id].state = "unused" /\ req'[r].attempts = code'[req'[r].id].attempts,
         req'[r].pc = "rejecting" =>
            code'[req'[r].id].expired \/ code'[req'[r].id].attempts >= MaxAttempts
  PROVE  ReadStands'
  BY DEF ReadStands, Unused

\* DELETE leaves no unused code, and nobody signs in with one it deletes.
LEMMA SeriesDelete ==
  ASSUME TypeOK, LoginsRetire, Series, NEW as \in {"replaced", "rejected"}, DeleteUnused(as),
         logins' = logins,
         as = "rejected" => \A i \in CodeId : Unused(i) =>
                               code[i].expired \/ code[i].attempts >= MaxAttempts
  PROVE  /\ OneUnused' /\ SignInsOfUsed' /\ AttemptsWithin' /\ RejectedForCause'
         /\ \A i \in CodeId : ~Unused(i)'
<1>1. \A i \in CodeId :
         /\ code'[i].state = IF Unused(i) THEN as ELSE code[i].state
         /\ code'[i].attempts = code[i].attempts /\ code'[i].expired = code[i].expired
  BY RowsAfter
<1>2. \A i \in CodeId : ~Unused(i)'
  BY <1>1 DEF Unused
<1>3. SignInsOfUsed'
  BY <1>1 DEF Series, SignInsOfUsed, Unused
<1>4. AttemptsWithin'
  BY <1>1 DEF Series, AttemptsWithin
<1>5. RejectedForCause'
  BY <1>1 DEF Series, RejectedForCause, Rejected
<1> QED
  BY <1>2, <1>3, <1>4, <1>5 DEF OneUnused

LEMMA SeriesKept ==
  ASSUME TypeOK, RecordsHeld, LoginsRetire, InSeries, [Next]_vars
  PROVE  InSeries'
<1> SUFFICES ASSUME ~disturbed' PROVE Series'
  BY DEF InSeries
<1>1. ~disturbed
  BY DEF Next, Watch, vars
<1>2. Series
  BY <1>1 DEF InSeries
<1>3. MaxAttempts \in Nat /\ \A i \in CodeId : code[i].attempts \in Nat /\ logins[i] \in Nat
  BY LoginCodeAssumption DEF TypeOK, Code
<1>4. ASSUME NEW r \in Request, SendDelete(r), Watch PROVE Series'
  <2>1. /\ DeleteUnused("replaced") /\ logins' = logins /\ req[r].pc = "idle"
        /\ Begin(r, "inserting", NoCode, 0)
    BY <1>4 DEF SendDelete
  <2>2. req'[r].pc = "inserting" /\ \A q \in Request : q # r => req'[q] = req[q]
    BY <2>1, Moves
  <2>3. Alone' /\ \A q \in Request : q # r => req'[q].pc = "idle"
    BY <1>2, <1>4, <2>2, OthersIdle DEF Series
  <2>4. /\ OneUnused' /\ SignInsOfUsed' /\ AttemptsWithin' /\ RejectedForCause'
        /\ \A i \in CodeId : ~Unused(i)'
    BY <1>2, <2>1, SeriesDelete
  <2>5. ReadStands'
    BY <2>2, <2>3, <2>4, OnlyStepReads
  <2> QED
    BY <2>3, <2>4, <2>5 DEF Series
<1>5. ASSUME NEW r \in Request, VerifyReject(r), Watch PROVE Series'
  <2>1. /\ DeleteUnused("rejected") /\ logins' = logins /\ req[r].pc = "rejecting" /\ Finish(r)
    BY <1>5 DEF VerifyReject
  <2>2. req'[r].pc = "idle" /\ \A q \in Request : q # r => req'[q] = req[q]
    BY <2>1, Moves
  <2>3. Alone' /\ \A q \in Request : q # r => req'[q].pc = "idle"
    BY <1>2, <1>5, <2>1, <2>2, OthersIdle DEF Series
  <2>4. req[r].id \in CodeId /\ Unused(req[r].id)
        /\ (code[req[r].id].expired \/ code[req[r].id].attempts >= MaxAttempts)
    BY <1>2, <2>1 DEF Series, ReadStands, RecordsHeld
  <2>5. \A i \in CodeId : Unused(i) => code[i].expired \/ code[i].attempts >= MaxAttempts
    BY <1>2, <2>4 DEF Series, OneUnused
  <2>6. OneUnused' /\ SignInsOfUsed' /\ AttemptsWithin' /\ RejectedForCause'
    BY <1>2, <2>1, <2>5, SeriesDelete
  <2>7. ReadStands'
    BY <2>2, <2>3, OnlyStepReads
  <2> QED
    BY <2>3, <2>6, <2>7 DEF Series
<1>6. ASSUME NEW r \in Request, SendInsert(r), Watch PROVE Series'
  <2>1. PICK j \in CodeId :
           /\ NextId(j) /\ Begin(r, "mailing", j, 0)
           /\ code' = [code EXCEPT ![j] = [state |-> "unused", attempts |-> 0, expired |-> FALSE]]
    BY <1>6 DEF SendInsert
  <2>2. req[r].pc = "inserting" /\ logins' = logins
    BY <1>6 DEF SendInsert
  <2>3. req'[r].pc = "mailing" /\ \A q \in Request : q # r => req'[q] = req[q]
    BY <2>1, Moves
  <2>4. Alone' /\ \A q \in Request : q # r => req'[q].pc = "idle"
    BY <1>2, <1>6, <2>3, OthersIdle DEF Series
  <2>5. \A i \in CodeId : ~Unused(i)
    BY <1>2, <2>2 DEF Series, ReadStands
  <2>6. /\ code'[j].state = "unused" /\ code'[j].attempts = 0
        /\ \A i \in CodeId : i # j => code'[i] = code[i]
    BY <2>1 DEF TypeOK
  <2>7. OneUnused'
    BY <2>5, <2>6 DEF OneUnused, Unused
  <2>8. SignInsOfUsed'
    <3>1. logins[j] = 0
      BY <1>3, <2>1 DEF LoginsRetire, NextId
    <3> QED
      BY <1>2, <2>2, <2>6, <3>1 DEF Series, SignInsOfUsed
  <2>9. AttemptsWithin'
    BY <1>2, <1>3, <2>6 DEF Series, AttemptsWithin
  <2>10. RejectedForCause'
    BY <1>2, <2>6 DEF Series, RejectedForCause, Rejected
  <2>11. ReadStands'
    BY <2>3, <2>4, OnlyStepReads
  <2> QED
    BY <2>4, <2>7, <2>8, <2>9, <2>10, <2>11 DEF Series
<1>7. ASSUME NEW r \in Request, SendMail(r), Watch PROVE Series'
  <2>1. Finish(r) /\ req[r].pc = "mailing" /\ code' = code /\ logins' = logins
    BY <1>7 DEF SendMail
  <2>2. req'[r].pc = "idle" /\ \A q \in Request : q # r => req'[q] = req[q]
    BY <2>1, Moves
  <2>3. Alone' /\ \A q \in Request : q # r => req'[q].pc = "idle"
    BY <1>2, <1>7, <2>1, <2>2, OthersIdle DEF Series
  <2>4. ReadStands'
    BY <2>2, <2>3, OnlyStepReads
  <2> QED
    BY <1>2, <2>1, <2>3, <2>4
       DEF Series, OneUnused, SignInsOfUsed, AttemptsWithin, RejectedForCause, Rejected, Unused
<1>8. ASSUME NEW r \in Request, VerifyRead(r), Watch PROVE Series'
  <2>1. PICK j \in CodeId : GetActive(j) /\ Begin(r, "checking", j, code[j].attempts)
    BY <1>8 DEF VerifyRead
  <2>2. code' = code /\ logins' = logins
    BY <1>8 DEF VerifyRead
  <2>3. /\ req'[r].pc = "checking" /\ req'[r].id = j /\ req'[r].attempts = code[j].attempts
        /\ \A q \in Request : q # r => req'[q] = req[q]
    BY <2>1, Moves
  <2>4. Alone' /\ \A q \in Request : q # r => req'[q].pc = "idle"
    BY <1>2, <1>8, <2>3, OthersIdle DEF Series
  <2>5. ReadStands'
    BY <2>1, <2>2, <2>3, <2>4, OnlyStepReads DEF GetActive, Unused
  <2> QED
    BY <1>2, <2>2, <2>4, <2>5
       DEF Series, OneUnused, SignInsOfUsed, AttemptsWithin, RejectedForCause, Rejected, Unused
<1>9. ASSUME NEW r \in Request, VerifyCheck(r), Watch PROVE Series'
  <2> DEFINE i == req[r].id
  <2>1. /\ req[r].pc = "checking" /\ code' = code /\ logins' = logins
        /\ Unused(i) /\ req[r].attempts = code[i].attempts
    BY <1>2, <1>9 DEF VerifyCheck, Series, ReadStands
  <2>2. PICK step \in {"rejecting", "counting", "accepting"} :
           /\ Continue(r, step)
           /\ step = "rejecting" => code[i].expired \/ code[i].attempts >= MaxAttempts
    BY <1>9, <2>1 DEF VerifyCheck
  <2>3. /\ req'[r].pc = step /\ req'[r].id = i /\ req'[r].attempts = code[i].attempts
        /\ \A q \in Request : q # r => req'[q] = req[q]
    BY <2>1, <2>2, Moves
  <2>4. Alone' /\ \A q \in Request : q # r => req'[q].pc = "idle"
    BY <1>2, <1>9, <2>1, <2>3, OthersIdle DEF Series
  <2>5. ReadStands'
    BY <2>1, <2>2, <2>3, <2>4, OnlyStepReads DEF Unused
  <2> QED
    BY <1>2, <2>1, <2>4, <2>5
       DEF Series, OneUnused, SignInsOfUsed, AttemptsWithin, RejectedForCause, Rejected, Unused
<1>10. ASSUME NEW r \in Request, VerifyCount(r), Watch PROVE Series'
  <2>1. PICK j \in CodeId : j = req[r].id /\ Unused(j) /\ req[r].attempts = code[j].attempts
                            /\ req[r].attempts < MaxAttempts
    BY <1>2, <1>10 DEF VerifyCount, RecordsHeld, Series, ReadStands
  <2>2. /\ code' = [code EXCEPT ![j].attempts = @ + 1]
        /\ logins' = logins /\ Finish(r) /\ req[r].pc = "counting"
    BY <1>10, <2>1 DEF VerifyCount, Unused
  <2>3. \A i \in CodeId :
           /\ code'[i].state = code[i].state /\ code'[i].expired = code[i].expired
           /\ code'[i].attempts = IF i = j THEN code[i].attempts + 1 ELSE code[i].attempts
    BY <2>2, RowsAfter
  <2>4. req'[r].pc = "idle" /\ \A q \in Request : q # r => req'[q] = req[q]
    BY <2>2, Moves
  <2>5. Alone' /\ \A q \in Request : q # r => req'[q].pc = "idle"
    BY <1>2, <1>10, <2>2, <2>4, OthersIdle DEF Series
  <2>6. ReadStands'
    BY <2>4, <2>5, OnlyStepReads
  <2>7. AttemptsWithin'
    BY <1>2, <1>3, <2>1, <2>3 DEF Series, AttemptsWithin
  <2>8. RejectedForCause'
    BY <1>2, <1>3, <2>3 DEF Series, RejectedForCause, Rejected
  <2> QED
    BY <1>2, <2>2, <2>3, <2>5, <2>6, <2>7, <2>8 DEF Series, OneUnused, SignInsOfUsed, Unused
<1>11. ASSUME NEW r \in Request, VerifyAccept(r), Watch PROVE Series'
  <2>1. PICK j \in CodeId : j = req[r].id /\ Unused(j)
    BY <1>2, <1>11 DEF VerifyAccept, RecordsHeld, Series, ReadStands
  <2>2. /\ code' = [code EXCEPT ![j].state = "used"] /\ logins' = [logins EXCEPT ![j] = @ + 1]
        /\ Finish(r) /\ req[r].pc = "accepting"
    BY <1>11, <2>1 DEF VerifyAccept
  <2>3. \A i \in CodeId :
           /\ code'[i].state = IF i = j THEN "used" ELSE code[i].state
           /\ code'[i].attempts = code[i].attempts /\ code'[i].expired = code[i].expired
    BY <2>2, RowsAfter
  <2>4. req'[r].pc = "idle" /\ \A q \in Request : q # r => req'[q] = req[q]
    BY <2>2, Moves
  <2>5. Alone' /\ \A q \in Request : q # r => req'[q].pc = "idle"
    BY <1>2, <1>11, <2>2, <2>4, OthersIdle DEF Series
  <2>6. ReadStands'
    BY <2>4, <2>5, OnlyStepReads
  <2>7. SignInsOfUsed'
    <3>1. logins[j] = 0
      BY <1>3, <2>1 DEF LoginsRetire, Unused
    <3>2. \A i \in CodeId : logins'[i] = IF i = j THEN 1 ELSE logins[i]
      BY <2>2, <3>1 DEF TypeOK
    <3> QED
      BY <1>2, <2>3, <3>2 DEF Series, SignInsOfUsed
  <2> QED
    BY <1>2, <2>3, <2>5, <2>6, <2>7
       DEF Series, OneUnused, AttemptsWithin, RejectedForCause, Rejected, Unused
<1>12. ASSUME NEW j \in CodeId, Expire(j) PROVE Series'
  <2>1. code' = [code EXCEPT ![j].expired = TRUE] /\ logins' = logins /\ req' = req
    BY <1>12 DEF Expire
  <2>2. \A i \in CodeId :
           /\ code'[i].state = code[i].state /\ code'[i].attempts = code[i].attempts
           /\ code'[i].expired = (i = j \/ code[i].expired)
    BY <2>1, RowsAfter
  <2>3. ReadStands'
    <3>1. \A r \in Request :
             req[r].pc \in {"checking", "rejecting", "counting", "accepting"} => req[r].id \in CodeId
      BY DEF RecordsHeld
    <3> QED
      BY <1>2, <2>1, <2>2, <3>1 DEF Series, ReadStands, Unused
  <2> QED
    BY <1>2, <2>1, <2>2, <2>3
       DEF Series, Alone, OneUnused, SignInsOfUsed, AttemptsWithin, RejectedForCause, Rejected, Unused
<1>13. CASE UNCHANGED vars
  BY <1>2, <1>13 DEF vars, Series, Alone, OneUnused, SignInsOfUsed, AttemptsWithin, ReadStands,
                     RejectedForCause, Rejected, Unused
<1> QED
  BY <1>1, <1>4, <1>5, <1>6, <1>7, <1>8, <1>9, <1>10, <1>11, <1>12, <1>13 DEF Next

-----------------------------------------------------------------------------
(* The theorems *)

LEMMA Initially == Init => IInv
<1> SUFFICES ASSUME Init PROVE IInv
  OBVIOUS
<1>1. TypeOK
  BY DEF Init, TypeOK, Code, RequestState, Idle
<1>2. RecordsHeld /\ LoginsRetire
  BY DEF Init, RecordsHeld, LoginsRetire, Idle
<1>3. AttemptsCounted /\ LoginsCounted
  <2> SUFFICES ASSUME NEW i \in CodeId
               PROVE  /\ code[i].attempts + Cardinality(Counting(i)) <= MaxAttempts + Cardinality(Request) - 1
                      /\ logins[i] + Cardinality(Accepting(i)) <= Cardinality(Request)
    BY DEF AttemptsCounted, LoginsCounted
  <2>1. code[i].attempts = 0 /\ logins[i] = 0
    BY DEF Init
  <2>2. Cardinality(Counting(i)) <= Cardinality(Request) /\ Cardinality(Counting(i)) \in Nat
        /\ Cardinality(Accepting(i)) <= Cardinality(Request) /\ Cardinality(Accepting(i)) \in Nat
    BY RequestSets, PendingSets
  <2>3. MaxAttempts \in Nat \ {0} /\ Cardinality(Request) \in Nat
    BY LoginCodeAssumption, RequestSets
  <2> QED
    BY <2>1, <2>2, <2>3
<1> QED
  BY <1>1, <1>2, <1>3 DEF IInv

LEMMA Inductive == IInv /\ [Next]_vars => IInv'
<1> SUFFICES ASSUME IInv, [Next]_vars PROVE IInv'
  OBVIOUS
<1> USE DEF IInv
<1>1. \A i \in CodeId : InBounds(i)'
  BY CountsHold
<1>2. AttemptsCounted' /\ LoginsCounted'
  BY <1>1 DEF InBounds, AttemptsCounted, LoginsCounted
<1> QED
  BY <1>2, TypesKept, RecordsKept, RetireKept

LEMMA Invariance == Spec => []IInv
  BY Initially, Inductive, PTL DEF Spec

\* The codes, their sign-ins and the requests keep their types.
THEOREM TypeCorrect == Spec => []TypeOK
<1>1. IInv => TypeOK
  BY DEF IInv
<1> QED
  BY <1>1, Invariance, PTL

\* VerifyAsync reads the attempts before it raises them; however many requests
\* overlap, each can pass the limit by one at most, and one of them not at all.
THEOREM AttemptsWithinBound == Spec => []AttemptsBounded
<1>1. IInv => AttemptsBounded
  <2> SUFFICES ASSUME IInv, NEW i \in CodeId
               PROVE  code[i].attempts <= MaxAttempts + Cardinality(Request) - 1
    BY DEF AttemptsBounded
  <2>1. code[i].attempts + Cardinality(Counting(i)) <= MaxAttempts + Cardinality(Request) - 1
    BY DEF IInv, AttemptsCounted
  <2>2. Cardinality(Counting(i)) \in Nat /\ Cardinality(Request) \in Nat
    BY RequestSets, PendingSets
  <2>3. code[i].attempts \in Nat /\ MaxAttempts \in Nat
    BY LoginCodeAssumption DEF IInv, TypeOK, Code
  <2> QED
    BY <2>1, <2>2, <2>3
<1> QED
  BY <1>1, Invariance, PTL

\* MarkUsedAsync does not tell whether the code was unused; a code that has been
\* accepted is read no more, so only requests that hold it already sign in again.
THEOREM LoginsWithinBound == Spec => []LoginsBounded
<1>1. IInv => LoginsBounded
  <2> SUFFICES ASSUME IInv, NEW i \in CodeId
               PROVE  logins[i] <= Cardinality(Request)
    BY DEF LoginsBounded
  <2>1. logins[i] + Cardinality(Accepting(i)) <= Cardinality(Request)
    BY DEF IInv, LoginsCounted
  <2>2. Cardinality(Accepting(i)) \in Nat /\ Cardinality(Request) \in Nat /\ logins[i] \in Nat
    BY RequestSets, PendingSets DEF IInv, TypeOK
  <2> QED
    BY <2>1, <2>2
<1> QED
  BY <1>1, Invariance, PTL

LEMMA SeriesInvariance == Spec => []InSeries
<1>1. Init => InSeries
  <2> SUFFICES ASSUME Init PROVE Series
    BY DEF InSeries
  <2>1. /\ \A r \in Request : req[r].pc = "idle"
        /\ \A i \in CodeId : code[i].state = "none" /\ code[i].attempts = 0 /\ logins[i] = 0
    BY DEF Init, Idle
  <2> QED
    BY <2>1, LoginCodeAssumption DEF Series, Alone, OneUnused, SignInsOfUsed, AttemptsWithin,
                                     ReadStands, RejectedForCause, Rejected, Unused
<1>2. IInv /\ InSeries /\ [Next]_vars => InSeries'
  BY SeriesKept DEF IInv
<1> QED
  BY <1>1, <1>2, Invariance, PTL DEF Spec

\* UpsertAsync's two statements: as long as no request has overlapped another, an
\* identity has one unused code at most.
THEOREM OneCodeInSeries == Spec => []AtMostOneUnused
<1>1. InSeries => AtMostOneUnused
  BY DEF InSeries, Series, OneUnused, AtMostOneUnused
<1> QED
  BY <1>1, SeriesInvariance, PTL

\* VerifyAsync deletes every unused code of the identity: without overlaps that is the
\* one it has found expired or used up.
THEOREM RejectionsForCause == Spec => []RejectedForCauseInSeries
<1>1. InSeries => RejectedForCauseInSeries
  BY DEF InSeries, Series, RejectedForCauseInSeries
<1> QED
  BY <1>1, SeriesInvariance, PTL

\* Without overlaps a code signs in once, and neither before nor after it is replaced
\* or rejected.
THEOREM SignInOnce == Spec => []OnlyUsedCodesSignIn
<1>1. InSeries => OnlyUsedCodesSignIn
  BY DEF InSeries, Series, SignInsOfUsed, OnlyUsedCodesSignIn
<1> QED
  BY <1>1, SeriesInvariance, PTL

\* Without overlaps the limit of attempts is exact.
THEOREM AttemptsExact == Spec => []AttemptsLimited
<1>1. InSeries => AttemptsLimited
  BY DEF InSeries, Series, AttemptsWithin, AttemptsLimited
<1> QED
  BY <1>1, SeriesInvariance, PTL
=============================================================================
