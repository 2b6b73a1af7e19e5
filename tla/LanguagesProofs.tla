-------------------------- MODULE LanguagesProofs --------------------------
(***************************************************************************)
(* Proofs about Languages: however many requests overlap, there are no     *)
(* more default languages than requests.  Why there are not is that each   *)
(* default can be put down to a request of its own, the last that made it  *)
(* the default: a request that makes another language the default has      *)
(* cleared whatever it had made the default before.                        *)
(***************************************************************************)
EXTENDS Languages, FiniteSetTheorems, WellFoundedInduction, TLAPS

\* Once request r writes, it will leave or has found row d as it is.
Passed(r, d) ==
    /\ req[r].default
    /\ \/ req[r].pc = "clearing" /\ d <= req[r].scanned
       \/ req[r].pc = "writing"

\* madeBy puts down each default to a request of its own, and to none that has gone
\* past it without clearing it.
PutDown(madeBy) ==
    /\ \A c, d \in Defaults : madeBy[c] = madeBy[d] => c = d
    /\ \A r \in Request, d \in Defaults :
          Passed(r, d) /\ d \notin req[r].locked => madeBy[d] # r

CountingKeepsDefaults == \A r \in Request : req[r].pc = "counting" => ~req[r].default

IInv == TypeOK /\ CountingKeepsDefaults /\ \E madeBy \in [Lang -> Request] : PutDown(madeBy)

-----------------------------------------------------------------------------
(* Types *)

LEMMA Types == ASSUME TypeOK, [Next]_vars PROVE TypeOK'
<1> USE DEF TypeOK
<1>0. disturbed' \in BOOLEAN
  BY DEF Next, Watch, vars
<1>1. ASSUME NEW r \in Request, NEW step \in {"counting", "clearing", "writing"},
             NEW what \in {"create", "update", "set"}, NEW i \in Lang \cup {NoLang},
             NEW d \in BOOLEAN, NEW a \in BOOLEAN, Begin(r, step, what, i, d, a)
      PROVE  req' \in [Request -> RequestState]
  BY <1>1 DEF Begin, RequestState
<1>2. ASSUME NEW r \in Request, Finish(r) PROVE req' \in [Request -> RequestState]
  BY <1>2 DEF Finish, Idle, RequestState
<1>3. ASSUME NEW r \in Request, Continue(r, "writing") PROVE req' \in [Request -> RequestState]
  <2>1. [req[r] EXCEPT !.pc = "writing"] \in RequestState
    BY DEF RequestState
  <2> QED
    BY <1>3, <2>1 DEF Continue
<1>4. ASSUME NEW r \in Request, NEW i, lang' = Written(r, i, NewRow(r))
      PROVE  lang' \in [Lang -> Row]
  <2>1. NewRow(r) \in Row
    BY DEF NewRow, Row, RequestState
  <2>2. \A j \in Lang : [lang[j] EXCEPT !.default = FALSE] \in Row
    BY DEF Row
  <2> QED
    BY <1>4, <2>1, <2>2 DEF Written
<1>5. ASSUME NEW r \in Request, Create(r) PROVE TypeOK'
  BY <1>0, <1>1, <1>5 DEF Create
<1>6. ASSUME NEW r \in Request, UpdateRead(r) PROVE TypeOK'
  BY <1>0, <1>1, <1>6 DEF UpdateRead, Existing
<1>7. ASSUME NEW r \in Request, SetActiveRead(r) PROVE TypeOK'
  BY <1>0, <1>1, <1>7 DEF SetActiveRead, Existing
<1>8. ASSUME NEW r \in Request, CheckActiveCount(r) PROVE TypeOK'
  BY <1>0, <1>2, <1>3, <1>8 DEF CheckActiveCount
<1>9. ASSUME NEW r \in Request, ClearDefaults(r) PROVE TypeOK'
  <2>1. CASE Continue(r, "writing")
    BY <1>0, <1>3, <1>9, <2>1 DEF ClearDefaults
  <2>2. CASE ~Continue(r, "writing")
    <3>1. PICK i \in Lang :
             req' = [req EXCEPT ![r].scanned = i,
                                ![r].locked = IF lang[i].default THEN @ \cup {i} ELSE @]
      BY <1>9, <2>2 DEF ClearDefaults, Existing
    <3>2. [req[r] EXCEPT !.scanned = i, !.locked = IF lang[i].default THEN @ \cup {i} ELSE @]
             \in RequestState
      BY DEF RequestState
    <3>3. req' \in [Request -> RequestState]
      BY <3>1, <3>2
    <3> QED
      BY <1>0, <1>9, <3>3 DEF ClearDefaults
  <2> QED
    BY <2>1, <2>2
<1>10. ASSUME NEW r \in Request, InsertRow(r) PROVE TypeOK'
  BY <1>0, <1>2, <1>4, <1>10 DEF InsertRow
<1>11. ASSUME NEW r \in Request, UpdateRow(r) PROVE TypeOK'
  BY <1>0, <1>2, <1>4, <1>11 DEF UpdateRow
<1>12. ASSUME NEW r \in Request, SetActiveRow(r) PROVE TypeOK'
  <2>1. req[r].active \in BOOLEAN
    BY DEF RequestState
  <2>2. \A j \in Lang : [lang[j] EXCEPT !.active = req[r].active] \in Row
    BY <2>1 DEF Row
  <2>3. lang' \in [Lang -> Row]
    BY <1>12, <2>2 DEF SetActiveRow
  <2> QED
    BY <1>0, <1>2, <1>12, <2>3 DEF SetActiveRow
<1>13. ASSUME NEW r \in Request, Abort(r) PROVE TypeOK'
  BY <1>0, <1>2, <1>13 DEF Abort
<1>14. CASE UNCHANGED vars
  BY <1>14 DEF vars
<1> QED
  BY <1>5, <1>6, <1>7, <1>8, <1>9, <1>10, <1>11, <1>12, <1>13, <1>14 DEF Next

-----------------------------------------------------------------------------
(* Requests that do not write *)

\* Where a request stands after a step, and that the others stand still.
LEMMA Moves ==
  ASSUME TypeOK, NEW r \in Request
  PROVE  /\ \A step, what, i, d, a : Begin(r, step, what, i, d, a) =>
               /\ req'[r].pc = step /\ req'[r].default = d /\ req'[r].scanned = NoLang
               /\ req'[r].locked = {}
               /\ \A q \in Request : q # r => req'[q] = req[q]
         /\ \A step : Continue(r, step) =>
               /\ req'[r].pc = step /\ req'[r].default = req[r].default
               /\ req'[r].scanned = req[r].scanned /\ req'[r].locked = req[r].locked
               /\ \A q \in Request : q # r => req'[q] = req[q]
         /\ Finish(r) =>
               /\ req'[r].pc = "idle" /\ ~req'[r].default
               /\ \A q \in Request : q # r => req'[q] = req[q]
<1>1. req[r] \in RequestState
  BY DEF TypeOK
<1>2. \A step : [req[r] EXCEPT !.pc = step] =
                  [pc |-> step, op |-> req[r].op, id |-> req[r].id, default |-> req[r].default,
                   active |-> req[r].active, scanned |-> req[r].scanned, locked |-> req[r].locked]
  BY <1>1 DEF RequestState
<1>3. \A step : Continue(r, step) =>
         /\ req'[r] = [req[r] EXCEPT !.pc = step]
         /\ \A q \in Request : q # r => req'[q] = req[q]
  BY DEF TypeOK, Continue
<1>4. \A step, what, i, d, a : Begin(r, step, what, i, d, a) =>
         /\ req'[r].pc = step /\ req'[r].default = d /\ req'[r].scanned = NoLang
         /\ req'[r].locked = {}
         /\ \A q \in Request : q # r => req'[q] = req[q]
  BY DEF TypeOK, Begin
<1>5. Finish(r) =>
         /\ req'[r].pc = "idle" /\ ~req'[r].default
         /\ \A q \in Request : q # r => req'[q] = req[q]
  BY DEF TypeOK, Finish, Idle
<1>6. ASSUME NEW step, Continue(r, step)
      PROVE  /\ req'[r].pc = step /\ req'[r].default = req[r].default
             /\ req'[r].scanned = req[r].scanned /\ req'[r].locked = req[r].locked
             /\ \A q \in Request : q # r => req'[q] = req[q]
  <2>1. req'[r] = [pc |-> step, op |-> req[r].op, id |-> req[r].id, default |-> req[r].default,
                   active |-> req[r].active, scanned |-> req[r].scanned, locked |-> req[r].locked]
    BY <1>2, <1>3, <1>6
  <2>2. /\ req'[r].pc = step /\ req'[r].default = req[r].default
        /\ req'[r].scanned = req[r].scanned /\ req'[r].locked = req[r].locked
    BY <2>1
  <2>3. \A q \in Request : q # r => req'[q] = req[q]
    BY <1>3, <1>6
  <2> QED
    BY <2>2, <2>3
<1> QED
  BY <1>4, <1>5, <1>6

\* As long as no row becomes a default and r passes none, nothing has to be put down anew.
LEMMA NothingMade ==
  ASSUME NEW r \in Request, NEW f, PutDown(f), Defaults' \subseteq Defaults,
         \A q \in Request : q # r => req'[q] = req[q],
         \A d \in Defaults : Passed(r, d)' /\ d \notin req'[r].locked
                                => Passed(r, d) /\ d \notin req[r].locked
  PROVE  PutDown(f)'
<1>1. \A q \in Request, d \in Defaults :
         Passed(q, d)' /\ d \notin req'[q].locked => Passed(q, d) /\ d \notin req[q].locked
  BY DEF Passed
<1> QED
  BY <1>1 DEF PutDown

\* A transaction that makes row i the default takes it over from whoever made it so.
LEMMA OneMade ==
  ASSUME TypeOK, NEW r \in Request, NEW i, NEW f \in [Lang -> Request], PutDown(f),
         req[r].pc = "writing", lang' = Written(r, i, NewRow(r)), Finish(r)
  PROVE  \E g \in [Lang -> Request] : PutDown(g)'
<1>1. /\ ~req'[r].default
      /\ \A q \in Request : q # r => req'[q] = req[q]
  BY Moves
<1>2. \A d \in Lang : lang'[d] = IF d = i THEN NewRow(r)
                                 ELSE IF d \in req[r].locked THEN [lang[d] EXCEPT !.default = FALSE]
                                 ELSE lang[d]
  BY DEF Written
<1>3. \A d \in Lang : [lang[d] EXCEPT !.default = FALSE].default = FALSE
  BY DEF TypeOK, Row
<1>4. \A d \in Defaults' : d \in Lang /\ lang'[d].default /\ lang'[d].exists
  BY DEF Defaults, Existing
<1>5. \A d \in Defaults' : d # i => d \in Defaults /\ d \notin req[r].locked
  <2> SUFFICES ASSUME NEW d \in Defaults', d # i
               PROVE  d \in Defaults /\ d \notin req[r].locked
    OBVIOUS
  <2>1. d \in Lang /\ lang'[d].default /\ lang'[d].exists
    BY <1>4
  <2>2. d \notin req[r].locked
    BY <1>2, <1>3, <2>1
  <2>3. lang'[d] = lang[d]
    BY <1>2, <2>1, <2>2
  <2> QED
    BY <2>1, <2>2, <2>3 DEF Defaults, Existing
<1>6. \A d \in Defaults' : d = i => req[r].default
  <2> SUFFICES ASSUME NEW d \in Defaults', d = i PROVE req[r].default
    OBVIOUS
  <2>1. d \in Lang /\ lang'[d].default
    BY <1>4
  <2>2. lang'[d] = NewRow(r)
    BY <1>2, <2>1
  <2> QED
    BY <2>1, <2>2 DEF NewRow
<1>7. \A q \in Request, d \in Defaults' : Passed(q, d)' /\ d \notin req'[q].locked
         => q # r /\ Passed(q, d) /\ d \notin req[q].locked
  BY <1>1 DEF Passed
<1>8. CASE req[r].default
  <2> DEFINE g == [f EXCEPT ![i] = r]
  <2>1. g \in [Lang -> Request]
    OBVIOUS
  <2>2. \A d \in Defaults' : d # i => f[d] # r /\ g[d] = f[d]
    BY <1>4, <1>5, <1>8 DEF PutDown, Passed
  <2>3. \A d \in Defaults' : d = i => g[d] = r
    BY <1>4
  <2>4. \A c, d \in Defaults' : g[c] = g[d] => c = d
    <3> HIDE DEF g
    <3> QED
      BY <1>5, <2>2, <2>3 DEF PutDown
  <2>5. \A q \in Request, d \in Defaults' : Passed(q, d)' /\ d \notin req'[q].locked => g[d] # q
    <3> HIDE DEF g
    <3> QED
      BY <1>5, <1>7, <2>2, <2>3 DEF PutDown
  <2>6. PutDown(g)'
    BY <2>4, <2>5 DEF PutDown
  <2> QED
    BY <2>1, <2>6
<1>9. CASE ~req[r].default
  <2>1. Defaults' \subseteq Defaults
    BY <1>5, <1>6, <1>9
  <2>2. \A d \in Defaults : ~Passed(r, d)'
    BY <1>1 DEF Passed
  <2>3. PutDown(f)'
    BY <1>1, <2>1, <2>2, NothingMade
  <2> QED
    BY <2>3
<1> QED
  BY <1>8, <1>9

-----------------------------------------------------------------------------
(* The invariant *)

LEMMA Initially == Init => IInv
<1> SUFFICES ASSUME Init PROVE IInv
  OBVIOUS
<1>1. TypeOK
  BY DEF Init, TypeOK, Row, RequestState, Idle, Absent
<1>2. CountingKeepsDefaults
  BY DEF Init, CountingKeepsDefaults, Idle
<1>3. \A d \in Defaults : d = First
  BY DEF Init, Defaults, Existing, Absent
<1>4. \A r \in Request : \A d : ~Passed(r, d)
  BY DEF Init, Passed, Idle
<1>5. PICK r \in Request : TRUE
  BY LanguageAssumption
<1>6. PutDown([i \in Lang |-> r])
  BY <1>3, <1>4 DEF PutDown
<1>7. [i \in Lang |-> r] \in [Lang -> Request]
  OBVIOUS
<1> QED
  BY <1>1, <1>2, <1>6, <1>7 DEF IInv

LEMMA CountingKept == ASSUME TypeOK, CountingKeepsDefaults, [Next]_vars PROVE CountingKeepsDefaults'
<1>1. ASSUME NEW r \in Request, req'[r].pc = "counting" => ~req'[r].default,
             \A q \in Request : q # r => req'[q] = req[q]
      PROVE  CountingKeepsDefaults'
  BY <1>1 DEF CountingKeepsDefaults
<1>2. ASSUME NEW r \in Request, Create(r) \/ UpdateRead(r) \/ SetActiveRead(r)
      PROVE  CountingKeepsDefaults'
  <2>1. \E step, what, i, d, a : Begin(r, step, what, i, d, a) /\ (step = "counting" => d = FALSE)
    <3>1. CASE Create(r)
      BY <3>1 DEF Create
    <3>2. CASE UpdateRead(r)
      BY <3>2 DEF UpdateRead
    <3>3. CASE SetActiveRead(r)
      BY <3>3 DEF SetActiveRead
    <3> QED
      BY <1>2, <3>1, <3>2, <3>3
  <2> QED
    BY <1>1, <2>1, Moves
<1>3. ASSUME NEW r \in Request, InsertRow(r) \/ UpdateRow(r) \/ SetActiveRow(r) \/ Abort(r)
      PROVE  CountingKeepsDefaults'
  <2>1. Finish(r)
    BY <1>3 DEF InsertRow, UpdateRow, SetActiveRow, Abort
  <2> QED
    BY <1>1, <2>1, Moves
<1>4. ASSUME NEW r \in Request, CheckActiveCount(r) PROVE CountingKeepsDefaults'
  <2>1. Finish(r) \/ Continue(r, "writing")
    BY <1>4 DEF CheckActiveCount
  <2>2. req'[r].pc # "counting" /\ \A q \in Request : q # r => req'[q] = req[q]
    BY <2>1, Moves
  <2> QED
    BY <1>1, <2>2
<1>5. ASSUME NEW r \in Request, ClearDefaults(r) PROVE CountingKeepsDefaults'
  <2>1. req[r].pc = "clearing" /\ req[r] \in RequestState /\ req \in [Request -> RequestState]
    BY <1>5 DEF ClearDefaults, TypeOK
  <2>2. CASE Continue(r, "writing")
    BY <1>1, <2>2, Moves
  <2>3. CASE ~Continue(r, "writing")
    <3>1. PICK i \in Lang :
             req' = [req EXCEPT ![r].scanned = i,
                                ![r].locked = IF lang[i].default THEN @ \cup {i} ELSE @]
      BY <1>5, <2>3 DEF ClearDefaults, Existing
    <3>2. /\ req'[r] = [req[r] EXCEPT !.scanned = i,
                                      !.locked = IF lang[i].default THEN @ \cup {i} ELSE @]
          /\ \A q \in Request : q # r => req'[q] = req[q]
      BY <2>1, <3>1
    <3>3. req'[r].pc = "clearing"
      BY <2>1, <3>2 DEF RequestState
    <3> QED
      BY <1>1, <3>2, <3>3
  <2> QED
    BY <2>2, <2>3
<1>6. CASE UNCHANGED vars
  BY <1>6 DEF vars, CountingKeepsDefaults
<1> QED
  BY <1>2, <1>3, <1>4, <1>5, <1>6 DEF Next

LEMMA Inductive == IInv /\ [Next]_vars => IInv'
<1> SUFFICES ASSUME IInv, [Next]_vars PROVE IInv'
  OBVIOUS
<1>1. TypeOK /\ CountingKeepsDefaults
  BY DEF IInv
<1>2. PICK f \in [Lang -> Request] : PutDown(f)
  BY DEF IInv
<1>3. ASSUME NEW r \in Request, Create(r) \/ UpdateRead(r) \/ SetActiveRead(r) PROVE PutDown(f)'
  <2>1. /\ \E step, what, i, d, a :
              Begin(r, step, what, i, d, a) /\ (step = "clearing" \/ d = FALSE)
        /\ lang' = lang
    BY <1>3 DEF Create, UpdateRead, SetActiveRead
  <2>2. /\ req'[r].pc = "clearing" \/ req'[r].default = FALSE
        /\ req'[r].scanned = NoLang
        /\ \A q \in Request : q # r => req'[q] = req[q]
    BY <1>1, <2>1, Moves
  <2>3. \A d \in Defaults : ~(d <= NoLang)
    BY LanguageAssumption DEF Defaults, Existing
  <2>4. \A d \in Defaults : ~Passed(r, d)'
    BY <2>2, <2>3 DEF Passed
  <2>5. Defaults' = Defaults
    BY <2>1 DEF Defaults, Existing
  <2> QED
    BY <1>2, <2>2, <2>4, <2>5, NothingMade
<1>4. ASSUME NEW r \in Request, CheckActiveCount(r) PROVE PutDown(f)'
  <2>1. /\ Finish(r) \/ Continue(r, "writing")
        /\ req[r].pc = "counting" /\ lang' = lang
    BY <1>4 DEF CheckActiveCount
  <2>2. ~req'[r].default /\ \A q \in Request : q # r => req'[q] = req[q]
    BY <1>1, <2>1, Moves DEF CountingKeepsDefaults
  <2>3. \A d \in Defaults : ~Passed(r, d)'
    BY <2>2 DEF Passed
  <2>4. Defaults' = Defaults
    BY <2>1 DEF Defaults, Existing
  <2> QED
    BY <1>2, <2>2, <2>3, <2>4, NothingMade
<1>5. ASSUME NEW r \in Request, ClearDefaults(r) PROVE PutDown(f)'
  <2>1. /\ req[r].pc = "clearing" /\ lang' = lang
        /\ req[r] \in RequestState /\ req \in [Request -> RequestState]
    BY <1>1, <1>5 DEF ClearDefaults, TypeOK
  <2>2. Defaults' = Defaults
    BY <2>1 DEF Defaults, Existing
  <2>3. req[r].scanned \in Nat /\ \A d \in Defaults : d \in Nat /\ d \in Existing
    BY <2>1, LanguageAssumption DEF RequestState, Defaults, Existing
  <2>4. CASE {i \in Existing : i > req[r].scanned} = {} /\ Continue(r, "writing")
    <3>1. /\ req'[r].default = req[r].default /\ req'[r].locked = req[r].locked
          /\ \A q \in Request : q # r => req'[q] = req[q]
      BY <1>1, <2>4, Moves
    <3>2. \A d \in Defaults : d <= req[r].scanned
      BY <2>3, <2>4
    <3>3. \A d \in Defaults : Passed(r, d)' => Passed(r, d)
      BY <2>1, <3>1, <3>2 DEF Passed
    <3> QED
      BY <1>2, <2>2, <3>1, <3>3, NothingMade
  <2>5. CASE ~({i \in Existing : i > req[r].scanned} = {} /\ Continue(r, "writing"))
    <3>1. PICK i \in Existing :
             /\ i > req[r].scanned
             /\ \A j \in Existing : j > req[r].scanned => i <= j
             /\ req' = [req EXCEPT ![r].scanned = i,
                                   ![r].locked = IF lang[i].default THEN @ \cup {i} ELSE @]
      BY <1>5, <2>5 DEF ClearDefaults
    <3>2. /\ req'[r] = [req[r] EXCEPT !.scanned = i,
                                      !.locked = IF lang[i].default THEN @ \cup {i} ELSE @]
          /\ \A q \in Request : q # r => req'[q] = req[q]
      BY <2>1, <3>1
    <3>3. /\ req'[r].pc = "clearing" /\ req'[r].scanned = i /\ req'[r].default = req[r].default
          /\ req'[r].locked = IF lang[i].default THEN req[r].locked \cup {i} ELSE req[r].locked
      BY <2>1, <3>2 DEF RequestState
    <3>4. i \in Nat
      BY LanguageAssumption DEF Existing
    <3>5. ASSUME NEW d \in Defaults, d <= i, d \notin req'[r].locked PROVE d <= req[r].scanned
      <4>1. d # i
        BY <3>3, <3>5 DEF Defaults
      <4> QED
        BY <2>3, <3>1, <3>4, <3>5, <4>1
    <3>6. \A d \in Defaults : Passed(r, d)' /\ d \notin req'[r].locked
                                 => Passed(r, d) /\ d \notin req[r].locked
      BY <2>1, <3>3, <3>5 DEF Passed
    <3> QED
      BY <1>2, <2>2, <3>2, <3>6, NothingMade
  <2> QED
    BY <2>4, <2>5
<1>6. ASSUME NEW r \in Request, InsertRow(r) \/ UpdateRow(r)
      PROVE  \E g \in [Lang -> Request] : PutDown(g)'
  <2>1. /\ req[r].pc = "writing" /\ Finish(r)
        /\ \E i : lang' = Written(r, i, NewRow(r))
    BY <1>6 DEF InsertRow, UpdateRow
  <2> QED
    BY <1>1, <1>2, <2>1, OneMade
<1>7. ASSUME NEW r \in Request, SetActiveRow(r) \/ Abort(r) PROVE PutDown(f)'
  <2>1. /\ Finish(r)
        /\ lang' = lang \/ lang' = [lang EXCEPT ![req[r].id].active = req[r].active]
    BY <1>7 DEF SetActiveRow, Abort
  <2>2. \A i \in Lang : \A a : /\ [lang[i] EXCEPT !.active = a].default = lang[i].default
                              /\ [lang[i] EXCEPT !.active = a].exists = lang[i].exists
    BY <1>1 DEF TypeOK, Row
  <2>3. \A i \in Lang : lang'[i] = lang[i] \/ lang'[i] = [lang[i] EXCEPT !.active = req[r].active]
    BY <1>1, <2>1 DEF TypeOK
  <2>4. Defaults' = Defaults
    <3>1. \A i \in Lang : lang'[i].default = lang[i].default /\ lang'[i].exists = lang[i].exists
      <4> SUFFICES ASSUME NEW i \in Lang
                   PROVE  lang'[i].default = lang[i].default /\ lang'[i].exists = lang[i].exists
        OBVIOUS
      <4>1. CASE lang'[i] = lang[i]
        BY <4>1
      <4>2. CASE lang'[i] = [lang[i] EXCEPT !.active = req[r].active]
        BY <2>2, <4>2
      <4> QED
        BY <2>3, <4>1, <4>2
    <3> QED
      BY <3>1 DEF Defaults, Existing
  <2>5. ~req'[r].default /\ \A q \in Request : q # r => req'[q] = req[q]
    BY <1>1, <2>1, Moves
  <2>6. \A d \in Defaults : ~Passed(r, d)'
    BY <2>5 DEF Passed
  <2> QED
    BY <1>2, <2>4, <2>5, <2>6, NothingMade
<1>8. ASSUME UNCHANGED vars PROVE PutDown(f)'
  <2>1. PICK r \in Request : TRUE
    BY LanguageAssumption
  <2>2. lang' = lang /\ req' = req
    BY <1>8 DEF vars
  <2>3. Defaults' = Defaults
    BY <2>2 DEF Defaults, Existing
  <2>4. \A d \in Defaults : Passed(r, d)' <=> Passed(r, d)
    BY <2>2 DEF Passed
  <2> QED
    BY <1>2, <2>2, <2>3, <2>4, NothingMade
<1>9. \E g \in [Lang -> Request] : PutDown(g)'
  <2>1. CASE PutDown(f)'
    BY <2>1
  <2>2. CASE \E r \in Request : InsertRow(r) \/ UpdateRow(r)
    BY <1>6, <2>2
  <2> QED
    BY <1>3, <1>4, <1>5, <1>7, <1>8, <2>1, <2>2 DEF Next
<1> QED
  BY <1>1, <1>9, Types, CountingKept DEF IInv

LEMMA Invariance == Spec => []IInv
  BY Initially, Inductive, PTL DEF Spec

\* The rows and the requests keep their types.
THEOREM TypeCorrect == Spec => []TypeOK
<1>1. IInv => TypeOK
  BY DEF IInv
<1> QED
  BY <1>1, Invariance, PTL

\* Transactions of LanguageRepository that overlap can leave several defaults, but
\* never more than there are requests: with one at a time there is one at most.
THEOREM DefaultsWithinBound == Spec => []DefaultsBounded
<1>1. IInv => DefaultsBounded
  <2> SUFFICES ASSUME IInv PROVE Cardinality(Defaults) <= Cardinality(Request)
    BY DEF DefaultsBounded
  <2>1. PICK f \in [Lang -> Request] : PutDown(f)
    BY DEF IInv
  <2> DEFINE g == [d \in Defaults |-> f[d]]
  <2>2. g \in [Defaults -> Request]
    BY DEF Defaults, Existing
  <2>3. \A c, d \in Defaults : g[c] = g[d] => c = d
    BY <2>1 DEF PutDown
  <2>4. g \in Injection(Defaults, Request)
    BY <2>2, <2>3 DEF Injection, IsInjective
  <2>5. IsFiniteSet(Request)
    BY LanguageAssumption
  <2> HIDE DEF g
  <2> QED
    BY <2>4, <2>5, FS_Injection
<1> QED
  BY <1>1, Invariance, PTL

-----------------------------------------------------------------------------
(* Requests one after the other *)

Alone == \A q, r \in Request : q # r => req[q].pc = "idle" \/ req[r].pc = "idle"

\* The request asks for an existing language to be neither default nor active.
Deactivates(r) == req[r].op \in {"update", "set"} /\ ~req[r].default /\ ~req[r].active

OtherActive(i) == \E j \in Existing : j # i /\ lang[j].active

\* What request r has read before it writes still holds: its language exists, one it
\* deactivates is not the default, and after the count there is another active one.
ReadStands(r) ==
    /\ req[r].pc = "clearing" => req[r].op # "set" /\ req[r].default
    /\ req[r].pc = "counting" => Deactivates(r)
    /\ req[r].pc # "idle" /\ req[r].op = "set" => ~req[r].default
    /\ req[r].pc # "idle" /\ req[r].op # "create" => req[r].id \in Existing
    /\ req[r].pc \in {"counting", "writing"} /\ Deactivates(r) => ~lang[req[r].id].default
    /\ req[r].pc = "writing" /\ Deactivates(r) => OtherActive(req[r].id)

AnyActive == \E i \in Existing : lang[i].active

Series ==
    /\ Alone
    /\ \A r \in Request : ReadStands(r)
    /\ DefaultIsActive
    /\ AnyActive

InSeries == ~disturbed => Series

\* INSERT adds one row at a time.
FiniteRows == IsFiniteSet(Existing)

LEMMA FirstIsLang == First \in Lang
<1>1. IsWellFoundedOn(OpToRel(<, Nat), Nat)
  BY NatLessThanWellFounded
<1>2. PICK i \in Lang : \A j \in Lang : ~(<<j, i>> \in OpToRel(<, Nat))
  BY <1>1, LanguageAssumption, WFMin
<1>3. \A j \in Lang : ~(j < i)
  BY <1>2, LanguageAssumption DEF OpToRel
<1>4. i \in Lang /\ \A j \in Lang : i <= j
  BY <1>3, LanguageAssumption
<1> QED
  BY <1>4 DEF First

\* The rows after each kind of write, column by column.
LEMMA RowsAfter ==
  ASSUME TypeOK, NEW r \in Request, NEW j \in Lang
  PROVE  /\ \A i : lang' = Written(r, i, NewRow(r)) =>
               /\ lang'[j].exists <=> (j = i \/ lang[j].exists)
               /\ j = i => (lang'[j].active <=> req[r].default \/ req[r].active)
               /\ j # i => (lang'[j].active <=> lang[j].active)
               /\ j = i => (lang'[j].default <=> req[r].default)
               /\ j # i => (lang'[j].default => lang[j].default)
         /\ SetActiveRow(r) =>
               /\ lang'[j].exists = lang[j].exists /\ lang'[j].default = lang[j].default
               /\ j = req[r].id => lang'[j].active = req[r].active
               /\ j # req[r].id => lang'[j].active = lang[j].active
<1>1. /\ lang \in [Lang -> Row] /\ lang[j] \in Row /\ req[r] \in RequestState
      /\ lang[j].exists \in BOOLEAN
  BY DEF TypeOK, Row
<1>2. LET row == [lang[j] EXCEPT !.default = FALSE]
      IN row.exists = lang[j].exists /\ row.active = lang[j].active /\ row.default = FALSE
  BY <1>1 DEF Row
<1>3. \A a : LET row == [lang[j] EXCEPT !.active = a]
             IN row.exists = lang[j].exists /\ row.active = a /\ row.default = lang[j].default
  BY <1>1 DEF Row
<1>4. ASSUME NEW i, lang' = Written(r, i, NewRow(r))
      PROVE  /\ lang'[j].exists <=> (j = i \/ lang[j].exists)
             /\ j = i => (lang'[j].active <=> req[r].default \/ req[r].active)
             /\ j # i => (lang'[j].active <=> lang[j].active)
             /\ j = i => (lang'[j].default <=> req[r].default)
             /\ j # i => (lang'[j].default => lang[j].default)
  <2>1. lang'[j] = IF j = i THEN NewRow(r)
                   ELSE IF j \in req[r].locked THEN [lang[j] EXCEPT !.default = FALSE] ELSE lang[j]
    BY <1>4 DEF Written
  <2>2. CASE j = i
    <3>1. /\ NewRow(r).exists /\ NewRow(r).default = req[r].default
          /\ NewRow(r).active <=> req[r].default \/ req[r].active
      BY DEF NewRow
    <3> QED
      BY <2>1, <2>2, <3>1
  <2>3. CASE j # i /\ j \in req[r].locked
    <3>1. lang'[j] = [lang[j] EXCEPT !.default = FALSE]
      BY <2>1, <2>3
    <3> QED
      BY <1>1, <1>2, <2>3, <3>1
  <2>4. CASE j # i /\ j \notin req[r].locked
    BY <1>1, <2>1, <2>4
  <2> QED
    BY <2>2, <2>3, <2>4
<1>5. ASSUME SetActiveRow(r)
      PROVE  /\ lang'[j].exists = lang[j].exists /\ lang'[j].default = lang[j].default
             /\ j = req[r].id => lang'[j].active = req[r].active
             /\ j # req[r].id => lang'[j].active = lang[j].active
  <2>1. lang'[j] = IF j = req[r].id THEN [lang[j] EXCEPT !.active = req[r].active] ELSE lang[j]
    BY <1>1, <1>5 DEF SetActiveRow
  <2> QED
    BY <1>3, <2>1
<1> QED
  BY <1>4, <1>5

LEMMA RowsFinite == ASSUME TypeOK, FiniteRows, [Next]_vars PROVE FiniteRows'
<1>1. ASSUME NEW i, Existing' \subseteq Existing \cup {i} PROVE FiniteRows'
  <2>1. IsFiniteSet(Existing \cup {i})
    BY FS_AddElement DEF FiniteRows
  <2> QED
    BY <1>1, <2>1, FS_Subset DEF FiniteRows
<1>2. ASSUME NEW r \in Request, NEW i, lang' = Written(r, i, NewRow(r)) PROVE FiniteRows'
  <2>1. \A j \in Lang : lang'[j].exists => j = i \/ lang[j].exists
    BY <1>2, RowsAfter
  <2> QED
    BY <1>1, <2>1 DEF Existing
<1>3. ASSUME NEW r \in Request, SetActiveRow(r) PROVE FiniteRows'
  <2>1. \A j \in Lang : lang'[j].exists = lang[j].exists
    BY <1>3, RowsAfter
  <2> QED
    BY <1>1, <2>1 DEF Existing
<1>4. CASE UNCHANGED lang
  BY <1>4 DEF FiniteRows, Existing
<1> QED
  BY <1>2, <1>3, <1>4 DEF Next, vars, Create, UpdateRead, SetActiveRead, CheckActiveCount,
                          ClearDefaults, InsertRow, UpdateRow, Abort

\* When more than one language is active, one of them is not language i.
LEMMA CountsOthers ==
  ASSUME FiniteRows, NEW i, ~(ActiveCount <= 1)
  PROVE  OtherActive(i)
<1> DEFINE S == {j \in Existing : lang[j].active}
<1>1. IsFiniteSet(S)
  BY FS_Subset DEF FiniteRows
<1>2. ASSUME S \subseteq {i} PROVE FALSE
  <2>1. IsFiniteSet({i}) /\ Cardinality({i}) = 1
    BY FS_Singleton
  <2>2. Cardinality(S) <= 1
    BY <1>2, <2>1, FS_Subset
  <2> QED
    BY <2>2 DEF ActiveCount
<1> QED
  BY <1>2 DEF OtherActive

\* While nothing has overlapped, the requests but the one that steps are idle.
LEMMA OthersIdle ==
  ASSUME Alone, NEW r \in Request, Watch, ~disturbed',
         \A q \in Request : q # r => req'[q] = req[q],
         req[r].pc # "idle" \/ req'[r].pc # "idle"
  PROVE  /\ \A q \in Request : q # r => req'[q].pc = "idle"
         /\ Alone'
  BY DEF Alone, Watch

LEMMA IdleStands == ASSUME NEW r, req'[r].pc = "idle" PROVE ReadStands(r)'
  BY DEF ReadStands

\* The rows stay, and so do those a request relies on.
LEMMA RowsStay ==
  ASSUME UNCHANGED lang, DefaultIsActive, AnyActive
  PROVE  DefaultIsActive' /\ AnyActive' /\ Existing' = Existing
         /\ \A i : OtherActive(i)' = OtherActive(i)
  BY DEF DefaultIsActive, AnyActive, Defaults, Existing, OtherActive

LEMMA SeriesKept ==
  ASSUME TypeOK, FiniteRows, InSeries, [Next]_vars
  PROVE  InSeries'
<1> SUFFICES ASSUME ~disturbed' PROVE Series'
  BY DEF InSeries
<1>1. ~disturbed
  BY DEF Next, Watch, vars
<1>2. Series
  BY <1>1 DEF InSeries
<1>3. req \in [Request -> RequestState] /\ lang \in [Lang -> Row]
  BY DEF TypeOK
<1>4. ASSUME NEW r \in Request, Watch, \A q \in Request : q # r => req'[q] = req[q],
             req[r].pc # "idle" \/ req'[r].pc # "idle",
             DefaultIsActive', AnyActive', ReadStands(r)'
      PROVE  Series'
  <2>1. Alone' /\ \A q \in Request : q # r => req'[q].pc = "idle"
    BY <1>2, <1>4, OthersIdle DEF Series
  <2>2. \A q \in Request : ReadStands(q)'
    BY <1>4, <2>1, IdleStands
  <2> QED
    BY <1>4, <2>1, <2>2 DEF Series
<1>5. ASSUME NEW r \in Request, Watch, UNCHANGED lang,
             \A q \in Request : q # r => req'[q] = req[q],
             req[r].pc # "idle" \/ req'[r].pc # "idle", ReadStands(r)'
      PROVE  Series'
  BY <1>2, <1>4, <1>5, RowsStay DEF Series
<1>6. ASSUME NEW r \in Request, NEW step, NEW what, NEW i, NEW d \in BOOLEAN, NEW a \in BOOLEAN,
             Begin(r, step, what, i, d, a)
      PROVE  /\ req'[r].pc = step /\ req'[r].op = what /\ req'[r].id = i
             /\ req'[r].default = d /\ req'[r].active = a
             /\ \A q \in Request : q # r => req'[q] = req[q]
  BY <1>3, <1>6 DEF Begin
<1>7. ASSUME NEW r \in Request, Create(r), Watch PROVE Series'
  <2>1. PICK d \in BOOLEAN, a \in BOOLEAN :
           Begin(r, IF d THEN "clearing" ELSE "writing", "create", NoLang, d, a)
    BY <1>7 DEF Create
  <2>2. /\ req'[r].pc = (IF d THEN "clearing" ELSE "writing") /\ req'[r].op = "create"
        /\ req'[r].default = d
        /\ \A q \in Request : q # r => req'[q] = req[q]
    BY <1>6, <2>1
  <2>3. ReadStands(r)'
    BY <2>2 DEF ReadStands, Deactivates
  <2> QED
    BY <1>5, <1>7, <2>2, <2>3 DEF Create
<1>8. ASSUME NEW r \in Request, UpdateRead(r), Watch PROVE Series'
  <2>1. PICK i \in Existing, d \in BOOLEAN, a \in BOOLEAN,
                step \in {"clearing", "counting", "writing"} :
           /\ ~(~a /\ ~d /\ lang[i].default)
           /\ step = IF d THEN "clearing"
                     ELSE IF ~a /\ ~d /\ lang[i].active THEN "counting" ELSE "writing"
           /\ Begin(r, step, "update", i, d, a)
    BY <1>8 DEF UpdateRead
  <2>2. /\ req'[r].pc = step
        /\ req'[r].op = "update" /\ req'[r].id = i
        /\ req'[r].default = d /\ req'[r].active = a
        /\ \A q \in Request : q # r => req'[q] = req[q]
    BY <1>6, <2>1
  <2>3. /\ lang' = lang /\ \A j : OtherActive(j)' = OtherActive(j)
        /\ Existing' = Existing
    BY <1>2, <1>8, RowsStay DEF UpdateRead, Series
  <2>4. ~lang[i].active => OtherActive(i)
    BY <1>2 DEF Series, AnyActive, OtherActive
  <2>5. ReadStands(r)'
    BY <2>1, <2>2, <2>3, <2>4 DEF ReadStands, Deactivates
  <2>6. req'[r].pc # "idle"
    BY <2>2
  <2> QED
    BY <1>5, <1>8, <2>2, <2>3, <2>5, <2>6
<1>9. ASSUME NEW r \in Request, SetActiveRead(r), Watch PROVE Series'
  <2>1. PICK i \in Existing, a, d \in BOOLEAN, step \in {"counting", "writing"} :
           /\ ~(~a /\ lang[i].default)
           /\ step = IF a THEN "writing" ELSE "counting"
           /\ d = FALSE /\ Begin(r, step, "set", i, d, a)
    BY <1>9 DEF SetActiveRead
  <2>2. /\ req'[r].pc = step
        /\ req'[r].op = "set" /\ req'[r].id = i
        /\ req'[r].default = d /\ req'[r].active = a
        /\ \A q \in Request : q # r => req'[q] = req[q]
    BY <1>6, <2>1
  <2>3. lang' = lang /\ Existing' = Existing
    BY <1>2, <1>9, RowsStay DEF SetActiveRead, Series
  <2>4. ReadStands(r)'
    BY <2>1, <2>2, <2>3 DEF ReadStands, Deactivates
  <2>5. req'[r].pc # "idle"
    BY <2>2
  <2> QED
    BY <1>5, <1>9, <2>2, <2>3, <2>4, <2>5
<1>10. ASSUME NEW r \in Request, Finish(r), Watch, req[r].pc # "idle", DefaultIsActive', AnyActive'
       PROVE  Series'
  <2>1. req'[r].pc = "idle" /\ \A q \in Request : q # r => req'[q] = req[q]
    BY <1>10, Moves
  <2> QED
    BY <1>4, <1>10, <2>1, IdleStands
<1>11. ASSUME NEW r \in Request, CheckActiveCount(r), Watch PROVE Series'
  <2>1. req[r].pc = "counting" /\ lang' = lang
    BY <1>11 DEF CheckActiveCount
  <2>2. CASE Finish(r)
    BY <1>2, <1>10, <1>11, <2>1, <2>2, RowsStay DEF Series
  <2>3. CASE ~(ActiveCount <= 1) /\ Continue(r, "writing")
    <3>1. req'[r] = [req[r] EXCEPT !.pc = "writing"] /\ req[r] \in RequestState
          /\ \A q \in Request : q # r => req'[q] = req[q]
      BY <1>3, <2>3 DEF Continue
    <3>2. /\ req'[r].pc = "writing" /\ req'[r].op = req[r].op /\ req'[r].id = req[r].id
          /\ req'[r].default = req[r].default /\ req'[r].active = req[r].active
      BY <3>1 DEF RequestState
    <3>3. OtherActive(req[r].id)
      BY <2>3, CountsOthers
    <3>4. Existing' = Existing /\ \A j : OtherActive(j)' = OtherActive(j)
      BY <1>2, <2>1, RowsStay DEF Series
    <3>5. ReadStands(r)
      BY <1>2 DEF Series
    <3>6. ReadStands(r)'
      BY <2>1, <3>2, <3>3, <3>4, <3>5 DEF ReadStands, Deactivates
    <3> QED
      BY <1>5, <1>11, <2>1, <3>1, <3>2, <3>6
  <2> QED
    BY <1>11, <2>2, <2>3 DEF CheckActiveCount
<1>12. ASSUME NEW r \in Request, ClearDefaults(r), Watch PROVE Series'
  <2>1. req[r].pc = "clearing" /\ lang' = lang /\ req[r] \in RequestState
    BY <1>3, <1>12 DEF ClearDefaults
  <2>2. /\ req'[r].pc \in {"clearing", "writing"} /\ req'[r].op = req[r].op
        /\ req'[r].id = req[r].id /\ req'[r].default = req[r].default
        /\ \A q \in Request : q # r => req'[q] = req[q]
    <3>1. CASE Continue(r, "writing")
      <4>1. req'[r] = [req[r] EXCEPT !.pc = "writing"]
            /\ \A q \in Request : q # r => req'[q] = req[q]
        BY <1>3, <3>1 DEF Continue
      <4> QED
        BY <2>1, <4>1 DEF RequestState
    <3>2. CASE ~Continue(r, "writing")
      <4>1. PICK i \in Existing :
               req' = [req EXCEPT ![r].scanned = i,
                                  ![r].locked = IF lang[i].default THEN @ \cup {i} ELSE @]
        BY <1>12, <3>2 DEF ClearDefaults
      <4>2. /\ req'[r] = [req[r] EXCEPT !.scanned = i,
                                        !.locked = IF lang[i].default THEN @ \cup {i} ELSE @]
            /\ \A q \in Request : q # r => req'[q] = req[q]
        BY <1>3, <4>1
      <4> QED
        BY <2>1, <4>2 DEF RequestState
    <3> QED
      BY <3>1, <3>2
  <2>3. Existing' = Existing
    BY <2>1 DEF Existing
  <2>4. ReadStands(r)
    BY <1>2 DEF Series
  <2>5. ReadStands(r)'
    BY <2>1, <2>2, <2>3, <2>4 DEF ReadStands, Deactivates
  <2> QED
    BY <1>5, <1>12, <2>1, <2>2, <2>5
<1>13. ASSUME NEW r \in Request, NEW i, lang' = Written(r, i, NewRow(r)), Finish(r), Watch,
              req[r].pc = "writing", i \in Lang,
              Deactivates(r) /\ req[r].op # "create" => OtherActive(i),
              req[r].op = "create" => i \notin Existing,
              req[r].op \in {"create", "update"}
       PROVE  Series'
  <2>1. \A j \in Lang :
           /\ lang'[j].exists <=> (j = i \/ lang[j].exists)
           /\ j = i => (lang'[j].active <=> req[r].default \/ req[r].active)
           /\ j # i => (lang'[j].active <=> lang[j].active)
           /\ j = i => (lang'[j].default <=> req[r].default)
           /\ j # i => (lang'[j].default => lang[j].default)
    BY <1>13, RowsAfter
  <2>2. DefaultIsActive'
    <3> SUFFICES ASSUME NEW j \in Lang, lang'[j].exists, lang'[j].default PROVE lang'[j].active
      BY DEF DefaultIsActive, Defaults, Existing
    <3>1. CASE j = i
      BY <2>1, <3>1
    <3>2. CASE j # i
      BY <1>2, <2>1, <3>2 DEF Series, DefaultIsActive, Defaults, Existing
    <3> QED
      BY <3>1, <3>2
  <2>3. AnyActive'
    <3>1. CASE req[r].default \/ req[r].active
      BY <1>13, <2>1, <3>1 DEF AnyActive, Existing
    <3>2. CASE ~(req[r].default \/ req[r].active)
      <4>1. OtherActive(i)
        BY <1>2, <1>13, <3>2 DEF Deactivates, Series, AnyActive, OtherActive
      <4>2. PICK j \in Existing : j # i /\ lang[j].active
        BY <4>1 DEF OtherActive
      <4>3. lang'[j].exists /\ lang'[j].active /\ j \in Lang
        BY <2>1, <4>2 DEF Existing
      <4> QED
        BY <4>3 DEF AnyActive, Existing
    <3> QED
      BY <3>1, <3>2
  <2> QED
    BY <1>10, <1>13, <2>2, <2>3
<1>14. ASSUME NEW r \in Request, InsertRow(r), Watch PROVE Series'
  <2>1. PICK i \in Lang : NextId(i) /\ lang' = Written(r, i, NewRow(r))
    BY <1>14 DEF InsertRow
  <2>2. i \notin Existing
    BY <2>1 DEF NextId
  <2> QED
    BY <1>13, <1>14, <2>1, <2>2 DEF InsertRow
<1>15. ASSUME NEW r \in Request, UpdateRow(r), Watch PROVE Series'
  <2>1. /\ lang' = Written(r, req[r].id, NewRow(r)) /\ Finish(r)
        /\ req[r].pc = "writing" /\ req[r].op = "update"
    BY <1>15 DEF UpdateRow
  <2>2. ReadStands(r)
    BY <1>2 DEF Series
  <2>3. req[r].id \in Lang /\ (Deactivates(r) => OtherActive(req[r].id))
    BY <2>1, <2>2 DEF ReadStands, Existing
  <2> QED
    BY <1>13, <1>15, <2>1, <2>3
<1>16. ASSUME NEW r \in Request, SetActiveRow(r), Watch PROVE Series'
  <2> DEFINE i == req[r].id
  <2>1. /\ lang' = [lang EXCEPT ![i].active = req[r].active] /\ Finish(r)
        /\ req[r].pc = "writing" /\ req[r].op = "set" /\ req[r].active \in BOOLEAN
    BY <1>3, <1>16 DEF SetActiveRow, RequestState
  <2>2. ReadStands(r)
    BY <1>2 DEF Series
  <2>3. \A j \in Lang :
           /\ lang'[j].exists = lang[j].exists /\ lang'[j].default = lang[j].default
           /\ j = i => lang'[j].active = req[r].active
           /\ j # i => lang'[j].active = lang[j].active
    BY <1>16, RowsAfter
  <2>4. i \in Existing /\ i \in Lang
    BY <2>1, <2>2 DEF ReadStands, Existing
  <2>5. DefaultIsActive'
    <3> SUFFICES ASSUME NEW j \in Lang, lang'[j].exists, lang'[j].default PROVE lang'[j].active
      BY DEF DefaultIsActive, Defaults, Existing
    <3>1. lang[j].active
      BY <1>2, <2>3 DEF Series, DefaultIsActive, Defaults, Existing
    <3>2. CASE j = i /\ ~req[r].active
      <4>1. CASE ~req[r].default
        BY <2>1, <2>2, <2>3, <3>2, <4>1 DEF ReadStands, Deactivates
      <4>2. CASE req[r].default
        BY <2>1, <2>2, <2>3, <3>2, <4>2 DEF ReadStands, Deactivates
      <4> QED
        BY <4>1, <4>2
    <3>3. CASE ~(j = i /\ ~req[r].active)
      BY <2>3, <3>1, <3>3
    <3> QED
      BY <3>2, <3>3
  <2>6. AnyActive'
    <3>1. CASE req[r].active
      BY <2>3, <2>4, <3>1 DEF AnyActive, Existing
    <3>2. CASE ~req[r].active
      <4>1. OtherActive(i)
        BY <2>1, <2>2, <3>2 DEF ReadStands, Deactivates
      <4>2. PICK j \in Existing : j # i /\ lang[j].active
        BY <4>1 DEF OtherActive
      <4> QED
        BY <2>3, <4>2 DEF AnyActive, Existing
    <3> QED
      BY <3>1, <3>2
  <2> QED
    BY <1>10, <1>16, <2>1, <2>5, <2>6
<1>17. ASSUME NEW r \in Request, Abort(r), Watch PROVE Series'
  BY <1>2, <1>10, <1>17, RowsStay DEF Abort, Series
<1>18. CASE UNCHANGED vars
  <2>1. lang' = lang /\ req' = req
    BY <1>18 DEF vars
  <2>2. DefaultIsActive' /\ AnyActive' /\ Existing' = Existing
        /\ \A j : OtherActive(j)' = OtherActive(j)
    BY <1>2, <2>1, RowsStay DEF Series
  <2> QED
    BY <1>2, <2>1, <2>2 DEF Series, Alone, ReadStands, Deactivates
<1> QED
  BY <1>7, <1>8, <1>9, <1>11, <1>12, <1>14, <1>15, <1>16, <1>17, <1>18 DEF Next

LEMMA SeriesInvariance == Spec => [](FiniteRows /\ InSeries)
<1>1. Init => FiniteRows /\ InSeries
  <2> SUFFICES ASSUME Init PROVE FiniteRows /\ Series
    BY DEF InSeries
  <2>1. /\ \A i \in Lang : lang[i].exists <=> i = First
        /\ lang[First].default /\ lang[First].active
        /\ \A r \in Request : req[r].pc = "idle"
    BY FirstIsLang DEF Init, Absent, Idle
  <2>2. Existing = {First}
    BY <2>1, FirstIsLang DEF Existing
  <2>3. FiniteRows
    BY <2>2, FS_Singleton DEF FiniteRows
  <2> QED
    BY <2>1, <2>2, <2>3 DEF Series, Alone, ReadStands, DefaultIsActive, Defaults, AnyActive
<1>2. TypeOK /\ (FiniteRows /\ InSeries) /\ [Next]_vars => (FiniteRows /\ InSeries)'
  BY RowsFinite, SeriesKept
<1> QED
  BY <1>1, <1>2, TypeCorrect, PTL DEF Spec

\* SetActiveAsync and UpdateAsync look at the default before they deactivate: as long as
\* no request has overlapped another, however many were cut short, a default is active.
THEOREM DefaultsActive == Spec => []DefaultIsActiveInSeries
<1>1. InSeries => DefaultIsActiveInSeries
  BY DEF InSeries, Series, DefaultIsActiveInSeries
<1> QED
  BY <1>1, SeriesInvariance, PTL

\* ActiveCountAsync guards every deactivation: as above, some language is active.
THEOREM SomeLanguageActive == Spec => []SomeActive
<1>1. FiniteRows /\ InSeries => SomeActive
  <2> SUFFICES ASSUME FiniteRows, Series PROVE ActiveCount >= 1
    BY DEF InSeries, SomeActive
  <2> DEFINE S == {j \in Existing : lang[j].active}
  <2>1. IsFiniteSet(S) /\ S # {}
    BY FS_Subset DEF FiniteRows, Series, AnyActive
  <2>2. Cardinality(S) \in Nat /\ Cardinality(S) # 0
    BY <2>1, FS_CardinalityType, FS_EmptySet
  <2> QED
    BY <2>2 DEF ActiveCount
<1> QED
  BY <1>1, SeriesInvariance, PTL
=============================================================================
