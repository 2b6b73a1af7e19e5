----------------------------- MODULE Languages -----------------------------
(***************************************************************************)
(* The languages of one tenant: LanguageService's checks over the          *)
(* languages table, and the transactions of LanguageRepository that keep   *)
(* one default.  A check reads committed rows in statements of its own;    *)
(* nothing ties it to the write that follows.  Names, flags and codes are  *)
(* left out (a unique index keeps the codes apart, LanguageRepository      *)
(* never deletes a row).                                                   *)
(***************************************************************************)
EXTENDS Naturals, FiniteSets

CONSTANTS Lang,     \* the ids the IDENTITY column gives out, in their order
          Request,  \* concurrent requests
          NoLang,   \* the id an idle request holds
          MayAbort  \* whether requests may end half way

ASSUME LanguageAssumption ==
    /\ Lang \subseteq Nat
    /\ NoLang \in Nat \ Lang
    /\ \A i \in Lang : NoLang < i
    /\ Lang # {}
    /\ Request # {} /\ IsFiniteSet(Request)
    /\ MayAbort \in BOOLEAN

VARIABLES lang,      \* the committed rows of languages, by id
          req,       \* the local variables of each request, and its transaction
          disturbed  \* history: requests have overlapped

vars == <<lang, req, disturbed>>

Row == [exists : BOOLEAN, default : BOOLEAN, active : BOOLEAN]

RequestState == [pc      : {"idle", "counting", "clearing", "writing"},
                 op      : {"create", "update", "set"},
                 id      : Lang \cup {NoLang},
                 default : BOOLEAN,                 \* request.IsDefault
                 active  : BOOLEAN,                 \* request.IsActive
                 scanned : Lang \cup {NoLang},      \* the last row ClearDefaultsAsync has passed
                 locked  : SUBSET Lang]             \* the rows it has cleared

TypeOK ==
    /\ lang \in [Lang -> Row]
    /\ req \in [Request -> RequestState]
    /\ disturbed \in BOOLEAN

Idle == [pc |-> "idle", op |-> "set", id |-> NoLang, default |-> FALSE, active |-> FALSE,
         scanned |-> NoLang, locked |-> {}]

Absent == [exists |-> FALSE, default |-> FALSE, active |-> FALSE]

First == CHOOSE i \in Lang : \A j \in Lang : i <= j

\* ProvisionAsync gives a new tenant one language, default and active.
Init ==
    /\ lang = [i \in Lang |->
                 IF i = First THEN [exists |-> TRUE, default |-> TRUE, active |-> TRUE]
                              ELSE Absent]
    /\ req = [r \in Request |-> Idle]
    /\ disturbed = FALSE

Existing == {i \in Lang : lang[i].exists}

\* The id the next INSERT takes.
NextId(i) == i \notin Existing /\ \A j \in Lang \ Existing : i <= j

ActiveCount == Cardinality({i \in Existing : lang[i].active})

\* A cleared row stays exclusively locked until its transaction ends.
LockedByOther(r, i) == \E q \in Request \ {r} : i \in req[q].locked

Begin(r, step, what, i, d, a) ==
    req' = [req EXCEPT ![r] = [pc |-> step, op |-> what, id |-> i, default |-> d, active |-> a,
                               scanned |-> NoLang, locked |-> {}]]

Continue(r, step) == req' = [req EXCEPT ![r].pc = step]

Finish(r) == req' = [req EXCEPT ![r] = Idle]

\* The history: two requests under way at once.
Watch ==
    disturbed' = (disturbed \/ \E q, r \in Request :
                                  q # r /\ req'[q].pc # "idle" /\ req'[r].pc # "idle")

-----------------------------------------------------------------------------
(* LanguageService: what each request reads and checks first *)

\* CodeExistsAsync finds no such code.
Create(r) ==
    /\ req[r].pc = "idle"
    /\ \E d, a \in BOOLEAN :
          Begin(r, IF d THEN "clearing" ELSE "writing", "create", NoLang, d, a)
    /\ UNCHANGED lang

\* Variant: ActiveCountAsync is not called.
UpdateRead_Uncounted(r) ==
    /\ req[r].pc = "idle"
    /\ \E i \in Existing, d, a \in BOOLEAN :
          /\ ~a /\ ~d => ~lang[i].default
          /\ Begin(r, IF d THEN "clearing" ELSE "writing", "update", i, d, a)
    /\ UNCHANGED lang

\* GetByIdAsync; a default language is refused when neither box is ticked.
UpdateRead(r) ==
    /\ req[r].pc = "idle"
    /\ \E i \in Existing, d, a \in BOOLEAN :
          LET deactivates == ~a /\ ~d
          IN /\ ~(deactivates /\ lang[i].default)
             /\ Begin(r, IF d THEN "clearing"
                         ELSE IF deactivates /\ lang[i].active THEN "counting"
                         ELSE "writing", "update", i, d, a)
    /\ UNCHANGED lang

\* GetByIdAsync; a default language is not deactivated.
SetActiveRead(r) ==
    /\ req[r].pc = "idle"
    /\ \E i \in Existing, a \in BOOLEAN :
          /\ ~(~a /\ lang[i].default)
          /\ Begin(r, IF a THEN "writing" ELSE "counting", "set", i, FALSE, a)
    /\ UNCHANGED lang

\* Variant: a refused request goes on.
CheckActiveCount_Refused(r) ==
    /\ req[r].pc = "counting"
    /\ Continue(r, IF ActiveCount <= 1 THEN "refused" ELSE "writing")
    /\ UNCHANGED lang

\* ActiveCountAsync() <= 1 refuses the deactivation.
CheckActiveCount(r) ==
    /\ req[r].pc = "counting"
    /\ IF ActiveCount <= 1 THEN Finish(r) ELSE Continue(r, "writing")
    /\ UNCHANGED lang

-----------------------------------------------------------------------------
(* LanguageRepository: the transactions *)

\* Variant: defaults are not cleared.
ClearDefaults_Skipped(r) ==
    /\ req[r].pc = "clearing"
    /\ Continue(r, "writing")
    /\ UNCHANGED lang

\* ClearDefaultsAsync goes through the rows in the order of their ids, waits for
\* one that another transaction has locked, and clears and locks the defaults.
ClearDefaults(r) ==
    /\ req[r].pc = "clearing"
    /\ LET rest == {i \in Existing : i > req[r].scanned}
       IN \/ /\ rest = {}
             /\ Continue(r, "writing")
          \/ \E i \in rest :
                /\ \A j \in rest : i <= j
                /\ ~LockedByOther(r, i)
                /\ req' = [req EXCEPT ![r].scanned = i,
                                      ![r].locked = IF lang[i].default THEN @ \cup {i} ELSE @]
    /\ UNCHANGED lang

\* The committed rows after a transaction of r writes row i.
Written(r, i, row) ==
    [j \in Lang |-> IF j = i THEN row
                    ELSE IF j \in req[r].locked THEN [lang[j] EXCEPT !.default = FALSE]
                    ELSE lang[j]]

\* Variant: is_active is taken as it was asked for.
NewRow_AsAsked(r) == [exists |-> TRUE, default |-> req[r].default, active |-> req[r].active]

\* is_active = IsDefault || IsActive.
NewRow(r) ==
    [exists |-> TRUE, default |-> req[r].default, active |-> req[r].default \/ req[r].active]

\* CreateAsync: INSERT and commit.
InsertRow(r) ==
    /\ req[r].pc = "writing" /\ req[r].op = "create"
    /\ \E i \in Lang : NextId(i) /\ lang' = Written(r, i, NewRow(r))
    /\ Finish(r)

\* UpdateAsync: UPDATE, once no other transaction holds the row, and commit.
UpdateRow(r) ==
    /\ req[r].pc = "writing" /\ req[r].op = "update"
    /\ ~LockedByOther(r, req[r].id)
    /\ lang' = Written(r, req[r].id, NewRow(r))
    /\ Finish(r)

\* SetActiveAsync: a statement of its own, whatever the row has become.
SetActiveRow(r) ==
    /\ req[r].pc = "writing" /\ req[r].op = "set"
    /\ ~LockedByOther(r, req[r].id)
    /\ lang' = [lang EXCEPT ![req[r].id].active = req[r].active]
    /\ Finish(r)

\* The request is cancelled, or its transaction rolled back as a deadlock victim.
Abort(r) ==
    /\ MayAbort
    /\ req[r].pc # "idle"
    /\ Finish(r)
    /\ UNCHANGED lang

Next ==
    /\ \E r \in Request :
          \/ Create(r)    \/ UpdateRead(r)    \/ SetActiveRead(r) \/ CheckActiveCount(r)
          \/ ClearDefaults(r)
          \/ InsertRow(r) \/ UpdateRow(r)     \/ SetActiveRow(r)
          \/ Abort(r)
    /\ Watch

Spec == Init /\ [][Next]_vars

-----------------------------------------------------------------------------
(* Properties *)

Defaults == {i \in Existing : lang[i].default}

\* ClearDefaultsAsync runs before a default is written, but a transaction does not
\* see what overlapping ones are about to write: there are no more defaults than
\* requests under way, so with one at a time there is one at most.
DefaultsBounded == Cardinality(Defaults) <= Cardinality(Request)

\* The comment in CreateAsync and UpdateAsync: a default language must be active.
\* TenantStore takes no notice of one that is not and answers with 'tr'.
DefaultIsActive == \A i \in Defaults : lang[i].active

\* SetActiveAsync looks at the default before it writes: it holds as long as no
\* request has overlapped another, even if some were cut short.
DefaultIsActiveInSeries == ~disturbed => DefaultIsActive

\* The comment in UpdateAsync: deactivating must leave at least one active language.
\* The count and the update are separate statements: as above.
SomeActive == ~disturbed => ActiveCount >= 1
=============================================================================
