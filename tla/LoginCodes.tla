----------------------------- MODULE LoginCodes -----------------------------
(***************************************************************************)
(* The e-mailed login codes of one identity (e-mail address, tenant type   *)
(* and tenant): LoginCodeService over the login_codes table.  Every        *)
(* statement is a step of its own, none runs in a transaction, and a user  *)
(* may have several tabs or devices sending and entering codes at once.    *)
(* The digits of a code do not matter, only whether the right ones have    *)
(* been typed.                                                             *)
(***************************************************************************)
EXTENDS Naturals, FiniteSets

CONSTANTS CodeId,       \* the ids the IDENTITY column gives out, in their order
          Request,      \* concurrent requests
          NoCode,       \* the id an idle request holds
          MaxAttempts,  \* settings.MaxAttempts
          MayAbort      \* whether requests may end half way

ASSUME LoginCodeAssumption ==
    /\ CodeId \subseteq Nat
    /\ NoCode \notin CodeId
    /\ IsFiniteSet(Request)
    /\ MaxAttempts \in Nat \ {0}
    /\ MayAbort \in BOOLEAN

VARIABLES code,      \* login_codes, by id
          logins,    \* how many verifications each code has made succeed
          req,       \* the local variables of each request
          disturbed  \* history: requests have overlapped, or one was cut short

vars == <<code, logins, req, disturbed>>

\* "replaced" rows were deleted by UpsertAsync, "rejected" ones by DeleteByEmailAsync.
Code == [state : {"none", "unused", "used", "replaced", "rejected"},
         attempts : Nat,
         expired : BOOLEAN]

RequestState == [pc : {"idle", "inserting", "mailing", "checking", "rejecting", "counting",
                       "accepting"},
                 id : CodeId \cup {NoCode},  \* record.Id, or the code just inserted
                 attempts : Nat]             \* record.Attempts

TypeOK ==
    /\ code \in [CodeId -> Code]
    /\ logins \in [CodeId -> Nat]
    /\ req \in [Request -> RequestState]
    /\ disturbed \in BOOLEAN

Idle == [pc |-> "idle", id |-> NoCode, attempts |-> 0]

Init ==
    /\ code = [i \in CodeId |->
                 [state |-> "none", attempts |-> 0, expired |-> FALSE]]
    /\ logins = [i \in CodeId |-> 0]
    /\ req = [r \in Request |-> Idle]
    /\ disturbed = FALSE

Unused(i) == code[i].state = "unused"

\* GetActiveAsync: the unused row created last.
GetActive(i) == Unused(i) /\ \A j \in CodeId : Unused(j) => j <= i

\* The id the next INSERT takes.
NextId(i) ==
    /\ code[i].state = "none"
    /\ \A j \in CodeId : code[j].state = "none" => i <= j

\* DELETE ... WHERE used_at IS NULL, for all codes of the identity.
DeleteUnused(as) ==
    code' = [i \in CodeId |-> IF Unused(i) THEN [code[i] EXCEPT !.state = as] ELSE code[i]]

Begin(r, step, i, n) == req' = [req EXCEPT ![r] = [pc |-> step, id |-> i, attempts |-> n]]

Continue(r, step) ==
    req' = [req EXCEPT ![r] = [pc |-> step, id |-> req[r].id, attempts |-> req[r].attempts]]

Finish(r) == req' = [req EXCEPT ![r] = Idle]

\* The history: two requests under way at once.
Watch ==
    disturbed' = (disturbed \/ \E q, r \in Request :
                                  q # r /\ req'[q].pc # "idle" /\ req'[r].pc # "idle")

-----------------------------------------------------------------------------
(* SendCodeAsync *)

\* Variant: UpsertAsync inserts only.
SendDelete_Dropped(r) ==
    /\ req[r].pc = "idle"
    /\ Begin(r, "inserting", NoCode, 0)
    /\ UNCHANGED <<code, logins>>

\* UpsertAsync, first statement.
SendDelete(r) ==
    /\ req[r].pc = "idle"
    /\ DeleteUnused("replaced")
    /\ Begin(r, "inserting", NoCode, 0)
    /\ UNCHANGED logins

\* UpsertAsync, second statement: a random code, no attempts.
SendInsert(r) ==
    /\ req[r].pc = "inserting"
    /\ \E i \in CodeId :
          /\ NextId(i)
          /\ code' = [code EXCEPT ![i] = [state |-> "unused", attempts |-> 0,
                                          expired |-> FALSE]]
          /\ Begin(r, "mailing", i, 0)
    /\ UNCHANGED logins

\* The mail server takes the mail, or Login reports that it did not.
SendMail(r) ==
    /\ req[r].pc = "mailing"
    /\ Finish(r)
    /\ UNCHANGED <<code, logins>>

-----------------------------------------------------------------------------
(* VerifyAsync *)

\* GetActiveAsync returns the record; without one the answer is NotFound.
VerifyRead(r) ==
    /\ req[r].pc = "idle"
    /\ \E i \in CodeId :
          /\ GetActive(i)
          /\ Begin(r, "checking", i, code[i].attempts)
    /\ UNCHANGED <<code, logins>>

\* Variant: the attempts of the record are not looked at.
VerifyCheck_NoLimit(r) ==
    /\ req[r].pc = "checking"
    /\ \/ code[req[r].id].expired /\ Continue(r, "rejecting")
       \/ ~code[req[r].id].expired /\ (Continue(r, "counting") \/ Continue(r, "accepting"))
    /\ UNCHANGED <<code, logins>>

\* Variant: one attempt more than the limit is allowed.
VerifyCheck_OffByOne(r) ==
    /\ req[r].pc = "checking"
    /\ LET refused == code[req[r].id].expired \/ req[r].attempts > MaxAttempts
       IN \/ refused /\ Continue(r, "rejecting")
          \/ ~refused /\ (Continue(r, "counting") \/ Continue(r, "accepting"))
    /\ UNCHANGED <<code, logins>>

\* Variant: the attempt under way is counted before it is made.
VerifyCheck_Early(r) ==
    /\ req[r].pc = "checking"
    /\ LET refused == code[req[r].id].expired \/ req[r].attempts + 1 >= MaxAttempts
       IN \/ refused /\ Continue(r, "rejecting")
          \/ ~refused /\ (Continue(r, "counting") \/ Continue(r, "accepting"))
    /\ UNCHANGED <<code, logins>>

\* The comparisons on the record read before: its expiry with the clock, its
\* attempts with the limit, and its code with what was typed, which may be wrong
\* or right.
VerifyCheck(r) ==
    /\ req[r].pc = "checking"
    /\ LET refused == code[req[r].id].expired \/ req[r].attempts >= MaxAttempts
       IN \/ refused /\ Continue(r, "rejecting")
          \/ ~refused /\ Continue(r, "counting")
          \/ ~refused /\ Continue(r, "accepting")
    /\ UNCHANGED <<code, logins>>

\* Variant: refused codes stay in the table in a state of their own.
VerifyReject_Kept(r) ==
    /\ req[r].pc = "rejecting"
    /\ DeleteUnused("refused")
    /\ Finish(r)
    /\ UNCHANGED logins

\* DeleteByEmailAsync: not the record's row but every unused one.
VerifyReject(r) ==
    /\ req[r].pc = "rejecting"
    /\ DeleteUnused("rejected")
    /\ Finish(r)
    /\ UNCHANGED logins

\* IncrementAttemptsAsync, WHERE id = @Id.
VerifyCount(r) ==
    /\ req[r].pc = "counting"
    /\ LET i == req[r].id IN
          code' = IF code[i].state \in {"unused", "used"}
                    THEN [code EXCEPT ![i].attempts = @ + 1] ELSE code
    /\ Finish(r)
    /\ UNCHANGED logins

\* Variant: the code is not marked.
VerifyAccept_Unmarked(r) ==
    /\ req[r].pc = "accepting"
    /\ logins' = [logins EXCEPT ![req[r].id] = @ + 1]
    /\ Finish(r)
    /\ UNCHANGED code

\* MarkUsedAsync, WHERE id = @Id AND used_at IS NULL; its result is not looked at.
VerifyAccept(r) ==
    /\ req[r].pc = "accepting"
    /\ LET i == req[r].id IN
          /\ code' = IF Unused(i) THEN [code EXCEPT ![i].state = "used"] ELSE code
          /\ logins' = [logins EXCEPT ![i] = @ + 1]
    /\ Finish(r)

-----------------------------------------------------------------------------

\* expires_at passes; of the codes nobody will read again it makes no difference.
Expire(i) ==
    /\ ~code[i].expired
    /\ Unused(i) \/ \E r \in Request : req[r].id = i
    /\ code' = [code EXCEPT ![i].expired = TRUE]
    /\ UNCHANGED <<logins, req>>

\* The request is cancelled, a statement fails or the mail server refuses.
Abort(r) ==
    /\ MayAbort
    /\ req[r].pc # "idle"
    /\ Finish(r)
    /\ UNCHANGED <<code, logins>>

Next ==
    \/ /\ \E r \in Request :
             \/ SendDelete(r)   \/ SendInsert(r)  \/ SendMail(r)
             \/ VerifyRead(r)   \/ VerifyCheck(r) \/ VerifyReject(r)
             \/ VerifyCount(r)  \/ VerifyAccept(r)
       /\ Watch
    \/ (\E i \in CodeId : Expire(i)) /\ UNCHANGED disturbed
    \/ (\E r \in Request : Abort(r)) /\ disturbed' = TRUE

Spec == Init /\ [][Next]_vars

-----------------------------------------------------------------------------
(* Properties *)

\* The attempts counter is read before it is raised, so overlapping attempts can
\* exceed MaxAttempts, but by no more than the other requests under way: with
\* one request at a time the limit is exact.
AttemptsBounded ==
    \A i \in CodeId : code[i].attempts <= MaxAttempts + Cardinality(Request) - 1

\* A code signs in no more often than there are requests under way when it is
\* first accepted: with one at a time, once.
LoginsBounded == \A i \in CodeId : logins[i] <= Cardinality(Request)

\* The comment in UpsertAsync: existing unused codes of the identity are deleted
\* first, then a fresh one is inserted; so there is at most one.  DELETE and INSERT
\* are two statements: it holds as long as no request has overlapped another.
AtMostOneUnused ==
    ~disturbed => \A i, j \in CodeId : Unused(i) /\ Unused(j) => i = j

Rejected(i) == code[i].state = "rejected"

\* The mail says for how many minutes the code is valid.  A code is deleted by a
\* verification only when it has expired or its attempts are used up.
RejectedForCause ==
    \A i \in CodeId : Rejected(i) => code[i].expired \/ code[i].attempts >= MaxAttempts

\* VerifyAsync deletes whatever code the identity has by then, so it holds as long
\* as no request has overlapped another.
RejectedForCauseInSeries == ~disturbed => RejectedForCause

\* A code that has been replaced or rejected signs nobody in, before or after, and
\* a code signs in once: as long as no request has overlapped another.
OnlyUsedCodesSignIn ==
    ~disturbed =>
       \A i \in CodeId : logins[i] <= 1 /\ (logins[i] = 1 => code[i].state = "used")

\* With one request at a time the limit is exact.
AttemptsLimited == ~disturbed => \A i \in CodeId : code[i].attempts <= MaxAttempts
=============================================================================
