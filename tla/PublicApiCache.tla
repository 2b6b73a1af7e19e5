--------------------------- MODULE PublicApiCache ---------------------------
(***************************************************************************)
(* The public API's read-through caching: GET requests that miss read the  *)
(* item rows, then the field values, then what related items of other      *)
(* content types are displayed as, then put the response in the cache;     *)
(* POST, PUT and DELETE requests change the content statement by statement *)
(* and then invalidate the cached responses of their own content type, and *)
(* of no type that refers to it.  The admin panel changes the same content *)
(* and invalidates nothing.                                                *)
(*                                                                         *)
(* A content type's content is one record: the version of its item rows,   *)
(* the version of its field values (with all they are rendered with: the   *)
(* relations between its items, visible fields, paths of media files), and *)
(* whether some item is published and its title active.  Every statement   *)
(* of a write is a step, every call on the cache is a step, and requests   *)
(* interleave freely.                                                      *)
(***************************************************************************)
EXTENDS ResponseCache

CONSTANTS Refers,          \* [Type -> SUBSET Type]: the targets of visible relation fields
          Reader,          \* concurrent GET requests
          Writer,          \* concurrent POST, PUT and DELETE requests
          MaxWrites,       \* bound: writes started in a behaviour
          MaxPending,      \* bound: callbacks of a key the thread pool lags behind
          Overlap,         \* requests may run concurrently
          AdminWrites,     \* the admin panel is in use
          ForeignDeletes,  \* DELETE may name an item of another content type
          MayAbort         \* requests may be cancelled half way

ASSUME PublicApiAssumption ==
    /\ Type # {} /\ Query # {}
    /\ Refers \in [Type -> SUBSET Type]
    /\ MaxWrites \in Nat /\ MaxPending \in Nat
    /\ {Overlap, AdminWrites, ForeignDeletes, MayAbort} \subseteq BOOLEAN
    /\ NoEntry \notin [own : [rows : Nat, vals : Nat, visible : BOOLEAN],
                     displays : [Type -> Nat]]

VARIABLES content,  \* the database, by content type
          rd,       \* the local variables of the GET requests
          wr,       \* the local variables of the write requests
          writes,   \* writes started so far
          cause,    \* history: why the entry of a key may be stale
          late      \* history: keys that a callback of an older entry untracked

history == <<cause, late>>

vars == <<entry, tracked, callbacks, content, rd, wr, writes, cause, late>>

Content == [rows : Nat, vals : Nat, visible : BOOLEAN]

\* A response: what it shows of its type's content, and the version of what it shows
\* of each other type's items.
Response == [own : Content, displays : [Type -> Nat]]

\* race: the content changed while the response was being built;
\* untracked: an invalidation of its type did not find the key;
\* aborted: a write changed the content and ended before invalidating;
\* foreign: the item was deleted through another content type's endpoint;
\* admin: the content was changed in the admin panel;
\* related: an item of another type, which it refers to, was changed.
Cause == {"race", "untracked", "aborted", "foreign", "admin", "related"}

ReaderState == [pc : {"idle", "missed", "rows_read", "values_read", "built", "tracked"},
                key : Key,
                seen : Response,      \* the response built so far
                raced : BOOLEAN]      \* history: content changed since it was read

WriterState == [pc : {"idle", "row_saved", "values_saved", "saved", "removing", "removed"},
                type : Type,
                todo : SUBSET Key,    \* the keys RemoveByPrefix has yet to finish
                at : Key]             \* the key it is at

TypeOK ==
    /\ entry \in [Key -> Response \cup {NoEntry}]
    /\ tracked \subseteq Key
    /\ callbacks \in [Key -> Nat]
    /\ content \in [Type -> Content]
    /\ rd \in [Reader -> ReaderState]
    /\ wr \in [Writer -> WriterState]
    /\ writes \in Nat
    /\ cause \in [Key -> SUBSET Cause]
    /\ late \subseteq Key

NoContent == [rows |-> 0, vals |-> 0, visible |-> FALSE]
NoResponse == [own |-> NoContent, displays |-> [u \in Type |-> 0]]
AnyKey == CHOOSE k \in Key : TRUE
IdleReader == [pc |-> "idle", key |-> AnyKey, seen |-> NoResponse, raced |-> FALSE]
IdleWriter == [pc |-> "idle", type |-> KeyType(AnyKey), todo |-> {}, at |-> AnyKey]

Init ==
    /\ InitCache
    /\ rd = [r \in Reader |-> IdleReader]
    /\ wr = [w \in Writer |-> IdleWriter]
    /\ cause = [k \in Key |-> {}]
    /\ late = {}
    /\ content = [t \in Type |-> NoContent]
    /\ writes = 0

AllIdle == /\ \A r \in Reader : rd[r].pc = "idle"
           /\ \A w \in Writer : wr[w].pc = "idle"

\* A request may start; without Overlap, only when no other is under way.  Nothing
\* waits for the callbacks that the thread pool has yet to run.
MayStart == Overlap \/ AllIdle

-----------------------------------------------------------------------------
(* What a response shows of other types *)

\* Items of type t refer to items of the other type u, by a visible relation field.
RefersTo(t, u) == u # t /\ u \in Refers[t]

\* GetDisplayValuesAsync shows an item's display field or slug unless it is deleted:
\* every statement that changes rows or values of type u makes a new version of that.
\* Titles have no part in it.
DisplayVersion(c) == c.rows + c.vals

Displays(t) ==
    [u \in Type |-> IF RefersTo(t, u) THEN DisplayVersion(content[u]) ELSE 0]

-----------------------------------------------------------------------------
(* GET requests: GetListAsync, GetByIdAsync and GetBySlugAsync after ResolveAsync *)

ReaderGoes(r, step, seen) ==
    rd' = [rd EXCEPT ![r] = [pc |-> step, key |-> rd[r].key, seen |-> seen,
                             raced |-> rd[r].raced]]

ReaderEnds(r) == rd' = [rd EXCEPT ![r] = IdleReader]

\* TryGet finds nothing (a hit answers the request and changes nothing).
ReadMiss(r) ==
    /\ rd[r].pc = "idle" /\ MayStart
    /\ \E k \in Key :
          /\ ~Cached(k)
          /\ callbacks[k] < MaxPending
          /\ rd' = [rd EXCEPT ![r] = [pc |-> "missed", key |-> k, seen |-> NoResponse,
                                      raced |-> FALSE]]
    /\ UNCHANGED <<cacheVars, content, wr, writes, history>>

\* GetItemsAsync, GetItemByIdAsync or GetItemBySlugAsync.  An empty list needs no
\* values; a single item that is not visible is NotFound and is not cached.
ReadRows(r) ==
    /\ rd[r].pc = "missed"
    /\ LET c == content[KeyType(rd[r].key)] IN
          \/ c.visible
             /\ ReaderGoes(r, "rows_read",
                           [NoResponse EXCEPT !.own = [rows |-> c.rows, vals |-> 0,
                                                       visible |-> TRUE]])
          \/ ~c.visible /\ KeyQuery(rd[r].key) = "list" /\ ReaderGoes(r, "built", NoResponse)
          \/ ~c.visible /\ KeyQuery(rd[r].key) # "list" /\ ReaderEnds(r)
    /\ UNCHANGED <<cacheVars, content, wr, writes, history>>

\* BuildItemsAsync reads the values and the relations of the items found before.
ReadValues(r) ==
    /\ rd[r].pc = "rows_read"
    /\ ReaderGoes(r, "values_read",
                  [rd[r].seen EXCEPT !.own.vals = content[KeyType(rd[r].key)].vals])
    /\ UNCHANGED <<cacheVars, content, wr, writes, history>>

\* LoadRelationsAsync asks what the related items of other types are displayed as.
ReadDisplays(r) ==
    /\ rd[r].pc = "values_read"
    /\ ReaderGoes(r, "built", [rd[r].seen EXCEPT !.displays = Displays(KeyType(rd[r].key))])
    /\ UNCHANGED <<cacheVars, content, wr, writes, history>>

SetTrack(r) ==
    /\ rd[r].pc = "built"
    /\ TrackKey(rd[r].key)
    /\ ReaderGoes(r, "tracked", rd[r].seen)
    /\ late' = late \ {rd[r].key}
    /\ UNCHANGED <<content, wr, writes, cause>>

SetCommit(r) ==
    /\ rd[r].pc = "tracked"
    /\ CommitEntry(rd[r].key, rd[r].seen)
    /\ cause' = [cause EXCEPT ![rd[r].key] = IF rd[r].raced THEN {"race"} ELSE {}]
    /\ ReaderEnds(r)
    /\ UNCHANGED <<content, wr, writes, late>>

-----------------------------------------------------------------------------
(* Content changes *)

\* An entry that goes takes its history along.
Forget(k) == cause' = [cause EXCEPT ![k] = {}]

\* Content c of type u is displayed differently in the responses of type t.
DisplayChanges(t, u, c) == RefersTo(t, u) /\ DisplayVersion(c) # DisplayVersion(content[u])

\* A statement gives type u the content c: responses being built that have read what
\* it changes are raced.  `why` is recorded for the cached ones of type u when no
\* invalidation is to follow; none follows for the types that refer to u.
Change(u, c, why) ==
    /\ content' = [content EXCEPT ![u] = c]
    /\ rd' = [r \in Reader |->
                 [pc |-> rd[r].pc, key |-> rd[r].key, seen |-> rd[r].seen,
                  raced |->
                     \/ rd[r].raced
                     \/ rd[r].pc \notin {"idle", "missed"} /\ KeyType(rd[r].key) = u
                     \/ rd[r].pc \in {"built", "tracked"}
                        /\ DisplayChanges(KeyType(rd[r].key), u, c)]]
    /\ cause' = [k \in Key |->
                    IF Cached(k)
                    THEN cause[k] \cup (IF KeyType(k) = u THEN why ELSE {})
                                  \cup (IF DisplayChanges(KeyType(k), u, c) THEN {"related"}
                                        ELSE {})
                    ELSE cause[k]]
    /\ UNCHANGED late

\* A write may still start.
StartWrite == writes < MaxWrites /\ writes' = writes + 1

NewRows(t, visible) == [rows |-> content[t].rows + 1, vals |-> content[t].vals,
                        visible |-> visible]
NewValues(t) == [rows |-> content[t].rows, vals |-> content[t].vals + 1,
                 visible |-> content[t].visible]
NewTitle(t, visible) == [rows |-> content[t].rows, vals |-> content[t].vals,
                         visible |-> visible]

WriterGoes(w, step, t, todo, k) ==
    wr' = [wr EXCEPT ![w] = [pc |-> step, type |-> t, todo |-> todo, at |-> k]]

\* CreateAsync and UpdateAsync: InsertItemAsync or UpdateItemAsync.
SaveItem(w) ==
    /\ wr[w].pc = "idle" /\ MayStart /\ StartWrite
    /\ \E t \in Type, v \in BOOLEAN :
          /\ Change(t, NewRows(t, v), {})
          /\ WriterGoes(w, "row_saved", t, {}, AnyKey)
    /\ UNCHANGED cacheVars

\* SaveValuesAsync, and ReplaceRelationsAsync for each relation field.
SaveValues(w) ==
    /\ wr[w].pc = "row_saved"
    /\ LET t == wr[w].type IN
          /\ Change(t, NewValues(t), {})
          /\ WriterGoes(w, "values_saved", t, {}, AnyKey)
    /\ UNCHANGED <<cacheVars, writes>>

\* SaveTitleAsync, when the request has a title; it may (de)activate the item.
SaveTitle(w) ==
    /\ wr[w].pc = "values_saved"
    /\ LET t == wr[w].type IN
          /\ \/ \E v \in BOOLEAN : Change(t, NewTitle(t, v), {})
             \/ UNCHANGED <<content, rd, history>>
          /\ WriterGoes(w, "saved", t, {}, AnyKey)
    /\ UNCHANGED <<cacheVars, writes>>

\* DeleteAsync for endpoint t: the item it deletes may be of another type u,
\* since SoftDeleteItemAsync looks at the tenant and the id only.  The type may
\* have other items that stay visible.
DeleteItem(w) ==
    /\ wr[w].pc = "idle" /\ MayStart /\ StartWrite
    /\ \E t \in Type, u \in Type : \E v \in {FALSE, content[u].visible} :
          /\ u = t \/ ForeignDeletes
          /\ content[u].rows > 0
          /\ Change(u, NewRows(u, v), IF u = t THEN {} ELSE {"foreign"})
          /\ WriterGoes(w, "saved", t, {}, AnyKey)
    /\ UNCHANGED cacheVars

-----------------------------------------------------------------------------
(* InvalidateCache, after the last statement *)

\* Variant: InvalidateCache is forgotten.
InvalidateStart_Skipped(w) ==
    /\ wr[w].pc = "saved"
    /\ WriterGoes(w, "removing", wr[w].type, {}, AnyKey)
    /\ UNCHANGED <<cacheVars, content, rd, writes, history>>

\* RemoveByPrefix takes the keys to visit.
InvalidateStart(w) ==
    /\ wr[w].pc = "saved"
    /\ LET t == wr[w].type IN
          /\ WriterGoes(w, "removing", t, KeysToRemove(t), AnyKey)
          /\ cause' = [k \in Key |-> IF Cached(k) /\ KeyType(k) = t /\ k \notin tracked
                                       THEN cause[k] \cup {"untracked"} ELSE cause[k]]
    /\ UNCHANGED <<cacheVars, content, rd, writes, late>>

InvalidateRemove(w) ==
    /\ wr[w].pc = "removing"
    /\ \E k \in wr[w].todo :
          /\ RemoveEntry(k)
          /\ Forget(k)
          /\ WriterGoes(w, "removed", wr[w].type, wr[w].todo, k)
    /\ UNCHANGED <<content, rd, writes, late>>

InvalidateUntrack(w) ==
    /\ wr[w].pc = "removed"
    /\ UntrackKey(wr[w].at)
    /\ WriterGoes(w, "removing", wr[w].type, wr[w].todo \ {wr[w].at}, AnyKey)
    /\ UNCHANGED <<content, rd, writes, history>>

InvalidateEnd(w) ==
    /\ wr[w].pc = "removing"
    /\ wr[w].todo = {}
    /\ wr' = [wr EXCEPT ![w] = IdleWriter]
    /\ UNCHANGED <<cacheVars, content, rd, writes, history>>

-----------------------------------------------------------------------------
(* The rest of the world *)

\* The admin panel changes rows, values or titles, or what values are rendered with
\* (media files, visible fields and their aliases); no cache is involved.
AdminWrite ==
    /\ AdminWrites /\ StartWrite
    /\ \E t \in Type, v \in BOOLEAN :
          \/ Change(t, NewRows(t, v), {"admin"})
          \/ Change(t, NewValues(t), {"admin"})
          \/ Change(t, NewTitle(t, v), {"admin"})
    /\ UNCHANGED <<cacheVars, wr>>

ExpireEntry(k) ==
    /\ Expire(k)
    /\ Forget(k)
    /\ UNCHANGED <<content, rd, wr, writes, late>>

\* A newer entry of k is cached, or Set has recorded its key and is about to commit it.
InUse(k) == Cached(k) \/ \E r \in Reader : rd[r].pc = "tracked" /\ rd[r].key = k

EvictionCallback(k) ==
    /\ RunCallback(k)
    /\ late' = IF InUse(k) THEN late \cup {k} ELSE late
    /\ UNCHANGED <<content, rd, wr, writes, cause>>

\* A request is cancelled, or fails, at one of its awaits.
AbortRead(r) ==
    /\ MayAbort
    /\ rd[r].pc \in {"missed", "rows_read", "values_read"}
    /\ ReaderEnds(r)
    /\ UNCHANGED <<cacheVars, content, wr, writes, history>>

AbortWrite(w) ==
    /\ MayAbort
    /\ wr[w].pc \in {"row_saved", "values_saved", "saved"}
    /\ wr' = [wr EXCEPT ![w] = IdleWriter]
    /\ cause' = [k \in Key |-> IF Cached(k) /\ KeyType(k) = wr[w].type
                                 THEN cause[k] \cup {"aborted"} ELSE cause[k]]
    /\ UNCHANGED <<cacheVars, content, rd, writes, late>>

\* The process restarts: the database stays, everything in memory starts over.
Restart ==
    /\ MayAbort
    /\ ~AllIdle
    /\ entry' = [k \in Key |-> NoEntry]
    /\ tracked' = {}
    /\ callbacks' = [k \in Key |-> 0]
    /\ rd' = [r \in Reader |-> IdleReader]
    /\ wr' = [w \in Writer |-> IdleWriter]
    /\ cause' = [k \in Key |-> {}]
    /\ late' = {}
    /\ UNCHANGED <<content, writes>>

-----------------------------------------------------------------------------

ReadStep(r) ==
    ReadRows(r) \/ ReadValues(r) \/ ReadDisplays(r) \/ SetTrack(r) \/ SetCommit(r)

WriteStep(w) ==
    \/ SaveValues(w)       \/ SaveTitle(w)
    \/ InvalidateStart(w)  \/ InvalidateRemove(w)
    \/ InvalidateUntrack(w) \/ InvalidateEnd(w)

Next ==
    \/ \E r \in Reader : ReadMiss(r) \/ ReadStep(r) \/ AbortRead(r)
    \/ \E w \in Writer : SaveItem(w) \/ DeleteItem(w) \/ WriteStep(w) \/ AbortWrite(w)
    \/ \E k \in Key : ExpireEntry(k) \/ EvictionCallback(k)
    \/ AdminWrite
    \/ Restart

Spec == Init /\ [][Next]_vars

\* A request that has started is scheduled until it answers, time passes, and the
\* thread pool runs what is queued on it; nobody has to send another request.
Fairness ==
    /\ \A r \in Reader : WF_vars(ReadStep(r))
    /\ \A w \in Writer : WF_vars(WriteStep(w))
    /\ \A k \in Key : WF_vars(ExpireEntry(k)) /\ WF_vars(EvictionCallback(k))

FairSpec == Spec /\ Fairness

-----------------------------------------------------------------------------
(* Properties *)

\* What a client is shown of a content record: nothing of an item not visible.
Shown(c) == IF c.visible THEN c ELSE NoContent

\* A cached response differs from the database in what it shows of its own type's
\* items, or of the items of other types that they refer to.
OwnStale(k) == Cached(k) /\ Shown(entry[k].own) # Shown(content[KeyType(k)])
RelatedStale(k) ==
    Cached(k) /\ entry[k].own.visible /\ entry[k].displays # Displays(KeyType(k))
Stale(k) == OwnStale(k) \/ RelatedStale(k)

\* Writer w has changed the content of k's type, or is about to finish doing so,
\* and its invalidation has yet to reach k.
InvalidationDue(w, k) ==
    /\ wr[w].type = KeyType(k)
    /\ \/ wr[w].pc \in {"row_saved", "values_saved", "saved"}
       \/ wr[w].pc \in {"removing", "removed"} /\ k \in wr[w].todo
          /\ ~(wr[w].pc = "removed" /\ wr[w].at = k)

\* A cached response differs from its own type's content only while a write that will
\* remove it is under way, or for one of five causes: it was built across a change, its
\* key was not tracked, the write was cut short, or the change came from elsewhere (the
\* admin panel, another type's endpoint).  It differs in what it shows of other types
\* only if it was built across a change there, or one of their items was changed since.
\* Nothing else in the order of statements, of Set and of RemoveByPrefix lets a
\* response go stale.
StaleHasCause ==
    \A k \in Key :
       /\ OwnStale(k) => \/ cause[k] \ {"related"} # {}
                         \/ \E w \in Writer : InvalidationDue(w, k)
       /\ RelatedStale(k) => cause[k] \cap {"race", "related"} # {}

\* docs/api-design.md: the cache is invalidated when content is written via the
\* API.  Once no request is under way, no cached response differs from the database.
NoStaleAfterWrite == AllIdle => \A k \in Key : ~Stale(k)

\* What RemoveByPrefix does achieve for requests one after the other: once none is
\* under way, a cached response shows its own type's content as it is, unless a
\* callback of an older entry had untracked its key.
OwnContentCurrent == AllIdle => \A k \in Key : OwnStale(k) => k \in late

\* The comment on MemoryResponseCache: it tracks the active keys, so that RemoveByPrefix
\* can remove their entries.  For requests one after the other, a callback that the
\* thread pool ran late is all that can untrack a key with an entry: neither
\* RemoveByPrefix, which removes and untracks in two steps, nor Set, which tracks and
\* commits in two, leaves one behind.
UntrackedByLateCallback == \A k \in Key : Cached(k) => k \in tracked \/ k \in late

\* However a response went stale, its lifetime ends: when writes cease, the
\* cache agrees with the database from some moment on.
EventuallyCurrent == <>[](\A k \in Key : ~Stale(k))
=============================================================================
