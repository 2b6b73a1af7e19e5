----------------------- MODULE PublicApiCacheProofs -----------------------
(***************************************************************************)
(* Proofs about PublicApiCache, for any number of content types, queries,  *)
(* readers and writers and for every setting of the switches: the types,   *)
(* that a cached response never differs from the database without one of   *)
(* the causes StaleHasCause names, and, for requests one after the other,  *)
(* that only a late callback leaves a cached key untracked and that cached *)
(* responses are otherwise as new as their own type's content.             *)
(*                                                                         *)
(* StaleHasCause says nothing of the responses still being built, and a    *)
(* response is put in the cache as it was built.  What makes it inductive  *)
(* is FillsCurrent: a response that no change has raced is what the        *)
(* database holds, as far as it has been read.                             *)
(***************************************************************************)
EXTENDS PublicApiCache, TLAPS

CacheTyped ==
    /\ entry \in [Key -> Response \cup {NoEntry}]
    /\ tracked \subseteq Key
    /\ callbacks \in [Key -> Nat]

\* What reader r has read and no change has raced is what the database holds.
FillCurrent(r) ==
    LET c == content[KeyType(rd[r].key)] IN
    ~rd[r].raced =>
       /\ rd[r].pc = "rows_read" =>
             c.visible /\ rd[r].seen.own.visible /\ rd[r].seen.own.rows = c.rows
       /\ rd[r].pc = "values_read" => rd[r].seen.own = c
       /\ rd[r].pc \in {"built", "tracked"} =>
             /\ Shown(rd[r].seen.own) = Shown(c)
             /\ rd[r].seen.own.visible => rd[r].seen.displays = Displays(KeyType(rd[r].key))

FillsCurrent == \A r \in Reader : FillCurrent(r)

IInv == TypeOK /\ FillsCurrent /\ StaleHasCause

-----------------------------------------------------------------------------
(* Keys and idle requests are well typed *)

\* A key names a content type.
LEMMA KeyTypes == \A k \in Key : KeyType(k) \in Type
  BY DEF Key, KeyType

\* The values an idle request holds belong to their types.
LEMMA IdleTypes ==
  AnyKey \in Key /\ NoContent \in Content /\ NoResponse \in Response
  /\ IdleReader \in ReaderState /\ IdleWriter \in WriterState
<1>1. AnyKey \in Key
  <2>1. \E k \in Key : TRUE
    <3>1. PICK t \in Type : TRUE
      BY PublicApiAssumption
    <3>2. PICK q \in Query : TRUE
      BY PublicApiAssumption
    <3>3. <<t, q>> \in Key
      BY DEF Key
    <3> QED
      BY <3>3
  <2> QED
    BY <2>1 DEF AnyKey
<1>2. NoContent \in Content /\ NoResponse \in Response
  <2>1. NoContent \in Content
    BY DEF NoContent, Content
  <2> QED
    BY <2>1 DEF NoResponse, Response
<1>3. IdleReader \in ReaderState
  BY <1>1, <1>2 DEF IdleReader, ReaderState
<1>4. KeyType(AnyKey) \in Type
  BY <1>1, KeyTypes
<1>5. IdleWriter \in WriterState
  BY <1>1, <1>4 DEF IdleWriter, WriterState
<1> QED
  BY <1>1, <1>2, <1>3, <1>5

-----------------------------------------------------------------------------
(* The calls on the cache keep its types *)

LEMMA CacheCalls ==
  ASSUME CacheTyped, NEW k \in Key, NEW c \in Response
  PROVE  /\ TrackKey(k) => CacheTyped'
         /\ CommitEntry(k, c) => CacheTyped'
         /\ RemoveEntry(k) => CacheTyped'
         /\ UntrackKey(k) => CacheTyped'
         /\ Expire(k) => CacheTyped'
         /\ RunCallback(k) => CacheTyped'
<1>1. QueueCallback(k) => callbacks' \in [Key -> Nat]
  BY DEF CacheTyped, QueueCallback
<1>2. TrackKey(k) => CacheTyped'
  BY DEF CacheTyped, TrackKey
<1>3. CommitEntry(k, c) => CacheTyped'
  BY <1>1 DEF CacheTyped, CommitEntry
<1>4. RemoveEntry(k) => CacheTyped'
  BY <1>1 DEF CacheTyped, RemoveEntry
<1>5. UntrackKey(k) => CacheTyped'
  BY DEF CacheTyped, UntrackKey
<1>6. Expire(k) => CacheTyped'
  BY <1>4 DEF Expire
<1>7. RunCallback(k) => CacheTyped'
  BY DEF CacheTyped, RunCallback
<1> QED
  BY <1>2, <1>3, <1>4, <1>5, <1>6, <1>7

LEMMA CacheKept == ASSUME CacheTyped, UNCHANGED cacheVars PROVE CacheTyped'
  BY DEF CacheTyped, cacheVars

-----------------------------------------------------------------------------
(* The types of the requests' local variables and of the content *)

LEMMA ReaderTypes ==
  ASSUME rd \in [Reader -> ReaderState], NEW r \in Reader
  PROVE  /\ rd[r].key \in Key /\ rd[r].seen \in Response /\ rd[r].raced \in BOOLEAN
         /\ \A step \in {"rows_read", "values_read", "built", "tracked"}, seen \in Response :
               ReaderGoes(r, step, seen) => rd' \in [Reader -> ReaderState]
         /\ ReaderEnds(r) => rd' \in [Reader -> ReaderState]
  BY IdleTypes DEF ReaderGoes, ReaderEnds, ReaderState

LEMMA WriterTypes ==
  ASSUME wr \in [Writer -> WriterState], NEW w \in Writer,
         NEW step \in {"idle", "row_saved", "values_saved", "saved", "removing", "removed"},
         NEW t \in Type, NEW todo \in SUBSET Key, NEW k \in Key,
         WriterGoes(w, step, t, todo, k)
  PROVE  wr' \in [Writer -> WriterState]
  BY DEF WriterGoes, WriterState

LEMMA ChangeTypes ==
  ASSUME TypeOK, NEW t \in Type, NEW c \in Content, NEW why \in SUBSET Cause,
         Change(t, c, why)
  PROVE  /\ content' \in [Type -> Content]
         /\ rd' \in [Reader -> ReaderState]
         /\ cause' \in [Key -> SUBSET Cause]
         /\ late' = late
<1>1. content' \in [Type -> Content]
  BY DEF TypeOK, Change
<1>2. rd' \in [Reader -> ReaderState]
  BY DEF TypeOK, Change, ReaderState
<1>3. cause' \in [Key -> SUBSET Cause]
  BY DEF TypeOK, Change, Cause
<1> QED
  BY <1>1, <1>2, <1>3 DEF Change

\* The records a write gives a content type are content.
LEMMA NewContentTypes ==
  ASSUME content \in [Type -> Content], NEW t \in Type, NEW v \in BOOLEAN
  PROVE  NewRows(t, v) \in Content /\ NewValues(t) \in Content /\ NewTitle(t, v) \in Content
  BY DEF NewRows, NewValues, NewTitle, Content

\* The versions of what a response shows of other types.
LEMMA DisplaysTypes ==
  ASSUME content \in [Type -> Content], NEW t
  PROVE  Displays(t) \in [Type -> Nat]
<1>1. \A u \in Type : DisplayVersion(content[u]) \in Nat
  BY DEF DisplayVersion, Content
<1> QED
  BY <1>1 DEF Displays

\* What the three reads make of a response.
LEMMA ResponseReads ==
  ASSUME NEW seen \in Response, NEW c \in Content, NEW d \in [Type -> Nat]
  PROVE  /\ [NoResponse EXCEPT !.own = [rows |-> c.rows, vals |-> 0, visible |-> TRUE]]
               = [own |-> [rows |-> c.rows, vals |-> 0, visible |-> TRUE],
                  displays |-> NoResponse.displays]
         /\ [seen EXCEPT !.own.vals = c.vals]
               = [own |-> [rows |-> seen.own.rows, vals |-> c.vals, visible |-> seen.own.visible],
                  displays |-> seen.displays]
         /\ [seen EXCEPT !.displays = d] = [own |-> seen.own, displays |-> d]
         /\ [own |-> [rows |-> c.rows, vals |-> 0, visible |-> TRUE],
             displays |-> NoResponse.displays] \in Response
         /\ [own |-> [rows |-> seen.own.rows, vals |-> c.vals, visible |-> seen.own.visible],
             displays |-> seen.displays] \in Response
         /\ [own |-> seen.own, displays |-> d] \in Response
         /\ [seen EXCEPT !.own.vals = c.vals] \in Response
         /\ [seen EXCEPT !.displays = d] \in Response
<1>1. PICK x \in Nat, y \in Nat, v \in BOOLEAN, e \in [Type -> Nat] :
         seen = [own |-> [rows |-> x, vals |-> y, visible |-> v], displays |-> e]
  BY DEF Response, Content
<1>2. c.rows \in Nat /\ c.vals \in Nat
  BY DEF Content
<1>3. NoResponse = [own |-> NoContent, displays |-> [u \in Type |-> 0]]
  BY DEF NoResponse
<1>4. NoResponse.displays \in [Type -> Nat]
  BY <1>3
<1>5. [NoResponse EXCEPT !.own = [rows |-> c.rows, vals |-> 0, visible |-> TRUE]]
        = [own |-> [rows |-> c.rows, vals |-> 0, visible |-> TRUE],
           displays |-> NoResponse.displays]
  <2>1. \A n \in Response : \A o \in Content :
           [n EXCEPT !.own = o] = [own |-> o, displays |-> n.displays]
    BY DEF Response, Content
  <2>2. [rows |-> c.rows, vals |-> 0, visible |-> TRUE] \in Content
    BY <1>2 DEF Content
  <2> QED
    BY <2>1, <2>2, IdleTypes
<1>6. [seen EXCEPT !.own.vals = c.vals]
        = [own |-> [rows |-> seen.own.rows, vals |-> c.vals, visible |-> seen.own.visible],
           displays |-> seen.displays]
  BY <1>1
<1>7. [seen EXCEPT !.displays = d] = [own |-> seen.own, displays |-> d]
  BY <1>1
<1>8. [own |-> [rows |-> c.rows, vals |-> 0, visible |-> TRUE],
       displays |-> NoResponse.displays] \in Response
  BY <1>2, <1>4 DEF Response, Content
<1>9. [own |-> [rows |-> seen.own.rows, vals |-> c.vals, visible |-> seen.own.visible],
       displays |-> seen.displays] \in Response
  BY <1>1, <1>2 DEF Response, Content
<1>10. [own |-> seen.own, displays |-> d] \in Response
  BY <1>1 DEF Response, Content
<1> QED
  BY <1>5, <1>6, <1>7, <1>8, <1>9, <1>10

-----------------------------------------------------------------------------
(* Type correctness *)

LEMMA InitTypes == ASSUME Init PROVE TypeOK
<1>1. CacheTyped
  BY DEF Init, InitCache, CacheTyped
<1>2. rd \in [Reader -> ReaderState] /\ wr \in [Writer -> WriterState]
  BY IdleTypes DEF Init
<1>3. content \in [Type -> Content] /\ writes \in Nat /\ cause \in [Key -> SUBSET Cause]
      /\ late \subseteq Key
  BY IdleTypes DEF Init
<1> QED
  BY <1>1, <1>2, <1>3 DEF TypeOK, CacheTyped

LEMMA ReadTypes ==
  ASSUME TypeOK, NEW r \in Reader,
         ReadMiss(r) \/ ReadStep(r) \/ AbortRead(r)
  PROVE  TypeOK'
<1>0. CacheTyped /\ rd \in [Reader -> ReaderState] /\ content \in [Type -> Content]
  BY DEF TypeOK, CacheTyped
<1>1. CASE ReadMiss(r)
  <2>1. rd' \in [Reader -> ReaderState]
    BY <1>0, <1>1, IdleTypes DEF ReadMiss, ReaderState
  <2>2. CacheTyped'
    BY <1>0, <1>1, CacheKept DEF ReadMiss
  <2> QED
    BY <1>1, <2>1, <2>2 DEF ReadMiss, history, TypeOK, CacheTyped
<1>2. CASE ReadRows(r)
  <2>1. rd[r].key \in Key /\ content[KeyType(rd[r].key)] \in Content
    BY <1>0, ReaderTypes, KeyTypes
  <2>2. /\ [own |-> [rows |-> content[KeyType(rd[r].key)].rows, vals |-> 0, visible |-> TRUE],
           displays |-> NoResponse.displays] \in Response
        /\ [NoResponse EXCEPT !.own = [rows |-> content[KeyType(rd[r].key)].rows, vals |-> 0,
                                       visible |-> TRUE]]
             = [own |-> [rows |-> content[KeyType(rd[r].key)].rows, vals |-> 0,
                         visible |-> TRUE],
                displays |-> NoResponse.displays]
    BY <1>0, <2>1, ResponseReads, DisplaysTypes, ReaderTypes
  <2>3. rd' \in [Reader -> ReaderState]
    BY <1>0, <1>2, <2>2, ReaderTypes, IdleTypes DEF ReadRows
  <2>4. CacheTyped'
    BY <1>0, <1>2, CacheKept DEF ReadRows
  <2> QED
    BY <1>2, <2>3, <2>4 DEF ReadRows, history, TypeOK, CacheTyped
<1>3. CASE ReadValues(r) \/ ReadDisplays(r)
  <2>1. /\ rd[r].seen \in Response /\ content[KeyType(rd[r].key)] \in Content
        /\ Displays(KeyType(rd[r].key)) \in [Type -> Nat]
    BY <1>0, ReaderTypes, KeyTypes, DisplaysTypes
  <2>2. /\ [rd[r].seen EXCEPT !.own.vals = content[KeyType(rd[r].key)].vals] \in Response
        /\ [rd[r].seen EXCEPT !.displays = Displays(KeyType(rd[r].key))] \in Response
    BY <2>1, ResponseReads
  <2>3. rd' \in [Reader -> ReaderState]
    BY <1>0, <1>3, <2>2, ReaderTypes DEF ReadValues, ReadDisplays
  <2>4. CacheTyped'
    BY <1>0, <1>3, CacheKept DEF ReadValues, ReadDisplays
  <2> QED
    BY <1>3, <2>3, <2>4 DEF ReadValues, ReadDisplays, history, TypeOK, CacheTyped
<1>4. CASE SetTrack(r)
  <2>1. rd' \in [Reader -> ReaderState]
    BY <1>0, <1>4, ReaderTypes DEF SetTrack
  <2>2. CacheTyped'
    BY <1>0, <1>4, ReaderTypes, IdleTypes, CacheCalls DEF SetTrack
  <2> QED
    BY <1>4, <2>1, <2>2 DEF SetTrack, TypeOK, CacheTyped
<1>5. CASE SetCommit(r)
  <2>1. rd' \in [Reader -> ReaderState]
    BY <1>0, <1>5, ReaderTypes DEF SetCommit
  <2>2. CacheTyped'
    BY <1>0, <1>5, ReaderTypes, CacheCalls DEF SetCommit
  <2>3. cause' \in [Key -> SUBSET Cause]
    BY <1>5 DEF SetCommit, TypeOK, Cause
  <2> QED
    BY <1>5, <2>1, <2>2, <2>3 DEF SetCommit, TypeOK, CacheTyped
<1>6. CASE AbortRead(r)
  <2>1. rd' \in [Reader -> ReaderState]
    BY <1>0, <1>6, ReaderTypes DEF AbortRead
  <2>2. CacheTyped'
    BY <1>0, <1>6, CacheKept DEF AbortRead
  <2> QED
    BY <1>6, <2>1, <2>2 DEF AbortRead, history, TypeOK, CacheTyped
<1> QED
  BY <1>1, <1>2, <1>3, <1>4, <1>5, <1>6 DEF ReadStep

\* A step that changes the content and lets writer w go on.
LEMMA ChangeStepTypes ==
  ASSUME TypeOK, NEW w \in Writer, NEW t \in Type,
         NEW step \in {"row_saved", "values_saved", "saved"},
         \/ UNCHANGED <<content, rd, history>>
         \/ \E u \in Type, c \in Content, why \in SUBSET Cause : Change(u, c, why),
         WriterGoes(w, step, t, {}, AnyKey), UNCHANGED cacheVars, writes' \in Nat
  PROVE  TypeOK'
<1>1. CacheTyped'
  BY CacheKept DEF TypeOK, CacheTyped
<1>2. wr' \in [Writer -> WriterState]
  <2>1. AnyKey \in Key /\ wr \in [Writer -> WriterState]
    BY IdleTypes DEF TypeOK
  <2> QED
    BY <2>1 DEF WriterGoes, WriterState
<1>3. content' \in [Type -> Content] /\ rd' \in [Reader -> ReaderState]
      /\ cause' \in [Key -> SUBSET Cause] /\ late' \subseteq Key
  BY ChangeTypes DEF TypeOK, history
<1> QED
  BY <1>1, <1>2, <1>3 DEF TypeOK, CacheTyped

LEMMA WriteTypes ==
  ASSUME TypeOK, NEW w \in Writer,
         SaveItem(w) \/ DeleteItem(w) \/ WriteStep(w) \/ AbortWrite(w)
  PROVE  TypeOK'
<1>0. /\ CacheTyped /\ wr \in [Writer -> WriterState] /\ content \in [Type -> Content]
      /\ writes \in Nat /\ wr[w].type \in Type /\ wr[w].at \in Key /\ wr[w].todo \in SUBSET Key
      /\ cause \in [Key -> SUBSET Cause]
  BY DEF TypeOK, CacheTyped, WriterState
<1>1. CASE SaveItem(w)
  <2>1. PICK t \in Type, v \in BOOLEAN :
           Change(t, NewRows(t, v), {}) /\ WriterGoes(w, "row_saved", t, {}, AnyKey)
    BY <1>1 DEF SaveItem
  <2>2. UNCHANGED cacheVars /\ writes' \in Nat
    BY <1>0, <1>1 DEF SaveItem, StartWrite
  <2> QED
    BY <1>0, <2>1, <2>2, NewContentTypes, ChangeStepTypes
<1>2. CASE DeleteItem(w)
  <2>0. \A u \in Type : content[u].visible \in BOOLEAN
    BY <1>0 DEF Content
  <2>1. PICK t \in Type, u \in Type, v \in BOOLEAN :
           /\ Change(u, NewRows(u, v), IF u = t THEN {} ELSE {"foreign"})
           /\ WriterGoes(w, "saved", t, {}, AnyKey)
    BY <1>2, <2>0 DEF DeleteItem
  <2>2. UNCHANGED cacheVars /\ writes' \in Nat
    BY <1>0, <1>2 DEF DeleteItem, StartWrite
  <2>3. (IF u = t THEN {} ELSE {"foreign"}) \in SUBSET Cause
    BY DEF Cause
  <2>4. NewRows(u, v) \in Content
    BY <1>0, NewContentTypes
  <2> QED
    BY <2>1, <2>2, <2>3, <2>4, ChangeStepTypes
<1>3. CASE SaveValues(w)
  <2>1. Change(wr[w].type, NewValues(wr[w].type), {})
        /\ WriterGoes(w, "values_saved", wr[w].type, {}, AnyKey)
    BY <1>3 DEF SaveValues
  <2>2. UNCHANGED cacheVars /\ writes' \in Nat
    BY <1>0, <1>3 DEF SaveValues
  <2>3. NewValues(wr[w].type) \in Content
    BY <1>0, NewContentTypes
  <2> QED
    BY <1>0, <2>1, <2>2, <2>3, ChangeStepTypes
<1>4. CASE SaveTitle(w)
  <2>1. \/ \E v \in BOOLEAN : Change(wr[w].type, NewTitle(wr[w].type, v), {})
        \/ UNCHANGED <<content, rd, history>>
    BY <1>4 DEF SaveTitle
  <2>2. WriterGoes(w, "saved", wr[w].type, {}, AnyKey)
    BY <1>4 DEF SaveTitle
  <2>3. UNCHANGED cacheVars /\ writes' \in Nat
    BY <1>0, <1>4 DEF SaveTitle
  <2> QED
    BY <1>0, <2>1, <2>2, <2>3, NewContentTypes, ChangeStepTypes
<1>5. CASE InvalidateStart(w)
  <2>1. KeysToRemove(wr[w].type) \in SUBSET Key
    BY <1>0 DEF KeysToRemove, CacheTyped
  <2>2. wr' \in [Writer -> WriterState]
    BY <1>0, <1>5, <2>1, IdleTypes, WriterTypes DEF InvalidateStart
  <2>3. cause' \in [Key -> SUBSET Cause]
    BY <1>0, <1>5 DEF InvalidateStart, Cause
  <2>4. CacheTyped'
    BY <1>0, <1>5, CacheKept DEF InvalidateStart
  <2> QED
    BY <1>5, <2>2, <2>3, <2>4 DEF InvalidateStart, TypeOK, CacheTyped
<1>6. CASE InvalidateRemove(w)
  <2>1. PICK k \in wr[w].todo :
           RemoveEntry(k) /\ Forget(k) /\ WriterGoes(w, "removed", wr[w].type, wr[w].todo, k)
    BY <1>6 DEF InvalidateRemove
  <2>2. k \in Key
    BY <1>0
  <2>3. wr' \in [Writer -> WriterState]
    BY <1>0, <2>1, <2>2, WriterTypes
  <2>4. cause' \in [Key -> SUBSET Cause]
    BY <1>0, <2>1 DEF Forget
  <2>5. CacheTyped'
    BY <1>0, <2>1, <2>2, IdleTypes, CacheCalls
  <2> QED
    BY <1>6, <2>3, <2>4, <2>5 DEF InvalidateRemove, TypeOK, CacheTyped
<1>7. CASE InvalidateUntrack(w)
  <2>1. wr' \in [Writer -> WriterState]
    BY <1>0, <1>7, IdleTypes, WriterTypes DEF InvalidateUntrack
  <2>2. CacheTyped'
    BY <1>0, <1>7, IdleTypes, CacheCalls DEF InvalidateUntrack
  <2> QED
    BY <1>7, <2>1, <2>2 DEF InvalidateUntrack, history, TypeOK, CacheTyped
<1>8. CASE InvalidateEnd(w)
  <2>1. wr' \in [Writer -> WriterState]
    BY <1>0, <1>8, IdleTypes DEF InvalidateEnd
  <2>2. CacheTyped'
    BY <1>0, <1>8, CacheKept DEF InvalidateEnd
  <2> QED
    BY <1>8, <2>1, <2>2 DEF InvalidateEnd, history, TypeOK, CacheTyped
<1>9. CASE AbortWrite(w)
  <2>1. wr' \in [Writer -> WriterState]
    BY <1>0, <1>9, IdleTypes DEF AbortWrite
  <2>2. CacheTyped'
    BY <1>0, <1>9, CacheKept DEF AbortWrite
  <2>3. cause' \in [Key -> SUBSET Cause]
    BY <1>0, <1>9 DEF AbortWrite, Cause
  <2> QED
    BY <1>9, <2>1, <2>2, <2>3 DEF AbortWrite, TypeOK, CacheTyped
<1> QED
  BY <1>1, <1>2, <1>3, <1>4, <1>5, <1>6, <1>7, <1>8, <1>9 DEF WriteStep

LEMMA WorldTypes ==
  ASSUME TypeOK,
         \/ \E k \in Key : ExpireEntry(k) \/ EvictionCallback(k)
         \/ AdminWrite \/ Restart
  PROVE  TypeOK'
<1>0. CacheTyped /\ content \in [Type -> Content] /\ cause \in [Key -> SUBSET Cause]
  BY DEF TypeOK, CacheTyped
<1>1. ASSUME NEW k \in Key, ExpireEntry(k) PROVE TypeOK'
  <2>1. CacheTyped'
    BY <1>0, <1>1, IdleTypes, CacheCalls DEF ExpireEntry
  <2>2. cause' \in [Key -> SUBSET Cause]
    BY <1>0, <1>1 DEF ExpireEntry, Forget
  <2> QED
    BY <1>1, <2>1, <2>2 DEF ExpireEntry, TypeOK, CacheTyped
<1>2. ASSUME NEW k \in Key, EvictionCallback(k) PROVE TypeOK'
  <2>1. CacheTyped'
    BY <1>0, <1>2, IdleTypes, CacheCalls DEF EvictionCallback
  <2> QED
    BY <1>2, <2>1 DEF EvictionCallback, TypeOK, CacheTyped
<1>3. CASE AdminWrite
  <2>1. PICK t \in Type, c \in Content : Change(t, c, {"admin"})
    BY <1>0, <1>3, NewContentTypes DEF AdminWrite
  <2>2. /\ content' \in [Type -> Content] /\ rd' \in [Reader -> ReaderState]
        /\ cause' \in [Key -> SUBSET Cause] /\ late' = late
    BY <2>1, ChangeTypes DEF Cause
  <2>3. CacheTyped'
    BY <1>0, <1>3, CacheKept DEF AdminWrite
  <2>4. writes' \in Nat
    BY <1>3 DEF AdminWrite, StartWrite, TypeOK
  <2> QED
    BY <1>3, <2>2, <2>3, <2>4 DEF AdminWrite, TypeOK, CacheTyped
<1>4. CASE Restart
  <2>1. CacheTyped'
    BY <1>4 DEF Restart, CacheTyped
  <2>2. rd' \in [Reader -> ReaderState] /\ wr' \in [Writer -> WriterState]
    BY <1>4, IdleTypes DEF Restart
  <2>3. cause' \in [Key -> SUBSET Cause]
    BY <1>4 DEF Restart
  <2> QED
    BY <1>4, <2>1, <2>2, <2>3 DEF Restart, TypeOK, CacheTyped
<1> QED
  BY <1>1, <1>2, <1>3, <1>4

LEMMA TypesKept == ASSUME TypeOK, [Next]_vars PROVE TypeOK'
<1>1. CASE Next
  BY <1>1, ReadTypes, WriteTypes, WorldTypes DEF Next
<1>2. CASE UNCHANGED vars
  BY <1>2 DEF vars, history, TypeOK
<1> QED
  BY <1>1, <1>2

-----------------------------------------------------------------------------
(* Responses being built *)

\* The facts a step on the readers' side is reasoned from.
LEMMA ReaderFacts ==
  ASSUME TypeOK, NEW r \in Reader
  PROVE  /\ rd[r] \in ReaderState /\ rd[r].key \in Key /\ KeyType(rd[r].key) \in Type
         /\ rd[r].seen \in Response /\ content[KeyType(rd[r].key)] \in Content
         /\ rd[r].raced \in BOOLEAN
  BY KeyTypes DEF TypeOK, ReaderState

\* The others are where they were when reader r goes on or ends.
LEMMA OneReader ==
  ASSUME TypeOK, NEW r \in Reader, NEW step, NEW seen,
         ReaderGoes(r, step, seen) \/ ReaderEnds(r)
  PROVE  \A q \in Reader : q # r => rd'[q] = rd[q]
  BY DEF TypeOK, ReaderGoes, ReaderEnds

\* When the content is unchanged, a reader that has not moved is as current as before.
LEMMA FillUnmoved ==
  ASSUME FillsCurrent, UNCHANGED content
  PROVE  \A q \in Reader : rd'[q] = rd[q] => FillCurrent(q)'
  BY DEF FillsCurrent, FillCurrent, Shown, Displays, DisplayVersion

\* An idle reader, or one that has read nothing yet, has nothing to be current.
LEMMA FillIdle ==
  ASSUME NEW q \in Reader, rd'[q].pc \in {"idle", "missed"}
  PROVE  FillCurrent(q)'
  BY DEF FillCurrent

\* What is displayed of other types depends on their display versions only.
LEMMA DisplaysUnmoved ==
  ASSUME NEW u \in Type, NEW c, content \in [Type -> Content],
         content' = [content EXCEPT ![u] = c]
  PROVE  \A t : ~DisplayChanges(t, u, c) => Displays(t)' = Displays(t)
<1> SUFFICES ASSUME NEW t, ~DisplayChanges(t, u, c) PROVE Displays(t)' = Displays(t)
  OBVIOUS
<1>1. \A v \in Type : (IF RefersTo(t, v) THEN DisplayVersion(content'[v]) ELSE 0)
                    = (IF RefersTo(t, v) THEN DisplayVersion(content[v]) ELSE 0)
  BY DEF DisplayChanges
<1> QED
  BY <1>1 DEF Displays, DisplayVersion

\* A change races the responses being built that have read what it changes.
LEMMA ChangeFills ==
  ASSUME TypeOK, FillsCurrent, NEW t \in Type, NEW c, NEW why, Change(t, c, why)
  PROVE  FillsCurrent'
<1> SUFFICES ASSUME NEW r \in Reader PROVE FillCurrent(r)'
  BY DEF FillsCurrent
<1>1. /\ rd'[r].pc = rd[r].pc /\ rd'[r].key = rd[r].key /\ rd'[r].seen = rd[r].seen
      /\ rd'[r].raced = (\/ rd[r].raced
                         \/ rd[r].pc \notin {"idle", "missed"} /\ KeyType(rd[r].key) = t
                         \/ rd[r].pc \in {"built", "tracked"}
                            /\ DisplayChanges(KeyType(rd[r].key), t, c))
  BY DEF Change
<1>2. CASE rd[r].pc \in {"idle", "missed"}
  BY <1>1, <1>2, FillIdle
<1>3. CASE rd[r].pc \notin {"idle", "missed"} /\ KeyType(rd[r].key) = t
  BY <1>1, <1>3 DEF FillCurrent
<1>4. CASE KeyType(rd[r].key) # t
  <2> SUFFICES ASSUME ~rd'[r].raced PROVE FillCurrent(r)'
    BY DEF FillCurrent
  <2>1. content'[KeyType(rd[r].key)] = content[KeyType(rd[r].key)]
    BY <1>4, ReaderFacts DEF Change, TypeOK
  <2>2. /\ ~rd[r].raced
        /\ rd[r].pc \in {"built", "tracked"} => ~DisplayChanges(KeyType(rd[r].key), t, c)
    BY <1>1
  <2>3. FillCurrent(r)
    BY DEF FillsCurrent
  <2>4. ASSUME rd[r].pc \in {"built", "tracked"}
        PROVE  [u \in Type |-> IF RefersTo(KeyType(rd[r].key), u)
                               THEN DisplayVersion(content'[u]) ELSE 0]
                 = Displays(KeyType(rd[r].key))
    <3>1. content \in [Type -> Content] /\ content' = [content EXCEPT ![t] = c]
      BY DEF Change, TypeOK
    <3>2. \A v \in Type : (IF RefersTo(KeyType(rd[r].key), v) THEN DisplayVersion(content'[v]) ELSE 0)
                        = (IF RefersTo(KeyType(rd[r].key), v) THEN DisplayVersion(content[v]) ELSE 0)
      BY <2>2, <2>4, <3>1 DEF DisplayChanges
    <3> QED
      BY <3>2 DEF Displays
  <2>5. CASE rd[r].pc \notin {"built", "tracked"}
    BY <1>1, <2>1, <2>2, <2>3, <2>5 DEF FillCurrent
  <2>6. CASE rd[r].pc \in {"built", "tracked"}
    <3>1. /\ Shown(rd[r].seen.own) = Shown(content[KeyType(rd[r].key)])
          /\ rd[r].seen.own.visible => rd[r].seen.displays = Displays(KeyType(rd[r].key))
      BY <2>2, <2>3, <2>6 DEF FillCurrent
    <3> QED
      BY <1>1, <2>1, <2>4, <2>6, <3>1 DEF FillCurrent, Displays, Shown, DisplayVersion
  <2> QED
    BY <2>5, <2>6
<1> QED
  BY <1>2, <1>3, <1>4

LEMMA ReadFills ==
  ASSUME TypeOK, FillsCurrent, NEW r \in Reader,
         ReadMiss(r) \/ ReadStep(r) \/ AbortRead(r)
  PROVE  FillsCurrent'
<1>0. UNCHANGED content /\ \A q \in Reader : q # r => rd'[q] = rd[q]
  <2>1. CASE ReadMiss(r)
    BY <2>1 DEF ReadMiss, TypeOK
  <2>2. CASE ReadStep(r) \/ AbortRead(r)
    BY <2>2, OneReader
       DEF ReadStep, ReadRows, ReadValues, ReadDisplays, SetTrack, SetCommit, AbortRead
  <2> QED
    BY <2>1, <2>2
<1> SUFFICES FillCurrent(r)'
  BY <1>0, FillUnmoved DEF FillsCurrent
<1>1. FillCurrent(r) /\ rd \in [Reader -> ReaderState]
  BY DEF FillsCurrent, TypeOK
<1>2. CASE ReadMiss(r)
  <2>1. rd'[r].pc = "missed"
    BY <1>1, <1>2 DEF ReadMiss
  <2> QED
    BY <2>1, FillIdle
<1>3. CASE ReaderEnds(r)
  <2>1. rd'[r].pc = "idle"
    BY <1>1, <1>3 DEF ReaderEnds, IdleReader
  <2> QED
    BY <2>1, FillIdle
<1>4. CASE ReadRows(r) /\ ~ReaderEnds(r)
  <2> DEFINE c == content[KeyType(rd[r].key)]
  <2>1. rd'[r].key = rd[r].key
    BY <1>1, <1>4 DEF ReadRows, ReaderGoes
  <2>2. \/ /\ c.visible /\ rd'[r].pc = "rows_read"
           /\ rd'[r].seen.own = [rows |-> c.rows, vals |-> 0, visible |-> TRUE]
        \/ ~c.visible /\ rd'[r].pc = "built" /\ rd'[r].seen.own = NoContent
    <3>1. \/ /\ c.visible
             /\ ReaderGoes(r, "rows_read",
                           [NoResponse EXCEPT !.own = [rows |-> c.rows, vals |-> 0,
                                                       visible |-> TRUE]])
          \/ ~c.visible /\ ReaderGoes(r, "built", NoResponse)
      BY <1>4 DEF ReadRows
    <3>2. \A step, seen : ReaderGoes(r, step, seen) => rd'[r].pc = step /\ rd'[r].seen = seen
      BY <1>1 DEF ReaderGoes
    <3>3. /\ NoResponse.own = NoContent
          /\ [NoResponse EXCEPT !.own = [rows |-> c.rows, vals |-> 0, visible |-> TRUE]].own
               = [rows |-> c.rows, vals |-> 0, visible |-> TRUE]
      BY DEF NoResponse
    <3> HIDE DEF c
    <3>4. CASE c.visible /\ ReaderGoes(r, "rows_read",
                  [NoResponse EXCEPT !.own = [rows |-> c.rows, vals |-> 0, visible |-> TRUE]])
      BY <3>2, <3>3, <3>4
    <3>5. CASE ~c.visible /\ ReaderGoes(r, "built", NoResponse)
      BY <3>2, <3>3, <3>5
    <3> QED
      BY <3>1, <3>4, <3>5
  <2> QED
    BY <1>0, <2>1, <2>2 DEF FillCurrent, Shown, NoContent
<1>5. CASE ReadValues(r)
  <2> DEFINE c == content[KeyType(rd[r].key)]
  <2>0. /\ rd[r].seen \in Response /\ c \in Content
        /\ c = [rows |-> c.rows, vals |-> c.vals, visible |-> c.visible]
    BY ReaderFacts DEF Content
  <2>1. /\ rd[r].pc = "rows_read" /\ rd'[r].pc = "values_read"
        /\ rd'[r].key = rd[r].key /\ rd'[r].raced = rd[r].raced
        /\ rd'[r].seen = [rd[r].seen EXCEPT !.own.vals = c.vals]
    BY <1>1, <1>5 DEF ReadValues, ReaderGoes
  <2>2. rd'[r].seen.own = [rows |-> rd[r].seen.own.rows, vals |-> c.vals,
                           visible |-> rd[r].seen.own.visible]
    <3> HIDE DEF c
    <3>1. [rd[r].seen EXCEPT !.own.vals = c.vals]
            = [own |-> [rows |-> rd[r].seen.own.rows, vals |-> c.vals,
                        visible |-> rd[r].seen.own.visible],
               displays |-> rd[r].seen.displays]
      BY <2>0, ResponseReads DEF Response
    <3> QED
      BY <2>1, <3>1
  <2>3. ASSUME ~rd[r].raced PROVE rd'[r].seen.own = c
    <3>1. rd[r].seen.own.rows = c.rows /\ rd[r].seen.own.visible = c.visible
      <4>1. rd[r].seen.own.visible /\ c.visible /\ rd[r].seen.own.rows = c.rows
        BY <1>1, <2>1, <2>3 DEF FillCurrent
      <4>2. rd[r].seen.own.visible \in BOOLEAN /\ c.visible \in BOOLEAN
        BY <2>0 DEF Response, Content
      <4> QED
        BY <4>1, <4>2
    <3> QED
      BY <2>0, <2>2, <3>1
  <2> QED
    BY <1>0, <2>1, <2>3 DEF FillCurrent
<1>6. CASE ReadDisplays(r)
  <2>1. /\ rd[r].pc = "values_read" /\ rd'[r].pc = "built"
        /\ rd'[r].key = rd[r].key /\ rd'[r].raced = rd[r].raced
        /\ rd'[r].seen = [rd[r].seen EXCEPT !.displays = Displays(KeyType(rd[r].key))]
    BY <1>1, <1>6 DEF ReadDisplays, ReaderGoes
  <2>2. /\ rd'[r].seen.own = rd[r].seen.own
        /\ rd'[r].seen.displays = Displays(KeyType(rd[r].key))
    <3>1. rd[r].seen \in Response
      BY ReaderFacts
    <3> QED
      BY <2>1, <3>1 DEF Response
  <2>3. ~rd[r].raced => rd[r].seen.own = content[KeyType(rd[r].key)]
    BY <1>1, <2>1 DEF FillCurrent
  <2> QED
    BY <1>0, <2>1, <2>2, <2>3 DEF FillCurrent, Shown, Displays
<1>7. CASE SetTrack(r)
  <2>1. /\ rd[r].pc = "built" /\ rd'[r].pc = "tracked" /\ rd'[r].seen = rd[r].seen
        /\ rd'[r].key = rd[r].key /\ rd'[r].raced = rd[r].raced
    BY <1>1, <1>7 DEF SetTrack, ReaderGoes
  <2> QED
    BY <1>0, <1>1, <2>1 DEF FillCurrent, Shown, Displays
<1> QED
  BY <1>2, <1>3, <1>4, <1>5, <1>6, <1>7 DEF ReadStep, SetCommit, AbortRead

\* The remaining steps move a reader only by restarting the process.
LEMMA FillsKept == ASSUME TypeOK, FillsCurrent, [Next]_vars PROVE FillsCurrent'
<1>1. ASSUME NEW r \in Reader, ReadMiss(r) \/ ReadStep(r) \/ AbortRead(r) PROVE FillsCurrent'
  BY <1>1, ReadFills
<1>2. ASSUME UNCHANGED <<content, rd>> PROVE FillsCurrent'
  BY <1>2, FillUnmoved DEF FillsCurrent
<1>3. ASSUME NEW t \in Type, \E c, why : Change(t, c, why) PROVE FillsCurrent'
  BY <1>3, ChangeFills
<1>4. ASSUME NEW w \in Writer, SaveItem(w) \/ DeleteItem(w) \/ WriteStep(w) \/ AbortWrite(w)
      PROVE  FillsCurrent'
  <2>1. wr[w].type \in Type
    BY DEF TypeOK, WriterState
  <2>2. CASE SaveItem(w) \/ DeleteItem(w)
    BY <1>3, <2>2 DEF SaveItem, DeleteItem
  <2>3. CASE SaveValues(w) \/ SaveTitle(w)
    BY <1>2, <1>3, <2>1, <2>3 DEF SaveValues, SaveTitle
  <2>4. CASE \/ InvalidateStart(w) \/ InvalidateRemove(w) \/ InvalidateUntrack(w)
             \/ InvalidateEnd(w) \/ AbortWrite(w)
    BY <1>2, <2>4
       DEF InvalidateStart, InvalidateRemove, InvalidateUntrack, InvalidateEnd, AbortWrite
  <2> QED
    BY <1>4, <2>2, <2>3, <2>4 DEF WriteStep
<1>5. ASSUME NEW k \in Key, ExpireEntry(k) \/ EvictionCallback(k) PROVE FillsCurrent'
  BY <1>2, <1>5 DEF ExpireEntry, EvictionCallback
<1>6. ASSUME AdminWrite PROVE FillsCurrent'
  BY <1>3, <1>6 DEF AdminWrite
<1>7. ASSUME Restart PROVE FillsCurrent'
  BY <1>7, FillIdle DEF Restart, IdleReader, FillsCurrent
<1>8. ASSUME UNCHANGED vars PROVE FillsCurrent'
  BY <1>2, <1>8 DEF vars
<1> QED
  BY <1>1, <1>4, <1>5, <1>6, <1>7, <1>8 DEF Next

-----------------------------------------------------------------------------
(* Cached responses *)

Excused(k) == cause[k] \ {"related"} # {} \/ \E w \in Writer : InvalidationDue(w, k)

Explained(k) ==
    /\ OwnStale(k) => Excused(k)
    /\ RelatedStale(k) => cause[k] \cap {"race", "related"} # {}

LEMMA AllExplained == StaleHasCause <=> \A k \in Key : Explained(k)
  BY DEF StaleHasCause, Explained, Excused

\* A response not replaced keeps its explanation while the content is unchanged, if no
\* cause is forgotten and an invalidation is due no more only for a cause.
LEMMA StillExplained ==
  ASSUME NEW k \in Key, Explained(k), UNCHANGED content,
         entry'[k] = entry[k], cause[k] \subseteq cause'[k],
         Cached(k) /\ (\E x \in Writer : InvalidationDue(x, k)) => Excused(k)'
  PROVE  Explained(k)'
<1>1. /\ OwnStale(k)' = OwnStale(k)
      /\ RelatedStale(k)' = RelatedStale(k)
  BY DEF OwnStale, RelatedStale, Cached, Shown, Displays, DisplayVersion
<1>2. OwnStale(k) => Excused(k)'
  <2>1. OwnStale(k) => Excused(k) /\ Cached(k)
    BY DEF Explained, OwnStale
  <2>2. cause[k] \ {"related"} # {} => cause'[k] \ {"related"} # {}
    OBVIOUS
  <2> QED
    BY <2>1, <2>2 DEF Excused
<1>3. RelatedStale(k) => cause'[k] \cap {"race", "related"} # {}
  BY DEF Explained
<1> QED
  BY <1>1, <1>2, <1>3 DEF Explained

\* Nothing is to be explained of a key without an entry.
LEMMA GoneExplained == ASSUME NEW k \in Key, entry'[k] = NoEntry PROVE Explained(k)'
  BY DEF Explained, OwnStale, RelatedStale, Cached

\* Where a writer stands after it goes on; the others have not moved.
LEMMA WriterMoves ==
  ASSUME TypeOK, NEW w \in Writer, NEW step, NEW t, NEW todo, NEW at,
         WriterGoes(w, step, t, todo, at)
  PROVE  /\ wr'[w] = [pc |-> step, type |-> t, todo |-> todo, at |-> at]
         /\ \A x \in Writer : x # w => wr'[x] = wr[x]
  BY DEF TypeOK, WriterGoes

\* An invalidation that is due stays due while its writer stands still.
LEMMA DueUnmoved ==
  ASSUME NEW x \in Writer, wr'[x] = wr[x], NEW k
  PROVE  InvalidationDue(x, k)' = InvalidationDue(x, k)
  BY DEF InvalidationDue

\* While every writer stands still, or goes on only towards invalidations due before,
\* what was excused by one is.
LEMMA DueExcuses ==
  ASSUME NEW k \in Key,
         \A x \in Writer : InvalidationDue(x, k) => InvalidationDue(x, k)'
  PROVE  (\E x \in Writer : InvalidationDue(x, k)) => Excused(k)'
  BY DEF Excused

\* The statements of a write before its invalidation keep it due for their type.
LEMMA DueSaving ==
  ASSUME TypeOK, NEW w \in Writer, NEW t \in Type, NEW at,
         NEW step \in {"row_saved", "values_saved", "saved"},
         WriterGoes(w, step, t, {}, at),
         wr[w].pc = "idle" \/ wr[w].type = t
  PROVE  /\ \A k \in Key : KeyType(k) = t => InvalidationDue(w, k)'
         /\ \A x \in Writer, k \in Key : InvalidationDue(x, k) => InvalidationDue(x, k)'
<1>1. /\ wr'[w].pc = step /\ wr'[w].type = t
      /\ \A x \in Writer : x # w => wr'[x] = wr[x]
  BY DEF TypeOK, WriterGoes
<1>2. \A k \in Key : KeyType(k) = t => InvalidationDue(w, k)'
  BY <1>1 DEF InvalidationDue
<1>3. \A k \in Key : InvalidationDue(w, k) => KeyType(k) = t
  BY DEF InvalidationDue
<1> QED
  BY <1>1, <1>2, <1>3, DueUnmoved

\* A change is excused for its type's responses by `why` or by an invalidation that is
\* due, it blames the responses that refer to its type, and leaves the others as they were.
LEMMA ChangeExcused ==
  ASSUME TypeOK, StaleHasCause, UNCHANGED cacheVars,
         NEW u \in Type, NEW c, NEW why \in SUBSET (Cause \ {"related"}), Change(u, c, why),
         \/ why # {}
         \/ \E w \in Writer : \A k \in Key : KeyType(k) = u => InvalidationDue(w, k)',
         \A x \in Writer, k \in Key : InvalidationDue(x, k) => InvalidationDue(x, k)'
  PROVE  StaleHasCause'
<1> SUFFICES ASSUME NEW k \in Key PROVE Explained(k)'
  BY AllExplained DEF StaleHasCause, Explained, Excused
<1>1. entry'[k] = entry[k] /\ Explained(k) /\ (Cached(k)' <=> Cached(k))
  BY AllExplained DEF cacheVars, Cached
<1>2. CASE ~Cached(k)
  BY <1>1, <1>2, GoneExplained DEF Cached
<1>3. CASE Cached(k)
  <2>1. cause'[k] = cause[k] \cup (IF KeyType(k) = u THEN why ELSE {})
                             \cup (IF DisplayChanges(KeyType(k), u, c) THEN {"related"} ELSE {})
    BY <1>3 DEF Change
  <2>2. cause[k] \subseteq cause'[k]
    BY <2>1
  <2>3. OwnStale(k)' => Excused(k)'
    <3>1. CASE KeyType(k) = u /\ why # {}
      <4>1. why \ {"related"} # {} /\ why \subseteq cause'[k]
        BY <2>1, <3>1
      <4> QED
        BY <4>1 DEF Excused
    <3>2. CASE KeyType(k) = u /\ why = {}
      BY <3>2 DEF Excused
    <3>3. CASE KeyType(k) # u
      <4>1. content'[KeyType(k)] = content[KeyType(k)]
        BY <3>3, KeyTypes DEF Change, TypeOK
      <4>2. OwnStale(k)' = OwnStale(k)
        BY <1>1, <4>1 DEF OwnStale, Cached, Shown
      <4>3. cause[k] \ {"related"} # {} => cause'[k] \ {"related"} # {}
        BY <2>2
      <4> QED
        BY <1>1, <4>2, <4>3 DEF Explained, Excused
    <3> QED
      BY <3>1, <3>2, <3>3
  <2>4. RelatedStale(k)' => cause'[k] \cap {"race", "related"} # {}
    <3>1. CASE DisplayChanges(KeyType(k), u, c)
      BY <2>1, <3>1
    <3>2. CASE ~DisplayChanges(KeyType(k), u, c)
      <4>1. content \in [Type -> Content] /\ content' = [content EXCEPT ![u] = c]
        BY DEF Change, TypeOK
      <4>2. Displays(KeyType(k))' = Displays(KeyType(k))
        BY <3>2, <4>1, DisplaysUnmoved
      <4>3. RelatedStale(k)' = RelatedStale(k)
        BY <1>1, <4>2 DEF RelatedStale
      <4> QED
        BY <1>1, <2>2, <4>3 DEF Explained
    <3> QED
      BY <3>1, <3>2
  <2> QED
    BY <2>3, <2>4 DEF Explained
<1> QED
  BY <1>2, <1>3

LEMMA ReadExcused ==
  ASSUME TypeOK, FillsCurrent, StaleHasCause, NEW r \in Reader,
         ReadMiss(r) \/ ReadStep(r) \/ AbortRead(r)
  PROVE  StaleHasCause'
<1> SUFFICES ASSUME NEW k \in Key PROVE Explained(k)'
  BY AllExplained DEF StaleHasCause, Explained, Excused
<1>0. UNCHANGED <<content, wr>> /\ Explained(k)
  BY AllExplained
     DEF ReadMiss, ReadStep, ReadRows, ReadValues, ReadDisplays, SetTrack, SetCommit, AbortRead
<1>1. (\E x \in Writer : InvalidationDue(x, k)) => Excused(k)'
  BY <1>0, DueUnmoved, DueExcuses
<1>2. CASE SetCommit(r) /\ k = rd[r].key
  <2>1. entry'[k] = rd[r].seen /\ cause'[k] = (IF rd[r].raced THEN {"race"} ELSE {})
    BY <1>2 DEF SetCommit, CommitEntry, TypeOK
  <2>2. FillCurrent(r) /\ rd[r].pc = "tracked"
    BY <1>2 DEF FillsCurrent, SetCommit
  <2>3. CASE rd[r].raced
    BY <2>1, <2>3 DEF Explained, Excused
  <2>4. CASE ~rd[r].raced
    <3>1. /\ Shown(rd[r].seen.own) = Shown(content[KeyType(k)])
          /\ rd[r].seen.own.visible => rd[r].seen.displays = Displays(KeyType(k))
      BY <1>2, <2>2, <2>4 DEF FillCurrent
    <3>2. ~OwnStale(k)'
      BY <1>0, <2>1, <3>1 DEF OwnStale, Shown
    <3>3. ~RelatedStale(k)'
      BY <1>0, <2>1, <3>1 DEF RelatedStale, Displays, DisplayVersion
    <3> QED
      BY <3>2, <3>3 DEF Explained
  <2> QED
    BY <2>3, <2>4
<1>3. CASE ~(SetCommit(r) /\ k = rd[r].key)
  <2>1. entry'[k] = entry[k] /\ cause'[k] = cause[k]
    BY <1>3 DEF ReadMiss, ReadStep, ReadRows, ReadValues, ReadDisplays, SetTrack, SetCommit,
                AbortRead, TrackKey, CommitEntry, cacheVars, history, TypeOK
  <2> QED
    BY <1>0, <1>1, <2>1, StillExplained
<1> QED
  BY <1>2, <1>3

LEMMA WriteExcused ==
  ASSUME TypeOK, StaleHasCause, NEW w \in Writer,
         SaveItem(w) \/ DeleteItem(w) \/ SaveValues(w) \/ SaveTitle(w)
  PROVE  StaleHasCause'
<1>0. wr[w].type \in Type /\ {} \in SUBSET (Cause \ {"related"})
  BY DEF TypeOK, WriterState
<1>1. CASE SaveItem(w)
  <2>1. PICK t \in Type : /\ \E c : Change(t, c, {})
                         /\ WriterGoes(w, "row_saved", t, {}, AnyKey)
    BY <1>1 DEF SaveItem
  <2>2. wr[w].pc = "idle" /\ UNCHANGED cacheVars
    BY <1>1 DEF SaveItem
  <2> QED
    BY <1>0, <2>1, <2>2, DueSaving, ChangeExcused
<1>2. CASE DeleteItem(w)
  <2>1. PICK t \in Type, u \in Type :
           /\ \E c : Change(u, c, IF u = t THEN {} ELSE {"foreign"})
           /\ WriterGoes(w, "saved", t, {}, AnyKey)
    BY <1>2 DEF DeleteItem
  <2>2. wr[w].pc = "idle" /\ UNCHANGED cacheVars
    BY <1>2 DEF DeleteItem
  <2>3. /\ \A k \in Key : KeyType(k) = t => InvalidationDue(w, k)'
        /\ \A x \in Writer, k \in Key : InvalidationDue(x, k) => InvalidationDue(x, k)'
    BY <2>1, <2>2, DueSaving
  <2>4. CASE u = t
    BY <1>0, <2>1, <2>2, <2>3, <2>4, ChangeExcused
  <2>5. CASE u # t
    <3>1. {"foreign"} \in SUBSET (Cause \ {"related"}) /\ {"foreign"} # {}
      BY DEF Cause
    <3> QED
      BY <2>1, <2>2, <2>3, <2>5, <3>1, ChangeExcused
  <2> QED
    BY <2>4, <2>5
<1>3. CASE SaveValues(w)
  <2>1. /\ Change(wr[w].type, NewValues(wr[w].type), {}) /\ UNCHANGED cacheVars
        /\ WriterGoes(w, "values_saved", wr[w].type, {}, AnyKey)
    BY <1>3 DEF SaveValues
  <2> QED
    BY <1>0, <2>1, DueSaving, ChangeExcused
<1>4. CASE SaveTitle(w)
  <2>1. WriterGoes(w, "saved", wr[w].type, {}, AnyKey) /\ UNCHANGED cacheVars
    BY <1>4 DEF SaveTitle
  <2>2. /\ \A k \in Key : KeyType(k) = wr[w].type => InvalidationDue(w, k)'
        /\ \A x \in Writer, k \in Key : InvalidationDue(x, k) => InvalidationDue(x, k)'
    BY <1>0, <2>1, DueSaving
  <2>3. CASE \E c : Change(wr[w].type, c, {})
    BY <1>0, <2>1, <2>2, <2>3, ChangeExcused
  <2>4. CASE UNCHANGED <<content, rd, history>>
    <3> SUFFICES ASSUME NEW k \in Key PROVE Explained(k)'
      BY AllExplained DEF StaleHasCause, Explained, Excused
    <3>1. Explained(k) /\ entry'[k] = entry[k] /\ cause'[k] = cause[k]
      BY <2>1, <2>4, AllExplained DEF cacheVars, history
    <3> QED
      BY <2>2, <2>4, <3>1, DueExcuses, StillExplained
  <2> QED
    BY <1>4, <2>3, <2>4 DEF SaveTitle
<1> QED
  BY <1>1, <1>2, <1>3, <1>4

LEMMA InvalidateExcused ==
  ASSUME TypeOK, StaleHasCause, NEW w \in Writer,
         \/ InvalidateStart(w) \/ InvalidateRemove(w) \/ InvalidateUntrack(w)
         \/ InvalidateEnd(w) \/ AbortWrite(w)
  PROVE  StaleHasCause'
<1> SUFFICES ASSUME NEW k \in Key PROVE Explained(k)'
  BY AllExplained DEF StaleHasCause, Explained, Excused
<1>0. UNCHANGED content /\ Explained(k)
  BY AllExplained
     DEF InvalidateStart, InvalidateRemove, InvalidateUntrack, InvalidateEnd, AbortWrite
<1>1. ASSUME entry'[k] = entry[k], cause'[k] = cause[k],
             \A x \in Writer : InvalidationDue(x, k) => InvalidationDue(x, k)'
      PROVE  Explained(k)'
  BY <1>0, <1>1, StillExplained, DueExcuses
<1>2. CASE InvalidateStart(w)
  <2>1. /\ wr[w].pc = "saved" /\ UNCHANGED entry
        /\ WriterGoes(w, "removing", wr[w].type, KeysToRemove(wr[w].type), AnyKey)
    BY <1>2 DEF InvalidateStart, cacheVars
  <2>2. /\ wr'[w] = [pc |-> "removing", type |-> wr[w].type,
                     todo |-> KeysToRemove(wr[w].type), at |-> AnyKey]
        /\ \A x \in Writer : x # w => wr'[x] = wr[x]
    BY <2>1, WriterMoves
  <2>3. CASE ~Cached(k)
    BY <2>1, <2>3, GoneExplained DEF Cached
  <2>4. CASE Cached(k) /\ KeyType(k) = wr[w].type /\ k \notin tracked
    <3>1. cause'[k] = cause[k] \cup {"untracked"}
      BY <1>2, <2>4 DEF InvalidateStart
    <3>2. Excused(k)'
      BY <3>1 DEF Excused
    <3> QED
      BY <1>0, <2>1, <3>1, <3>2, StillExplained
  <2>5. CASE Cached(k) /\ KeyType(k) = wr[w].type /\ k \in tracked
    <3>1. InvalidationDue(w, k)'
      BY <2>2, <2>5 DEF InvalidationDue, KeysToRemove, HasPrefix
    <3>2. Excused(k)' /\ cause'[k] = cause[k]
      BY <1>2, <2>5, <3>1 DEF Excused, InvalidateStart
    <3> QED
      BY <1>0, <2>1, <3>2, StillExplained
  <2>6. CASE KeyType(k) # wr[w].type
    <3>1. cause'[k] = cause[k]
      BY <1>2, <2>6 DEF InvalidateStart
    <3>2. ~InvalidationDue(w, k)
      BY <2>6 DEF InvalidationDue
    <3> QED
      BY <1>1, <2>1, <2>2, <3>1, <3>2, DueUnmoved
  <2> QED
    BY <2>3, <2>4, <2>5, <2>6
<1>3. CASE InvalidateRemove(w)
  <2>1. PICK q \in wr[w].todo :
           RemoveEntry(q) /\ Forget(q) /\ WriterGoes(w, "removed", wr[w].type, wr[w].todo, q)
    BY <1>3 DEF InvalidateRemove
  <2>2. CASE k = q
    <3>1. entry \in [Key -> Response \cup {NoEntry}]
      BY DEF TypeOK
    <3>2. entry' = [entry EXCEPT ![q] = NoEntry]
      BY <2>1 DEF RemoveEntry
    <3> QED
      BY <2>2, <3>1, <3>2, GoneExplained
  <2>3. CASE k # q
    <3>1. entry'[k] = entry[k] /\ cause'[k] = cause[k]
      BY <2>1, <2>3 DEF RemoveEntry, Forget, TypeOK
    <3>2. /\ wr'[w] = [pc |-> "removed", type |-> wr[w].type, todo |-> wr[w].todo, at |-> q]
          /\ \A x \in Writer : x # w => wr'[x] = wr[x]
      BY <2>1, WriterMoves
    <3>3. wr[w].pc = "removing"
      BY <1>3 DEF InvalidateRemove
    <3>4. InvalidationDue(w, k) => InvalidationDue(w, k)'
      BY <2>3, <3>2, <3>3 DEF InvalidationDue
    <3> QED
      BY <1>1, <3>1, <3>2, <3>4, DueUnmoved
  <2> QED
    BY <2>2, <2>3
<1>4. CASE InvalidateUntrack(w)
  <2>1. /\ wr[w].pc = "removed" /\ UNCHANGED <<entry, cause>>
        /\ WriterGoes(w, "removing", wr[w].type, wr[w].todo \ {wr[w].at}, AnyKey)
    BY <1>4 DEF InvalidateUntrack, UntrackKey, history
  <2>2. /\ wr'[w] = [pc |-> "removing", type |-> wr[w].type,
                     todo |-> wr[w].todo \ {wr[w].at}, at |-> AnyKey]
        /\ \A x \in Writer : x # w => wr'[x] = wr[x]
    BY <2>1, WriterMoves
  <2>3. InvalidationDue(w, k) => InvalidationDue(w, k)'
    BY <2>1, <2>2 DEF InvalidationDue
  <2> QED
    BY <1>1, <2>1, <2>2, <2>3, DueUnmoved
<1>5. CASE InvalidateEnd(w)
  <2>1. /\ wr[w].pc = "removing" /\ wr[w].todo = {} /\ UNCHANGED <<entry, cause>>
        /\ \A x \in Writer : x # w => wr'[x] = wr[x]
    BY <1>5 DEF InvalidateEnd, cacheVars, history, TypeOK
  <2>2. ~InvalidationDue(w, k)
    BY <2>1 DEF InvalidationDue
  <2> QED
    BY <1>1, <2>1, <2>2, DueUnmoved
<1>6. CASE AbortWrite(w)
  <2>1. UNCHANGED entry /\ \A x \in Writer : x # w => wr'[x] = wr[x]
    BY <1>6 DEF AbortWrite, cacheVars, TypeOK
  <2>2. CASE ~Cached(k)
    BY <2>1, <2>2, GoneExplained DEF Cached
  <2>3. CASE Cached(k) /\ KeyType(k) = wr[w].type
    <3>1. cause'[k] = cause[k] \cup {"aborted"}
      BY <1>6, <2>3 DEF AbortWrite
    <3>2. Excused(k)'
      BY <3>1 DEF Excused
    <3> QED
      BY <1>0, <2>1, <3>1, <3>2, StillExplained
  <2>4. CASE KeyType(k) # wr[w].type
    <3>1. cause'[k] = cause[k]
      BY <1>6, <2>4 DEF AbortWrite
    <3>2. ~InvalidationDue(w, k)
      BY <2>4 DEF InvalidationDue
    <3> QED
      BY <1>1, <2>1, <3>1, <3>2, DueUnmoved
  <2> QED
    BY <2>2, <2>3, <2>4
<1> QED
  BY <1>2, <1>3, <1>4, <1>5, <1>6

LEMMA WorldExcused ==
  ASSUME TypeOK, StaleHasCause,
         \/ \E k \in Key : ExpireEntry(k) \/ EvictionCallback(k)
         \/ AdminWrite \/ Restart
  PROVE  StaleHasCause'
<1>1. ASSUME NEW q \in Key, ExpireEntry(q) PROVE StaleHasCause'
  <2> SUFFICES ASSUME NEW k \in Key PROVE Explained(k)'
    BY AllExplained DEF StaleHasCause, Explained, Excused
  <2>1. entry' = [entry EXCEPT ![q] = NoEntry] /\ UNCHANGED <<content, wr>>
    BY <1>1 DEF ExpireEntry, Expire, RemoveEntry
  <2>2. CASE k = q
    <3>1. entry'[k] = NoEntry
      BY <2>1, <2>2 DEF TypeOK
    <3> QED
      BY <3>1, GoneExplained
  <2>3. CASE k # q
    <3>1. entry'[k] = entry[k] /\ cause'[k] = cause[k] /\ Explained(k)
      BY <1>1, <2>1, <2>3, AllExplained DEF ExpireEntry, Forget, TypeOK
    <3> QED
      BY <2>1, <3>1, StillExplained, DueUnmoved, DueExcuses
  <2> QED
    BY <2>2, <2>3
<1>2. ASSUME NEW q \in Key, EvictionCallback(q) PROVE StaleHasCause'
  <2> SUFFICES ASSUME NEW k \in Key PROVE Explained(k)'
    BY AllExplained DEF StaleHasCause, Explained, Excused
  <2>1. UNCHANGED <<entry, content, wr, cause>> /\ Explained(k)
    BY <1>2, AllExplained DEF EvictionCallback, RunCallback
  <2> QED
    BY <2>1, StillExplained, DueUnmoved, DueExcuses
<1>3. CASE AdminWrite
  <2>1. PICK t \in Type : \E c : Change(t, c, {"admin"})
    BY <1>3 DEF AdminWrite
  <2>2. {"admin"} \in SUBSET (Cause \ {"related"}) /\ {"admin"} # {}
    BY DEF Cause
  <2>3. UNCHANGED cacheVars
    BY <1>3 DEF AdminWrite
  <2>4. \A x \in Writer, k \in Key : InvalidationDue(x, k)' = InvalidationDue(x, k)
    BY <1>3, DueUnmoved DEF AdminWrite
  <2> QED
    BY <2>1, <2>2, <2>3, <2>4, ChangeExcused
<1>4. CASE Restart
  <2> SUFFICES ASSUME NEW k \in Key PROVE Explained(k)'
    BY AllExplained DEF StaleHasCause, Explained, Excused
  <2>1. entry'[k] = NoEntry
    BY <1>4 DEF Restart
  <2> QED
    BY <2>1, GoneExplained
<1> QED
  BY <1>1, <1>2, <1>3, <1>4

-----------------------------------------------------------------------------
(* The inductive invariant *)

LEMMA InitIInv == Init => IInv
<1> SUFFICES ASSUME Init PROVE IInv
  OBVIOUS
<1>1. FillsCurrent
  BY DEF Init, IdleReader, FillsCurrent, FillCurrent
<1>2. StaleHasCause
  BY DEF Init, InitCache, StaleHasCause, OwnStale, RelatedStale, Cached
<1> QED
  BY <1>1, <1>2, InitTypes DEF IInv

LEMMA StepIInv == IInv /\ [Next]_vars => IInv'
<1> SUFFICES ASSUME TypeOK, FillsCurrent, StaleHasCause, [Next]_vars PROVE StaleHasCause'
  BY TypesKept, FillsKept DEF IInv
<1>1. CASE Next
  BY <1>1, ReadExcused, WriteExcused, InvalidateExcused, WorldExcused DEF Next, WriteStep
<1>2. CASE UNCHANGED vars
  <2> SUFFICES ASSUME NEW k \in Key PROVE Explained(k)'
    BY AllExplained DEF StaleHasCause, Explained, Excused
  <2>1. UNCHANGED <<entry, content, wr, cause>> /\ Explained(k)
    BY <1>2, AllExplained DEF vars
  <2> QED
    BY <2>1, StillExplained, DueUnmoved, DueExcuses
<1> QED
  BY <1>1, <1>2

LEMMA Invariance == Spec => []IInv
  BY InitIInv, StepIInv, PTL DEF Spec

\* The state of the cache, of the requests and of the content always has its type.
THEOREM TypeCorrect == Spec => []TypeOK
<1>1. IInv => TypeOK
  BY DEF IInv
<1> QED
  BY <1>1, Invariance, PTL

\* Whatever requests, expirations, callbacks, cancellations and restarts
\* interleave, a cached response that differs from its type's content has one of the
\* five causes or is about to be removed, and one that differs in what it shows of
\* other types was built across a change there or has seen one since.
THEOREM StaleExplained == Spec => []StaleHasCause
<1>1. IInv => StaleHasCause
  BY DEF IInv
<1> QED
  BY <1>1, Invariance, PTL
-----------------------------------------------------------------------------
(* Requests one after the other *)

Alone ==
    /\ \A q, r \in Reader : q # r => rd[q].pc = "idle" \/ rd[r].pc = "idle"
    /\ \A v, w \in Writer : v # w => wr[v].pc = "idle" \/ wr[w].pc = "idle"
    /\ \A r \in Reader, w \in Writer : rd[r].pc = "idle" \/ wr[w].pc = "idle"

\* The claim about keys, and the same for a key that Set has recorded.
FillsTracked ==
    \A r \in Reader :
       /\ rd[r].pc # "idle" => ~Cached(rd[r].key)
       /\ rd[r].pc = "tracked" => rd[r].key \in tracked \/ rd[r].key \in late

UntracksEmpty == \A w \in Writer : wr[w].pc = "removed" => ~Cached(wr[w].at)

Serial == Alone /\ UntrackedByLateCallback /\ FillsTracked /\ UntracksEmpty

InSeries == ~Overlap => Serial

\* Content changes through the API only, by whole requests, each on its own type.
WritesAlone == ~Overlap /\ ~AdminWrites /\ ~ForeignDeletes /\ ~MayAbort

\* No response is raced, and one that an invalidation missed had lost its key before.
BlamedForLate ==
    /\ \A k \in Key : Cached(k) =>
          /\ cause[k] \subseteq {"related", "untracked"}
          /\ "untracked" \in cause[k] => k \in late
    /\ \A r \in Reader : ~rd[r].raced

OnlyLate == WritesAlone => BlamedForLate

\* Where a reader stands after its step, and that the others stand still.
LEMMA ReaderMoves ==
  ASSUME TypeOK, NEW r \in Reader
  PROVE  /\ \A step, seen : ReaderGoes(r, step, seen) =>
               /\ rd'[r].pc = step /\ rd'[r].key = rd[r].key /\ rd'[r].raced = rd[r].raced
               /\ \A q \in Reader : q # r => rd'[q] = rd[q]
         /\ ReaderEnds(r) =>
               /\ rd'[r].pc = "idle" /\ rd'[r].raced = FALSE
               /\ \A q \in Reader : q # r => rd'[q] = rd[q]
  BY DEF TypeOK, ReaderGoes, ReaderEnds, IdleReader

\* A change of content leaves every reader where it is, and races none that is idle.
LEMMA ChangeLeavesReaders ==
  ASSUME TypeOK, NEW t, NEW c, NEW why, Change(t, c, why)
  PROVE  /\ \A q \in Reader : rd'[q].pc = rd[q].pc /\ rd'[q].key = rd[q].key
         /\ \A q \in Reader : rd[q].pc = "idle" /\ ~rd[q].raced => ~rd'[q].raced
  BY DEF Change

\* While reader r has the service to itself, everybody else is idle.
LEMMA ReaderAlone ==
  ASSUME Alone, NEW r \in Reader, wr' = wr, \A q \in Reader : q # r => rd'[q] = rd[q],
         rd[r].pc # "idle" \/ AllIdle
  PROVE  /\ Alone'
         /\ \A q \in Reader : q # r => rd[q].pc = "idle" /\ rd'[q].pc = "idle"
         /\ \A w \in Writer : wr[w].pc = "idle" /\ wr'[w].pc = "idle"
  BY DEF Alone, AllIdle

LEMMA WriterAlone ==
  ASSUME Alone, NEW w \in Writer, \A q \in Reader : rd'[q].pc = rd[q].pc,
         \A v \in Writer : v # w => wr'[v] = wr[v],
         wr[w].pc # "idle" \/ AllIdle
  PROVE  /\ Alone'
         /\ \A r \in Reader : rd[r].pc = "idle" /\ rd'[r].pc = "idle"
         /\ \A v \in Writer : v # w => wr'[v].pc = "idle"
  BY DEF Alone, AllIdle

LEMMA ReadSerial ==
  ASSUME TypeOK, ~Overlap, Serial, NEW r \in Reader,
         ReadMiss(r) \/ ReadStep(r) \/ AbortRead(r)
  PROVE  Serial'
<1>0. wr' = wr
  BY DEF ReadMiss, ReadStep, ReadRows, ReadValues, ReadDisplays, SetTrack, SetCommit, AbortRead
<1>1. /\ \A q \in Reader : q # r => rd'[q] = rd[q]
      /\ rd[r].pc # "idle" \/ AllIdle
  <2>1. CASE ReadMiss(r)
    BY <2>1 DEF ReadMiss, MayStart, TypeOK
  <2>2. CASE ~ReadMiss(r)
    BY <2>2, OneReader
       DEF ReadStep, ReadRows, ReadValues, ReadDisplays, SetTrack, SetCommit, AbortRead
  <2> QED
    BY <2>1, <2>2
<1>2. /\ Alone'
      /\ \A q \in Reader : q # r => rd'[q].pc = "idle"
      /\ \A w \in Writer : wr'[w].pc = "idle"
  BY <1>0, <1>1, ReaderAlone DEF Serial
<1>3. UntracksEmpty'
  BY <1>2 DEF UntracksEmpty
<1>4. /\ UntrackedByLateCallback /\ FillsTracked /\ rd[r].key \in Key
  BY ReaderFacts DEF Serial
<1>5. CASE ReadMiss(r)
  <2>1. PICK k \in Key : /\ ~Cached(k)
                         /\ rd' = [rd EXCEPT ![r] = [pc |-> "missed", key |-> k,
                                                     seen |-> NoResponse, raced |-> FALSE]]
    BY <1>5 DEF ReadMiss
  <2>2. rd'[r].pc = "missed" /\ rd'[r].key = k
    BY <2>1 DEF TypeOK
  <2>3. UNCHANGED cacheVars /\ late' = late
    BY <1>5 DEF ReadMiss, history
  <2>4. FillsTracked'
    BY <1>2, <2>1, <2>2, <2>3 DEF FillsTracked, Cached, cacheVars
  <2>5. UntrackedByLateCallback'
    BY <1>4, <2>3 DEF UntrackedByLateCallback, Cached, cacheVars
  <2> QED
    BY <1>2, <1>3, <2>4, <2>5 DEF Serial
<1>6. CASE ReadRows(r) \/ ReadValues(r) \/ ReadDisplays(r) \/ AbortRead(r)
  <2>1. UNCHANGED cacheVars /\ late' = late /\ rd[r].pc # "idle"
    BY <1>6 DEF ReadRows, ReadValues, ReadDisplays, AbortRead, history
  <2>2. \/ rd'[r].pc = "idle"
        \/ rd'[r].pc \in {"rows_read", "values_read", "built"} /\ rd'[r].key = rd[r].key
    BY <1>6, ReaderMoves DEF ReadRows, ReadValues, ReadDisplays, AbortRead
  <2>3. FillsTracked'
    BY <1>2, <1>4, <2>1, <2>2 DEF FillsTracked, Cached, cacheVars
  <2>4. UntrackedByLateCallback'
    BY <1>4, <2>1 DEF UntrackedByLateCallback, Cached, cacheVars
  <2> QED
    BY <1>2, <1>3, <2>3, <2>4 DEF Serial
<1>7. CASE SetTrack(r)
  <2>1. /\ rd[r].pc # "idle" /\ rd'[r].key = rd[r].key /\ entry' = entry
        /\ tracked' = tracked \cup {rd[r].key} /\ late' = late \ {rd[r].key}
    BY <1>7, ReaderMoves DEF SetTrack, TrackKey
  <2>2. FillsTracked'
    BY <1>2, <1>4, <2>1 DEF FillsTracked, Cached
  <2>3. UntrackedByLateCallback'
    BY <1>4, <2>1 DEF UntrackedByLateCallback, Cached
  <2> QED
    BY <1>2, <1>3, <2>2, <2>3 DEF Serial
<1>8. CASE SetCommit(r)
  <2>1. /\ rd[r].pc = "tracked" /\ rd'[r].pc = "idle" /\ late' = late
        /\ entry' = [entry EXCEPT ![rd[r].key] = rd[r].seen] /\ tracked' = tracked
    BY <1>8, ReaderMoves DEF SetCommit, CommitEntry
  <2>2. rd[r].key \in tracked \/ rd[r].key \in late
    BY <1>4, <2>1 DEF FillsTracked
  <2>3. FillsTracked'
    BY <1>2, <2>1 DEF FillsTracked
  <2>4. UntrackedByLateCallback'
    BY <1>4, <2>1, <2>2 DEF UntrackedByLateCallback, Cached, TypeOK
  <2> QED
    BY <1>2, <1>3, <2>3, <2>4 DEF Serial
<1> QED
  BY <1>5, <1>6, <1>7, <1>8 DEF ReadStep

\* An entry that goes takes no other with it, and untracks nothing by itself.
LEMMA EntryGoes ==
  ASSUME TypeOK, NEW k \in Key, RemoveEntry(k)
  PROVE  /\ ~Cached(k)'
         /\ \A j \in Key : Cached(j)' => Cached(j)
         /\ tracked' = tracked
<1>1. entry' = [entry EXCEPT ![k] = NoEntry] /\ tracked' = tracked
  BY DEF RemoveEntry
<1>2. entry'[k] = NoEntry /\ \A j \in Key : j # k => entry'[j] = entry[j]
  BY <1>1 DEF TypeOK
<1> QED
  BY <1>1, <1>2 DEF Cached

LEMMA WriteSerial ==
  ASSUME TypeOK, ~Overlap, Serial, NEW w \in Writer,
         SaveItem(w) \/ DeleteItem(w) \/ WriteStep(w) \/ AbortWrite(w)
  PROVE  Serial'
<1>1. /\ \A q \in Reader : rd'[q].pc = rd[q].pc
      /\ late' = late
  <2>1. CASE rd' = rd /\ late' = late
    BY <2>1
  <2>2. CASE \E t, c, why : Change(t, c, why)
    BY <2>2, ChangeLeavesReaders DEF Change
  <2> QED
    BY <2>1, <2>2
       DEF SaveItem, DeleteItem, WriteStep, SaveValues, SaveTitle, InvalidateStart,
           InvalidateRemove, InvalidateUntrack, InvalidateEnd, AbortWrite, history
<1>2. /\ \A v \in Writer : v # w => wr'[v] = wr[v]
      /\ wr[w].pc # "idle" \/ AllIdle
  BY DEF SaveItem, DeleteItem, WriteStep, SaveValues, SaveTitle, InvalidateStart,
         InvalidateRemove, InvalidateUntrack, InvalidateEnd, AbortWrite, WriterGoes,
         MayStart, TypeOK
<1>3. /\ Alone'
      /\ \A q \in Reader : rd'[q].pc = "idle"
      /\ \A v \in Writer : v # w => wr'[v].pc = "idle"
  BY <1>1, <1>2, WriterAlone DEF Serial
<1>4. FillsTracked'
  BY <1>3 DEF FillsTracked
<1>5. UntrackedByLateCallback /\ UntracksEmpty
  BY DEF Serial
<1>6. CASE InvalidateRemove(w)
  <2>1. PICK k \in Key :
           RemoveEntry(k) /\ WriterGoes(w, "removed", wr[w].type, wr[w].todo, k)
    BY <1>6 DEF InvalidateRemove, TypeOK, WriterState
  <2>2. /\ ~Cached(k)' /\ tracked' = tracked
        /\ \A j \in Key : Cached(j)' => Cached(j)
    BY <2>1, EntryGoes
  <2>3. UntrackedByLateCallback'
    BY <1>1, <1>5, <2>2 DEF UntrackedByLateCallback
  <2>4. wr'[w] = [pc |-> "removed", type |-> wr[w].type, todo |-> wr[w].todo, at |-> k]
    BY <2>1, WriterMoves
  <2>5. UntracksEmpty'
    BY <1>3, <2>2, <2>4 DEF UntracksEmpty, Cached
  <2> QED
    BY <1>3, <1>4, <2>3, <2>5 DEF Serial
<1>7. CASE InvalidateUntrack(w)
  <2>1. /\ wr[w].pc = "removed" /\ entry' = entry
        /\ tracked' = tracked \ {wr[w].at}
        /\ WriterGoes(w, "removing", wr[w].type, wr[w].todo \ {wr[w].at}, AnyKey)
    BY <1>7 DEF InvalidateUntrack, UntrackKey
  <2>2. ~Cached(wr[w].at)
    BY <1>5, <2>1 DEF UntracksEmpty
  <2>3. UntrackedByLateCallback'
    BY <1>1, <1>5, <2>1, <2>2 DEF UntrackedByLateCallback, Cached
  <2>4. wr'[w].pc = "removing"
    BY <2>1 DEF WriterGoes, TypeOK
  <2>5. UntracksEmpty'
    BY <1>3, <2>4 DEF UntracksEmpty
  <2> QED
    BY <1>3, <1>4, <2>3, <2>5 DEF Serial
<1>8. CASE ~InvalidateRemove(w) /\ ~InvalidateUntrack(w)
  <2>1. /\ UNCHANGED cacheVars
        /\ \/ wr' = [wr EXCEPT ![w] = IdleWriter]
           \/ \E step \in {"row_saved", "values_saved", "saved", "removing"} : \E t, todo :
                 WriterGoes(w, step, t, todo, AnyKey)
    BY <1>8 DEF SaveItem, DeleteItem, WriteStep, SaveValues, SaveTitle, InvalidateStart,
                InvalidateEnd, AbortWrite
  <2>2. wr'[w].pc # "removed"
    BY <2>1 DEF WriterGoes, IdleWriter, TypeOK
  <2>3. UntracksEmpty'
    BY <1>3, <2>2 DEF UntracksEmpty
  <2>4. UntrackedByLateCallback'
    BY <1>1, <1>5, <2>1 DEF UntrackedByLateCallback, Cached, cacheVars
  <2> QED
    BY <1>3, <1>4, <2>3, <2>4 DEF Serial
<1> QED
  BY <1>6, <1>7, <1>8

LEMMA WorldSerial ==
  ASSUME TypeOK, Serial,
         \/ \E k \in Key : ExpireEntry(k) \/ EvictionCallback(k)
         \/ AdminWrite \/ Restart
  PROVE  Serial'
<1>0. /\ Alone /\ UntrackedByLateCallback /\ FillsTracked /\ UntracksEmpty
      /\ \A q \in Reader : rd[q].key \in Key
      /\ \A w \in Writer : wr[w].at \in Key
  BY DEF Serial, TypeOK, ReaderState, WriterState
<1>1. ASSUME NEW k \in Key, ExpireEntry(k) PROVE Serial'
  <2>1. RemoveEntry(k) /\ rd' = rd /\ wr' = wr /\ late' = late
    BY <1>1 DEF ExpireEntry, Expire
  <2>2. tracked' = tracked /\ \A j \in Key : Cached(j)' => Cached(j)
    BY <2>1, EntryGoes
  <2>3. UntrackedByLateCallback'
    BY <1>0, <2>1, <2>2 DEF UntrackedByLateCallback
  <2>4. FillsTracked'
    BY <1>0, <2>1, <2>2 DEF FillsTracked, Cached
  <2>5. UntracksEmpty'
    BY <1>0, <2>1, <2>2 DEF UntracksEmpty, Cached
  <2> QED
    BY <1>0, <2>1, <2>3, <2>4, <2>5 DEF Serial, Alone
<1>2. ASSUME NEW k \in Key, EvictionCallback(k) PROVE Serial'
  <2>1. /\ rd' = rd /\ wr' = wr /\ entry' = entry /\ tracked' = tracked \ {k}
        /\ late \subseteq late' /\ (InUse(k) => k \in late')
    BY <1>2 DEF EvictionCallback, RunCallback
  <2>2. UntrackedByLateCallback'
    BY <1>0, <2>1 DEF UntrackedByLateCallback, Cached, InUse
  <2>3. FillsTracked'
    BY <1>0, <2>1 DEF FillsTracked, Cached, InUse
  <2>4. UntracksEmpty'
    BY <1>0, <2>1 DEF UntracksEmpty, Cached
  <2> QED
    BY <1>0, <2>1, <2>2, <2>3, <2>4 DEF Serial, Alone
<1>3. CASE AdminWrite
  <2>1. /\ \A q \in Reader : rd'[q].pc = rd[q].pc /\ rd'[q].key = rd[q].key
        /\ wr' = wr /\ UNCHANGED cacheVars /\ late' = late
    BY <1>3, ChangeLeavesReaders DEF AdminWrite, Change
  <2> QED
    BY <1>0, <2>1
       DEF Serial, Alone, UntrackedByLateCallback, FillsTracked, UntracksEmpty, Cached, cacheVars
<1>4. CASE Restart
  <2>1. /\ \A q \in Reader : rd'[q].pc = "idle"
        /\ \A w \in Writer : wr'[w].pc = "idle"
        /\ \A k \in Key : entry'[k] = NoEntry
    BY <1>4 DEF Restart, IdleReader, IdleWriter
  <2> QED
    BY <2>1 DEF Serial, Alone, UntrackedByLateCallback, FillsTracked, UntracksEmpty, Cached
<1> QED
  BY <1>1, <1>2, <1>3, <1>4

LEMMA SerialKept == ASSUME TypeOK, InSeries, [Next]_vars PROVE InSeries'
<1> SUFFICES ASSUME ~Overlap PROVE Serial'
  BY DEF InSeries
<1>1. Serial
  BY DEF InSeries
<1>2. CASE Next
  BY <1>1, <1>2, ReadSerial, WriteSerial, WorldSerial DEF Next
<1>3. CASE UNCHANGED vars
  BY <1>1, <1>3
     DEF vars, Serial, Alone, UntrackedByLateCallback, FillsTracked, UntracksEmpty, Cached
<1> QED
  BY <1>2, <1>3

LEMMA InitSerial == Init => InSeries /\ OnlyLate
  BY DEF Init, InitCache, IdleReader, IdleWriter, InSeries, Serial, Alone,
         UntrackedByLateCallback, FillsTracked, UntracksEmpty, Cached, OnlyLate, BlamedForLate

\* A change of a type's content by a write to that type, alone, blames at most the
\* responses that display its items as related ones.
LEMMA ChangeBlamesRelated ==
  ASSUME TypeOK, BlamedForLate, \A q \in Reader : rd[q].pc = "idle",
         NEW t, NEW c, Change(t, c, {}), UNCHANGED entry
  PROVE  BlamedForLate'
<1>1. \A q \in Reader : ~rd'[q].raced
  BY ChangeLeavesReaders DEF BlamedForLate
<1>2. /\ late' = late
      /\ \A k \in Key : Cached(k) => cause'[k] \subseteq cause[k] \cup {"related"}
  BY DEF Change
<1>3. ASSUME NEW k \in Key, Cached(k)
      PROVE  /\ cause'[k] \subseteq {"related", "untracked"}
             /\ "untracked" \in cause'[k] => k \in late'
  BY <1>2, <1>3 DEF BlamedForLate
<1> QED
  BY <1>1, <1>3 DEF BlamedForLate, Cached

\* An entry that goes is blamed for nothing any more, the others for what they were.
LEMMA GoneBlameless ==
  ASSUME TypeOK, BlamedForLate, NEW k \in Key, RemoveEntry(k), Forget(k), UNCHANGED <<rd, late>>
  PROVE  BlamedForLate'
<1>1. ~Cached(k)' /\ \A j \in Key : Cached(j)' => Cached(j)
  BY EntryGoes
<1>2. \A j \in Key : j # k => cause'[j] = cause[j]
  BY DEF Forget, TypeOK
<1>3. ASSUME NEW j \in Key, Cached(j)'
      PROVE  /\ cause'[j] \subseteq {"related", "untracked"}
             /\ "untracked" \in cause'[j] => j \in late'
  BY <1>1, <1>2, <1>3 DEF BlamedForLate
<1> QED
  BY <1>3 DEF BlamedForLate

LEMMA OnlyLateKept ==
  ASSUME TypeOK, InSeries, OnlyLate, [Next]_vars
  PROVE  OnlyLate'
<1> SUFFICES ASSUME WritesAlone PROVE BlamedForLate'
  BY DEF OnlyLate
<1>0. /\ Serial /\ BlamedForLate
      /\ ~Overlap /\ ~AdminWrites /\ ~ForeignDeletes /\ ~MayAbort
  BY DEF OnlyLate, WritesAlone, InSeries
<1>1. ASSUME NEW r \in Reader, ReadMiss(r) \/ ReadStep(r) \/ AbortRead(r) PROVE BlamedForLate'
  <2>1. CASE ReadMiss(r)
    <3>1. \A q \in Reader : ~rd'[q].raced
      BY <1>0, <2>1 DEF ReadMiss, BlamedForLate, TypeOK
    <3> QED
      BY <1>0, <2>1, <3>1 DEF ReadMiss, BlamedForLate, cacheVars, history, Cached
  <2>2. CASE ReadRows(r) \/ ReadValues(r) \/ ReadDisplays(r)
    <3>1. /\ UNCHANGED <<cacheVars, history>>
          /\ \E step, seen : ReaderGoes(r, step, seen) \/ ReaderEnds(r)
      BY <2>2 DEF ReadRows, ReadValues, ReadDisplays
    <3>2. \A q \in Reader : ~rd'[q].raced
      BY <1>0, <3>1, ReaderMoves DEF BlamedForLate
    <3> QED
      BY <1>0, <3>1, <3>2 DEF BlamedForLate, cacheVars, history, Cached
  <2>3. CASE SetTrack(r)
    <3>1. /\ cause' = cause /\ entry' = entry /\ late' = late \ {rd[r].key}
          /\ ReaderGoes(r, "tracked", rd[r].seen) /\ rd[r].pc # "idle"
      BY <2>3 DEF SetTrack, TrackKey
    <3>2. \A q \in Reader : ~rd'[q].raced
      BY <1>0, <3>1, ReaderMoves DEF BlamedForLate
    <3>3. ~Cached(rd[r].key)
      BY <1>0, <3>1 DEF Serial, FillsTracked
    <3> QED
      BY <1>0, <3>1, <3>2, <3>3 DEF BlamedForLate, Cached
  <2>4. CASE SetCommit(r)
    <3>1. /\ ReaderEnds(r) /\ ~rd[r].raced /\ late' = late /\ rd[r].key \in Key
          /\ entry' = [entry EXCEPT ![rd[r].key] = rd[r].seen]
          /\ cause' = [cause EXCEPT ![rd[r].key] = IF rd[r].raced THEN {"race"} ELSE {}]
      BY <1>0, <2>4, ReaderFacts DEF SetCommit, CommitEntry, BlamedForLate
    <3>2. \A q \in Reader : ~rd'[q].raced
      BY <1>0, <3>1, ReaderMoves DEF BlamedForLate
    <3>3. /\ cause'[rd[r].key] = {}
          /\ \A j \in Key : j # rd[r].key => cause'[j] = cause[j] /\ (Cached(j)' <=> Cached(j))
      BY <3>1 DEF TypeOK, Cached
    <3> QED
      BY <1>0, <3>1, <3>2, <3>3 DEF BlamedForLate
  <2> QED
    BY <1>0, <1>1, <2>1, <2>2, <2>3, <2>4 DEF ReadStep, AbortRead
<1>2. ASSUME NEW w \in Writer, SaveItem(w) \/ DeleteItem(w) \/ SaveValues(w) \/ SaveTitle(w)
      PROVE  BlamedForLate'
  <2>1. wr[w].pc # "idle" \/ AllIdle
    BY <1>0, <1>2 DEF SaveItem, DeleteItem, SaveValues, SaveTitle, MayStart
  <2>2. \A q \in Reader : rd[q].pc = "idle"
    BY <1>0, <2>1 DEF Serial, Alone, AllIdle
  <2>3. /\ entry' = entry
        /\ \/ UNCHANGED <<content, rd, history>>
           \/ \E t, c : Change(t, c, {})
    BY <1>0, <1>2 DEF SaveItem, DeleteItem, SaveValues, SaveTitle, cacheVars
  <2>4. CASE UNCHANGED <<content, rd, history>>
    BY <1>0, <2>3, <2>4 DEF BlamedForLate, history, Cached
  <2> QED
    BY <1>0, <2>2, <2>3, <2>4, ChangeBlamesRelated
<1>3. ASSUME NEW w \in Writer, InvalidateStart(w) PROVE BlamedForLate'
  <2>1. /\ rd' = rd /\ late' = late /\ entry' = entry
        /\ cause' = [k \in Key |-> IF Cached(k) /\ KeyType(k) = wr[w].type /\ k \notin tracked
                                     THEN cause[k] \cup {"untracked"} ELSE cause[k]]
    BY <1>3 DEF InvalidateStart, cacheVars
  <2>2. \A k \in Key : Cached(k) /\ k \notin tracked => k \in late
    BY <1>0 DEF Serial, UntrackedByLateCallback
  <2>3. ASSUME NEW k \in Key, Cached(k)
        PROVE  /\ cause'[k] \subseteq {"related", "untracked"}
               /\ "untracked" \in cause'[k] => k \in late'
    <3>1. cause[k] \subseteq {"related", "untracked"} /\ ("untracked" \in cause[k] => k \in late)
      BY <1>0, <2>3 DEF BlamedForLate
    <3>2. CASE k \notin tracked
      BY <2>1, <2>2, <2>3, <3>1, <3>2
    <3>3. CASE k \in tracked
      BY <2>1, <3>1, <3>3
    <3> QED
      BY <3>2, <3>3
  <2> QED
    BY <1>0, <2>1, <2>3 DEF BlamedForLate, Cached
<1>4. ASSUME NEW w \in Writer, InvalidateRemove(w) \/ InvalidateUntrack(w) \/ InvalidateEnd(w)
      PROVE  BlamedForLate'
  <2>1. CASE InvalidateRemove(w)
    <3>1. /\ UNCHANGED <<rd, late>>
          /\ \E k \in Key : RemoveEntry(k) /\ Forget(k)
      BY <2>1 DEF InvalidateRemove, TypeOK, WriterState
    <3> QED
      BY <1>0, <3>1, GoneBlameless
  <2>2. CASE ~InvalidateRemove(w)
    BY <1>0, <1>4, <2>2
       DEF InvalidateUntrack, InvalidateEnd, UntrackKey, BlamedForLate, cacheVars, history, Cached
  <2> QED
    BY <2>1, <2>2
<1>5. ASSUME NEW k \in Key, ExpireEntry(k) PROVE BlamedForLate'
  BY <1>0, <1>5, GoneBlameless DEF ExpireEntry, Expire
<1>6. ASSUME NEW k \in Key, EvictionCallback(k) PROVE BlamedForLate'
  <2>1. rd' = rd /\ cause' = cause /\ entry' = entry /\ late \subseteq late'
    BY <1>6 DEF EvictionCallback, RunCallback
  <2> QED
    BY <1>0, <2>1 DEF BlamedForLate, Cached
<1>7. CASE UNCHANGED vars
  BY <1>0, <1>7 DEF vars, BlamedForLate, Cached
<1> QED
  BY <1>0, <1>1, <1>2, <1>3, <1>4, <1>5, <1>6, <1>7
     DEF Next, WriteStep, AbortWrite, AdminWrite, Restart

LEMMA SerialInvariance == Spec => [](IInv /\ InSeries /\ OnlyLate)
<1>1. IInv /\ InSeries /\ OnlyLate /\ [Next]_vars => InSeries' /\ OnlyLate'
  BY SerialKept, OnlyLateKept DEF IInv
<1> QED
  BY <1>1, InitSerial, Invariance, PTL DEF Spec

\* Requests one after the other, in whatever order and however many are cut short: a key
\* with an entry is tracked, so that the next RemoveByPrefix finds it, unless a callback
\* of an older entry of the key ran late.  Nothing is assumed of when the thread pool
\* runs callbacks, of the admin panel or of what deletions name.
THEOREM TrackedInSeries == Spec => [](~Overlap => UntrackedByLateCallback)
<1>1. InSeries => (~Overlap => UntrackedByLateCallback)
  BY DEF InSeries, Serial
<1> QED
  BY <1>1, SerialInvariance, PTL

\* When content changes only through the API, by requests that run one after the other to
\* their end and name items of their own type, then between them a cached response shows
\* its own type's content as it is, unless a late callback had untracked its key.  What
\* it displays of related items of other types may be old.
THEOREM NoneStaleInSeries == Spec => [](WritesAlone => OwnContentCurrent)
<1>1. IInv /\ OnlyLate => (WritesAlone => OwnContentCurrent)
  <2> SUFFICES ASSUME StaleHasCause, BlamedForLate, AllIdle, NEW k \in Key, OwnStale(k)
               PROVE  k \in late
    BY DEF IInv, OnlyLate, OwnContentCurrent
  <2>1. ~\E w \in Writer : InvalidationDue(w, k)
    BY DEF InvalidationDue, AllIdle
  <2>2. cause[k] \ {"related"} # {} /\ Cached(k)
    BY <2>1 DEF StaleHasCause, OwnStale
  <2> QED
    BY <2>2 DEF BlamedForLate
<1> QED
  BY <1>1, SerialInvariance, PTL
=============================================================================
