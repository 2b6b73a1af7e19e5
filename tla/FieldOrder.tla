----------------------------- MODULE FieldOrder -----------------------------
(***************************************************************************)
(* Reordering the fields of a content type by drag and drop                  *)
(* (wwwroot/js/field-builder.js), with the sort orders the server keeps.     *)
(* Every drop sends the whole order at once; nothing waits for the last one, *)
(* and each order is stored in a transaction of its own.                     *)
(***************************************************************************)
EXTENDS Naturals, Sequences, SequencesExt

CONSTANTS
  MaxFields,     \* bound: fields ever created; their ids count up
  MaxDrops       \* bound: orders under way at once

FieldOrderAssumption == MaxFields \in Nat /\ MaxDrops \in Nat

ASSUME FieldOrderAssumption

VARIABLES
  fbSort,        \* sort_order of each field created
  fbLive,        \* the fields not deleted
  fbList,        \* #field-list: the fields in the order shown
  fbPatches,     \* PATCHes under way, and whether a younger one was stored before
  fbBlame        \* history: what parted the page from the server

fbVars == <<fbSort, fbLive, fbList, fbPatches, fbBlame>>

\* ORDER BY sort_order, id
Before(sort, a, b) == sort[a] < sort[b] \/ (sort[a] = sort[b] /\ a < b)

Listed(sort, live) ==
  CHOOSE s \in [1..Cardinality(live) -> live] :
    \A i, j \in DOMAIN s : i < j => Before(sort, s[i], s[j])

NextSort == IF fbLive = {} THEN 0
            ELSE 1 + (CHOOSE n \in {fbSort[f] : f \in fbLive} : \A f \in fbLive : fbSort[f] <= n)

FbInit ==
  /\ fbSort = [f \in 1..2 |-> f - 1]
  /\ fbLive = 1..2
  /\ fbList = Listed(fbSort, fbLive)
  /\ fbPatches = <<>>
  /\ fbBlame = {}

\* A page loaded while orders are under way may be older than they are.
Load(sort, live) ==
  /\ fbList' = Listed(sort, live)
  /\ fbBlame' = IF fbPatches = <<>> THEN {} ELSE {"overtaken"}

Moved(s, i, j) == InsertAt(RemoveAt(s, i), j, s[i])

\* onEnd: persistOrder reads the list and sends it.
Drop(i, j) ==
  /\ Len(fbPatches) < MaxDrops
  /\ fbList' = Moved(fbList, i, j)
  /\ fbPatches' = Append(fbPatches, [ids |-> fbList', late |-> FALSE])
  /\ UNCHANGED <<fbSort, fbLive, fbBlame>>

\* ReorderAsync: the fields named and not deleted get their places, others keep theirs.
PatchStored(k) ==
  LET p == fbPatches[k] IN
  /\ fbSort' = [f \in DOMAIN fbSort |->
                  IF f \in fbLive /\ f \in ToSet(p.ids)
                  THEN (CHOOSE i \in 1..Len(p.ids) : p.ids[i] = f) - 1 ELSE fbSort[f]]
  /\ fbPatches' = RemoveAt([n \in 1..Len(fbPatches) |->
                              [fbPatches[n] EXCEPT !.late = @ \/ n < k]], k)
  /\ fbBlame' = IF p.late THEN fbBlame \cup {"overtaken"}
                ELSE IF k = Len(fbPatches) /\ p.ids = fbList /\ ToSet(fbList) = fbLive
                THEN {} ELSE fbBlame
  /\ UNCHANGED <<fbLive, fbList>>

\* Refused or lost: an alert asks to refresh, the list stays as dropped.
PatchFailed(k) ==
  /\ fbPatches' = RemoveAt(fbPatches, k)
  /\ fbBlame' = fbBlame \cup {"failed"}
  /\ UNCHANGED <<fbSort, fbLive, fbList>>

\* A field is appended after the last; from this page, which then loads anew, or another.
AddField(own) ==
  /\ Len(fbSort) < MaxFields
  /\ fbSort' = Append(fbSort, NextSort)
  /\ fbLive' = fbLive \cup {Len(fbSort) + 1}
  /\ \/ own /\ Load(fbSort', fbLive')
     \/ ~own /\ fbBlame' = fbBlame \cup {"elsewhere"} /\ UNCHANGED fbList
  /\ UNCHANGED fbPatches

DeleteField(f, own) ==
  /\ f \in fbLive
  /\ fbLive' = fbLive \ {f}
  /\ \/ own /\ Load(fbSort, fbLive')
     \/ ~own /\ fbBlame' = fbBlame \cup {"elsewhere"} /\ UNCHANGED fbList
  /\ UNCHANGED <<fbSort, fbPatches>>

Reload ==
  /\ Load(fbSort, fbLive)
  /\ UNCHANGED <<fbSort, fbLive, fbPatches>>

FbNext ==
  \/ \E i, j \in 1..Len(fbList) : Drop(i, j)
  \/ \E k \in 1..Len(fbPatches) : PatchStored(k) \/ PatchFailed(k)
  \/ \E own \in BOOLEAN : AddField(own) \/ \E f \in fbLive : DeleteField(f, own)
  \/ Reload

-----------------------------------------------------------------------------
(* Properties. *)

FbTypeOK ==
  /\ fbSort \in Seq(Nat)
  /\ fbLive \subseteq DOMAIN fbSort
  /\ fbList \in Seq(DOMAIN fbSort) /\ IsInjective(fbList)
  /\ \A k \in DOMAIN fbPatches : fbPatches[k].ids \in Seq(DOMAIN fbSort)
  /\ fbBlame \subseteq {"overtaken", "failed", "elsewhere"}

\* Once every drop is answered the server lists the fields in the order shown, unless
\* an order was stored after a younger one (field-builder.js:17-38 waits for nothing),
\* one failed, or a field was added or deleted from another page.
OrderAsShown ==
  fbPatches = <<>> /\ fbBlame = {} => Listed(fbSort, fbLive) = fbList

=============================================================================
