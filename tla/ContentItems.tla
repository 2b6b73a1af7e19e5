---------------------------- MODULE ContentItems ----------------------------
(***************************************************************************)
(* The items of one content type with one required text field, one         *)
(* Relation field and one language, saved by the admin panel               *)
(* (ContentItemService) and by API clients (the write path of              *)
(* PublicApiService).  A save is one statement or transaction per table, in*)
(* an order the two do not share; the checks before it read the tables in  *)
(* statements of their own.  Of a title matters whether it is active, of a *)
(* value whether it is filled, of relations how many there are.            *)
(***************************************************************************)
EXTENDS Naturals, Sequences, FiniteSets

CONSTANTS Item,        \* the ids the IDENTITY column gives out
          Slug,
          NoSlug,      \* NULL
          Candidates,  \* slugs to try, in order: <<"a", "a-2", "a-3", ...>>
          Request,     \* concurrent requests
          NoItem,      \* the item of a request that has none
          ApiTargets,  \* at most so many targets in the body of an API request
          MaxSaves     \* bound on the saves begun

ASSUME ContentAssumption ==
    /\ NoItem \notin Item
    /\ Item \cap Request = {}
    /\ NoSlug \notin Slug
    /\ Candidates \subseteq (Seq(Slug) \ {<<>>}) \cup {<<NoSlug>>}
    /\ IsFiniteSet(Request)
    /\ ApiTargets \in Nat
    /\ MaxSaves \in Nat

VARIABLES item,     \* content_items
          title,    \* content_item_titles: the row of the item in the language
          value,    \* content_field_values: whether the required field has one
          related,  \* content_field_relations: rows of the Relation field
          req,      \* the local variables of each request, and its transaction
          begun,    \* how many saves have begun, up to MaxSaves
          peak,     \* history: so many requests have been under way at once
          gap       \* history: why the required value of an item is missing

vars == <<item, title, value, related, req, begun, peak, gap>>

Row == [state     : {"none", "live", "deleted"},
        slug      : Slug \cup {NoSlug},
        published : BOOLEAN,   \* status = 'published'
        stamped   : BOOLEAN]   \* published_at IS NOT NULL

RequestState ==
    [pc      : {"idle", "slug", "item", "title", "values", "relations", "inserting"},
     by      : {"admin", "post", "put"},    \* the panel, or an API request
     item    : Item \cup {NoItem},
     slugs   : Seq(Slug \cup {NoSlug}),  \* the candidate and those after it
     asked   : BOOLEAN,                  \* the body has a status
     publish : BOOLEAN,                  \* the status to write is 'published'
     stamped : BOOLEAN,                  \* PublishedAt of the entity read first
     locked  : Nat]                      \* rows of relations its transaction deleted

TypeOK ==
    /\ item \in [Item -> Row]
    /\ title \in [Item -> {"none", "inactive", "active"}]
    /\ value \in [Item -> BOOLEAN]
    /\ related \in [Item -> Nat]
    /\ req \in [Request -> RequestState]
    /\ begun \in Nat
    /\ peak \in Nat
    /\ gap \in [Item -> {"none", "hidden", "blanked", "cut"}]

Idle == [pc |-> "idle", by |-> "admin", item |-> NoItem, slugs |-> <<>>, asked |-> TRUE,
         publish |-> FALSE, stamped |-> FALSE, locked |-> 0]

Init ==
    /\ item = [i \in Item |-> [state |-> "none", slug |-> NoSlug,
                               published |-> FALSE, stamped |-> FALSE]]
    /\ title = [i \in Item |-> "none"]
    /\ value = [i \in Item |-> FALSE]
    /\ related = [i \in Item |-> 0]
    /\ req = [r \in Request |-> Idle]
    /\ begun = 0
    /\ peak = 0
    /\ gap = [i \in Item |-> "none"]

Live(i) == item[i].state = "live"

\* The clients of the API see the item in lists and by id.
Shown(i) == Live(i) /\ item[i].published /\ title[i] = "active"

Under(r) == req[r].pc # "idle"
Active == {r \in Request : Under(r)}

ByApi(r) == req[r].by # "admin"

Larger(m, n) == IF m > n THEN m ELSE n

\* The history: how many requests are under way at once.
Watch == peak' = Larger(peak, Cardinality(Active'))

\* The order of a save.  The panel: Create or UpdateAsync, SaveTitleAsync,
\* SaveValuesAsync, SaveRelationsAsync.
AfterAdmin ==
    [item |-> "title", title |-> "values", values |-> "relations", relations |-> "idle"]

\* Variant: the API saves in the order of the panel.
AfterApi_TitleFirst == AfterAdmin

\* The API: InsertItemAsync or UpdateItemAsync, SaveValuesAsync, ReplaceRelationsAsync,
\* SaveTitleAsync.
AfterApi ==
    [item |-> "values", values |-> "relations", relations |-> "title", title |-> "idle"]

After(r) == IF ByApi(r) THEN AfterApi ELSE AfterAdmin

\* The request has made a step of its save and goes on to the one after it.
Done(r, step) ==
    req' = [req EXCEPT ![r] =
              IF After(r)[step] = "idle" THEN Idle
              ELSE [pc |-> After(r)[step], by |-> req[r].by, item |-> req[r].item, slugs |-> <<>>,
                    asked |-> TRUE, publish |-> req[r].publish, stamped |-> FALSE,
                    locked |-> 0]]

-----------------------------------------------------------------------------
(* Slugs: BuildUniqueSlugAsync of both services *)

\* A slug that is not NULL is looked up first.
SlugStep(slugs) == IF slugs = <<NoSlug>> THEN "item" ELSE "slug"

\* Variant: excludeItemId leaves out all items instead of one.
SlugExists_Excluded(s, i) == i = NoItem /\ \E j \in Item : Live(j) /\ item[j].slug = s

\* SlugExistsAsync, with excludeItemId.
SlugExists(s, i) == \E j \in Item \ {i} : Live(j) /\ item[j].slug = s

CheckSlug(r) ==
    /\ req[r].pc = "slug"
    /\ LET slugs == req[r].slugs
           taken == SlugExists(Head(slugs), req[r].item)
       IN \/ /\ ~taken
             /\ req' = [req EXCEPT ![r].pc = "item"]
          \/ /\ taken
             /\ Tail(slugs) # <<>>
             /\ req' = [req EXCEPT ![r].slugs = Tail(slugs)]
    /\ UNCHANGED <<item, title, value, related, begun, gap>>

-----------------------------------------------------------------------------
(* The beginning of a save: validation and what is read first *)

Begin(r, state) ==
    /\ req[r].pc = "idle"
    /\ begun < MaxSaves
    /\ begun' = begun + 1
    /\ req' = [req EXCEPT ![r] = state]
    /\ UNCHANGED <<item, title, value, related, gap>>

\* CreateAsync of either service: the slug asked for, or one made from the title.
Create(r) ==
    \E slugs \in Candidates, by \in {"admin", "post"} :
       Begin(r, [pc |-> SlugStep(slugs), by |-> by, item |-> NoItem, slugs |-> slugs,
                 asked |-> TRUE, publish |-> FALSE, stamped |-> FALSE, locked |-> 0])

\* Variant: the entity is read without published_at, as by GetItemByIdAsync of the API.
AdminUpdate_Unread(r) ==
    \E i \in Item, slugs \in Candidates :
       /\ Live(i)
       /\ Begin(r, [pc |-> SlugStep(slugs), by |-> "admin", item |-> i, slugs |-> slugs,
                    asked |-> TRUE, publish |-> FALSE, stamped |-> FALSE, locked |-> 0])

\* ContentItemService.UpdateAsync: GetByIdAsync, whose PublishedAt is written back.
AdminUpdate(r) ==
    \E i \in Item, slugs \in Candidates :
       /\ Live(i)
       /\ Begin(r, [pc |-> SlugStep(slugs), by |-> "admin", item |-> i, slugs |-> slugs,
                    asked |-> TRUE, publish |-> FALSE, stamped |-> item[i].stamped,
                    locked |-> 0])

\* Variant: a body without a status makes a draft, as on creation.
ApiUpdate_Draft(r) ==
    \E i \in Item, asked, publish \in BOOLEAN :
       /\ Live(i)
       /\ asked \/ ~publish
       /\ Begin(r, [pc |-> "item", by |-> "put", item |-> i, slugs |-> <<item[i].slug>>,
                    asked |-> asked, publish |-> publish, stamped |-> FALSE,
                    locked |-> 0])

\* PublicApiService.UpdateAsync: GetItemByIdAsync, whose slug and status are written
\* back when the body has none.
ApiUpdate(r) ==
    \E i \in Item, asked, publish \in BOOLEAN :
       /\ Live(i)
       /\ asked \/ publish = item[i].published
       /\ \/ \E slugs \in Candidates :
                Begin(r, [pc |-> SlugStep(slugs), by |-> "put", item |-> i, slugs |-> slugs,
                          asked |-> asked, publish |-> publish, stamped |-> FALSE,
                          locked |-> 0])
          \/ Begin(r, [pc |-> "item", by |-> "put", item |-> i,
                       slugs |-> <<item[i].slug>>, asked |-> asked, publish |-> publish,
                       stamped |-> FALSE, locked |-> 0])

-----------------------------------------------------------------------------
(* The row of the item *)

\* INSERT, with any status; only the API sets published_at.
InsertItem(r) ==
    /\ req[r].pc = "item"
    /\ req[r].item = NoItem
    /\ \E i \in Item, publish \in BOOLEAN :
          /\ item[i].state = "none"
          /\ item' = [item EXCEPT ![i] = [state |-> "live", slug |-> Head(req[r].slugs),
                                          published |-> publish,
                                          stamped |-> (publish /\ ByApi(r))]]
          /\ req' = [req EXCEPT ![r] =
                       [pc |-> After(r).item, by |-> req[r].by, item |-> i,
                        slugs |-> <<>>, asked |-> TRUE,
                        publish |-> (publish /\ ByApi(r)), stamped |-> FALSE, locked |-> 0]]
    /\ UNCHANGED <<title, value, related, begun, gap>>

\* UPDATE ... WHERE is_deleted = 0; the services do not look at its result.
UpdateItem(r) ==
    /\ req[r].pc = "item"
    /\ req[r].item # NoItem
    /\ LET i == req[r].item IN
       \E publish \in BOOLEAN :
          /\ ByApi(r) => publish = req[r].publish
          /\ item' = IF Live(i)
                       THEN [item EXCEPT ![i] =
                               [state |-> "live", slug |-> Head(req[r].slugs),
                                published |-> publish,
                                stamped |-> IF ByApi(r) THEN item[i].stamped \/ publish
                                            ELSE req[r].stamped]]
                       ELSE item
    /\ Done(r, "item")
    /\ UNCHANGED <<title, value, related, begun, gap>>

\* Soft deletion by either service, one statement; a request of its own.
DeleteItem(i) ==
    /\ Live(i)
    /\ item' = [item EXCEPT ![i] = [state |-> "deleted", slug |-> item[i].slug,
                                    published |-> item[i].published,
                                    stamped |-> item[i].stamped]]
    /\ peak' = Larger(peak, Cardinality(Active) + 1)
    /\ UNCHANGED <<title, value, related, req, begun, gap>>

-----------------------------------------------------------------------------
(* Title, values and relations *)

\* The form's title is not blank, and a box says whether it is active.  A title from the
\* API is active when the item is published; without one in the body the row stays, and
\* a blank one removes it, but not on creation.
SaveTitle(r) ==
    /\ req[r].pc = "title"
    /\ LET i == req[r].item IN
          \/ ~ByApi(r) /\ \E t \in {"inactive", "active"} : title' = [title EXCEPT ![i] = t]
          \/ ByApi(r) /\ title' = title
          \/ ByApi(r) /\ title' = [title EXCEPT ![i] = IF req[r].publish THEN "active"
                                                                         ELSE "inactive"]
          \/ req[r].by = "put" /\ title' = [title EXCEPT ![i] = "none"]
    /\ Done(r, "title")
    /\ UNCHANGED <<item, value, related, begun, gap>>

\* Variant: the panel does not look for a missing required value.
SaveValues_Unchecked(r) ==
    /\ req[r].pc = "values"
    /\ LET i == req[r].item IN
          \/ /\ value' = [value EXCEPT ![i] = TRUE]
             /\ gap' = [gap EXCEPT ![i] = "none"]
          \/ UNCHANGED <<value, gap>>
    /\ Done(r, "values")
    /\ UNCHANGED <<item, title, related, begun>>

\* MERGE of the required value.  The panel has checked that it is given, and POST has if
\* the API shows the field; PUT has not: it may be left out, or blank.
SaveValues(r) ==
    /\ req[r].pc = "values"
    /\ LET i == req[r].item IN
          \/ /\ value' = [value EXCEPT ![i] = TRUE]
             /\ gap' = [gap EXCEPT ![i] = "none"]
          \/ /\ req[r].by = "post"
             /\ gap' = IF value[i] THEN gap ELSE [gap EXCEPT ![i] = "hidden"]
             /\ value' = value
          \/ /\ req[r].by = "put"
             /\ UNCHANGED <<value, gap>>
          \/ /\ req[r].by = "put"
             /\ value' = [value EXCEPT ![i] = FALSE]
             /\ gap' = [gap EXCEPT ![i] = "blanked"]
    /\ Done(r, "values")
    /\ UNCHANGED <<item, title, related, begun>>

Inserting(r, locked) ==
    req' = [req EXCEPT ![r] =
              [pc |-> "inserting", by |-> req[r].by, item |-> req[r].item, slugs |-> <<>>,
               asked |-> TRUE, publish |-> req[r].publish, stamped |-> FALSE,
               locked |-> locked]]

\* Variant: the rows are added to those there are.
DeleteRelations_None(r) ==
    /\ req[r].pc = "relations"
    /\ Inserting(r, 0)
    /\ UNCHANGED <<item, title, value, related, begun, gap>>

\* Variant: it deletes rows another transaction has deleted and not committed.
DeleteRelations_Dirty(r) ==
    /\ req[r].pc = "relations"
    /\ Inserting(r, related[req[r].item])
    /\ UNCHANGED <<item, title, value, related, begun, gap>>

\* The first statement of ReplaceAsync: the rows it deletes stay locked, and it waits
\* for rows locked by another transaction.
DeleteRelations(r) ==
    /\ req[r].pc = "relations"
    /\ \A q \in Request : req[q].item = req[r].item => req[q].locked = 0
    /\ Inserting(r, related[req[r].item])
    /\ UNCHANGED <<item, title, value, related, begun, gap>>

\* The rows it inserts, and COMMIT: the panel keeps the first target only.
InsertRelations(r) ==
    /\ req[r].pc = "inserting"
    /\ \E n \in 0 .. ApiTargets :
          /\ ByApi(r) \/ n <= 1
          /\ related' = [related EXCEPT ![req[r].item] = @ - req[r].locked + n]
    /\ Done(r, "relations")
    /\ UNCHANGED <<item, title, value, begun, gap>>

\* The body of an API request does not have the field.
KeepRelations(r) ==
    /\ req[r].pc = "relations"
    /\ ByApi(r)
    /\ Done(r, "relations")
    /\ UNCHANGED <<item, title, value, related, begun, gap>>

-----------------------------------------------------------------------------

\* The save of r has yet to reach the values of its item (PUT need not bring any).
ValuesToCome(r) ==
    /\ req[r].pc = "values" \/ (req[r].pc = "title" /\ After(r).title = "values")
    /\ req[r].by # "put"

\* The request is cancelled or a statement fails: its transaction is rolled back, what
\* it saved before stays.
Abort(r) ==
    /\ Under(r)
    /\ gap' = IF ValuesToCome(r) /\ ~value[req[r].item]
                THEN [gap EXCEPT ![req[r].item] = "cut"] ELSE gap
    /\ req' = [req EXCEPT ![r] = Idle]
    /\ UNCHANGED <<item, title, value, related, begun>>

Next ==
    \/ /\ \E r \in Request :
             \/ Create(r)     \/ AdminUpdate(r) \/ ApiUpdate(r)
             \/ CheckSlug(r)  \/ InsertItem(r)  \/ UpdateItem(r)
             \/ SaveTitle(r)  \/ SaveValues(r)
             \/ DeleteRelations(r) \/ InsertRelations(r) \/ KeepRelations(r)
             \/ Abort(r)
       /\ Watch
    \/ \E i \in Item : DeleteItem(i)

Spec == Init /\ [][Next]_vars

-----------------------------------------------------------------------------
(* Properties *)

\* BuildUniqueSlugAsync's comment: "Appends -2, -3, ... until the slug is not taken".
\* No unique index stands behind it: live items share a slug, but no more of them than
\* requests have overlapped.  One request after the other, slugs are unique.
SlugsShared ==
    \A s \in Slug : Cardinality({i \in Item : Live(i) /\ item[i].slug = s}) <= Larger(peak, 1)

\* A live item lacks its required value only while a save of it has its values still to
\* come, or because a save has ended before them, or because an API request left it out.
IncompleteHasCause ==
    \A i \in Item : Live(i) /\ ~value[i] =>
        gap[i] # "none" \/ \E r \in Request : req[r].item = i /\ ValuesToCome(r)

\* The API saves the title last, so that its clients never see an item half made: in
\* series, if they do, it is the panel's save, which writes the title first.
ShownIncompleteInSeries ==
    \A i \in Item : peak <= 1 /\ Shown(i) /\ ~value[i] /\ gap[i] = "none" =>
        \E r \in Request : req[r].item = i /\ ValuesToCome(r) /\ ~ByApi(r)

\* In series, an API request whose body has no status leaves the item published or not,
\* as it was: the status read first is the one it writes back.
PublicationAskedInSeries ==
    [][peak' <= 1 => \A i \in Item :
          item[i].state = "live" /\ item'[i].published # item[i].published =>
             \E r \in Request : req[r].item = i /\ req[r].asked]_vars

\* In series, published_at is set once: the panel writes back the time it has read.
PublishedAtKeptInSeries ==
    [][peak' <= 1 => \A i \in Item : item[i].stamped => item'[i].stamped]_vars

\* A Relation field has the targets of one request, in series; replacements that overlap
\* add up, since the first statement of each finds nothing to delete.
RelationsBounded ==
    \A i \in Item : related[i] <= Larger(ApiTargets, 1) * Larger(peak, 1)
=============================================================================
