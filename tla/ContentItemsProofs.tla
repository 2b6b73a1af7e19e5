------------------------- MODULE ContentItemsProofs -------------------------
(***************************************************************************)
(* Proofs about ContentItems, for any number of items and requests.        *)
(*                                                                         *)
(* A slug found free, like a relation field found empty, is used later: the*)
(* slugs and rows in the tables say too little.  The invariants count with *)
(* them the requests that are about to write.                              *)
(***************************************************************************)
EXTENDS ContentItems, FiniteSetTheorems, SequenceTheorems, TLAPS

AnySlug == Slug \cup {NoSlug}

\* A request about to write a row has a slug for it, one past that has an item, and
\* only a transaction of ReplaceAsync has locks, on rows that are there.
Shaped(s, rows) ==
    /\ s.pc \in {"slug", "item"} => s.slugs # <<>>
    /\ s.pc \in {"title", "values", "relations", "inserting"} => s.item \in Item
    /\ s.pc # "inserting" => s.locked = 0
    /\ s.pc = "inserting" => s.locked <= rows[s.item]

RequestsShaped == \A r \in Request : Shaped(req[r], related)

\* Rows are locked by one transaction.
LocksExclusive ==
    \A q, r \in Request :
       q # r /\ req[q].item = req[r].item => req[q].locked = 0 \/ req[r].locked = 0

TInv == TypeOK /\ RequestsShaped /\ LocksExclusive

-----------------------------------------------------------------------------
(* Slugs *)

LEMMA CandidateTypes ==
  ASSUME NEW c \in Candidates
  PROVE  /\ c \in Seq(AnySlug) /\ c # <<>>
         /\ Head(c) \in AnySlug
         /\ SlugStep(c) \in {"slug", "item"}
         /\ SlugStep(c) = "item" => Head(c) \notin Slug
<1>1. c \in Seq(Slug) \ {<<>>} \/ c = <<NoSlug>>
  BY ContentAssumption
<1>2. c \in Seq(AnySlug) /\ c # <<>>
  <2>1. CASE c \in Seq(Slug) \ {<<>>}
    BY <2>1, SeqMonotonic DEF AnySlug
  <2>2. CASE c = <<NoSlug>>
    BY <2>2 DEF AnySlug
  <2> QED
    BY <1>1, <2>1, <2>2
<1>3. Head(c) \in AnySlug
  BY <1>2, HeadTailProperties
<1>4. SlugStep(c) = "item" => Head(c) \notin Slug
  BY ContentAssumption DEF SlugStep
<1> QED
  BY <1>2, <1>3, <1>4 DEF SlugStep

\* The step that follows one of a save.
LEMMA Orders ==
  \A r \in Request :
     /\ After(r).item \in {"title", "values"}
     /\ After(r).title \in {"values", "idle"}
     /\ After(r).values = "relations"
     /\ After(r).relations \in {"title", "idle"}
  BY DEF After, AfterApi, AfterAdmin

-----------------------------------------------------------------------------
(* Types *)

LEMMA TypeInit == Init => TInv
<1> SUFFICES ASSUME Init PROVE TInv
  OBVIOUS
<1>1. Idle \in RequestState /\ Idle.pc = "idle" /\ Idle.locked = 0
  BY DEF Idle, RequestState
<1>2. TypeOK
  BY <1>1 DEF Init, TypeOK, Row
<1>3. RequestsShaped /\ LocksExclusive
  BY <1>1 DEF Init, RequestsShaped, Shaped, LocksExclusive
<1> QED
  BY <1>2, <1>3 DEF TInv

\* A step of one request, which leaves the locks of the others valid.
LEMMA OneRequest ==
  ASSUME TInv, NEW r \in Request, NEW s \in RequestState,
         req' = [req EXCEPT ![r] = s],
         Shaped(s, related'),
         \A q \in Request \ {r} :
            req[q].item \in Item /\ req[q].locked <= related[req[q].item] =>
               req[q].locked <= related'[req[q].item],
         \/ s.locked = 0
         \/ \A q \in Request \ {r} : req[q].item = s.item => req[q].locked = 0
  PROVE  /\ req' \in [Request -> RequestState]
         /\ RequestsShaped'
         /\ LocksExclusive'
<1>1. req \in [Request -> RequestState] /\ RequestsShaped /\ LocksExclusive
  BY DEF TInv, TypeOK
<1>2. req'[r] = s /\ \A q \in Request \ {r} : req'[q] = req[q]
  BY <1>1
<1>3. req' \in [Request -> RequestState]
  BY <1>1
<1>4. \A q \in Request \ {r} : Shaped(req[q], related')
  BY <1>1 DEF RequestsShaped, Shaped
<1>5. RequestsShaped'
  BY <1>2, <1>4 DEF RequestsShaped
<1>6. LocksExclusive'
  BY <1>1, <1>2 DEF LocksExclusive
<1> QED
  BY <1>3, <1>5, <1>6

\* The same when the request has and takes no locks and the rows stay.
LEMMA OneRequestUnlocked ==
  ASSUME TInv, NEW r \in Request, NEW s \in RequestState,
         req' = [req EXCEPT ![r] = s],
         related' = related, s.locked = 0, s.pc # "inserting",
         s.pc \in {"slug", "item"} => s.slugs # <<>>,
         s.pc \in {"title", "values", "relations"} => s.item \in Item
  PROVE  /\ req' \in [Request -> RequestState]
         /\ RequestsShaped'
         /\ LocksExclusive'
<1>1. Shaped(s, related')
  BY DEF Shaped
<1> QED
  BY <1>1, OneRequest

\* What Done makes of a request.
LEMMA DoneRequest ==
  ASSUME TInv, NEW r \in Request, NEW step \in {"item", "title", "values", "relations"},
         req[r].item \in Item, Done(r, step), 
         \A q \in Request \ {r} :
            req[q].item \in Item /\ req[q].locked <= related[req[q].item] =>
               req[q].locked <= related'[req[q].item]
  PROVE  /\ req' \in [Request -> RequestState]
         /\ RequestsShaped'
         /\ LocksExclusive'
<1> DEFINE s == IF After(r)[step] = "idle" THEN Idle
                ELSE [pc |-> After(r)[step], by |-> req[r].by, item |-> req[r].item,
                      slugs |-> <<>>, asked |-> TRUE, publish |-> req[r].publish,
                      stamped |-> FALSE, locked |-> 0]
<1>1. req[r] \in RequestState
  BY DEF TInv, TypeOK
<1>2. After(r)[step] \in {"title", "values", "relations", "idle"}
  BY Orders
<1>3. <<>> \in Seq(AnySlug)
  OBVIOUS
<1>4. s \in RequestState
  BY <1>1, <1>2, <1>3 DEF RequestState, Idle, AnySlug
<1>5. /\ s.locked = 0
      /\ s.pc \in {"title", "values", "relations", "idle"}
      /\ s.pc # "idle" => s.item = req[r].item
  BY <1>2 DEF Idle
<1>6. Shaped(s, related')
  BY <1>5 DEF Shaped
<1>7. req' = [req EXCEPT ![r] = s]
  BY DEF Done
<1> HIDE DEF s
<1> QED
  BY <1>4, <1>5, <1>6, <1>7, OneRequest

\* What Begin makes of a request.
LEMMA BeginRequest ==
  ASSUME TInv, NEW r \in Request, NEW s \in RequestState, Begin(r, s),
         s.pc \in {"slug", "item"}, s.slugs # <<>>, s.locked = 0
  PROVE  /\ req' \in [Request -> RequestState]
         /\ RequestsShaped'
         /\ LocksExclusive'
         /\ begun' \in Nat
         /\ UNCHANGED <<item, title, value, related, gap>>
<1>1. /\ req' = [req EXCEPT ![r] = s]
      /\ begun' = begun + 1
      /\ UNCHANGED <<item, title, value, related, gap>>
  BY DEF Begin
<1>2. begun' \in Nat
  BY <1>1 DEF TInv, TypeOK
<1> QED
  BY <1>1, <1>2, OneRequestUnlocked

LEMMA ActiveFinite ==
  /\ IsFiniteSet(Active) /\ Cardinality(Active) \in Nat
  /\ IsFiniteSet(Active') /\ Cardinality(Active') \in Nat
<1>1. IsFiniteSet(Request)
  BY ContentAssumption
<1>2. Active \subseteq Request /\ Active' \subseteq Request
  BY DEF Active
<1> QED
  BY <1>1, <1>2, FS_Subset, FS_CardinalityType

\* peak only grows, and counts the requests under way.
LEMMA PeakGrows ==
  ASSUME TInv, Next
  PROVE  peak' \in Nat /\ peak <= peak'
<1>1. peak \in Nat
  BY DEF TInv, TypeOK
<1>2. CASE Watch
  BY <1>1, <1>2, ActiveFinite DEF Watch, Larger
<1>3. CASE \E i \in Item : DeleteItem(i)
  BY <1>1, <1>3, ActiveFinite DEF DeleteItem, Larger
<1> QED
  BY <1>2, <1>3 DEF Next

\* The steps of a request, without the history of overlaps.
Step(r) ==
    \/ Create(r)     \/ AdminUpdate(r) \/ ApiUpdate(r)
    \/ CheckSlug(r)  \/ InsertItem(r)  \/ UpdateItem(r)
    \/ SaveTitle(r)  \/ SaveValues(r)
    \/ DeleteRelations(r) \/ InsertRelations(r) \/ KeepRelations(r)
    \/ Abort(r)

LEMMA NextSteps ==
  Next <=> \/ (\E r \in Request : Step(r)) /\ Watch
           \/ \E i \in Item : DeleteItem(i)
  BY DEF Next, Step

\* Everything but peak keeps its type in a step of a request.
LEMMA TypeOfStep ==
  ASSUME TInv, NEW r \in Request, Step(r)
  PROVE  /\ item' \in [Item -> Row]
         /\ title' \in [Item -> {"none", "inactive", "active"}]
         /\ value' \in [Item -> BOOLEAN]
         /\ related' \in [Item -> Nat]
         /\ req' \in [Request -> RequestState]
         /\ begun' \in Nat
         /\ gap' \in [Item -> {"none", "hidden", "blanked", "cut"}]
         /\ RequestsShaped' /\ LocksExclusive'
<1> USE DEF TInv
<1>a. /\ item \in [Item -> Row]
      /\ title \in [Item -> {"none", "inactive", "active"}]
      /\ value \in [Item -> BOOLEAN]
      /\ related \in [Item -> Nat]
      /\ begun \in Nat
      /\ gap \in [Item -> {"none", "hidden", "blanked", "cut"}]
  BY DEF TypeOK
<1>b. req[r] \in RequestState /\ Shaped(req[r], related)
  BY DEF TypeOK, RequestsShaped
<1>c. \A i \in Item : item[i].slug \in AnySlug /\ item[i].stamped \in BOOLEAN
                      /\ item[i].published \in BOOLEAN
  BY <1>a DEF Row, AnySlug
<1>d. ASSUME NEW s \in RequestState, Begin(r, s),
             s.pc \in {"slug", "item"}, s.slugs # <<>>, s.locked = 0
      PROVE  /\ req' \in [Request -> RequestState] /\ RequestsShaped' /\ LocksExclusive'
             /\ begun' \in Nat /\ UNCHANGED <<item, title, value, related, gap>>
  BY <1>d, BeginRequest
<1>1. CASE Create(r)
  <2>1. PICK slugs \in Candidates, by \in {"admin", "post"} :
           Begin(r, [pc |-> SlugStep(slugs), by |-> by, item |-> NoItem, slugs |-> slugs,
                     asked |-> TRUE, publish |-> FALSE, stamped |-> FALSE, locked |-> 0])
    BY <1>1 DEF Create
  <2> DEFINE s == [pc |-> SlugStep(slugs), by |-> by, item |-> NoItem, slugs |-> slugs,
                   asked |-> TRUE, publish |-> FALSE, stamped |-> FALSE, locked |-> 0]
  <2>2. s \in RequestState /\ s.pc \in {"slug", "item"} /\ s.slugs # <<>> /\ s.locked = 0
    BY CandidateTypes DEF RequestState, AnySlug
  <2>3. Begin(r, s)
    BY <2>1
  <2> HIDE DEF s
  <2> QED
    BY <1>a, <1>d, <2>2, <2>3
<1>2. CASE AdminUpdate(r)
  <2>1. PICK i \in Item, slugs \in Candidates :
           Begin(r, [pc |-> SlugStep(slugs), by |-> "admin", item |-> i, slugs |-> slugs,
                     asked |-> TRUE, publish |-> FALSE, stamped |-> item[i].stamped,
                     locked |-> 0])
    BY <1>2 DEF AdminUpdate
  <2> DEFINE s == [pc |-> SlugStep(slugs), by |-> "admin", item |-> i, slugs |-> slugs,
                   asked |-> TRUE, publish |-> FALSE, stamped |-> item[i].stamped,
                   locked |-> 0]
  <2>2. s \in RequestState /\ s.pc \in {"slug", "item"} /\ s.slugs # <<>> /\ s.locked = 0
    BY <1>c, CandidateTypes DEF RequestState, AnySlug
  <2>3. Begin(r, s)
    BY <2>1
  <2> HIDE DEF s
  <2> QED
    BY <1>a, <1>d, <2>2, <2>3
<1>3. CASE ApiUpdate(r)
  <2>1. PICK i \in Item, asked \in BOOLEAN, publish \in BOOLEAN :
           \/ \E slugs \in Candidates :
                 Begin(r, [pc |-> SlugStep(slugs), by |-> "put", item |-> i, slugs |-> slugs,
                           asked |-> asked, publish |-> publish, stamped |-> FALSE,
                           locked |-> 0])
           \/ Begin(r, [pc |-> "item", by |-> "put", item |-> i,
                        slugs |-> <<item[i].slug>>, asked |-> asked, publish |-> publish,
                        stamped |-> FALSE, locked |-> 0])
    BY <1>3 DEF ApiUpdate
  <2>2. <<item[i].slug>> \in Seq(AnySlug) /\ <<item[i].slug>> # <<>>
    BY <1>c
  <2>3. PICK slugs \in Seq(AnySlug), step \in {"slug", "item"} :
           /\ slugs # <<>>
           /\ Begin(r, [pc |-> step, by |-> "put", item |-> i, slugs |-> slugs,
                        asked |-> asked, publish |-> publish, stamped |-> FALSE,
                        locked |-> 0])
    BY <2>1, <2>2, CandidateTypes
  <2> DEFINE s == [pc |-> step, by |-> "put", item |-> i, slugs |-> slugs, asked |-> asked,
                   publish |-> publish, stamped |-> FALSE, locked |-> 0]
  <2>4. s \in RequestState /\ s.pc \in {"slug", "item"} /\ s.slugs # <<>> /\ s.locked = 0
    BY <2>3 DEF RequestState, AnySlug
  <2>5. Begin(r, s)
    BY <2>3
  <2> HIDE DEF s
  <2> QED
    BY <1>a, <1>d, <2>4, <2>5
<1>4. CASE CheckSlug(r)
  <2>1. UNCHANGED <<item, title, value, related, begun, gap>>
    BY <1>4 DEF CheckSlug
  <2> DEFINE went == [req[r] EXCEPT !.pc = "item"]
             tried == [req[r] EXCEPT !.slugs = Tail(req[r].slugs)]
  <2>2. req[r].pc = "slug" /\ req[r].slugs # <<>> /\ req[r].locked = 0
    BY <1>4, <1>b DEF CheckSlug, Shaped
  <2>3. went \in RequestState /\ went.locked = 0 /\ went.pc = "item" /\ went.slugs # <<>>
    BY <1>b, <2>2 DEF RequestState
  <2>4. req[r].slugs \in Seq(AnySlug)
    BY <1>b DEF RequestState, AnySlug
  <2>5. Tail(req[r].slugs) \in Seq(AnySlug)
    BY <2>2, <2>4, HeadTailProperties
  <2>6. tried \in RequestState /\ tried.locked = 0 /\ tried.pc = "slug"
        /\ tried.slugs = Tail(req[r].slugs)
    BY <1>b, <2>2, <2>5 DEF RequestState, AnySlug
  <2>7. \/ req' = [req EXCEPT ![r] = went]
        \/ req' = [req EXCEPT ![r] = tried] /\ Tail(req[r].slugs) # <<>>
    BY <1>4 DEF CheckSlug
  <2> HIDE DEF went, tried
  <2> QED
    BY <1>a, <2>1, <2>3, <2>6, <2>7, OneRequestUnlocked
<1>5. CASE InsertItem(r)
  <2>1. req[r].pc = "item" /\ req[r].slugs # <<>> /\ req[r].locked = 0
    BY <1>5, <1>b DEF InsertItem, Shaped
  <2>2. Head(req[r].slugs) \in AnySlug
    BY <2>1, <1>b, HeadTailProperties DEF RequestState, AnySlug
  <2>3. ByApi(r) \in BOOLEAN
    BY DEF ByApi
  <2>4. PICK i \in Item, publish \in BOOLEAN :
           /\ item' = [item EXCEPT ![i] = [state |-> "live", slug |-> Head(req[r].slugs),
                                           published |-> publish,
                                           stamped |-> (publish /\ ByApi(r))]]
           /\ req' = [req EXCEPT ![r] =
                        [pc |-> After(r).item, by |-> req[r].by, item |-> i,
                         slugs |-> <<>>, asked |-> TRUE,
                         publish |-> (publish /\ ByApi(r)), stamped |-> FALSE,
                         locked |-> 0]]
    BY <1>5 DEF InsertItem
  <2> DEFINE s == [pc |-> After(r).item, by |-> req[r].by, item |-> i, slugs |-> <<>>,
                   asked |-> TRUE, publish |-> (publish /\ ByApi(r)), stamped |-> FALSE,
                   locked |-> 0]
             row == [state |-> "live", slug |-> Head(req[r].slugs), published |-> publish,
                     stamped |-> (publish /\ ByApi(r))]
  <2>5. (publish /\ ByApi(r)) \in BOOLEAN
    BY <2>3
  <2>6. row \in Row
    BY <2>2, <2>5 DEF Row, AnySlug
  <2>7. After(r).item \in {"title", "values"} /\ req[r].by \in {"admin", "post", "put"}
    BY <1>b, Orders DEF RequestState
  <2>8. s \in RequestState /\ s.pc \in {"title", "values"} /\ s.item \in Item /\ s.locked = 0
    BY <2>5, <2>7 DEF RequestState
  <2>9. item' = [item EXCEPT ![i] = row] /\ req' = [req EXCEPT ![r] = s]
    BY <2>4
  <2>10. UNCHANGED <<title, value, related, begun, gap>>
    BY <1>5 DEF InsertItem
  <2> HIDE DEF s, row
  <2>11. item' \in [Item -> Row]
    BY <1>a, <2>6, <2>9
  <2> QED
    BY <1>a, <2>8, <2>9, <2>10, <2>11, OneRequestUnlocked
<1>e. ASSUME NEW step \in {"item", "title", "values", "relations"}, req[r].item \in Item,
             Done(r, step),
             \A q \in Request \ {r} :
                req[q].item \in Item /\ req[q].locked <= related[req[q].item] =>
                   req[q].locked <= related'[req[q].item]
      PROVE  req' \in [Request -> RequestState] /\ RequestsShaped' /\ LocksExclusive'
  BY <1>e, DoneRequest
<1>6. CASE UpdateItem(r)
  <2>1. req[r].pc = "item" /\ req[r].slugs # <<>> /\ req[r].item \in Item /\ Done(r, "item")
    BY <1>6, <1>b DEF UpdateItem, Shaped, RequestState
  <2>2. Head(req[r].slugs) \in AnySlug
    BY <2>1, <1>b, HeadTailProperties DEF RequestState, AnySlug
  <2>3. UNCHANGED <<title, value, related, begun, gap>>
    BY <1>6 DEF UpdateItem
  <2> DEFINE i == req[r].item
             stamp(p) == IF ByApi(r) THEN (item[i].stamped \/ p) ELSE req[r].stamped
             row(p) == [state |-> "live", slug |-> Head(req[r].slugs), published |-> p,
                        stamped |-> stamp(p)]
  <2>4. \A p \in BOOLEAN : stamp(p) \in BOOLEAN
    BY <1>b, <1>c, <2>1 DEF RequestState
  <2>5. \A p \in BOOLEAN : row(p) \in Row
    BY <2>2, <2>4 DEF Row, AnySlug
  <2>6. \E p \in BOOLEAN : item' = IF Live(i) THEN [item EXCEPT ![i] = row(p)] ELSE item
    BY <1>6 DEF UpdateItem
  <2> HIDE DEF row
  <2>7. item' \in [Item -> Row]
    BY <1>a, <2>1, <2>5, <2>6
  <2> QED
    BY <1>a, <1>e, <2>1, <2>3, <2>7
<1>7. CASE SaveTitle(r)
  <2>1. req[r].item \in Item /\ Done(r, "title") /\ UNCHANGED <<item, value, related, begun, gap>>
    BY <1>7, <1>b DEF SaveTitle, Shaped
  <2>2. title' \in [Item -> {"none", "inactive", "active"}]
    BY <1>7, <1>a, <2>1 DEF SaveTitle
  <2> QED
    BY <1>a, <1>e, <2>1, <2>2
<1>8. CASE SaveValues(r)
  <2>1. req[r].item \in Item /\ Done(r, "values") /\ UNCHANGED <<item, title, related, begun>>
    BY <1>8, <1>b DEF SaveValues, Shaped
  <2>2. value' \in [Item -> BOOLEAN]
    BY <1>8, <1>a, <2>1 DEF SaveValues
  <2>3. gap' \in [Item -> {"none", "hidden", "blanked", "cut"}]
    BY <1>8, <1>a, <2>1 DEF SaveValues
  <2> QED
    BY <1>a, <1>e, <2>1, <2>2, <2>3
<1>9. CASE DeleteRelations(r)
  <2>1. /\ req[r].item \in Item /\ Inserting(r, related[req[r].item])
        /\ UNCHANGED <<item, title, value, related, begun, gap>>
        /\ \A q \in Request : req[q].item = req[r].item => req[q].locked = 0
    BY <1>9, <1>b DEF DeleteRelations, Shaped
  <2> DEFINE s == [pc |-> "inserting", by |-> req[r].by, item |-> req[r].item,
                   slugs |-> <<>>, asked |-> TRUE, publish |-> req[r].publish,
                   stamped |-> FALSE, locked |-> related[req[r].item]]
  <2>2. s \in RequestState
    BY <1>a, <1>b, <2>1 DEF RequestState
  <2>3. related[req[r].item] \in Nat
    BY <1>a, <2>1
  <2>4. Shaped(s, related')
    BY <2>1, <2>3 DEF Shaped
  <2>5. req' = [req EXCEPT ![r] = s] /\ s.item = req[r].item
    BY <2>1 DEF Inserting
  <2> HIDE DEF s
  <2> QED
    BY <1>a, <2>1, <2>2, <2>4, <2>5, OneRequest
<1>10. CASE InsertRelations(r)
  <2>1. /\ req[r].item \in Item /\ Done(r, "relations")
        /\ UNCHANGED <<item, title, value, begun, gap>>
        /\ req[r].locked <= related[req[r].item] /\ req[r].locked \in Nat
    BY <1>10, <1>b DEF InsertRelations, Shaped, RequestState
  <2>2. PICK n \in 0 .. ApiTargets :
           related' = [related EXCEPT ![req[r].item] = @ - req[r].locked + n]
    BY <1>10 DEF InsertRelations
  <2>3. n \in Nat
    BY ContentAssumption
  <2>4. related[req[r].item] \in Nat /\ related[req[r].item] - req[r].locked + n \in Nat
    BY <1>a, <2>1, <2>3
  <2>5. related' \in [Item -> Nat]
    BY <1>a, <2>1, <2>2, <2>4
  <2>6. ASSUME NEW q \in Request \ {r}, req[q].item \in Item,
               req[q].locked <= related[req[q].item]
        PROVE  req[q].locked <= related'[req[q].item]
    <3>1. req[q].locked \in Nat
      BY DEF TypeOK, RequestState
    <3>2. CASE req[q].item # req[r].item
      BY <1>a, <2>2, <2>6, <3>2
    <3>3. CASE req[q].item = req[r].item
      <4>1. req[q].locked = 0 \/ req[r].locked = 0
        BY <3>3 DEF LocksExclusive
      <4>2. related'[req[q].item] = related[req[q].item] - req[r].locked + n
        BY <1>a, <2>1, <2>2, <3>3
      <4> QED
        BY <1>a, <2>1, <2>3, <2>4, <2>6, <3>1, <3>3, <4>1, <4>2
    <3> QED
      BY <3>2, <3>3
  <2>7. req' \in [Request -> RequestState] /\ RequestsShaped' /\ LocksExclusive'
    BY <1>e, <2>1, <2>6
  <2> QED
    BY <1>a, <2>1, <2>5, <2>7
<1>11. CASE KeepRelations(r)
  <2>1. req[r].item \in Item /\ Done(r, "relations")
        /\ UNCHANGED <<item, title, value, related, begun, gap>>
    BY <1>11, <1>b DEF KeepRelations, Shaped
  <2> QED
    BY <1>a, <1>e, <2>1
<1>12. CASE Abort(r)
  <2>1. req' = [req EXCEPT ![r] = Idle] /\ UNCHANGED <<item, title, value, related, begun>>
    BY <1>12 DEF Abort
  <2>2. Idle \in RequestState /\ Idle.pc = "idle" /\ Idle.locked = 0
    BY DEF Idle, RequestState
  <2>3. gap' \in [Item -> {"none", "hidden", "blanked", "cut"}]
    BY <1>12, <1>a DEF Abort
  <2> HIDE DEF Idle
  <2> QED
    BY <1>a, <2>1, <2>2, <2>3, OneRequestUnlocked
<1> QED
  BY <1>1, <1>2, <1>3, <1>4, <1>5, <1>6, <1>7, <1>8, <1>9, <1>10, <1>11, <1>12 DEF Step

LEMMA TypeNext == TInv /\ [Next]_vars => TInv'
<1> SUFFICES ASSUME TInv, [Next]_vars PROVE TInv'
  OBVIOUS
<1>1. CASE UNCHANGED vars
  BY <1>1 DEF vars, TInv, TypeOK, RequestsShaped, Shaped, LocksExclusive, Row, RequestState
<1>2. ASSUME NEW r \in Request, Step(r), Next PROVE TInv'
  BY <1>2, TypeOfStep, PeakGrows DEF TInv, TypeOK
<1>3. ASSUME NEW i \in Item, DeleteItem(i), Next PROVE TInv'
  <2>1. item[i] \in Row
    BY DEF TInv, TypeOK
  <2>2. item' \in [Item -> Row]
    BY <1>3, <2>1 DEF DeleteItem, TInv, TypeOK, Row
  <2>3. UNCHANGED <<title, value, related, req, begun, gap>>
    BY <1>3 DEF DeleteItem
  <2>4. RequestsShaped' /\ LocksExclusive'
    BY <2>3 DEF TInv, RequestsShaped, Shaped, LocksExclusive
  <2> QED
    BY <1>3, <2>2, <2>3, <2>4, PeakGrows DEF TInv, TypeOK
<1> QED
  BY <1>1, <1>2, <1>3, NextSteps

\* The rows, the requests and the histories keep their types.
THEOREM TypeCorrect == Spec => []TypeOK
<1>1. TInv => TypeOK
  BY DEF TInv
<1> QED
  BY <1>1, TypeInit, TypeNext, PTL DEF Spec

-----------------------------------------------------------------------------
(* Shared slugs *)

\* The requests about to write slug s, and what they are going to write it to: their
\* item or, for a creation, a row that does not exist yet.
Writing(s) == {r \in Request : req[r].pc = "item" /\ Head(req[r].slugs) = s}

Target(r) == IF req[r].item = NoItem THEN r ELSE req[r].item

Having(s) == {i \in Item : Live(i) /\ item[i].slug = s}

Claims(s) == Having(s) \cup {Target(r) : r \in Writing(s)}

ClaimsBounded ==
    \A s \in Slug : /\ IsFiniteSet(Claims(s))
                    /\ Cardinality(Claims(s)) <= Larger(peak, 1)

\* peak counts the requests under way.
PeakCounts == Cardinality(Active) <= peak

SInv == TInv /\ PeakCounts /\ ClaimsBounded

LEMMA SlugInit == Init => SInv
<1> SUFFICES ASSUME Init PROVE SInv
  OBVIOUS
<1>1. Active = {}
  BY DEF Init, Active, Under, Idle
<1>2. \A s \in Slug : Claims(s) = {}
  BY DEF Init, Claims, Having, Writing, Live, Idle
<1>3. IsFiniteSet({}) /\ Cardinality({}) = 0
  BY FS_EmptySet
<1>4. peak = 0
  BY DEF Init
<1> QED
  BY <1>1, <1>2, <1>3, <1>4, TypeInit DEF SInv, PeakCounts, ClaimsBounded, Larger

LEMMA PeakCounted == ASSUME SInv, Next PROVE PeakCounts'
<1>1. peak \in Nat
  BY DEF SInv, TInv, TypeOK
<1>2. CASE Watch
  BY <1>1, <1>2, ActiveFinite DEF Watch, Larger, PeakCounts
<1>3. CASE \E i \in Item : DeleteItem(i)
  <2>1. Active' = Active /\ peak <= peak'
    BY <1>1, <1>3, ActiveFinite DEF DeleteItem, Active, Under, Larger
  <2> QED
    BY <1>1, <2>1, ActiveFinite, PeakGrows DEF SInv, PeakCounts
<1> QED
  BY <1>2, <1>3 DEF Next

\* Claims on a slug that do not grow stay within the bound.
LEMMA ClaimsKept ==
  ASSUME SInv, Next, NEW s \in Slug, Claims(s)' \subseteq Claims(s)
  PROVE  IsFiniteSet(Claims(s)') /\ Cardinality(Claims(s)') <= Larger(peak', 1)
<1>1. IsFiniteSet(Claims(s)) /\ Cardinality(Claims(s)) <= Larger(peak, 1)
  BY DEF SInv, ClaimsBounded
<1>2. IsFiniteSet(Claims(s)') /\ Cardinality(Claims(s)') <= Cardinality(Claims(s))
  BY <1>1, FS_Subset
<1>3. Cardinality(Claims(s)) \in Nat /\ Cardinality(Claims(s)') \in Nat
  BY <1>1, <1>2, FS_CardinalityType
<1>4. peak \in Nat /\ peak' \in Nat /\ peak <= peak'
  BY PeakGrows DEF SInv, TInv, TypeOK
<1> QED
  BY <1>1, <1>2, <1>3, <1>4 DEF Larger

\* A claim that changes hands does not make them more.
LEMMA ClaimsMoved ==
  ASSUME SInv, Next, NEW s \in Slug, NEW c \in Claims(s), NEW d,
         Claims(s)' \subseteq (Claims(s) \ {c}) \cup {d}
  PROVE  IsFiniteSet(Claims(s)') /\ Cardinality(Claims(s)') <= Larger(peak', 1)
<1>1. IsFiniteSet(Claims(s)) /\ Cardinality(Claims(s)) <= Larger(peak, 1)
  BY DEF SInv, ClaimsBounded
<1>2. /\ IsFiniteSet(Claims(s) \ {c})
      /\ Cardinality(Claims(s) \ {c}) = Cardinality(Claims(s)) - 1
  BY <1>1, FS_RemoveElement
<1>3. Cardinality(Claims(s)) \in Nat /\ Cardinality(Claims(s) \ {c}) \in Nat
  BY <1>1, <1>2, FS_CardinalityType
<1>4. /\ IsFiniteSet((Claims(s) \ {c}) \cup {d})
      /\ Cardinality((Claims(s) \ {c}) \cup {d}) <= Cardinality(Claims(s))
      /\ Cardinality((Claims(s) \ {c}) \cup {d}) \in Nat
  <2> DEFINE C == Claims(s) \ {c}
  <2>1. IsFiniteSet(C) /\ Cardinality(C) = Cardinality(Claims(s)) - 1 /\ Cardinality(C) \in Nat
    BY <1>2, <1>3
  <2> HIDE DEF C
  <2>2. /\ IsFiniteSet(C \cup {d})
        /\ Cardinality(C \cup {d}) = Cardinality(C) \/ Cardinality(C \cup {d}) = Cardinality(C) + 1
    BY <2>1, FS_AddElement
  <2>3. /\ Cardinality(C \cup {d}) <= Cardinality(Claims(s)) /\ Cardinality(C \cup {d}) \in Nat
    BY <1>3, <2>1, <2>2
  <2> QED
    BY <2>2, <2>3 DEF C
<1>5. /\ IsFiniteSet(Claims(s)') /\ Cardinality(Claims(s)') \in Nat
      /\ Cardinality(Claims(s)') <= Cardinality((Claims(s) \ {c}) \cup {d})
  BY <1>4, FS_Subset, FS_CardinalityType
<1>6. peak \in Nat /\ peak' \in Nat /\ peak <= peak'
  BY PeakGrows DEF SInv, TInv, TypeOK
<1> QED
  BY <1>1, <1>3, <1>4, <1>5, <1>6 DEF Larger

\* If nothing but what requests under way go for is claimed, there are as many of them.
LEMMA ClaimsOfActive ==
  ASSUME SInv, Next, NEW s \in Slug,
         \A c \in Claims(s)' : \E q \in Active' :
            c = IF req'[q].item = NoItem THEN q ELSE req'[q].item
  PROVE  IsFiniteSet(Claims(s)') /\ Cardinality(Claims(s)') <= Larger(peak', 1)
<1> DEFINE A == Active'
           f == [q \in A |-> IF req'[q].item = NoItem THEN q ELSE req'[q].item]
           T == {f[q] : q \in A}
<1>1. IsFiniteSet(A) /\ Cardinality(A) \in Nat
  BY ActiveFinite
<1>2. \A q \in A : f[q] = IF req'[q].item = NoItem THEN q ELSE req'[q].item
  OBVIOUS
<1>3. Claims(s)' \subseteq T
  BY <1>2
<1>4. IsFiniteSet(T) /\ Cardinality(T) <= Cardinality(A)
  <2>1. f \in Surjection(A, T)
    BY DEF Surjection
  <2> HIDE DEF f, T, A
  <2> QED
    BY <1>1, <2>1, FS_Surjection
<1>5. /\ Cardinality(A) <= peak' /\ peak' \in Nat
  BY PeakCounted, PeakGrows DEF PeakCounts, SInv
<1> HIDE DEF A, T
<1>6. /\ IsFiniteSet(Claims(s)') /\ Cardinality(Claims(s)') \in Nat
      /\ Cardinality(Claims(s)') <= Cardinality(T) /\ Cardinality(T) \in Nat
  BY <1>3, <1>4, FS_Subset, FS_CardinalityType
<1> QED
  BY <1>1, <1>4, <1>5, <1>6 DEF Larger

LEMMA ClaimMembers ==
  ASSUME NEW s, NEW c
  PROVE  /\ c \in Claims(s) <=>
              \/ c \in Item /\ item[c].state = "live" /\ item[c].slug = s
              \/ \E q \in Request :
                    /\ req[q].pc = "item" /\ Head(req[q].slugs) = s
                    /\ c = IF req[q].item = NoItem THEN q ELSE req[q].item
         /\ c \in Claims(s)' <=>
              \/ c \in Item /\ item'[c].state = "live" /\ item'[c].slug = s
              \/ \E q \in Request :
                    /\ req'[q].pc = "item" /\ Head(req'[q].slugs) = s
                    /\ c = IF req'[q].item = NoItem THEN q ELSE req'[q].item
  BY DEF Claims, Having, Writing, Target, Live

\* A step of one request that gives no item a slug nobody has claimed for it, and that
\* goes for none.
LEMMA NothingClaimed ==
  ASSUME SInv, Next, NEW r \in Request, NEW s \in Slug,
         \A q \in Request \ {r} : req'[q] = req[q],
         \A i \in Item : item'[i].state = "live" /\ item'[i].slug = s => i \in Claims(s),
         req'[r].pc = "item" /\ Head(req'[r].slugs) = s =>
            (IF req'[r].item = NoItem THEN r ELSE req'[r].item) \in Claims(s)
  PROVE  IsFiniteSet(Claims(s)') /\ Cardinality(Claims(s)') <= Larger(peak', 1)
<1>1. ASSUME NEW c \in Claims(s)' PROVE c \in Claims(s)
  BY <1>1, ClaimMembers
<1> QED
  BY <1>1, ClaimsKept

LEMMA ClaimsOfStep ==
  ASSUME SInv, Next, NEW r \in Request, Step(r), NEW s \in Slug
  PROVE  IsFiniteSet(Claims(s)') /\ Cardinality(Claims(s)') <= Larger(peak', 1)
<1>a. /\ req \in [Request -> RequestState] /\ item \in [Item -> Row]
      /\ req[r] \in RequestState /\ Shaped(req[r], related)
  BY DEF SInv, TInv, TypeOK, RequestsShaped
<1>b. \A i \in Item : item[i].state = "live" /\ item[i].slug = s => i \in Claims(s)
  BY ClaimMembers
<1>c. ASSUME NEW t, req' = [req EXCEPT ![r] = t], item' = item, t.pc # "item"
      PROVE  IsFiniteSet(Claims(s)') /\ Cardinality(Claims(s)') <= Larger(peak', 1)
  <2>1. req'[r] = t /\ \A q \in Request \ {r} : req'[q] = req[q]
    BY <1>a, <1>c
  <2> QED
    BY <1>b, <1>c, <2>1, NothingClaimed
\* After a step that is not the first of a save, nothing is claimed.
<1>d. ASSUME NEW step \in {"item", "title", "values", "relations"}, Done(r, step)
      PROVE  /\ \A q \in Request \ {r} : req'[q] = req[q]
             /\ req'[r].pc # "item"
  <2>1. After(r)[step] \in {"title", "values", "relations", "idle"}
    BY Orders
  <2> QED
    BY <1>a, <1>d, <2>1 DEF Done, Idle
<1>e. ASSUME item' = item, \A q \in Request \ {r} : req'[q] = req[q], req'[r].pc # "item"
      PROVE  IsFiniteSet(Claims(s)') /\ Cardinality(Claims(s)') <= Larger(peak', 1)
  BY <1>b, <1>e, NothingClaimed
\* A save begins with a slug that is still to be looked up, with none, or with the
\* slug its item has.
<1>f. ASSUME NEW t, Begin(r, t),
             \/ t.pc = "slug"
             \/ Head(t.slugs) # s
             \/ t.item \in Claims(s) /\ t.item # NoItem
      PROVE  IsFiniteSet(Claims(s)') /\ Cardinality(Claims(s)') <= Larger(peak', 1)
  <2>1. req' = [req EXCEPT ![r] = t] /\ item' = item
    BY <1>f DEF Begin
  <2>2. req'[r] = t /\ \A q \in Request \ {r} : req'[q] = req[q]
    BY <1>a, <2>1
  <2> QED
    BY <1>b, <1>f, <2>1, <2>2, NothingClaimed
<1>1. CASE Create(r)
  <2>1. PICK slugs \in Candidates, by \in {"admin", "post"} :
           Begin(r, [pc |-> SlugStep(slugs), by |-> by, item |-> NoItem, slugs |-> slugs,
                     asked |-> TRUE, publish |-> FALSE, stamped |-> FALSE, locked |-> 0])
    BY <1>1 DEF Create
  <2> DEFINE t == [pc |-> SlugStep(slugs), by |-> by, item |-> NoItem, slugs |-> slugs,
                   asked |-> TRUE, publish |-> FALSE, stamped |-> FALSE, locked |-> 0]
  <2>2. t.pc = "slug" \/ Head(t.slugs) # s
    BY CandidateTypes
  <2>3. Begin(r, t)
    BY <2>1
  <2> HIDE DEF t
  <2> QED
    BY <1>f, <2>2, <2>3
<1>2. CASE AdminUpdate(r)
  <2>1. PICK i \in Item, slugs \in Candidates :
           Begin(r, [pc |-> SlugStep(slugs), by |-> "admin", item |-> i, slugs |-> slugs,
                     asked |-> TRUE, publish |-> FALSE, stamped |-> item[i].stamped,
                     locked |-> 0])
    BY <1>2 DEF AdminUpdate
  <2> DEFINE t == [pc |-> SlugStep(slugs), by |-> "admin", item |-> i, slugs |-> slugs,
                   asked |-> TRUE, publish |-> FALSE, stamped |-> item[i].stamped,
                   locked |-> 0]
  <2>2. t.pc = "slug" \/ Head(t.slugs) # s
    BY CandidateTypes
  <2>3. Begin(r, t)
    BY <2>1
  <2> HIDE DEF t
  <2> QED
    BY <1>f, <2>2, <2>3
<1>3. CASE ApiUpdate(r)
  <2>1. PICK i \in Item, asked \in BOOLEAN, publish \in BOOLEAN :
           /\ Live(i)
           /\ \/ \E slugs \in Candidates :
                    Begin(r, [pc |-> SlugStep(slugs), by |-> "put", item |-> i,
                              slugs |-> slugs, asked |-> asked, publish |-> publish,
                              stamped |-> FALSE, locked |-> 0])
              \/ Begin(r, [pc |-> "item", by |-> "put", item |-> i,
                           slugs |-> <<item[i].slug>>, asked |-> asked,
                           publish |-> publish, stamped |-> FALSE, locked |-> 0])
    BY <1>3 DEF ApiUpdate
  <2>2. CASE \E slugs \in Candidates :
                Begin(r, [pc |-> SlugStep(slugs), by |-> "put", item |-> i, slugs |-> slugs,
                          asked |-> asked, publish |-> publish, stamped |-> FALSE,
                          locked |-> 0])
    <3>1. PICK slugs \in Candidates :
             Begin(r, [pc |-> SlugStep(slugs), by |-> "put", item |-> i, slugs |-> slugs,
                       asked |-> asked, publish |-> publish, stamped |-> FALSE,
                       locked |-> 0])
      BY <2>2
    <3> DEFINE t == [pc |-> SlugStep(slugs), by |-> "put", item |-> i, slugs |-> slugs,
                     asked |-> asked, publish |-> publish, stamped |-> FALSE, locked |-> 0]
    <3>2. t.pc = "slug" \/ Head(t.slugs) # s
      BY CandidateTypes
    <3>3. Begin(r, t)
      BY <3>1
    <3> HIDE DEF t
    <3> QED
      BY <1>f, <3>2, <3>3
  <2>3. CASE Begin(r, [pc |-> "item", by |-> "put", item |-> i,
                       slugs |-> <<item[i].slug>>, asked |-> asked, publish |-> publish,
                       stamped |-> FALSE, locked |-> 0])
    <3> DEFINE t == [pc |-> "item", by |-> "put", item |-> i, slugs |-> <<item[i].slug>>,
                     asked |-> asked, publish |-> publish, stamped |-> FALSE, locked |-> 0]
    <3>1. Head(t.slugs) = item[i].slug /\ t.item = i /\ i # NoItem
      BY ContentAssumption
    <3>2. Head(t.slugs) # s \/ i \in Claims(s)
      BY <1>b, <2>1, <3>1 DEF Live
    <3>3. Begin(r, t)
      BY <2>3
    <3> HIDE DEF t
    <3> QED
      BY <1>f, <3>1, <3>2, <3>3
  <2> QED
    BY <2>1, <2>2, <2>3
\* A slug found free: whoever claims it now is a request under way, or the request's item.
<1>4. CASE CheckSlug(r)
  <2> DEFINE slugs == req[r].slugs
  <2>1. item' = item /\ req[r].pc = "slug"
    BY <1>4 DEF CheckSlug
  <2>2. CASE /\ ~SlugExists(Head(slugs), req[r].item)
             /\ req' = [req EXCEPT ![r].pc = "item"]
    <3>1. /\ \A q \in Request \ {r} : req'[q] = req[q]
          /\ req'[r].pc = "item" /\ req'[r].slugs = slugs /\ req'[r].item = req[r].item
      BY <1>a, <2>2 DEF RequestState
    <3>2. CASE Head(slugs) # s
      BY <1>b, <2>1, <3>1, <3>2, NothingClaimed
    <3>3. CASE Head(slugs) = s
      <4>1. ASSUME NEW c \in Claims(s)'
            PROVE  \E q \in Active' : c = IF req'[q].item = NoItem THEN q ELSE req'[q].item
        <5>1. r \in Active' /\ \A q \in Request : req'[q].pc = "item" => q \in Active'
          BY <3>1 DEF Active, Under
        <5>2. CASE c \in Item /\ item'[c].state = "live" /\ item'[c].slug = s
          <6>1. c = req[r].item
            BY <2>1, <2>2, <3>3, <5>2 DEF SlugExists, Live
          <6>2. req'[r].item # NoItem
            BY <3>1, <5>2, <6>1, ContentAssumption
          <6> QED
            BY <3>1, <5>1, <6>1, <6>2
        <5> QED
          BY <4>1, <5>1, <5>2, ClaimMembers
      <4> QED
        BY <4>1, ClaimsOfActive
    <3> QED
      BY <3>2, <3>3
  <2>3. CASE req' = [req EXCEPT ![r].slugs = Tail(slugs)]
    <3>1. /\ \A q \in Request \ {r} : req'[q] = req[q]
          /\ req'[r].pc = "slug"
      BY <1>a, <2>1, <2>3 DEF RequestState
    <3> QED
      BY <1>e, <2>1, <3>1
  <2> QED
    BY <1>4, <2>2, <2>3 DEF CheckSlug
\* The new row takes over the claim of the request.
<1>5. CASE InsertItem(r)
  <2>1. PICK i \in Item, publish \in BOOLEAN :
           /\ item[i].state = "none"
           /\ item' = [item EXCEPT ![i] = [state |-> "live", slug |-> Head(req[r].slugs),
                                           published |-> publish,
                                           stamped |-> (publish /\ ByApi(r))]]
           /\ req' = [req EXCEPT ![r] =
                        [pc |-> After(r).item, by |-> req[r].by, item |-> i,
                         slugs |-> <<>>, asked |-> TRUE,
                         publish |-> (publish /\ ByApi(r)), stamped |-> FALSE,
                         locked |-> 0]]
    BY <1>5 DEF InsertItem
  <2>2. req[r].pc = "item" /\ req[r].item = NoItem
    BY <1>5 DEF InsertItem
  <2>3. After(r).item # "item"
    BY Orders
  <2>4. \A q \in Request \ {r} : req'[q] = req[q]
    BY <1>a, <2>1
  <2>5. req'[r].pc # "item"
    BY <1>a, <2>1, <2>3
  <2>6. /\ \A j \in Item \ {i} : item'[j] = item[j]
        /\ item'[i].slug = Head(req[r].slugs)
    BY <1>a, <2>1
  <2>7. CASE Head(req[r].slugs) # s
    <3>1. \A j \in Item : item'[j].state = "live" /\ item'[j].slug = s => j \in Claims(s)
      BY <1>b, <2>6, <2>7
    <3> QED
      BY <2>4, <2>5, <3>1, NothingClaimed
  <2>8. CASE Head(req[r].slugs) = s
    <3>1. r \in Claims(s)
      BY <2>2, <2>8, ClaimMembers
    <3>2. ASSUME NEW c \in Claims(s)', c # i PROVE c \in Claims(s) /\ c # r
      <4>1. CASE c \in Item /\ item'[c].state = "live" /\ item'[c].slug = s
        BY <1>b, <2>6, <3>2, <4>1, ContentAssumption
      <4>2. CASE \E q \in Request :
                    /\ req'[q].pc = "item" /\ Head(req'[q].slugs) = s
                    /\ c = IF req'[q].item = NoItem THEN q ELSE req'[q].item
        <5>1. PICK q \in Request :
                    /\ req'[q].pc = "item" /\ Head(req'[q].slugs) = s
                    /\ c = IF req'[q].item = NoItem THEN q ELSE req'[q].item
          BY <4>2
        <5>2. q # r /\ req'[q] = req[q]
          BY <2>4, <2>5, <5>1
        <5>3. req[q].item \in Item \cup {NoItem}
          BY <1>a DEF RequestState
        <5>4. c # r
          BY <5>1, <5>2, <5>3, ContentAssumption
        <5>5. c \in Claims(s)
          BY <5>1, <5>2, ClaimMembers
        <5> QED
          BY <5>4, <5>5
      <4> QED
        BY <3>2, <4>1, <4>2, ClaimMembers
    <3>3. Claims(s)' \subseteq (Claims(s) \ {r}) \cup {i}
      BY <3>2
    <3> QED
      BY <3>1, <3>3, ClaimsMoved
  <2> QED
    BY <2>7, <2>8
<1>6. CASE UpdateItem(r)
  <2>1. /\ req[r].pc = "item" /\ req[r].item # NoItem /\ req[r].item \in Item
        /\ Done(r, "item")
    BY <1>6, <1>a DEF UpdateItem, RequestState
  <2>2. /\ \A q \in Request \ {r} : req'[q] = req[q]
        /\ req'[r].pc # "item"
    BY <1>d, <2>1
  <2>3. \A j \in Item : \/ item'[j] = item[j]
                        \/ j = req[r].item /\ item'[j].slug = Head(req[r].slugs)
    BY <1>6, <1>a, <2>1 DEF UpdateItem
  <2>4. Head(req[r].slugs) = s => req[r].item \in Claims(s)
    BY <2>1, ClaimMembers
  <2>5. \A j \in Item : item'[j].state = "live" /\ item'[j].slug = s => j \in Claims(s)
    BY <1>b, <2>3, <2>4
  <2> QED
    BY <2>2, <2>5, NothingClaimed
<1>7. CASE SaveTitle(r)
  BY <1>7, <1>d, <1>e DEF SaveTitle
<1>8. CASE SaveValues(r)
  BY <1>8, <1>d, <1>e DEF SaveValues
<1>9. CASE DeleteRelations(r)
  <2>1. item' = item /\ Inserting(r, related[req[r].item])
    BY <1>9 DEF DeleteRelations
  <2>2. /\ \A q \in Request \ {r} : req'[q] = req[q]
        /\ req'[r].pc # "item"
    BY <1>a, <2>1 DEF Inserting
  <2> QED
    BY <1>e, <2>1, <2>2
<1>10. CASE InsertRelations(r)
  BY <1>10, <1>d, <1>e DEF InsertRelations
<1>11. CASE KeepRelations(r)
  BY <1>11, <1>d, <1>e DEF KeepRelations
<1>12. CASE Abort(r)
  <2>1. req' = [req EXCEPT ![r] = Idle] /\ item' = item /\ Idle.pc # "item"
    BY <1>12 DEF Abort, Idle
  <2> QED
    BY <1>c, <2>1
<1> QED
  BY <1>1, <1>2, <1>3, <1>4, <1>5, <1>6, <1>7, <1>8, <1>9, <1>10, <1>11, <1>12 DEF Step

LEMMA SlugNext == SInv /\ [Next]_vars => SInv'
<1> SUFFICES ASSUME SInv, [Next]_vars PROVE SInv'
  OBVIOUS
<1>1. TInv'
  BY TypeNext DEF SInv
<1>2. CASE UNCHANGED vars
  BY <1>1, <1>2 DEF vars, SInv, PeakCounts, ClaimsBounded, Active, Under, Claims, Having,
                    Writing, Target, Live
<1>3. CASE Next
  <2>1. PeakCounts'
    BY <1>3, PeakCounted
  <2>2. ASSUME NEW s \in Slug
        PROVE  IsFiniteSet(Claims(s)') /\ Cardinality(Claims(s)') <= Larger(peak', 1)
    <3>1. CASE \E r \in Request : Step(r)
      BY <1>3, <3>1, ClaimsOfStep
    <3>2. ASSUME NEW i \in Item, DeleteItem(i)
          PROVE  IsFiniteSet(Claims(s)') /\ Cardinality(Claims(s)') <= Larger(peak', 1)
      <4>1. /\ item' = [item EXCEPT ![i] = [state |-> "deleted", slug |-> item[i].slug,
                                            published |-> item[i].published,
                                            stamped |-> item[i].stamped]]
            /\ req' = req
        BY <3>2 DEF DeleteItem
      <4>2. \A j \in Item : item'[j].state = "live" => item'[j] = item[j]
        BY <4>1 DEF SInv, TInv, TypeOK
      <4>3. \A c \in Claims(s)' : c \in Claims(s)
        BY <4>1, <4>2, ClaimMembers
      <4> QED
        BY <1>3, <4>3, ClaimsKept
    <3> QED
      BY <1>3, <3>1, <3>2, NextSteps
  <2>3. ClaimsBounded'
    BY <2>2 DEF ClaimsBounded
  <2> QED
    BY <1>1, <2>1, <2>3 DEF SInv
<1> QED
  BY <1>2, <1>3

\* BuildUniqueSlugAsync: for any number of items and requests, the live items that
\* share a slug are no more than the requests that have ever overlapped.
THEOREM SlugsSharedWithinOverlap == Spec => []SlugsShared
<1>1. SInv => SlugsShared
  <2> SUFFICES ASSUME SInv, NEW s \in Slug
               PROVE  Cardinality(Having(s)) <= Larger(peak, 1)
    BY DEF SlugsShared, Having
  <2>1. IsFiniteSet(Claims(s)) /\ Cardinality(Claims(s)) <= Larger(peak, 1)
    BY DEF SInv, ClaimsBounded
  <2>2. IsFiniteSet(Having(s)) /\ Cardinality(Having(s)) <= Cardinality(Claims(s))
    BY <2>1, FS_Subset DEF Claims
  <2>3. Cardinality(Claims(s)) \in Nat /\ Cardinality(Having(s)) \in Nat
    BY <2>1, <2>2, FS_CardinalityType
  <2>4. peak \in Nat
    BY DEF SInv, TInv, TypeOK
  <2> QED
    BY <2>1, <2>2, <2>3, <2>4 DEF Larger
<1> QED
  BY <1>1, SlugInit, SlugNext, PTL DEF Spec

-----------------------------------------------------------------------------
(* Incomplete items *)

\* A request that updates an item has one from the start.
PutsHaveItems == \A r \in Request : req[r].by = "put" => req[r].item # NoItem

Cause(i) == gap[i] # "none" \/ \E r \in Request : req[r].item = i /\ ValuesToCome(r)

CInv == TInv /\ PutsHaveItems /\ IncompleteHasCause

LEMMA PutsHaveItemsOfStep ==
  ASSUME CInv, NEW r \in Request, Step(r)
  PROVE  PutsHaveItems'
<1>a. req \in [Request -> RequestState]
  BY DEF CInv, TInv, TypeOK
<1>b. \A q \in Request : req[q].by = "put" => req[q].item # NoItem
  BY DEF CInv, PutsHaveItems
<1>c. ASSUME NEW s, req' = [req EXCEPT ![r] = s], s.by = "put" => s.item # NoItem
      PROVE  PutsHaveItems'
  BY <1>a, <1>b, <1>c DEF PutsHaveItems
<1>d. ASSUME NEW step \in {"item", "title", "values", "relations"}, Done(r, step)
      PROVE  PutsHaveItems'
  <2> DEFINE s == IF After(r)[step] = "idle" THEN Idle
                  ELSE [pc |-> After(r)[step], by |-> req[r].by, item |-> req[r].item,
                        slugs |-> <<>>, asked |-> TRUE, publish |-> req[r].publish,
                        stamped |-> FALSE, locked |-> 0]
  <2>1. req' = [req EXCEPT ![r] = s]
    BY <1>d DEF Done
  <2>2. s.by = "put" => s.item # NoItem
    BY <1>b DEF Idle
  <2> HIDE DEF s
  <2> QED
    BY <1>c, <2>1, <2>2
<1>e. \A i \in Item : i # NoItem
  BY ContentAssumption
<1>1. CASE Create(r)
  BY <1>1, <1>c DEF Create, Begin
<1>2. CASE AdminUpdate(r)
  BY <1>2, <1>c DEF AdminUpdate, Begin
<1>3. CASE ApiUpdate(r)
  BY <1>3, <1>c, <1>e DEF ApiUpdate, Begin
<1>4. CASE CheckSlug(r)
  <2>1. req'[r].by = req[r].by /\ req'[r].item = req[r].item
    BY <1>4, <1>a DEF CheckSlug, RequestState
  <2>2. \A q \in Request \ {r} : req'[q] = req[q]
    BY <1>4, <1>a DEF CheckSlug
  <2> QED
    BY <1>b, <2>1, <2>2 DEF PutsHaveItems
<1>5. CASE InsertItem(r)
  BY <1>5, <1>c, <1>e DEF InsertItem
<1>6. CASE UpdateItem(r)
  BY <1>6, <1>d DEF UpdateItem
<1>7. CASE SaveTitle(r)
  BY <1>7, <1>d DEF SaveTitle
<1>8. CASE SaveValues(r)
  BY <1>8, <1>d DEF SaveValues
<1>9. CASE DeleteRelations(r)
  <2>1. Inserting(r, related[req[r].item])
    BY <1>9 DEF DeleteRelations
  <2> QED
    BY <1>b, <1>c, <2>1 DEF Inserting
<1>10. CASE InsertRelations(r)
  BY <1>10, <1>d DEF InsertRelations
<1>11. CASE KeepRelations(r)
  BY <1>11, <1>d DEF KeepRelations
<1>12. CASE Abort(r)
  BY <1>12, <1>c DEF Abort, Idle
<1> QED
  BY <1>1, <1>2, <1>3, <1>4, <1>5, <1>6, <1>7, <1>8, <1>9, <1>10, <1>11, <1>12 DEF Step

\* An item keeps its cause if the request that makes the step was not the cause.
LEMMA CauseKept ==
  ASSUME CInv, NEW r \in Request, \A q \in Request \ {r} : req'[q] = req[q],
         NEW i \in Item,
         \/ gap'[i] # "none"
         \/ req'[r].item = i /\ ValuesToCome(r)'
         \/ /\ Live(i) /\ ~value[i] /\ gap'[i] = gap[i]
            /\ ~(req[r].item = i /\ ValuesToCome(r))
  PROVE  Cause(i)'
<1>1. CASE gap'[i] # "none" \/ (req'[r].item = i /\ ValuesToCome(r)')
  BY <1>1 DEF Cause
<1>2. CASE /\ Live(i) /\ ~value[i] /\ gap'[i] = gap[i]
           /\ ~(req[r].item = i /\ ValuesToCome(r))
  <2>1. Cause(i)
    BY <1>2 DEF CInv, IncompleteHasCause, Cause
  <2>2. ASSUME NEW q \in Request, req[q].item = i, ValuesToCome(q)
        PROVE  req'[q].item = i /\ ValuesToCome(q)'
    BY <1>2, <2>2 DEF ValuesToCome, After, ByApi
  <2> QED
    BY <1>2, <2>1, <2>2 DEF Cause
<1> QED
  BY <1>1, <1>2

\* Where the values of a save are still to come.
LEMMA ToCome ==
  ASSUME TypeOK, NEW r \in Request
  PROVE  ValuesToCome(r) <=> \/ req[r].pc = "values" /\ req[r].by # "put"
                             \/ req[r].pc = "title" /\ req[r].by = "admin"
<1>1. req[r].by \in {"admin", "post", "put"}
  BY DEF TypeOK, RequestState
<1> QED
  BY <1>1 DEF ValuesToCome, After, AfterAdmin, AfterApi, ByApi

\* A step that Done ends comes to the values next, or was not before them.
LEMMA DoneCause ==
  ASSUME CInv, NEW r \in Request, NEW step \in {"item", "title", "values", "relations"},
         Done(r, step), req[r].pc = step, step # "values"
  PROVE  /\ \A q \in Request \ {r} : req'[q] = req[q]
         /\ ValuesToCome(r) => ValuesToCome(r)' /\ req'[r].item = req[r].item
<1>1. req \in [Request -> RequestState] /\ TypeOK
  BY DEF CInv, TInv, TypeOK
<1>2. \A q \in Request \ {r} : req'[q] = req[q]
  BY <1>1 DEF Done
<1>3. ASSUME ValuesToCome(r)
      PROVE  ValuesToCome(r)' /\ req'[r].item = req[r].item
  <2>1. step = "title" /\ req[r].by = "admin"
    BY <1>1, <1>3, ToCome
  <2>2. After(r)[step] = "values"
    BY <2>1 DEF After, AfterAdmin, ByApi
  <2>3. /\ req'[r].pc = "values" /\ req'[r].by = "admin"
        /\ req'[r].item = req[r].item
    BY <1>1, <2>1, <2>2 DEF Done
  <2> QED
    BY <2>3 DEF ValuesToCome
<1> QED
  BY <1>2, <1>3

LEMMA CauseOfStep ==
  ASSUME CInv, NEW r \in Request, Step(r), NEW i \in Item, Live(i)', ~value'[i]
  PROVE  Cause(i)'
<1>a. /\ req \in [Request -> RequestState] /\ item \in [Item -> Row]
      /\ value \in [Item -> BOOLEAN]
      /\ gap \in [Item -> {"none", "hidden", "blanked", "cut"}]
      /\ TypeOK /\ TInv
  BY DEF CInv, TInv, TypeOK
<1>b. Shaped(req[r], related)
  BY <1>a DEF TInv, RequestsShaped
\* The steps that change neither the items nor their values.
<1>c. ASSUME \A q \in Request \ {r} : req'[q] = req[q], UNCHANGED <<value, gap>>,
             Live(i)' => Live(i),
             ValuesToCome(r) => ValuesToCome(r)' /\ req'[r].item = req[r].item
      PROVE  Cause(i)'
  BY <1>c, CauseKept
<1>d. ASSUME NEW s, Begin(r, s) PROVE Cause(i)'
  <2>1. /\ \A q \in Request \ {r} : req'[q] = req[q]
        /\ req[r].pc = "idle" /\ UNCHANGED <<item, value, gap>>
    BY <1>a, <1>d DEF Begin
  <2>2. ~ValuesToCome(r)
    BY <2>1 DEF ValuesToCome
  <2> QED
    BY <1>c, <2>1, <2>2 DEF Live
<1>1. CASE Create(r)
  BY <1>1, <1>d DEF Create
<1>2. CASE AdminUpdate(r)
  BY <1>2, <1>d DEF AdminUpdate
<1>3. CASE ApiUpdate(r)
  BY <1>3, <1>d DEF ApiUpdate
<1>4. CASE CheckSlug(r)
  <2>1. /\ \A q \in Request \ {r} : req'[q] = req[q]
        /\ req[r].pc = "slug" /\ UNCHANGED <<item, value, gap>>
    BY <1>4, <1>a DEF CheckSlug
  <2>2. ~ValuesToCome(r)
    BY <2>1 DEF ValuesToCome
  <2> QED
    BY <1>c, <2>1, <2>2 DEF Live
\* A new item has its values still to come.
<1>5. CASE InsertItem(r)
  <2>1. PICK j \in Item, publish \in BOOLEAN :
           /\ item' = [item EXCEPT ![j] = [state |-> "live", slug |-> Head(req[r].slugs),
                                           published |-> publish,
                                           stamped |-> (publish /\ ByApi(r))]]
           /\ req' = [req EXCEPT ![r] =
                        [pc |-> After(r).item, by |-> req[r].by, item |-> j,
                         slugs |-> <<>>, asked |-> TRUE,
                         publish |-> (publish /\ ByApi(r)), stamped |-> FALSE,
                         locked |-> 0]]
    BY <1>5 DEF InsertItem
  <2>2. /\ req[r].pc = "item" /\ req[r].item = NoItem /\ UNCHANGED <<value, gap>>
        /\ req[r].by # "put"
    BY <1>5 DEF InsertItem, CInv, PutsHaveItems
  <2>3. /\ \A q \in Request \ {r} : req'[q] = req[q]
        /\ req'[r].pc = After(r).item /\ req'[r].by = req[r].by /\ req'[r].item = j
    BY <1>a, <2>1
  <2>4. ValuesToCome(r)'
    BY <2>2, <2>3 DEF ValuesToCome, After, AfterAdmin, AfterApi, ByApi
  <2>5. CASE i = j
    BY <2>3, <2>4, <2>5, CauseKept
  <2>6. CASE i # j
    <3>1. item'[i] = item[i]
      BY <1>a, <2>1, <2>6
    <3>2. ~ValuesToCome(r)
      BY <2>2 DEF ValuesToCome
    <3> QED
      BY <1>c, <2>2, <2>3, <3>1, <3>2 DEF Live
  <2> QED
    BY <2>5, <2>6
<1>6. CASE UpdateItem(r)
  <2>1. req[r].pc = "item" /\ Done(r, "item") /\ UNCHANGED <<value, gap>>
    BY <1>6 DEF UpdateItem
  <2>2. Live(i)' => Live(i)
    BY <1>6, <1>a DEF UpdateItem, Live
  <2> QED
    BY <1>c, <2>1, <2>2, DoneCause
<1>7. CASE SaveTitle(r)
  <2>1. req[r].pc = "title" /\ Done(r, "title") /\ UNCHANGED <<item, value, gap>>
    BY <1>7 DEF SaveTitle
  <2> QED
    BY <1>c, <2>1, DoneCause DEF Live
<1>8. CASE SaveValues(r)
  <2>1. /\ req[r].pc = "values" /\ Done(r, "values") /\ item' = item
        /\ req[r].item \in Item
    BY <1>8, <1>b DEF SaveValues, Shaped
  <2>2. \A q \in Request \ {r} : req'[q] = req[q]
    BY <1>a, <2>1 DEF Done
  <2>3. CASE i # req[r].item
    <3>1. value'[i] = value[i] /\ gap'[i] = gap[i]
      BY <1>8, <1>a, <2>1, <2>3 DEF SaveValues
    <3> QED
      BY <2>1, <2>2, <2>3, <3>1, CauseKept DEF Live
  <2>4. CASE i = req[r].item
    <3>1. \/ gap'[i] # "none"
          \/ req[r].by = "put" /\ value' = value /\ gap' = gap
      BY <1>8, <1>a, <2>1, <2>4 DEF SaveValues
    <3>2. req[r].by = "put" => ~ValuesToCome(r)
      BY DEF ValuesToCome
    <3> QED
      BY <2>1, <2>2, <3>1, <3>2, CauseKept DEF Live
  <2> QED
    BY <2>3, <2>4
<1>9. CASE DeleteRelations(r)
  <2>1. /\ req[r].pc = "relations" /\ UNCHANGED <<item, value, gap>>
        /\ Inserting(r, related[req[r].item])
    BY <1>9 DEF DeleteRelations
  <2>2. ~ValuesToCome(r) /\ \A q \in Request \ {r} : req'[q] = req[q]
    BY <1>a, <2>1 DEF ValuesToCome, Inserting
  <2> QED
    BY <1>c, <2>1, <2>2 DEF Live
<1>10. CASE InsertRelations(r)
  <2>1. /\ req[r].pc = "inserting" /\ UNCHANGED <<item, value, gap>>
        /\ Done(r, "relations")
    BY <1>10 DEF InsertRelations
  <2>2. ~ValuesToCome(r) /\ \A q \in Request \ {r} : req'[q] = req[q]
    BY <1>a, <2>1 DEF ValuesToCome, Done
  <2> QED
    BY <1>c, <2>1, <2>2 DEF Live
<1>11. CASE KeepRelations(r)
  <2>1. req[r].pc = "relations" /\ Done(r, "relations") /\ UNCHANGED <<item, value, gap>>
    BY <1>11 DEF KeepRelations
  <2> QED
    BY <1>c, <2>1, DoneCause DEF Live
<1>12. CASE Abort(r)
  <2>1. /\ UNCHANGED <<item, value>> /\ req' = [req EXCEPT ![r] = Idle]
        /\ gap' = IF ValuesToCome(r) /\ ~value[req[r].item]
                    THEN [gap EXCEPT ![req[r].item] = "cut"] ELSE gap
    BY <1>12 DEF Abort
  <2>2. \A q \in Request \ {r} : req'[q] = req[q]
    BY <1>a, <2>1
  <2>3. CASE req[r].item = i /\ ValuesToCome(r)
    <3>1. gap'[i] = "cut"
      BY <1>a, <2>1, <2>3
    <3> QED
      BY <2>2, <3>1, CauseKept
  <2>4. CASE ~(req[r].item = i /\ ValuesToCome(r))
    <3>1. gap'[i] = gap[i]
      BY <1>a, <2>1, <2>4
    <3> QED
      BY <2>1, <2>2, <2>4, <3>1, CauseKept DEF Live
  <2> QED
    BY <2>3, <2>4
<1> QED
  BY <1>1, <1>2, <1>3, <1>4, <1>5, <1>6, <1>7, <1>8, <1>9, <1>10, <1>11, <1>12 DEF Step

LEMMA CauseInit == Init => CInv
<1> SUFFICES ASSUME Init PROVE CInv
  OBVIOUS
<1>1. TInv
  BY TypeInit
<1>2. \A r \in Request : req[r].by # "put"
  BY DEF Init, Idle
<1>3. \A i \in Item : ~Live(i)
  BY DEF Init, Live
<1> QED
  BY <1>1, <1>2, <1>3 DEF CInv, PutsHaveItems, IncompleteHasCause

LEMMA CauseNext == CInv /\ [Next]_vars => CInv'
<1> SUFFICES ASSUME CInv, [Next]_vars PROVE CInv'
  OBVIOUS
<1>1. TInv'
  BY TypeNext DEF CInv
<1>2. CASE UNCHANGED vars
  <2>1. PutsHaveItems'
    BY <1>2 DEF vars, CInv, PutsHaveItems
  <2>2. IncompleteHasCause'
    BY <1>2 DEF vars, CInv, IncompleteHasCause, Live, ValuesToCome, After, ByApi
  <2> QED
    BY <1>1, <2>1, <2>2 DEF CInv
<1>3. ASSUME NEW r \in Request, Step(r) PROVE CInv'
  <2>1. \A i \in Item : Live(i)' /\ ~value'[i] => Cause(i)'
    BY <1>3, CauseOfStep
  <2>2. IncompleteHasCause'
    BY <2>1 DEF IncompleteHasCause, Cause
  <2> QED
    BY <1>1, <1>3, <2>2, PutsHaveItemsOfStep DEF CInv
<1>4. ASSUME NEW j \in Item, DeleteItem(j) PROVE CInv'
  <2>1. /\ UNCHANGED <<value, req, gap>>
        /\ \A i \in Item : Live(i)' => Live(i)
    BY <1>4 DEF DeleteItem, Live, CInv, TInv, TypeOK
  <2>2. PutsHaveItems'
    BY <2>1 DEF CInv, PutsHaveItems
  <2>3. IncompleteHasCause'
    BY <2>1 DEF CInv, IncompleteHasCause, ValuesToCome, After, ByApi
  <2> QED
    BY <1>1, <2>2, <2>3 DEF CInv
<1> QED
  BY <1>2, <1>3, <1>4, NextSteps

\* ContentItemService and PublicApiService: a live item without its required value has
\* lost it to a save that ended early or to an API request, or a save is about to write
\* it; for any number of items and requests.
THEOREM IncompleteItemsHaveCause == Spec => []IncompleteHasCause
<1>1. CInv => IncompleteHasCause
  BY DEF CInv
<1> QED
  BY <1>1, CauseInit, CauseNext, PTL DEF Spec

-----------------------------------------------------------------------------
(* Relations *)

Most == Larger(ApiTargets, 1)
Peak == Larger(peak, 1)

\* The replacements of item i between their two statements, and those that locked
\* nothing: their rows come on top of the others'.
Replacing(i) == {r \in Request : req[r].pc = "inserting" /\ req[r].item = i}
Adding(i) == {r \in Replacing(i) : req[r].locked = 0}

\* The rows there are, and those to come; and what is left once r has replaced its own.
RelationsCounted ==
    \A i \in Item :
       /\ related[i] + Most * Cardinality(Adding(i)) <= Most * Peak
       /\ \A r \in Replacing(i) :
             (related[i] - req[r].locked) + Most * Cardinality(Adding(i) \cup {r})
                <= Most * Peak

RInv == SInv /\ RelationsCounted

LEMMA SubsetOfRequests ==
  ASSUME NEW S \in SUBSET Request
  PROVE  IsFiniteSet(S) /\ Cardinality(S) \in Nat
BY ContentAssumption, FS_Subset, FS_CardinalityType

LEMMA OneMore ==
  ASSUME NEW S \in SUBSET Request, NEW r \in Request, r \notin S
  PROVE  Cardinality(S \cup {r}) = Cardinality(S) + 1
BY SubsetOfRequests, FS_AddElement

LEMMA SubsetCount ==
  ASSUME NEW S \in SUBSET Request, NEW T \in SUBSET S
  PROVE  Cardinality(T) <= Cardinality(S)
BY SubsetOfRequests, FS_Subset

LEMMA MostTimes ==
  /\ Most \in Nat /\ ApiTargets <= Most /\ 1 <= Most
  /\ \A j, k \in Nat : Most * j \in Nat /\ (j <= k => Most * j <= Most * k)
  /\ \A j \in Nat : Most * (j + 1) = Most * j + Most
<1>1. Most \in Nat /\ ApiTargets <= Most /\ 1 <= Most
  BY ContentAssumption DEF Most, Larger
<1>2. \A m, j, k \in Nat : m * j \in Nat /\ (j <= k => m * j <= m * k)
  OBVIOUS
<1>3. \A m, j \in Nat : m * (j + 1) = m * j + m
  OBVIOUS
<1> QED
  BY <1>1, <1>2, <1>3

\* The bound only grows, and a set of requests under way is within it.
LEMMA PeakBound ==
  ASSUME SInv, Next
  PROVE  /\ Peak \in Nat /\ Peak' \in Nat /\ Peak <= Peak'
         /\ \A S \in SUBSET Active' : Cardinality(S) <= Peak'
<1>1. peak \in Nat /\ peak' \in Nat /\ peak <= peak'
  BY PeakGrows DEF SInv, TInv, TypeOK
<1>2. Cardinality(Active') <= peak'
  BY PeakCounted DEF PeakCounts
<1>3. Active' \in SUBSET Request
  BY DEF Active
<1>4. ASSUME NEW S \in SUBSET Active' PROVE Cardinality(S) <= Peak'
  <2>1. Cardinality(S) <= Cardinality(Active')
    BY <1>3, SubsetCount
  <2>2. S \in SUBSET Request
    BY <1>3
  <2> QED
    BY <1>1, <1>2, <1>3, <2>1, <2>2, SubsetOfRequests DEF Peak, Larger
<1> QED
  BY <1>1, <1>4 DEF Peak, Larger

\* Fewer rows to come and a greater bound.
LEMMA RoomKept ==
  ASSUME SInv, Next, NEW n \in Int, NEW S \in SUBSET Request, NEW T \in SUBSET S,
         n + Most * Cardinality(S) <= Most * Peak
  PROVE  n + Most * Cardinality(T) <= Most * Peak'
<1>1. /\ Cardinality(S) \in Nat /\ Cardinality(T) \in Nat
      /\ Cardinality(T) <= Cardinality(S)
  BY SubsetOfRequests, SubsetCount
<1>2. Peak \in Nat /\ Peak' \in Nat /\ Peak <= Peak'
  BY PeakBound
<1>3. Most * Cardinality(T) <= Most * Cardinality(S) /\ Most * Peak <= Most * Peak'
  BY <1>1, <1>2, MostTimes
<1>4. /\ Most * Cardinality(T) \in Nat /\ Most * Cardinality(S) \in Nat
      /\ Most * Peak \in Nat /\ Most * Peak' \in Nat
  BY <1>1, <1>2, MostTimes
<1> QED
  BY <1>3, <1>4

\* Item j keeps its room when its rows stay and no replacement of it begins.
LEMMA RoomOfItem ==
  ASSUME RInv, Next, NEW j \in Item, related'[j] = related[j],
         \A q \in Request : q \in Replacing(j)' =>
            q \in Replacing(j) /\ req'[q].locked = req[q].locked
  PROVE  /\ related'[j] + Most * Cardinality(Adding(j)') <= Most * Peak'
         /\ \A q \in Replacing(j)' :
               (related'[j] - req'[q].locked) + Most * Cardinality(Adding(j)' \cup {q})
                  <= Most * Peak'
<1>1. /\ Adding(j) \in SUBSET Request /\ Adding(j)' \in SUBSET Adding(j)
      /\ Replacing(j)' \in SUBSET Request
  BY DEF Adding, Replacing
<1>2. related[j] \in Nat /\ \A q \in Request : req[q].locked \in Nat
  BY DEF RInv, SInv, TInv, TypeOK, RequestState
<1>3. related'[j] + Most * Cardinality(Adding(j)') <= Most * Peak'
  BY <1>1, <1>2, RoomKept DEF RInv, RelationsCounted
<1>4. ASSUME NEW q \in Replacing(j)'
      PROVE  (related'[j] - req'[q].locked) + Most * Cardinality(Adding(j)' \cup {q})
                <= Most * Peak'
  <2>1. q \in Request /\ q \in Replacing(j) /\ req'[q].locked = req[q].locked
    BY <1>1
  <2>2. (related[j] - req[q].locked) + Most * Cardinality(Adding(j) \cup {q})
           <= Most * Peak
    BY <2>1 DEF RInv, RelationsCounted
  <2>3. /\ Adding(j) \cup {q} \in SUBSET Request
        /\ Adding(j)' \cup {q} \in SUBSET (Adding(j) \cup {q})
    BY <1>1, <2>1
  <2>4. related[j] - req[q].locked \in Int
    BY <1>2, <2>1
  <2> QED
    BY <2>1, <2>2, <2>3, <2>4, RoomKept DEF RInv
<1> QED
  BY <1>3, <1>4


\* A replacement begins: it has locked the rows there are, or is under way like the
\* others that found none.
LEMMA RoomOfDelete ==
  ASSUME RInv, Next, NEW r \in Request, DeleteRelations(r)
  PROVE  RelationsCounted'
<1>p. req[r].item \in Item
  BY DEF DeleteRelations, RInv, SInv, TInv, RequestsShaped, Shaped
<1>q. PICK i \in Item : i = req[r].item
  BY <1>p
<1>a. /\ req \in [Request -> RequestState] /\ related \in [Item -> Nat]
      /\ req[r] \in RequestState /\ SInv
  BY DEF RInv, SInv, TInv, TypeOK
<1>1. /\ req[r].pc = "relations" /\ related' = related
      /\ \A q \in Request : req[q].item = i => req[q].locked = 0
  BY <1>q DEF DeleteRelations
<1>2. /\ \A q \in Request \ {r} : req'[q] = req[q]
      /\ req'[r].pc = "inserting" /\ req'[r].item = i /\ req'[r].locked = related[i]
  BY <1>a, <1>q DEF DeleteRelations, Inserting
<1>3. related[i] \in Nat
  BY <1>a
<1>4. /\ Adding(i)' \in SUBSET Request /\ Adding(i) \in SUBSET Request
      /\ Adding(i)' \cup {r} \in SUBSET Active'
      /\ Adding(i)' \subseteq Adding(i) \cup {r}
  BY <1>2 DEF Adding, Replacing, Active, Under
<1>5. Most * Cardinality(Adding(i)' \cup {r}) <= Most * Peak'
  <2>1. /\ Cardinality(Adding(i)' \cup {r}) <= Peak' /\ Peak' \in Nat
    BY <1>a, <1>4, PeakBound
  <2>2. Cardinality(Adding(i)' \cup {r}) \in Nat
    BY <1>4, SubsetOfRequests
  <2> QED
    BY <2>1, <2>2, MostTimes
<1>6. related[i] + Most * Cardinality(Adding(i)') <= Most * Peak'
  <2>1. CASE related[i] = 0
    <3>1. r \in Adding(i)'
      BY <1>2, <2>1 DEF Adding, Replacing
    <3>2. Adding(i)' \cup {r} = Adding(i)'
      BY <3>1
    <3>3. Cardinality(Adding(i)') \in Nat
      BY <1>4, SubsetOfRequests
    <3>4. Most * Cardinality(Adding(i)') \in Nat
      BY <3>3, MostTimes
    <3>5. Most * Cardinality(Adding(i)') <= Most * Peak'
      BY <1>5, <3>2
    <3> QED
      BY <2>1, <3>4, <3>5
  <2>2. CASE related[i] # 0
    <3>1. r \notin Adding(i)'
      BY <1>2, <2>2 DEF Adding
    <3>2. Adding(i)' \in SUBSET Adding(i)
      BY <1>4, <3>1
    <3>3. related[i] + Most * Cardinality(Adding(i)) <= Most * Peak
      BY DEF RInv, RelationsCounted
    <3> QED
      BY <1>a, <1>3, <1>4, <3>2, <3>3, RoomKept
  <2> QED
    BY <2>1, <2>2
<1>7. ASSUME NEW q \in Replacing(i)'
      PROVE  (related[i] - req'[q].locked) + Most * Cardinality(Adding(i)' \cup {q})
                <= Most * Peak'
  <2>1. CASE q = r
    <3>1. related[i] - req'[q].locked = 0
      BY <1>2, <1>3, <2>1
    <3>2. Cardinality(Adding(i)' \cup {r}) \in Nat
      BY <1>4, SubsetOfRequests
    <3>3. Most * Cardinality(Adding(i)' \cup {r}) \in Nat
      BY <3>2, MostTimes
    <3> QED
      BY <1>5, <2>1, <3>1, <3>3
  <2>2. CASE q # r
    <3>1. q \in Request /\ req'[q] = req[q] /\ req[q].item = i
      BY <1>2, <2>2 DEF Replacing
    <3>2. req'[q].locked = 0
      BY <1>1, <3>1
    <3>3. Adding(i)' \cup {q} = Adding(i)'
      BY <1>7, <3>2 DEF Adding
    <3>4. related[i] - req'[q].locked = related[i]
      BY <1>3, <3>2
    <3> QED
      BY <1>6, <3>3, <3>4
  <2> QED
    BY <2>1, <2>2
<1>8. ASSUME NEW j \in Item, j # i
      PROVE  /\ related'[j] + Most * Cardinality(Adding(j)') <= Most * Peak'
             /\ \A q \in Replacing(j)' :
                   (related'[j] - req'[q].locked) + Most * Cardinality(Adding(j)' \cup {q})
                      <= Most * Peak'
  <2>1. \A q \in Request : q \in Replacing(j)' =>
           q \in Replacing(j) /\ req'[q].locked = req[q].locked
    BY <1>2, <1>8 DEF Replacing
  <2> QED
    BY <1>1, <2>1, RoomOfItem
<1>9. related'[i] = related[i]
  BY <1>1
<1> QED
  BY <1>6, <1>7, <1>8, <1>9 DEF RelationsCounted

\* A replacement ends: its own rows are gone, and it adds at most Most.
LEMMA RoomOfInsert ==
  ASSUME RInv, Next, NEW r \in Request, InsertRelations(r)
  PROVE  RelationsCounted'
<1>p. req[r].item \in Item
  BY DEF InsertRelations, RInv, SInv, TInv, RequestsShaped, Shaped
<1>q. PICK i \in Item : i = req[r].item
  BY <1>p
<1> DEFINE A == Adding(i)'
<1>a. /\ req \in [Request -> RequestState] /\ related \in [Item -> Nat]
      /\ req[r] \in RequestState /\ SInv
  BY DEF RInv, SInv, TInv, TypeOK
<1>1. /\ req[r].pc = "inserting" /\ Done(r, "relations")
      /\ req[r].locked <= related[i]
  BY <1>q DEF InsertRelations, RInv, SInv, TInv, RequestsShaped, Shaped
<1>2. PICK n \in 0 .. ApiTargets :
         /\ ByApi(r) \/ n <= 1
         /\ related' = [related EXCEPT ![i] = @ - req[r].locked + n]
  BY <1>q DEF InsertRelations
<1>3. n \in Nat /\ n <= Most
  BY <1>2, ContentAssumption, MostTimes
<1>4. /\ \A q \in Request \ {r} : req'[q] = req[q]
      /\ req'[r].pc # "inserting"
  <2>1. After(r).relations \in {"title", "idle"}
    BY Orders
  <2> QED
    BY <1>a, <1>1, <2>1 DEF Done, Idle
<1>5. /\ related[i] \in Nat /\ \A q \in Request : req[q].locked \in Nat
      /\ related'[i] = (related[i] - req[r].locked) + n
      /\ \A j \in Item : j # i => related'[j] = related[j]
  BY <1>a, <1>2, <1>3 DEF RequestState
<1>6. /\ A \in SUBSET Request /\ r \notin A /\ A = Adding(i) \ {r}
      /\ r \in Replacing(i)
  BY <1>1, <1>4, <1>q DEF Adding, Replacing
<1>7. related'[i] + Most * Cardinality(A) <= Most * Peak'
  <2>1. (related[i] - req[r].locked) + Most * Cardinality(Adding(i) \cup {r})
           <= Most * Peak
    BY <1>1, <1>6 DEF RInv, RelationsCounted
  <2>2. Adding(i) \cup {r} = A \cup {r}
    BY <1>6
  <2>3. A \cup {r} \in SUBSET Request /\ A \cup {r} \in SUBSET (Adding(i) \cup {r})
    BY <1>6
  <2>4. related[i] - req[r].locked \in Int
    BY <1>5
  <2>5. (related[i] - req[r].locked) + Most * Cardinality(A \cup {r}) <= Most * Peak'
    BY <1>a, <2>1, <2>2, <2>3, <2>4, RoomKept
  <2>6. Cardinality(A \cup {r}) = Cardinality(A) + 1 /\ Cardinality(A) \in Nat
    BY <1>6, OneMore, SubsetOfRequests
  <2>7. Most * Cardinality(A \cup {r}) = Most * Cardinality(A) + Most
    BY <2>6, MostTimes
  <2>8. Most * Cardinality(A) \in Nat /\ Most \in Nat /\ Most * Peak' \in Nat
    BY <1>a, <2>6, MostTimes, PeakBound
  <2> HIDE DEF A
  <2> QED
    BY <1>3, <1>5, <2>4, <2>5, <2>7, <2>8
<1>8. ASSUME NEW q \in Replacing(i)'
      PROVE  (related'[i] - req'[q].locked) + Most * Cardinality(A \cup {q})
                <= Most * Peak'
  <2>1. q \in Request \ {r} /\ req'[q] = req[q] /\ req[q].item = i
    BY <1>4 DEF Replacing
  <2>2. CASE req[q].locked = 0
    <3>1. A \cup {q} = A
      BY <1>8, <2>1, <2>2 DEF Adding
    <3>2. related'[i] - req'[q].locked = related'[i]
      BY <1>3, <1>5, <2>1, <2>2
    <3> QED
      BY <1>7, <3>1, <3>2
  <2>3. CASE req[q].locked # 0
    <3>1. req[r].locked = 0
      BY <1>q, <2>1, <2>3 DEF RInv, SInv, TInv, LocksExclusive
    <3>2. r \in Adding(i)
      BY <1>6, <3>1 DEF Adding
    <3>3. q \in Replacing(i)
      BY <1>8, <2>1 DEF Replacing
    <3>4. (related[i] - req[q].locked) + Most * Cardinality(Adding(i) \cup {q})
             <= Most * Peak
      BY <1>1, <3>3 DEF RInv, RelationsCounted
    <3>5. /\ Adding(i) \cup {q} = (A \cup {q}) \cup {r} /\ r \notin A \cup {q}
          /\ A \cup {q} \in SUBSET Request
          /\ (A \cup {q}) \cup {r} \in SUBSET Request
          /\ (A \cup {q}) \cup {r} \in SUBSET (Adding(i) \cup {q})
      BY <1>6, <2>1, <3>2
    <3>6. related[i] - req[q].locked \in Int
      BY <1>5, <2>1
    <3>7. Adding(i) \cup {q} \in SUBSET Request
      BY <3>5
    <3>8. (related[i] - req[q].locked) + Most * Cardinality((A \cup {q}) \cup {r})
             <= Most * Peak'
      BY <1>a, <3>4, <3>5, <3>6, <3>7, RoomKept
    <3>9. /\ Cardinality((A \cup {q}) \cup {r}) = Cardinality(A \cup {q}) + 1
          /\ Cardinality(A \cup {q}) \in Nat
      BY <3>5, OneMore, SubsetOfRequests
    <3>10. /\ Most * Cardinality((A \cup {q}) \cup {r})
                 = Most * Cardinality(A \cup {q}) + Most
           /\ Most * Cardinality(A \cup {q}) \in Nat /\ Most \in Nat
           /\ Most * Peak' \in Nat
      BY <1>a, <3>9, MostTimes, PeakBound
    <3>11. related'[i] - req'[q].locked = (related[i] - req[q].locked) + n
      BY <1>3, <1>5, <2>1, <3>1
    <3> HIDE DEF A
    <3> QED
      BY <1>3, <3>6, <3>8, <3>10, <3>11
  <2> QED
    BY <2>2, <2>3
<1>9. ASSUME NEW j \in Item, j # i
      PROVE  /\ related'[j] + Most * Cardinality(Adding(j)') <= Most * Peak'
             /\ \A q \in Replacing(j)' :
                   (related'[j] - req'[q].locked) + Most * Cardinality(Adding(j)' \cup {q})
                      <= Most * Peak'
  <2>1. \A q \in Request : q \in Replacing(j)' =>
           q \in Replacing(j) /\ req'[q].locked = req[q].locked
    BY <1>4 DEF Replacing
  <2> QED
    BY <1>5, <1>9, <2>1, RoomOfItem
<1>10. \A j \in Item : j = i \/ j # i
  OBVIOUS
<1> QED
  BY <1>7, <1>8, <1>9, <1>10 DEF RelationsCounted

\* Any other step leaves the rows, and begins no replacement.
LEMMA RoomOfOther ==
  ASSUME RInv, Next, NEW r \in Request, related' = related,
         \A q \in Request \ {r} : req'[q] = req[q], req'[r].pc # "inserting"
  PROVE  RelationsCounted'
<1>1. ASSUME NEW j \in Item
      PROVE  /\ related'[j] + Most * Cardinality(Adding(j)') <= Most * Peak'
             /\ \A q \in Replacing(j)' :
                   (related'[j] - req'[q].locked) + Most * Cardinality(Adding(j)' \cup {q})
                      <= Most * Peak'
  <2>1. \A q \in Request : q \in Replacing(j)' =>
           q \in Replacing(j) /\ req'[q].locked = req[q].locked
    BY DEF Replacing
  <2> QED
    BY <2>1, RoomOfItem
<1> QED
  BY <1>1 DEF RelationsCounted


LEMMA RelationsOfStep ==
  ASSUME RInv, Next, NEW r \in Request, Step(r)
  PROVE  RelationsCounted'
<1>a. req \in [Request -> RequestState] /\ SInv
  BY DEF RInv, SInv, TInv, TypeOK
<1>b. ASSUME NEW step \in {"item", "title", "values", "relations"}, Done(r, step),
             related' = related
      PROVE  RelationsCounted'
  <2>1. After(r)[step] # "inserting"
    BY Orders
  <2>2. /\ \A q \in Request \ {r} : req'[q] = req[q]
        /\ req'[r].pc # "inserting"
    BY <1>a, <1>b, <2>1 DEF Done, Idle
  <2> QED
    BY <1>b, <2>2, RoomOfOther
<1>c. ASSUME NEW t, req' = [req EXCEPT ![r] = t], related' = related, t.pc # "inserting"
      PROVE  RelationsCounted'
  <2>1. req'[r] = t /\ \A q \in Request \ {r} : req'[q] = req[q]
    BY <1>a, <1>c
  <2> QED
    BY <1>c, <2>1, RoomOfOther
<1>1. CASE Create(r)
  BY <1>1, <1>c, CandidateTypes DEF Create, Begin
<1>2. CASE AdminUpdate(r)
  BY <1>2, <1>c, CandidateTypes DEF AdminUpdate, Begin
<1>3. CASE ApiUpdate(r)
  BY <1>3, <1>c, CandidateTypes DEF ApiUpdate, Begin
<1>4. CASE CheckSlug(r)
  <2>1. /\ req'[r].pc \in {"slug", "item"} /\ related' = related
        /\ \A q \in Request \ {r} : req'[q] = req[q]
    BY <1>4, <1>a DEF CheckSlug, RequestState
  <2>2. req'[r].pc # "inserting"
    BY <2>1
  <2> QED
    BY <2>1, <2>2, RoomOfOther
<1>5. CASE InsertItem(r)
  <2>1. After(r).item # "inserting"
    BY Orders
  <2> QED
    BY <1>5, <1>c, <2>1 DEF InsertItem
<1>6. CASE UpdateItem(r)
  BY <1>6, <1>b DEF UpdateItem
<1>7. CASE SaveTitle(r)
  BY <1>7, <1>b DEF SaveTitle
<1>8. CASE SaveValues(r)
  BY <1>8, <1>b DEF SaveValues
<1>9. CASE DeleteRelations(r)
  BY <1>9, RoomOfDelete
<1>10. CASE InsertRelations(r)
  BY <1>10, RoomOfInsert
<1>11. CASE KeepRelations(r)
  BY <1>11, <1>b DEF KeepRelations
<1>12. CASE Abort(r)
  <2>1. req' = [req EXCEPT ![r] = Idle] /\ related' = related /\ Idle.pc # "inserting"
    BY <1>12 DEF Abort, Idle
  <2> QED
    BY <1>c, <2>1
<1> QED
  BY <1>1, <1>2, <1>3, <1>4, <1>5, <1>6, <1>7, <1>8, <1>9, <1>10, <1>11, <1>12 DEF Step

LEMMA RelationsInit == Init => RInv
<1> SUFFICES ASSUME Init PROVE RInv
  OBVIOUS
<1>1. \A i \in Item : related[i] = 0 /\ Replacing(i) = {} /\ Adding(i) = {}
  BY DEF Init, Idle, Replacing, Adding
<1>2. Cardinality({}) = 0
  BY FS_EmptySet
<1>3. Most * 0 = 0 /\ Most * Peak \in Nat
  <2>1. Peak \in Nat
    BY DEF Init, Peak, Larger
  <2> QED
    BY <2>1, MostTimes
<1>4. RelationsCounted
  <2>1. ASSUME NEW i \in Item
        PROVE  related[i] + Most * Cardinality(Adding(i)) <= Most * Peak
    <3>1. related[i] = 0 /\ Cardinality(Adding(i)) = 0
      BY <1>1, <1>2
    <3>2. Most * Cardinality(Adding(i)) = 0
      BY <1>3, <3>1
    <3> QED
      BY <1>3, <3>1, <3>2
  <2> QED
    BY <1>1, <2>1 DEF RelationsCounted
<1> QED
  BY <1>4, SlugInit DEF RInv

LEMMA RelationsNext == RInv /\ [Next]_vars => RInv'
<1> SUFFICES ASSUME RInv, [Next]_vars PROVE RInv'
  OBVIOUS
<1>1. SInv'
  BY SlugNext DEF RInv
<1>2. CASE UNCHANGED vars
  <2>1. RelationsCounted'
    BY <1>2 DEF vars, RInv, RelationsCounted, Adding, Replacing, Peak
  <2> QED
    BY <1>1, <2>1 DEF RInv
<1>3. ASSUME Next, NEW r \in Request, Step(r) PROVE RInv'
  BY <1>1, <1>3, RelationsOfStep DEF RInv
<1>4. ASSUME Next, NEW i \in Item, DeleteItem(i) PROVE RInv'
  <2>1. related' = related /\ req' = req
    BY <1>4 DEF DeleteItem
  <2>2. ASSUME NEW j \in Item
        PROVE  /\ related'[j] + Most * Cardinality(Adding(j)') <= Most * Peak'
               /\ \A q \in Replacing(j)' :
                     (related'[j] - req'[q].locked) + Most * Cardinality(Adding(j)' \cup {q})
                        <= Most * Peak'
    <3>1. \A q \in Request : q \in Replacing(j)' =>
             q \in Replacing(j) /\ req'[q].locked = req[q].locked
      BY <2>1 DEF Replacing
    <3> QED
      BY <1>4, <2>1, <3>1, RoomOfItem
  <2> QED
    BY <1>1, <2>2 DEF RInv, RelationsCounted
<1> QED
  BY <1>2, <1>3, <1>4, NextSteps

\* SaveRelationsAsync and ReplaceRelationsAsync: for any number of items, requests and
\* targets, an item has the targets of as many requests as have overlapped, at most.
THEOREM RelationsWithinOverlap == Spec => []RelationsBounded
<1>1. RInv => RelationsBounded
  <2> SUFFICES ASSUME RInv, NEW i \in Item
               PROVE  related[i] <= Most * Peak
    BY DEF RelationsBounded, Most, Peak
  <2>1. related[i] \in Nat /\ peak \in Nat
    BY DEF RInv, SInv, TInv, TypeOK
  <2>2. Cardinality(Adding(i)) \in Nat
    BY SubsetOfRequests DEF Adding, Replacing
  <2>3. Most * Cardinality(Adding(i)) \in Nat
    BY <2>2, MostTimes
  <2>4. related[i] + Most * Cardinality(Adding(i)) <= Most * Peak
    BY DEF RInv, RelationsCounted
  <2>5. Most * Peak \in Nat
    BY <2>1, MostTimes DEF Peak, Larger
  <2> QED
    BY <2>1, <2>3, <2>4, <2>5
<1> QED
  BY <1>1, RelationsInit, RelationsNext, PTL DEF Spec

-----------------------------------------------------------------------------
(* Requests one after the other *)

\* A row not yet given out is blank, and no request works on it.
Blank ==
    /\ \A i \in Item : item[i].state = "none" => title[i] = "none" /\ ~item[i].stamped
    /\ \A r \in Request : req[r].item \in Item => item[req[r].item].state # "none"

\* Only PUT may have a body without a status, and POST has no item until it inserts one.
BodiesShaped ==
    \A r \in Request :
       /\ ~req[r].asked => req[r].by = "put"
       /\ req[r].by = "post" /\ req[r].pc \in {"slug", "item"} => req[r].item \notin Item

\* What a save has read first, and is going to write back, is what the row still says.
ReadStands(r) ==
    req[r].pc \in {"slug", "item"} /\ req[r].item \in Item =>
       /\ ~req[r].asked => (req[r].publish <=> item[req[r].item].published)
       /\ req[r].by = "admin" => (req[r].stamped <=> item[req[r].item].stamped)

\* An item that POST has inserted has no title before its values.
TitleLast(r) == req[r].by = "post" /\ req[r].pc = "values" => title[req[r].item] = "none"

InSeries == peak <= 1 => \A r \in Request : ReadStands(r) /\ TitleLast(r)

QInv == Blank /\ BodiesShaped /\ InSeries

\* A step of r in series: nobody else is under way.
LEMMA OthersIdle ==
  ASSUME SInv, Next, peak' <= 1, NEW r \in Request, Under(r) \/ Under(r)'
  PROVE  /\ peak <= 1
         /\ \A q \in Request \ {r} : req'[q] = req[q] => req[q].pc = "idle"
<1>1. peak \in Nat /\ peak' \in Nat /\ peak <= peak'
  BY PeakGrows DEF SInv, TInv, TypeOK
<1>2. Cardinality(Active) <= peak /\ Cardinality(Active') <= peak'
  BY PeakCounted DEF PeakCounts, SInv
<1>3. ASSUME NEW S \in SUBSET Request, NEW q \in S, r \in S, q # r, Cardinality(S) <= 1
      PROVE  FALSE
  <2>1. /\ {q} \in SUBSET Request /\ r \notin {q} /\ {q} \cup {r} \in SUBSET S
        /\ Cardinality({q}) = 1
    BY <1>3, FS_Singleton
  <2>2. Cardinality({q} \cup {r}) = 2
    BY <2>1, OneMore
  <2>3. Cardinality({q} \cup {r}) <= Cardinality(S) /\ Cardinality(S) \in Nat
    BY <2>1, SubsetOfRequests, SubsetCount
  <2> QED
    BY <1>3, <2>2, <2>3
<1>4. /\ Active \in SUBSET Request /\ Active' \in SUBSET Request
      /\ Cardinality(Active) \in Nat /\ Cardinality(Active') \in Nat
      /\ Cardinality(Active) <= 1 /\ Cardinality(Active') <= 1
  BY <1>1, <1>2, ActiveFinite DEF Active
<1>5. ASSUME NEW q \in Request \ {r}, req'[q] = req[q], req[q].pc # "idle"
      PROVE  FALSE
  <2>1. (q \in Active /\ r \in Active) \/ (q \in Active' /\ r \in Active')
    BY <1>5 DEF Active, Under
  <2> QED
    BY <1>3, <1>4, <1>5, <2>1
<1> QED
  BY <1>1, <1>5

\* What has to be looked at after a step of request r.
LEMMA SeriesOfStep ==
  ASSUME SInv, QInv, Next, NEW r \in Request, Under(r) \/ Under(r)',
         \A q \in Request \ {r} : req'[q] = req[q],
         \A i \in Item : item[i].state # "none" => item'[i].state # "none",
         \A i \in Item : item'[i].state = "none" => title'[i] = "none" /\ ~item'[i].stamped,
         req'[r].item \in Item => item'[req'[r].item].state # "none",
         ~req'[r].asked => req'[r].by = "put",
         req'[r].by = "post" /\ req'[r].pc \in {"slug", "item"} => req'[r].item \notin Item,
         peak <= 1 => ReadStands(r)' /\ TitleLast(r)'
  PROVE  QInv'
<1>1. Blank'
  BY DEF Blank, QInv
<1>2. BodiesShaped'
  BY DEF BodiesShaped, QInv
<1>3. InSeries'
  <2> SUFFICES ASSUME peak' <= 1, NEW q \in Request PROVE (ReadStands(q) /\ TitleLast(q))'
    BY DEF InSeries
  <2>1. CASE q = r
    BY <2>1, OthersIdle
  <2>2. CASE q # r
    <3>1. req'[q].pc = "idle"
      BY <2>2, OthersIdle
    <3> QED
      BY <3>1 DEF ReadStands, TitleLast
  <2> QED
    BY <2>1, <2>2
<1> QED
  BY <1>1, <1>2, <1>3 DEF QInv

\* Where a request is after a step that Done ends.
LEMMA DoneGoes ==
  ASSUME TInv, NEW r \in Request, NEW step \in {"item", "title", "values", "relations"},
         Done(r, step)
  PROVE  /\ \A q \in Request \ {r} : req'[q] = req[q]
         /\ req'[r].pc \in {"idle", "title", "values", "relations"}
         /\ req'[r].item \in {req[r].item, NoItem}
         /\ req'[r].asked = TRUE
         /\ req'[r].by = "post" /\ req'[r].pc = "values" =>
               req[r].by = "post" /\ step = "item"
<1> DEFINE s == [pc |-> After(r)[step], by |-> req[r].by, item |-> req[r].item,
                 slugs |-> <<>>, asked |-> TRUE, publish |-> req[r].publish,
                 stamped |-> FALSE, locked |-> 0]
<1>1. req \in [Request -> RequestState]
  BY DEF TInv, TypeOK
<1>2. After(r)[step] \in {"idle", "title", "values", "relations"}
  BY Orders
<1>3. \/ req' = [req EXCEPT ![r] = Idle]
      \/ req' = [req EXCEPT ![r] = s]
  BY DEF Done
<1>4. /\ \A q \in Request \ {r} : req'[q] = req[q]
      /\ req'[r] = Idle \/ req'[r] = s
  BY <1>1, <1>3
<1>5. CASE req'[r] = Idle
  BY <1>4, <1>5 DEF Idle
<1>6. CASE req'[r] = s
  <2>1. req[r].by = "post" /\ After(r)[step] = "values" => step = "item"
    BY DEF After, AfterApi, ByApi
  <2> QED
    BY <1>2, <1>4, <1>6, <2>1
<1> QED
  BY <1>4, <1>5, <1>6

LEMMA SeriesOfDone ==
  ASSUME SInv, QInv, Next, NEW r \in Request, Under(r),
         NEW step \in {"item", "title", "values", "relations"}, Done(r, step),
         step = "item" => req[r].by # "post",
         \A i \in Item : item[i].state # "none" => item'[i].state # "none",
         \A i \in Item : item'[i].state = "none" => title'[i] = "none" /\ ~item'[i].stamped
  PROVE  QInv'
<1>1. /\ \A q \in Request \ {r} : req'[q] = req[q]
      /\ req'[r].pc \in {"idle", "title", "values", "relations"}
      /\ req'[r].item \in {req[r].item, NoItem}
      /\ req'[r].asked = TRUE
      /\ ~(req'[r].by = "post" /\ req'[r].pc = "values")
  BY DoneGoes DEF SInv
<1>2. req'[r].item \in Item => item'[req'[r].item].state # "none"
  BY <1>1, ContentAssumption DEF QInv, Blank
<1>3. ReadStands(r)' /\ TitleLast(r)'
  BY <1>1 DEF ReadStands, TitleLast
<1> QED
  BY <1>1, <1>2, <1>3, SeriesOfStep

\* A save begins.
LEMMA SeriesOfBegin ==
  ASSUME SInv, QInv, Next, NEW r \in Request, NEW s, Begin(r, s),
         s.pc \in {"slug", "item"},
         s.item \in Item => item[s.item].state # "none",
         ~s.asked => s.by = "put",
         s.by = "post" => s.item \notin Item,
         s.item \in Item /\ ~s.asked => (s.publish <=> item[s.item].published),
         s.item \in Item /\ s.by = "admin" => (s.stamped <=> item[s.item].stamped)
  PROVE  QInv'
<1>1. /\ req'[r] = s /\ \A q \in Request \ {r} : req'[q] = req[q]
      /\ item' = item /\ title' = title
  BY DEF Begin, SInv, TInv, TypeOK
<1>2. Under(r)'
  BY <1>1 DEF Under
<1>3. ReadStands(r)' /\ TitleLast(r)'
  BY <1>1 DEF ReadStands, TitleLast
<1>4. \A i \in Item : item'[i].state = "none" => title'[i] = "none" /\ ~item'[i].stamped
  BY <1>1 DEF QInv, Blank
<1> QED
  BY <1>1, <1>2, <1>3, <1>4, SeriesOfStep

LEMMA SeriesOfRequest ==
  ASSUME SInv, QInv, Next, NEW r \in Request, Step(r)
  PROVE  QInv'
<1>a. /\ req \in [Request -> RequestState] /\ item \in [Item -> Row]
      /\ title \in [Item -> {"none", "inactive", "active"}]
      /\ req[r] \in RequestState /\ Shaped(req[r], related) /\ TInv
  BY DEF SInv, TInv, TypeOK, RequestsShaped
<1>b. \A i \in Item : item[i].state = "none" => title[i] = "none" /\ ~item[i].stamped
  BY DEF QInv, Blank
<1>c. req[r].item \in Item => item[req[r].item].state # "none"
  BY DEF QInv, Blank
<1>d. /\ ~req[r].asked => req[r].by = "put"
      /\ req[r].by = "post" /\ req[r].pc \in {"slug", "item"} => req[r].item \notin Item
  BY DEF QInv, BodiesShaped
<1>1. CASE Create(r)
  <2>1. PICK slugs \in Candidates, by \in {"admin", "post"} :
           Begin(r, [pc |-> SlugStep(slugs), by |-> by, item |-> NoItem, slugs |-> slugs,
                     asked |-> TRUE, publish |-> FALSE, stamped |-> FALSE, locked |-> 0])
    BY <1>1 DEF Create
  <2> DEFINE s == [pc |-> SlugStep(slugs), by |-> by, item |-> NoItem, slugs |-> slugs,
                   asked |-> TRUE, publish |-> FALSE, stamped |-> FALSE, locked |-> 0]
  <2>2. s.pc \in {"slug", "item"} /\ s.item \notin Item /\ s.asked
    BY CandidateTypes, ContentAssumption
  <2>3. Begin(r, s)
    BY <2>1
  <2> HIDE DEF s
  <2> QED
    BY <2>2, <2>3, SeriesOfBegin
<1>2. CASE AdminUpdate(r)
  <2>1. PICK i \in Item, slugs \in Candidates :
           /\ Live(i)
           /\ Begin(r, [pc |-> SlugStep(slugs), by |-> "admin", item |-> i, slugs |-> slugs,
                        asked |-> TRUE, publish |-> FALSE, stamped |-> item[i].stamped,
                        locked |-> 0])
    BY <1>2 DEF AdminUpdate
  <2> DEFINE s == [pc |-> SlugStep(slugs), by |-> "admin", item |-> i, slugs |-> slugs,
                   asked |-> TRUE, publish |-> FALSE, stamped |-> item[i].stamped,
                   locked |-> 0]
  <2>2. /\ s.pc \in {"slug", "item"} /\ item[s.item].state # "none" /\ s.asked
        /\ s.by = "admin" /\ s.stamped = item[s.item].stamped
    BY <2>1, CandidateTypes DEF Live
  <2>3. Begin(r, s)
    BY <2>1
  <2> HIDE DEF s
  <2> QED
    BY <2>2, <2>3, SeriesOfBegin
<1>3. CASE ApiUpdate(r)
  <2>1. PICK i \in Item, asked \in BOOLEAN, publish \in BOOLEAN :
           /\ Live(i) /\ (asked \/ publish = item[i].published)
           /\ \/ \E slugs \in Candidates :
                    Begin(r, [pc |-> SlugStep(slugs), by |-> "put", item |-> i, slugs |-> slugs,
                              asked |-> asked, publish |-> publish, stamped |-> FALSE,
                              locked |-> 0])
              \/ Begin(r, [pc |-> "item", by |-> "put", item |-> i,
                           slugs |-> <<item[i].slug>>, asked |-> asked, publish |-> publish,
                           stamped |-> FALSE, locked |-> 0])
    BY <1>3 DEF ApiUpdate
  <2>2. item[i].slug \in AnySlug
    BY <1>a DEF Row, AnySlug
  <2>3. <<item[i].slug>> \in Seq(AnySlug)
    BY <2>2
  <2>4. PICK slugs \in Seq(AnySlug), step \in {"slug", "item"} :
           Begin(r, [pc |-> step, by |-> "put", item |-> i, slugs |-> slugs,
                     asked |-> asked, publish |-> publish, stamped |-> FALSE, locked |-> 0])
    BY <2>1, <2>3, CandidateTypes
  <2> DEFINE s == [pc |-> step, by |-> "put", item |-> i, slugs |-> slugs, asked |-> asked,
                   publish |-> publish, stamped |-> FALSE, locked |-> 0]
  <2>5. /\ s.pc \in {"slug", "item"} /\ item[s.item].state # "none" /\ s.by = "put"
        /\ s.asked \/ s.publish = item[s.item].published
    BY <2>1 DEF Live
  <2>6. Begin(r, s)
    BY <2>4
  <2> HIDE DEF s
  <2> QED
    BY <2>5, <2>6, SeriesOfBegin
<1>4. CASE CheckSlug(r)
  <2>1. /\ req[r].pc = "slug" /\ item' = item /\ title' = title
        /\ \/ req' = [req EXCEPT ![r].pc = "item"]
           \/ req' = [req EXCEPT ![r].slugs = Tail(req[r].slugs)]
    BY <1>4 DEF CheckSlug
  <2>2. /\ \A q \in Request \ {r} : req'[q] = req[q]
        /\ \/ req'[r] = [req[r] EXCEPT !.pc = "item"]
           \/ req'[r] = [req[r] EXCEPT !.slugs = Tail(req[r].slugs)]
    BY <1>a, <2>1
  <2>3. /\ req'[r].pc \in {"slug", "item"} /\ req'[r].item = req[r].item
        /\ req'[r].by = req[r].by /\ req'[r].asked = req[r].asked
        /\ req'[r].publish = req[r].publish /\ req'[r].stamped = req[r].stamped
    BY <1>a, <2>1, <2>2 DEF RequestState
  <2>4. ASSUME peak <= 1 PROVE ReadStands(r)' /\ TitleLast(r)'
    <3>1. ReadStands(r)
      BY <2>4 DEF QInv, InSeries
    <3> QED
      BY <2>1, <2>3, <3>1 DEF ReadStands, TitleLast
  <2>5. Under(r)
    BY <2>1 DEF Under
  <2> QED
    BY <1>b, <1>c, <1>d, <2>1, <2>2, <2>3, <2>4, <2>5, SeriesOfStep
<1>5. CASE InsertItem(r)
  <2>1. PICK i \in Item, publish \in BOOLEAN :
           /\ item[i].state = "none"
           /\ item' = [item EXCEPT ![i] = [state |-> "live", slug |-> Head(req[r].slugs),
                                           published |-> publish,
                                           stamped |-> (publish /\ ByApi(r))]]
           /\ req' = [req EXCEPT ![r] =
                        [pc |-> After(r).item, by |-> req[r].by, item |-> i,
                         slugs |-> <<>>, asked |-> TRUE,
                         publish |-> (publish /\ ByApi(r)), stamped |-> FALSE, locked |-> 0]]
    BY <1>5 DEF InsertItem
  <2>2. /\ item'[i].state = "live" /\ \A j \in Item : j # i => item'[j] = item[j]
        /\ req'[r].pc \in {"title", "values"} /\ req'[r].item = i /\ req'[r].asked = TRUE
        /\ \A q \in Request \ {r} : req'[q] = req[q]
    BY <1>a, <2>1, Orders
  <2>3. title' = title /\ title[i] = "none" /\ Under(r)
    BY <1>5, <1>b, <2>1 DEF InsertItem, Under
  <2>4. ReadStands(r)' /\ TitleLast(r)'
    BY <2>2, <2>3 DEF ReadStands, TitleLast
  <2>5. /\ \A j \in Item : item[j].state # "none" => item'[j].state # "none"
        /\ \A j \in Item : item'[j].state = "none" => title'[j] = "none" /\ ~item'[j].stamped
    BY <1>b, <2>2, <2>3
  <2> QED
    BY <2>2, <2>3, <2>4, <2>5, SeriesOfStep
<1>6. CASE UpdateItem(r)
  <2>1. /\ req[r].pc = "item" /\ req[r].item # NoItem /\ Done(r, "item") /\ title' = title
    BY <1>6 DEF UpdateItem
  <2>2. req[r].item \in Item
    BY <1>a, <2>1 DEF RequestState
  <2>3. \A j \in Item : \/ item'[j] = item[j]
                        \/ item[j].state = "live" /\ item'[j].state = "live"
    <3>1. \/ item' = item
          \/ \E row : /\ Live(req[r].item) /\ row.state = "live"
                      /\ item' = [item EXCEPT ![req[r].item] = row]
      BY <1>6 DEF UpdateItem
    <3> QED
      BY <1>a, <2>2, <3>1 DEF Live
  <2>4. /\ \A j \in Item : item[j].state # "none" => item'[j].state # "none"
        /\ \A j \in Item : item'[j].state = "none" => title'[j] = "none" /\ ~item'[j].stamped
    BY <1>b, <2>1, <2>3
  <2>5. Under(r) /\ req[r].by # "post"
    BY <1>d, <2>1, <2>2 DEF Under
  <2> QED
    BY <2>1, <2>4, <2>5, SeriesOfDone
<1>7. CASE SaveTitle(r)
  <2>1. /\ req[r].pc = "title" /\ Done(r, "title") /\ item' = item
        /\ \E t : title' = [title EXCEPT ![req[r].item] = t]
           \/ title' = title
    BY <1>7 DEF SaveTitle
  <2>2. req[r].item \in Item
    BY <1>a, <2>1 DEF Shaped
  <2>3. \A j \in Item : item'[j].state = "none" => title'[j] = "none" /\ ~item'[j].stamped
    BY <1>a, <1>b, <1>c, <2>1, <2>2
  <2>4. Under(r)
    BY <2>1 DEF Under
  <2> QED
    BY <2>1, <2>3, <2>4, SeriesOfDone
<1>8. CASE SaveValues(r) \/ KeepRelations(r) \/ InsertRelations(r)
  <2>1. /\ req[r].pc # "idle" /\ item' = item /\ title' = title
        /\ Done(r, "values") \/ Done(r, "relations")
    BY <1>8 DEF SaveValues, KeepRelations, InsertRelations
  <2>2. Under(r)
    BY <2>1 DEF Under
  <2> QED
    BY <1>b, <2>1, <2>2, SeriesOfDone
<1>9. CASE DeleteRelations(r)
  <2>1. /\ req[r].pc = "relations" /\ item' = item /\ title' = title
        /\ Inserting(r, related[req[r].item])
    BY <1>9 DEF DeleteRelations
  <2>2. /\ req'[r].pc = "inserting" /\ req'[r].item = req[r].item /\ req'[r].asked = TRUE
        /\ \A q \in Request \ {r} : req'[q] = req[q]
    BY <1>a, <2>1 DEF Inserting
  <2>3. ReadStands(r)' /\ TitleLast(r)' /\ Under(r)
    BY <2>1, <2>2 DEF ReadStands, TitleLast, Under
  <2> QED
    BY <1>b, <1>c, <2>1, <2>2, <2>3, SeriesOfStep
<1>10. CASE Abort(r)
  <2>1. Under(r) /\ req' = [req EXCEPT ![r] = Idle] /\ item' = item /\ title' = title
    BY <1>10 DEF Abort
  <2>2. /\ req'[r].pc = "idle" /\ req'[r].item \notin Item /\ req'[r].asked = TRUE
        /\ \A q \in Request \ {r} : req'[q] = req[q]
    BY <1>a, <2>1, ContentAssumption DEF Idle
  <2>3. ReadStands(r)' /\ TitleLast(r)'
    BY <2>2 DEF ReadStands, TitleLast
  <2> QED
    BY <1>b, <2>1, <2>2, <2>3, SeriesOfStep
<1> QED
  BY <1>1, <1>2, <1>3, <1>4, <1>5, <1>6, <1>7, <1>8, <1>9, <1>10 DEF Step

\* In series, a deletion finds no save under way.
LEMMA DeletionAlone ==
  ASSUME SInv, Next, NEW i \in Item, DeleteItem(i), peak' <= 1
  PROVE  \A r \in Request : req[r].pc = "idle"
<1>1. peak \in Nat /\ Cardinality(Active) \in Nat
  BY ActiveFinite DEF SInv, TInv, TypeOK
<1>2. Cardinality(Active) + 1 <= 1
  BY <1>1 DEF DeleteItem, Larger
<1>3. Cardinality(Active) = 0 /\ IsFiniteSet(Active)
  BY <1>1, <1>2, ActiveFinite
<1>4. Active = {}
  BY <1>3, FS_EmptySet
<1> QED
  BY <1>4 DEF Active, Under

LEMMA SeriesInit == Init => QInv
<1>1. Init => \A i \in Item : item[i].state = "none" /\ title[i] = "none" /\ ~item[i].stamped
  BY DEF Init
<1>2. Init => \A r \in Request : /\ req[r].pc = "idle" /\ req[r].item \notin Item
                                 /\ req[r].asked /\ req[r].by = "admin"
  BY ContentAssumption DEF Init, Idle
<1> QED
  BY <1>1, <1>2 DEF QInv, Blank, BodiesShaped, InSeries, ReadStands, TitleLast

LEMMA SeriesNext == SInv /\ QInv /\ [Next]_vars => QInv'
<1> SUFFICES ASSUME SInv, QInv, [Next]_vars PROVE QInv'
  OBVIOUS
<1>1. CASE UNCHANGED vars
  BY <1>1 DEF vars, QInv, Blank, BodiesShaped, InSeries, ReadStands, TitleLast
<1>2. ASSUME Next, NEW r \in Request, Step(r) PROVE QInv'
  BY <1>2, SeriesOfRequest
<1>3. ASSUME Next, NEW i \in Item, DeleteItem(i) PROVE QInv'
  <2>1. /\ req' = req /\ title' = title
        /\ item[i].state = "live"
        /\ item' = [item EXCEPT ![i] = [state |-> "deleted", slug |-> item[i].slug,
                                        published |-> item[i].published,
                                        stamped |-> item[i].stamped]]
    BY <1>3 DEF DeleteItem, Live
  <2>2. item'[i].state = "deleted" /\ \A j \in Item : j # i => item'[j] = item[j]
    BY <2>1 DEF SInv, TInv, TypeOK
  <2>3. Blank'
    BY <2>1, <2>2 DEF QInv, Blank
  <2>4. BodiesShaped'
    BY <2>1 DEF QInv, BodiesShaped
  <2>5. InSeries'
    <3> SUFFICES ASSUME peak' <= 1, NEW r \in Request PROVE ReadStands(r)' /\ TitleLast(r)'
      BY DEF InSeries
    <3>1. req'[r].pc = "idle"
      BY <1>3, <2>1, DeletionAlone
    <3> QED
      BY <3>1 DEF ReadStands, TitleLast
  <2> QED
    BY <2>3, <2>4, <2>5 DEF QInv
<1> QED
  BY <1>1, <1>2, <1>3, NextSteps

LEMMA SeriesInvariance == Spec => [](SInv /\ CInv /\ QInv)
  BY SlugInit, SlugNext, CauseInit, CauseNext, SeriesInit, SeriesNext, PTL DEF Spec

\* The order of SaveTitle in the two services: in series, an item shown without its
\* required value is in the hands of the panel, or has lost it for one of the causes.
THEOREM ShownIncompleteByPanel == Spec => []ShownIncompleteInSeries
<1>1. CInv /\ QInv => ShownIncompleteInSeries
  <2> SUFFICES ASSUME CInv, QInv, NEW i \in Item, peak <= 1, Shown(i), ~value[i],
                      gap[i] = "none"
               PROVE  \E r \in Request : req[r].item = i /\ ValuesToCome(r) /\ ~ByApi(r)
    BY DEF ShownIncompleteInSeries
  <2>1. PICK r \in Request : req[r].item = i /\ ValuesToCome(r)
    BY DEF CInv, IncompleteHasCause, Shown
  <2>2. \/ req[r].pc = "values" /\ req[r].by # "put"
        \/ req[r].pc = "title" /\ req[r].by = "admin"
    BY <2>1, ToCome DEF CInv, TInv
  <2>3. ~(req[r].pc = "values" /\ req[r].by = "post")
    BY <2>1 DEF QInv, InSeries, TitleLast, Shown
  <2>4. req[r].by \in {"admin", "post", "put"}
    BY DEF CInv, TInv, TypeOK, RequestState
  <2> QED
    BY <2>1, <2>2, <2>3, <2>4 DEF ByApi
<1> QED
  BY <1>1, SeriesInvariance, PTL

\* What a step may do to the status of a live item and to a time of publication.
LEMMA StatusOfUpdate ==
  ASSUME SInv, QInv, Next, peak' <= 1, NEW r \in Request, UpdateItem(r), NEW i \in Item
  PROVE  /\ item'[i].published # item[i].published => req[r].item = i /\ req[r].asked
         /\ item[i].stamped => item'[i].stamped
<1>1. /\ req[r].pc = "item" /\ req[r].item \in Item
      /\ item \in [Item -> Row] /\ req[r] \in RequestState /\ item[i] \in Row
  BY DEF UpdateItem, SInv, TInv, TypeOK, RequestState
<1>2. CASE item'[i] = item[i]
  BY <1>2
<1>3. CASE item'[i] # item[i]
  <2>1. PICK publish \in BOOLEAN :
           /\ ByApi(r) => publish = req[r].publish
           /\ req[r].item = i
           /\ item' = [item EXCEPT ![i] =
                         [state |-> "live", slug |-> Head(req[r].slugs), published |-> publish,
                          stamped |-> IF ByApi(r) THEN item[i].stamped \/ publish
                                                  ELSE req[r].stamped]]
    BY <1>1, <1>3 DEF UpdateItem
  <2>2. /\ item'[i].published = publish
        /\ ByApi(r) /\ item[i].stamped => item'[i].stamped
        /\ ~ByApi(r) => item'[i].stamped = req[r].stamped
    BY <1>1, <2>1
  <2>3. ReadStands(r)
    <3>1. Under(r)
      BY <1>1 DEF Under
    <3> QED
      BY <3>1, OthersIdle DEF QInv, InSeries
  <2>4. /\ ~req[r].asked => ByApi(r) /\ (req[r].publish <=> item[i].published)
        /\ ~ByApi(r) => (req[r].stamped <=> item[i].stamped)
    BY <1>1, <2>1, <2>3 DEF ReadStands, QInv, BodiesShaped, ByApi
  <2>5. ~req[r].asked => item'[i].published = item[i].published
    <3>1. req[r].publish \in BOOLEAN /\ item[i].published \in BOOLEAN
      BY <1>1 DEF RequestState, Row
    <3> QED
      BY <2>1, <2>2, <2>4, <3>1
  <2> QED
    BY <2>1, <2>2, <2>4, <2>5
<1> QED
  BY <1>2, <1>3

LEMMA StatusOfNext ==
  ASSUME SInv, QInv, Next, peak' <= 1, NEW i \in Item
  PROVE  /\ item[i].state = "live" /\ item'[i].published # item[i].published =>
               \E r \in Request : req[r].item = i /\ req[r].asked
         /\ item[i].stamped => item'[i].stamped
<1>1. item \in [Item -> Row] /\ \A j \in Item : item[j].state = "none" => ~item[j].stamped
  BY DEF SInv, TInv, TypeOK, QInv, Blank
<1>2. CASE \E r \in Request : UpdateItem(r)
  BY <1>2, StatusOfUpdate
<1>3. CASE \E r \in Request : InsertItem(r)
  <2>1. PICK j \in Item : \E row : item[j].state = "none" /\ item' = [item EXCEPT ![j] = row]
    BY <1>3 DEF InsertItem
  <2>2. \A k \in Item : k # j => item'[k] = item[k]
    BY <1>1, <2>1
  <2> QED
    BY <1>1, <2>1, <2>2
<1>4. CASE \E j \in Item : DeleteItem(j)
  <2>1. PICK j \in Item :
           item' = [item EXCEPT ![j] = [state |-> "deleted", slug |-> item[j].slug,
                                        published |-> item[j].published,
                                        stamped |-> item[j].stamped]]
    BY <1>4 DEF DeleteItem
  <2> QED
    BY <1>1, <2>1
<1>5. CASE item' = item
  BY <1>5
<1>6. ASSUME NEW r \in Request, Step(r), ~UpdateItem(r), ~InsertItem(r) PROVE item' = item
  BY <1>6 DEF Step, Create, AdminUpdate, ApiUpdate, Begin, CheckSlug, SaveTitle, SaveValues,
              DeleteRelations, InsertRelations, KeepRelations, Abort
<1> QED
  BY <1>2, <1>3, <1>4, <1>5, <1>6, NextSteps

\* UpdateAsync of the API without a status in its body: in series it writes back the
\* status the item has.
THEOREM PublicationAsked == Spec => PublicationAskedInSeries
<1>1. SInv /\ QInv /\ [Next]_vars =>
         [peak' <= 1 => \A i \in Item :
            item[i].state = "live" /\ item'[i].published # item[i].published =>
               \E r \in Request : req[r].item = i /\ req[r].asked]_vars
  BY StatusOfNext
<1> QED
  BY <1>1, SeriesInvariance, PTL DEF Spec, PublicationAskedInSeries

\* UpdateAsync of the panel: in series the published_at it writes back is the item's.
THEOREM PublishedAtKept == Spec => PublishedAtKeptInSeries
<1>1. SInv /\ QInv /\ [Next]_vars =>
         [peak' <= 1 => \A i \in Item : item[i].stamped => item'[i].stamped]_vars
  BY StatusOfNext
<1> QED
  BY <1>1, SeriesInvariance, PTL DEF Spec, PublishedAtKeptInSeries
=============================================================================
