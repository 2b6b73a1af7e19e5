-------------------------- MODULE AdminPagesProofs --------------------------
(***************************************************************************)
(* The scripts of the admin pages, for any constants: the types of all of    *)
(* them; the chips of a relation picker are what is posted, and settled      *)
(* lists are those of the text typed; the display field of the options       *)
(* dialog is one of the target, and a dialog left untouched writes what it   *)
(* read; a page that has settled shows what is stored; a slug filled in      *)
(* passes the validators.                                                    *)
(***************************************************************************)
EXTENDS AdminPages, IdListsProofs

(* The relation picker: what is chosen. *)

RelInv == RelTypeOK /\ RelChipsShowValue /\ RelIdsDistinct

LEMMA RelInvInit == RelInit => RelInv
<1> SUFFICES ASSUME RelInit PROVE RelInv
  OBVIOUS
<1>1. rpValue \in Seq(Item) /\ IsInjective(rpValue) /\ rpChips = rpValue
  BY RelationPickerAssumption DEF RelInit, RelationPickerAssumption
<1>2. rpSent \in Seq(Search)
  BY EmptySeq DEF RelInit
<1> QED BY <1>1, <1>2, RelationPickerAssumption
        DEF RelInit, RelationPickerAssumption, RelInv, RelTypeOK, RelChipsShowValue,
            RelIdsDistinct

\* A list without repetitions loses the same entry by its place and by its id.
LEMMA WithoutAt ==
  ASSUME NEW S, NEW s \in Seq(S), NEW k \in 1..Len(s), IsInjective(s)
  PROVE  Without(s, s[k]) = RemoveAt(s, k)
<1> DEFINE i == CHOOSE j \in 1..Len(s) : s[j] = s[k]
<1>1. i \in 1..Len(s) /\ s[i] = s[k]
  OBVIOUS
<1>2. DOMAIN s = 1..Len(s)
  BY LenProperties
<1> HIDE DEF i
<1>3. i = k
  BY <1>1, <1>2 DEF IsInjective
<1>4. s[k] \in ToSet(s)
  BY IdsInS
<1> QED BY <1>3, <1>4 DEF Without, i

\* The searches under way once the i-th was answered: those sent before it are late.
LEMMA RestEntries ==
  ASSUME rpSent \in Seq(Search), NEW i \in 1..Len(rpSent)
  PROVE  /\ Rest(i) \in Seq(Search) /\ Len(Rest(i)) = Len(rpSent) - 1
         /\ \A k \in 1..Len(rpSent) - 1 :
              /\ k < i => Rest(i)[k].late
              /\ k >= i => Rest(i)[k] = rpSent[k + 1]
<1> DEFINE F == [k \in 1..Len(rpSent) |-> [rpSent[k] EXCEPT !.late = @ \/ k < i]]
<1>1. Len(rpSent) \in Nat /\ \A k \in 1..Len(rpSent) : rpSent[k] \in Search
  BY LenProperties, ElementOfSeq
<1>2. ASSUME NEW k \in 1..Len(rpSent)
      PROVE  /\ [rpSent[k] EXCEPT !.late = @ \/ k < i] \in Search
             /\ k < i => [rpSent[k] EXCEPT !.late = @ \/ k < i].late
             /\ ~(k < i) => [rpSent[k] EXCEPT !.late = @ \/ k < i] = rpSent[k]
  <2>1. PICK t \in Query, b \in BOOLEAN : rpSent[k] = [text |-> t, late |-> b]
    BY <1>1 DEF Search
  <2>2. [rpSent[k] EXCEPT !.late = @ \/ k < i] = [text |-> t, late |-> b \/ k < i]
    BY <2>1
  <2>3. (b \/ k < i) \in BOOLEAN
    OBVIOUS
  <2>4. [rpSent[k] EXCEPT !.late = @ \/ k < i] \in Search
    BY <2>2, <2>3 DEF Search
  <2>5. k < i => (b \/ k < i) = TRUE
    OBVIOUS
  <2>6. ~(k < i) => (b \/ k < i) = b
    OBVIOUS
  <2> QED BY <2>1, <2>2, <2>4, <2>5, <2>6
<1>3. F \in Seq(Search) /\ Len(F) = Len(rpSent)
  BY <1>1, <1>2, IsASeq
<1>4. \A k \in 1..Len(rpSent) : (k < i => F[k].late) /\ (~(k < i) => F[k] = rpSent[k])
  BY <1>2
<1>5. Rest(i) = RemoveAt(F, i)
  BY DEF Rest
<1> HIDE DEF F
<1>6. /\ RemoveAt(F, i) \in Seq(Search) /\ Len(RemoveAt(F, i)) = Len(rpSent) - 1
      /\ \A k \in 1..Len(rpSent) - 1 : RemoveAt(F, i)[k] = IF k < i THEN F[k] ELSE F[k + 1]
  BY <1>3, RemoveAtEntries
<1>7. ASSUME NEW k \in 1..Len(rpSent) - 1
      PROVE  (k < i => Rest(i)[k].late) /\ (k >= i => Rest(i)[k] = rpSent[k + 1])
  BY <1>1, <1>4, <1>5, <1>6
<1> QED BY <1>5, <1>6, <1>7

LEMMA RelInvStep == RelInv /\ [RelNext]_rpVars => RelInv'
<1> SUFFICES ASSUME RelInv, [RelNext]_rpVars PROVE RelInv'
  OBVIOUS
<1> USE RelationPickerAssumption DEF RelationPickerAssumption, rpPage, rpChosen, rpSearch,
        rpResults
<1>0. /\ rpValue \in Seq(Item) /\ rpChips = rpValue /\ IsInjective(rpValue)
      /\ rpSent \in Seq(Search)
  BY DEF RelInv, RelTypeOK, RelChipsShowValue, RelIdsDistinct
\* Steps of the search, which leave what is chosen alone.
<1>1. ASSUME UNCHANGED <<rpPage, rpChosen>>, rpText' \in Query, rpTimer' \in BOOLEAN,
             rpSent' \in Seq(Search), rpList' \subseteq Item, rpListFor' \in Query,
             rpShown' \in BOOLEAN, rpBlame' \subseteq {"overtaken", "failed", "cleared"}
      PROVE  RelInv'
  BY <1>1 DEF RelInv, RelTypeOK, RelChipsShowValue, RelIdsDistinct
<1>2. ASSUME NEW t \in Query, TypeQuery(t) PROVE RelInv'
  BY <1>1, <1>2 DEF TypeQuery, RelInv, RelTypeOK
<1>3. ASSUME Focus PROVE RelInv'
  <2>1. rpTimer' \in BOOLEAN /\ rpShown' \in BOOLEAN
    BY <1>3 DEF Focus, RelInv, RelTypeOK
  <2> QED BY <1>1, <1>3, <2>1 DEF Focus, RelInv, RelTypeOK
<1>4. ASSUME SendQuery PROVE RelInv'
  <2>1. [text |-> rpText, late |-> FALSE] \in Search
    BY DEF Search, RelInv, RelTypeOK
  <2>2. rpSent' \in Seq(Search)
    BY <1>0, <1>4, <2>1, AppendProperties DEF SendQuery
  <2> QED BY <1>1, <1>4, <2>2 DEF SendQuery, RelInv, RelTypeOK
<1>5. ASSUME ClickOutside PROVE RelInv'
  BY <1>1, <1>5 DEF ClickOutside, RelInv, RelTypeOK
<1>6. ASSUME NEW i \in 1..Len(rpSent), QueryAnswered(i) \/ QueryRefused(i) \/ QueryLost(i)
      PROVE  RelInv'
  <2>1. rpSent[i].text \in Query
    <3>1. rpSent[i] \in Search
      BY <1>0, ElementOfSeq
    <3> QED BY <3>1 DEF Search
  <2>2. Rest(i) \in Seq(Search) /\ RemoveAt(rpSent, i) \in Seq(Search)
    BY <1>0, RestEntries, RemoveAtEntries
  <2>3. CASE QueryAnswered(i)
    <3>1. rpBlame' \subseteq {"overtaken", "failed", "cleared"}
      BY <2>3 DEF QueryAnswered, RelInv, RelTypeOK
    <3>2. rpShown' \in BOOLEAN
      BY <2>3 DEF QueryAnswered
    <3>3. rpList' \subseteq Item
      BY <2>1, <2>3 DEF QueryAnswered
    <3> QED BY <1>1, <2>1, <2>2, <2>3, <3>1, <3>2, <3>3 DEF QueryAnswered, RelInv, RelTypeOK
  <2>4. CASE QueryRefused(i)
    BY <1>1, <2>1, <2>2, <2>4 DEF QueryRefused, RelInv, RelTypeOK
  <2>5. CASE QueryLost(i)
    BY <1>1, <2>2, <2>5 DEF QueryLost, RelInv, RelTypeOK
  <2> QED BY <1>6, <2>3, <2>4, <2>5
\* Steps that change what is chosen.
<1>7. ASSUME rpValue' \in Seq(Item), IsInjective(rpValue'), rpChips' = rpValue',
             UNCHANGED <<rpPage, rpTimer, rpSent, rpList, rpListFor>>, rpText' \in Query,
             rpShown' \in BOOLEAN, rpBlame' \subseteq {"overtaken", "failed", "cleared"}
      PROVE  RelInv'
  BY <1>7 DEF RelInv, RelTypeOK, RelChipsShowValue, RelIdsDistinct
<1>8. ASSUME NEW x \in Item, AlreadySelected(x) PROVE RelInv'
  <2>1. rpValue' \in Seq(Item) /\ IsInjective(rpValue') /\ rpChips' = rpValue'
    BY <1>0, <1>8, EmptyIds DEF AlreadySelected
  <2> QED BY <1>7, <1>8, <2>1 DEF AlreadySelected, RelInv, RelTypeOK
<1>9. ASSUME NEW x \in Item, LimitReached(x) PROVE RelInv'
  BY <1>1, <1>9 DEF LimitReached, RelInv, RelTypeOK
<1>10. ASSUME NEW x \in Item, Added(x) PROVE RelInv'
  <2> DEFINE s == IF rpMultiple THEN rpValue ELSE <<>>
  <2>1. s \in Seq(Item) /\ IsInjective(s) /\ x \notin ToSet(s)
    BY <1>0, <1>10, EmptyIds DEF Added
  <2>2. rpValue' = Append(s, x) /\ rpChips' = Append(s, x)
    BY <1>0, <1>10 DEF Added
  <2> HIDE DEF s
  <2>3. rpValue' \in Seq(Item) /\ IsInjective(rpValue') /\ rpChips' = rpValue'
    BY <2>1, <2>2, AppendIds
  <2>4. rpBlame' \subseteq {"overtaken", "failed", "cleared"}
    BY <1>10 DEF Added, RelInv, RelTypeOK
  <2> QED BY <1>7, <1>10, <2>3, <2>4 DEF Added, RelInv, RelTypeOK
<1>11. ASSUME NEW k \in 1..Len(rpChips), RemoveItem(k) PROVE RelInv'
  <2>1. rpValue' = RemoveAt(rpValue, k) /\ rpChips' = RemoveAt(rpValue, k)
    BY <1>0, <1>11, WithoutAt DEF RemoveItem
  <2>2. rpValue' \in Seq(Item) /\ IsInjective(rpValue')
    BY <1>0, <2>1, RemoveAtEntries, RemoveAtIds
  <2> QED BY <1>7, <1>11, <2>1, <2>2 DEF RemoveItem, RelInv, RelTypeOK
<1>12. ASSUME UNCHANGED rpVars PROVE RelInv'
  BY <1>1, <1>12 DEF rpVars, RelInv, RelTypeOK
<1> QED BY <1>2, <1>3, <1>4, <1>5, <1>6, <1>8, <1>9, <1>10, <1>11, <1>12 DEF RelNext

\* One more id, and never past the limit.
LEMMA LimitStep ==
  ASSUME RelInv, [RelNext]_rpVars, Len(rpValue') > Len(rpValue)
  PROVE  Len(rpValue') <= IF ~rpMultiple THEN 1
                          ELSE IF rpMax = NoLimit THEN Len(rpValue) + 1 ELSE rpMax
<1> USE RelationPickerAssumption DEF RelationPickerAssumption, rpPage, rpChosen, rpSearch,
        rpResults
<1>0. /\ rpValue \in Seq(Item) /\ Len(rpValue) \in Nat /\ rpChips = rpValue
      /\ IsInjective(rpValue) /\ rpMax \in Nat \cup {NoLimit}
  BY LenProperties DEF RelInv, RelTypeOK, RelChipsShowValue, RelIdsDistinct
<1>1. rpValue' # rpValue
  BY <1>0
<1>2. PICK x \in Item : AlreadySelected(x) \/ Added(x)
  <2>1. ~UNCHANGED rpVars
    BY <1>1 DEF rpVars
  <2>2. ASSUME NEW k \in 1..Len(rpChips), RemoveItem(k) PROVE FALSE
    <3>1. rpValue' = RemoveAt(rpValue, k)
      BY <1>0, <2>2, WithoutAt DEF RemoveItem
    <3> QED BY <1>0, <3>1, RemoveAtEntries
  <2>3. \A x \in Item : ~LimitReached(x)
    BY <1>1 DEF LimitReached
  <2>4. ~(Focus \/ SendQuery \/ ClickOutside) /\ \A t \in Query : ~TypeQuery(t)
    BY <1>1 DEF Focus, SendQuery, ClickOutside, TypeQuery
  <2>5. \A i \in 1..Len(rpSent) : ~(QueryAnswered(i) \/ QueryRefused(i) \/ QueryLost(i))
    BY <1>1 DEF QueryAnswered, QueryRefused, QueryLost
  <2> QED BY <2>1, <2>2, <2>3, <2>4, <2>5 DEF RelNext
<1>3. ASSUME AlreadySelected(x) PROVE FALSE
  <2>1. Len(<<>>) = 0
    OBVIOUS
  <2> QED BY <1>0, <1>1, <1>3, <2>1 DEF AlreadySelected
<1>4. CASE Added(x)
  <2> DEFINE s == IF rpMultiple THEN rpValue ELSE <<>>
  <2>1. s \in Seq(Item) /\ rpValue' = Append(s, x)
    BY <1>0, <1>4, EmptySeq DEF Added
  <2>2. Len(s) = IF rpMultiple THEN Len(rpValue) ELSE 0
    BY EmptySeq
  <2> HIDE DEF s
  <2>3. Len(rpValue') = Len(s) + 1
    BY <2>1, AppendProperties
  <2>4. rpMultiple /\ rpMax # NoLimit => Len(rpValue) < rpMax
    BY <1>0, <1>4 DEF Added, Full
  <2> QED BY <1>0, <2>2, <2>3, <2>4
<1> QED BY <1>2, <1>3, <1>4

-----------------------------------------------------------------------------
(* The relation picker: what is listed. *)

\* Searches sent before one that is late are late.
LatePrefix == \A k, l \in 1..Len(rpSent) : k < l /\ rpSent[l].late => rpSent[k].late

\* A search neither late nor due to be sent again is that of the text; with none under
\* way, the items listed are.
ListOfText ==
  ~rpTimer /\ rpBlame = {} =>
    IF rpSent # <<>> /\ ~rpSent[Len(rpSent)].late THEN rpSent[Len(rpSent)].text = rpText
    ELSE rpList # {} => rpListFor = rpText

ListInv == LatePrefix /\ ListOfText /\ (rpShown => rpList # {})

LEMMA ListInvInit == RelInit => ListInv
<1> SUFFICES ASSUME RelInit PROVE ListInv
  OBVIOUS
<1>1. rpSent = <<>> /\ Len(rpSent) = 0
  BY EmptySeq DEF RelInit
<1>2. LatePrefix
  BY <1>1 DEF LatePrefix
<1> QED BY <1>1, <1>2 DEF ListInv, ListOfText, RelInit

LEMMA ListInvStep == RelInv /\ ListInv /\ [RelNext]_rpVars => ListInv'
<1> SUFFICES ASSUME RelInv, ListInv, [RelNext]_rpVars PROVE ListInv'
  OBVIOUS
<1> USE DEF rpPage, rpChosen, rpSearch, rpResults
<1>0. /\ rpSent \in Seq(Search) /\ Len(rpSent) \in Nat
      /\ \A k \in 1..Len(rpSent) : rpSent[k] \in Search
  BY LenProperties, ElementOfSeq DEF RelInv, RelTypeOK
<1>1. ASSUME NEW t \in Query, TypeQuery(t) PROVE ListInv'
  BY <1>1 DEF TypeQuery, ListInv, LatePrefix, ListOfText
<1>2. ASSUME Focus PROVE ListInv'
  <2>1. rpSent' = rpSent /\ rpBlame' = rpBlame /\ rpText' = rpText /\ rpList' = rpList
        /\ rpListFor' = rpListFor
    BY <1>2 DEF Focus
  <2>2. rpShown' => rpList' # {}
    BY <1>2, <2>1 DEF Focus, ListInv
  <2>3. LatePrefix'
    BY <2>1 DEF ListInv, LatePrefix
  <2>4. rpTimer' => ListOfText'
    BY DEF ListOfText
  <2>5. ~rpTimer' => ~rpTimer
    BY <1>2 DEF Focus
  <2>6. ~rpTimer' => ListOfText'
    BY <2>1, <2>5 DEF ListInv, ListOfText
  <2> QED BY <2>2, <2>3, <2>4, <2>6 DEF ListInv
<1>3. ASSUME SendQuery PROVE ListInv'
  <2> DEFINE q == [text |-> rpText, late |-> FALSE]
             n == Len(rpSent)
  <2>0. rpText \in Query
    BY DEF RelInv, RelTypeOK
  <2>1. q \in Search /\ q.text = rpText /\ ~q.late
    BY <2>0 DEF Search
  <2>2. rpSent' = Append(rpSent, q) /\ UNCHANGED <<rpText, rpResults, rpBlame>>
    BY <1>3 DEF SendQuery
  <2> HIDE DEF q
  <2>3. /\ Len(rpSent') = n + 1 /\ rpSent'[n + 1] = q
        /\ \A k \in 1..n : rpSent'[k] = rpSent[k]
    BY <1>0, <2>1, <2>2, AppendProperties
  <2> HIDE DEF n
  <2>4. LatePrefix'
    <3> SUFFICES ASSUME NEW k \in 1..n + 1, NEW l \in 1..n + 1, k < l, rpSent'[l].late
                 PROVE  rpSent'[k].late
      BY <2>3 DEF LatePrefix
    <3>1. n \in Nat
      BY <1>0 DEF n
    <3>2. l # n + 1
      BY <2>1, <2>3
    <3>3. k \in 1..n /\ l \in 1..n
      BY <3>1, <3>2
    <3> QED BY <2>3, <3>3 DEF ListInv, LatePrefix, n
  <2>5. ListOfText'
    <3>1. rpSent' # <<>>
      BY <1>0, <2>3, EmptySeq DEF n
    <3>2. rpSent'[Len(rpSent')] = q
      BY <2>3
    <3> QED BY <2>1, <2>2, <3>1, <3>2 DEF ListOfText
  <2> QED BY <2>2, <2>4, <2>5 DEF ListInv
<1>4. ASSUME NEW i \in 1..Len(rpSent), rpSent' = Rest(i)
      PROVE  /\ LatePrefix'
             /\ rpSent' # <<>> /\ ~rpSent'[Len(rpSent')].late =>
                  /\ i < Len(rpSent) /\ rpSent # <<>> /\ ~rpSent[Len(rpSent)].late
                  /\ rpSent'[Len(rpSent')] = rpSent[Len(rpSent)]
  <2> DEFINE n == Len(rpSent)
  <2>1. /\ rpSent' \in Seq(Search) /\ Len(rpSent') = n - 1
        /\ \A k \in 1..n - 1 : (k < i => rpSent'[k].late) /\ (k >= i => rpSent'[k] = rpSent[k + 1])
    BY <1>0, <1>4, RestEntries
  <2>2. n \in Nat /\ i \in 1..n
    BY <1>0
  <2>3. LatePrefix'
    <3> SUFFICES ASSUME NEW k \in 1..n - 1, NEW l \in 1..n - 1, k < l, rpSent'[l].late
                 PROVE  rpSent'[k].late
      BY <2>1 DEF LatePrefix
    <3>1. CASE k < i
      BY <2>1, <3>1
    <3>2. CASE k >= i
      <4>1. l >= i /\ k + 1 \in 1..n /\ l + 1 \in 1..n /\ k + 1 < l + 1
        BY <2>2, <3>2
      <4>2. rpSent'[k] = rpSent[k + 1] /\ rpSent'[l] = rpSent[l + 1]
        BY <2>1, <3>2, <4>1
      <4> QED BY <4>1, <4>2 DEF ListInv, LatePrefix
    <3> QED BY <2>2, <3>1, <3>2
  <2>4. ASSUME rpSent' # <<>>, ~rpSent'[Len(rpSent')].late
        PROVE  /\ i < n /\ rpSent # <<>> /\ ~rpSent[n].late /\ rpSent'[Len(rpSent')] = rpSent[n]
    <3>1. n - 1 \in 1..n - 1
      BY <2>1, <2>2, <2>4, EmptySeq
    <3>2. ~(n - 1 < i)
      BY <2>1, <2>4, <3>1
    <3>3. rpSent'[n - 1] = rpSent[n]
      BY <2>1, <2>2, <3>1, <3>2
    <3> QED BY <2>1, <2>2, <2>4, <3>2, <3>3, EmptySeq
  <2> QED BY <2>3, <2>4
<1>5. ASSUME NEW i \in 1..Len(rpSent), QueryAnswered(i) PROVE ListInv'
  <2>1. /\ rpSent' = Rest(i) /\ rpList' = Matches[rpSent[i].text] /\ rpListFor' = rpSent[i].text
        /\ rpShown' = (rpList' # {}) /\ rpText' = rpText /\ rpTimer' = rpTimer
        /\ rpBlame' = IF rpSent[i].late THEN rpBlame \cup {"overtaken"}
                      ELSE IF i = Len(rpSent) /\ rpSent[i].text = rpText THEN {} ELSE rpBlame
    BY <1>5 DEF QueryAnswered
  <2>2. ASSUME ~rpTimer', rpBlame' = {}
        PROVE  IF rpSent' # <<>> /\ ~rpSent'[Len(rpSent')].late
               THEN rpSent'[Len(rpSent')].text = rpText' ELSE rpListFor' = rpText'
    <3>1. ~rpSent[i].late
      BY <2>1, <2>2
    <3>2. CASE i = Len(rpSent) /\ rpSent[i].text = rpText
      BY <1>4, <2>1, <3>2
    <3>3. CASE ~(i = Len(rpSent) /\ rpSent[i].text = rpText)
      <4>1. rpBlame = {} /\ ~rpTimer
        BY <2>1, <2>2, <3>1, <3>3
      <4>2. ~rpSent[Len(rpSent)].late /\ rpSent # <<>>
        BY <1>0, <3>1, EmptySeq DEF ListInv, LatePrefix
      <4>3. rpSent[Len(rpSent)].text = rpText
        BY <4>1, <4>2 DEF ListInv, ListOfText
      <4>4. i < Len(rpSent) /\ i <= Len(rpSent) - 1 /\ Len(rpSent) - 1 \in 1..Len(rpSent) - 1
        BY <1>0, <3>3, <4>3
      <4>5. Len(rpSent') = Len(rpSent) - 1 /\ rpSent'[Len(rpSent')] = rpSent[Len(rpSent)]
        <5>1. /\ rpSent' = Rest(i) /\ Len(Rest(i)) = Len(rpSent) - 1
              /\ Rest(i)[Len(rpSent) - 1] = rpSent[(Len(rpSent) - 1) + 1]
          BY <1>0, <2>1, <4>4, RestEntries
        <5> QED BY <1>0, <5>1
      <4>6. rpSent' # <<>>
        BY <1>0, <4>4, <4>5, EmptySeq
      <4> QED BY <2>1, <4>2, <4>3, <4>5, <4>6
    <3> QED BY <3>2, <3>3
  <2>3. ListOfText'
    BY <2>2 DEF ListOfText
  <2> QED BY <1>4, <2>1, <2>3 DEF ListInv
<1>6. ASSUME NEW i \in 1..Len(rpSent), QueryRefused(i) PROVE ListInv'
  <2>1. rpSent' = Rest(i) /\ rpList' = {} /\ rpShown' = FALSE /\ rpBlame' = rpBlame
        /\ rpText' = rpText /\ rpTimer' = rpTimer
    BY <1>6 DEF QueryRefused
  <2>2. ListOfText'
    BY <1>4, <2>1 DEF ListInv, ListOfText
  <2> QED BY <1>4, <2>1, <2>2 DEF ListInv
<1>7. ASSUME NEW i \in 1..Len(rpSent), QueryLost(i) PROVE ListInv'
  <2>1. rpSent' = RemoveAt(rpSent, i) /\ rpShown' = FALSE /\ rpBlame' # {}
    BY <1>7 DEF QueryLost
  <2>2. /\ Len(rpSent') = Len(rpSent) - 1
        /\ \A k \in 1..Len(rpSent) - 1 : rpSent'[k] = IF k < i THEN rpSent[k] ELSE rpSent[k + 1]
    BY <1>0, <2>1, RemoveAtEntries
  <2>3. LatePrefix'
    <3> SUFFICES ASSUME NEW k \in 1..Len(rpSent) - 1, NEW l \in 1..Len(rpSent) - 1,
                        k < l, rpSent'[l].late
                 PROVE  rpSent'[k].late
      BY <2>2 DEF LatePrefix
    <3>1. PICK a, b \in 1..Len(rpSent) : a < b /\ rpSent'[k] = rpSent[a] /\ rpSent'[l] = rpSent[b]
      <4>1. /\ k \in 1..Len(rpSent) /\ k + 1 \in 1..Len(rpSent)
            /\ l \in 1..Len(rpSent) /\ l + 1 \in 1..Len(rpSent)
            /\ k < l /\ k < l + 1 /\ k + 1 < l + 1
            /\ ~(k < i) => ~(l < i)
        BY <1>0
      <4> QED BY <2>2, <4>1
    <3> QED BY <3>1 DEF ListInv, LatePrefix
  <2> QED BY <2>1, <2>3 DEF ListInv, ListOfText
<1>8. ASSUME \/ ClickOutside
             \/ \E x \in Item : AlreadySelected(x) \/ LimitReached(x)
             \/ \E k \in 1..Len(rpChips) : RemoveItem(k)
      PROVE  ListInv'
  <2>1. UNCHANGED <<rpSearch, rpList, rpListFor, rpBlame>> /\ (rpShown' => rpShown)
    BY <1>8 DEF ClickOutside, AlreadySelected, LimitReached, RemoveItem
  <2> QED BY <2>1 DEF ListInv, LatePrefix, ListOfText
<1>9. ASSUME NEW x \in Item, Added(x) PROVE ListInv'
  <2>1. rpText = NoQuery \/ rpBlame' # {}
    BY <1>9 DEF Added
  <2>2. /\ UNCHANGED <<rpTimer, rpSent, rpList, rpListFor>> /\ rpShown' = FALSE
        /\ rpText' = NoQuery /\ (rpText = NoQuery => rpBlame' = rpBlame)
    BY <1>9 DEF Added
  <2> QED BY <2>1, <2>2 DEF ListInv, LatePrefix, ListOfText
<1>10. ASSUME UNCHANGED rpVars PROVE ListInv'
  BY <1>10 DEF rpVars, ListInv, LatePrefix, ListOfText
<1>11. CASE RelNext
  <2>1. CASE \E x \in Item : AlreadySelected(x) \/ LimitReached(x) \/ Added(x)
    BY <1>8, <1>9, <2>1
  <2>2. CASE \E i \in 1..Len(rpSent) : QueryAnswered(i) \/ QueryRefused(i) \/ QueryLost(i)
    BY <1>5, <1>6, <1>7, <2>2
  <2> QED BY <1>1, <1>2, <1>3, <1>8, <1>11, <2>1, <2>2 DEF RelNext
<1> QED BY <1>10, <1>11

-----------------------------------------------------------------------------
(* The icon picker. *)

LEMMA IconStepKeeps == IconGridFitsText /\ [IpNext]_ipVars => IconGridFitsText'
<1> SUFFICES ASSUME IconGridFitsText, [IpNext]_ipVars PROVE IconGridFitsText'
  OBVIOUS
<1>1. CASE ClickTrigger
  BY <1>1 DEF ClickTrigger, RenderGrid, IconGridFitsText
<1>2. CASE FilterDue
  BY <1>2 DEF FilterDue, RenderGrid, IconGridFitsText
<1>3. CASE ClearIcon
  BY <1>3 DEF ClearIcon, IconGridFitsText
<1>4. CASE ClosePopover
  BY <1>4 DEF ClosePopover, IconGridFitsText
<1>5. ASSUME NEW t \in Filter, TypeFilter(t) PROVE IconGridFitsText'
  BY <1>5 DEF TypeFilter, IconGridFitsText
<1>6. ASSUME NEW i \in Icon, ChooseIcon(i) PROVE IconGridFitsText'
  BY <1>6 DEF ChooseIcon, IconGridFitsText
<1>7. CASE UNCHANGED ipVars
  BY <1>7 DEF ipVars, IconGridFitsText
<1> QED BY <1>1, <1>2, <1>3, <1>4, <1>5, <1>6, <1>7 DEF IpNext

-----------------------------------------------------------------------------
(* The options dialog. *)

LEMMA Fourteen ==
  \A i \in 1..14 : \/ i = 1 \/ i = 2 \/ i = 3 \/ i = 4 \/ i = 5 \/ i = 6 \/ i = 7
                   \/ i = 8 \/ i = 9 \/ i = 10 \/ i = 11 \/ i = 12 \/ i = 13 \/ i = 14
OBVIOUS

LEMMA InputKeys ==
  /\ Inputs[1].key = "max_length" /\ Inputs[2].key = "placeholder"
  /\ Inputs[3].key = "placeholder" /\ Inputs[4].key = "min" /\ Inputs[5].key = "max"
  /\ Inputs[6].key = "decimals" /\ Inputs[7].key = "max" /\ Inputs[8].key = "max_size_mb"
  /\ Inputs[9].key = "allowed_formats" /\ Inputs[10].key = "language"
  /\ Inputs[11].key = "target_content_type_id" /\ Inputs[12].key = "display_field_slug"
  /\ Inputs[13].key = "min_items" /\ Inputs[14].key = "max_items"
BY DEF Inputs

\* The two dropdowns of a relation are the only inputs of their keys.
LEMMA InputPlaces ==
  /\ Index = 1..14
  /\ Target = 11 /\ Display = 12
  /\ \A i \in Index : Inputs[i].reset \in {"", "5"} /\ (i # 7 => Inputs[i].reset = "")
  /\ Inputs[11].reset = "" /\ Inputs[12].reset = ""
  /\ Inputs[11].key = "target_content_type_id" /\ Inputs[12].key = "display_field_slug"
  /\ Inputs[11].types = Relations /\ Inputs[12].types = Relations
  /\ \A i \in Index \ {11} : Inputs[i].key # "target_content_type_id"
  /\ \A i \in Index \ {12} : Inputs[i].key # "display_field_slug"
<1>1. Index = 1..14
  BY DEF Index, Inputs
<1>4. /\ Inputs[1].reset = "" /\ Inputs[2].reset = "" /\ Inputs[3].reset = ""
      /\ Inputs[4].reset = "" /\ Inputs[5].reset = "" /\ Inputs[6].reset = ""
      /\ Inputs[7].reset = "5" /\ Inputs[8].reset = "" /\ Inputs[9].reset = ""
      /\ Inputs[10].reset = "" /\ Inputs[11].reset = "" /\ Inputs[12].reset = ""
      /\ Inputs[13].reset = "" /\ Inputs[14].reset = ""
  BY DEF Inputs
<1>5. Inputs[11].types = Relations /\ Inputs[12].types = Relations
  BY DEF Inputs, Relations
<1>6. \A i \in Index \ {11} : Inputs[i].key # "target_content_type_id"
  BY <1>1, InputKeys, Fourteen
<1>7. \A i \in Index \ {12} : Inputs[i].key # "display_field_slug"
  BY <1>1, InputKeys, Fourteen
<1>8. Target = 11
  BY <1>1, InputKeys, <1>6 DEF Target, First
<1>9. Display = 12
  BY <1>1, InputKeys, <1>7 DEF Display, First
<1>10. \A i \in Index : Inputs[i].reset \in {"", "5"} /\ (i # 7 => Inputs[i].reset = "")
  BY <1>1, <1>4, Fourteen
<1> QED BY <1>1, <1>4, <1>5, <1>6, <1>7, <1>8, <1>9, <1>10, InputKeys

LEMMA Dropdowns ==
  /\ Target \in Index /\ Display \in Index /\ Target # Display
  /\ Inputs[Target].reset = "" /\ Inputs[Display].reset = ""
  /\ Inputs[Target].key = "target_content_type_id"
  /\ Inputs[Display].key = "display_field_slug"
<1>1. 11 \in Index /\ 12 \in Index /\ 11 # 12
  <2>1. Index = 1..14
    BY DEF Index, Inputs
  <2> QED BY <2>1
<1>2. Inputs[11].reset = "" /\ Inputs[12].reset = ""
  BY InputPlaces
<1>3. Target = 11 /\ Display = 12
  BY InputPlaces
<1> QED BY <1>1, <1>2, <1>3, InputKeys

\* The first input of a key exists and has no default: the stars of a Rating and the
\* placeholder of a RichText come after the ones of the same key.
LEMMA FirstInput ==
  \A i \in Index : LET f == First(Inputs[i].key)
                   IN  f \in Index /\ Inputs[f].key = Inputs[i].key /\ Inputs[f].reset = ""
<1>1. Index = 1..14
  BY DEF Index, Inputs
<1>2. ASSUME NEW i \in 1..14, i # 3, i # 7, NEW l \in 1..14, Inputs[l].key = Inputs[i].key
      PROVE  i <= l
  BY <1>2, InputKeys, Fourteen
<1>3. ASSUME NEW i \in 1..14
      PROVE  \E j \in 1..14 : j # 3 /\ j # 7 /\ Inputs[j].key = Inputs[i].key
  BY InputKeys
<1>4. \A j \in Index : j # 7 => Inputs[j].reset = ""
  BY InputPlaces
<1>5. ASSUME NEW i \in Index
      PROVE  \E j \in Index : /\ j # 7 /\ Inputs[j].key = Inputs[i].key
                              /\ \A l \in Index : Inputs[l].key = Inputs[i].key => j <= l
  <2>1. PICK j \in 1..14 : j # 3 /\ j # 7 /\ Inputs[j].key = Inputs[i].key
    BY <1>1, <1>3
  <2> QED BY <1>1, <1>2, <2>1
<1>6. ASSUME NEW i \in Index
      PROVE  LET f == First(Inputs[i].key)
             IN  f \in Index /\ Inputs[f].key = Inputs[i].key /\ Inputs[f].reset = ""
  <2> DEFINE f == First(Inputs[i].key)
  <2>1. PICK j \in Index : /\ j # 7 /\ Inputs[j].key = Inputs[i].key
                          /\ \A l \in Index : Inputs[l].key = Inputs[i].key => j <= l
    BY <1>5
  <2>2. /\ f \in Index /\ Inputs[f].key = Inputs[i].key
        /\ \A l \in Index : Inputs[l].key = Inputs[i].key => f <= l
    BY <2>1 DEF First
  <2> HIDE DEF f
  <2>3. f <= j /\ j <= f /\ f \in 1..14 /\ j \in 1..14
    BY <1>1, <2>1, <2>2
  <2>4. f = j
    BY <2>3
  <2>5. Inputs[f].reset = ""
    BY <1>4, <2>1, <2>4
  <2> QED BY <2>2, <2>5 DEF f
<1> QED BY <1>6

InputsTyped ==
  /\ foInput \in [Index -> Entry]
  /\ foRaw.data \in [Key -> Entry]
  /\ foDisplays \subseteq Entry

\* The options of the display-field dropdown, too, are fields of the target.
DisplaysOfTarget ==
  foInput[Target] # "" /\ ~foMixed =>
    /\ foDisplays \subseteq FieldsOf[foInput[Target]]
    /\ foInput[Display] \in FieldsOf[foInput[Target]] \cup {""}

FoInv == InputsTyped /\ DisplaysOfTarget

LEMMA EntryFacts ==
  /\ "" \in Entry /\ "5" \in Entry /\ TypeId \subseteq Entry
  /\ \A t \in TypeId : FieldsOf[t] \subseteq Entry
  /\ \A v \in Entry : Norm[v] \in Entry
  /\ \A r \in RawTexts : r.data \in [Key -> Entry]
  /\ \A i \in Index : Inputs[i].key \in Key
<1>1. \A i \in Index : Inputs[i].key \in Key
  BY DEF Key
<1> QED BY <1>1, FieldOptionsAssumption DEF FieldOptionsAssumption

LEMMA FoInvInit == FoInit => FoInv
<1> SUFFICES ASSUME FoInit PROVE FoInv
  OBVIOUS
<1>1. foInput = [i \in Index |-> Inputs[i].reset] /\ foDisplays = {} /\ foRaw \in RawTexts
  BY DEF FoInit
<1>2. foInput \in [Index -> Entry]
  BY <1>1, InputPlaces, EntryFacts
<1>3. foInput[Target] = ""
  BY <1>1, Dropdowns
<1> QED BY <1>1, <1>2, <1>3, EntryFacts DEF FoInv, InputsTyped, DisplaysOfTarget

LEMMA PopulatedInputs ==
  ASSUME InputsTyped
  PROVE  /\ Populated \in [Index -> Entry]
         /\ Populated[Target] = "" /\ Populated[Display] = ""
<1>1. \A k \in Key : foRaw.data[k] \in Entry
  BY DEF InputsTyped
<1>2. \A k \in Key : ValueSet(k) \in Entry
  BY <1>1, EntryFacts DEF ValueSet
<1>3. Populated \in [Index -> Entry]
  BY <1>2, InputPlaces, EntryFacts DEF Populated
<1>4. "target_content_type_id" \notin SetAtOnce /\ "display_field_slug" \notin SetAtOnce
  <2>1. CASE foType \in Relations
    BY <2>1 DEF SetAtOnce
  <2>2. CASE foType \notin Relations
    <3>1. SetAtOnce = KeysOf(foType)
      BY <2>2 DEF SetAtOnce
    <3>2. \A i \in Index : foType \in Inputs[i].types => i # 11 /\ i # 12
      BY <2>2, InputPlaces
    <3> QED BY <3>1, <3>2, InputPlaces DEF KeysOf
  <2> QED BY <2>1, <2>2
<1>5. Populated[Target] = "" /\ Populated[Display] = ""
  BY <1>4, Dropdowns DEF Populated
<1> QED BY <1>3, <1>5

LEMMA TargetInputs ==
  ASSUME NEW input \in [Index -> Entry], NEW target, NEW listed
  PROVE  /\ WithTarget(input, target, listed) \in [Index -> Entry]
         /\ WithTarget(input, target, listed)[Display] = ""
<1>1. Selected(target, IF listed THEN TypeId ELSE {}) \in Entry
  BY EntryFacts DEF Selected
<1> QED BY <1>1, EntryFacts, Dropdowns DEF WithTarget

LEMMA FoInvStep == FoInv /\ [FoNext]_foVars => FoInv'
<1> SUFFICES ASSUME InputsTyped, DisplaysOfTarget, [FoNext]_foVars
             PROVE  InputsTyped' /\ DisplaysOfTarget'
  BY DEF FoInv
<1> USE DEF foForm, foLists, foHistory
<1>1. ASSUME NEW t \in Kind, ChangeType(t) PROVE InputsTyped' /\ DisplaysOfTarget'
  BY <1>1 DEF ChangeType, InputsTyped, DisplaysOfTarget
<1>2. ASSUME NEW r \in RawTexts, EditRaw(r) PROVE InputsTyped' /\ DisplaysOfTarget'
  BY <1>2, EntryFacts DEF EditRaw, InputsTyped, DisplaysOfTarget
<1>3. ASSUME OpenModal PROVE InputsTyped' /\ DisplaysOfTarget'
  <2>1. foRaw' = foRaw
    BY <1>3 DEF OpenModal
  <2>2. \/ foInput' = Populated /\ foDisplays' = foDisplays
        \/ \E target : foInput' = WithTarget(Populated, target, TRUE) /\ foDisplays' = {}
    BY <1>3 DEF OpenModal
  <2>3. CASE foInput' = Populated /\ foDisplays' = foDisplays
    BY <2>1, <2>3, PopulatedInputs DEF InputsTyped, DisplaysOfTarget
  <2>4. ASSUME NEW target, foInput' = WithTarget(Populated, target, TRUE), foDisplays' = {}
        PROVE  InputsTyped' /\ DisplaysOfTarget'
    <3>1. foInput' \in [Index -> Entry] /\ foInput'[Display] = ""
      BY <2>4, PopulatedInputs, TargetInputs
    <3> QED BY <2>1, <2>4, <3>1 DEF InputsTyped, DisplaysOfTarget
  <2> QED BY <2>2, <2>3, <2>4
<1>4. ASSUME NEW n \in 1..Len(foPending), NEW ok \in BOOLEAN, TypesArrived(n, ok)
      PROVE  InputsTyped' /\ DisplaysOfTarget'
  <2>1. foRaw' = foRaw /\ (foMixed => foMixed')
    BY <1>4 DEF TypesArrived
  <2>2. \/ foInput' = foInput /\ foDisplays' = foDisplays
        \/ \E target : foInput' = WithTarget(foInput, target, foTypes') /\ foDisplays' = {}
    BY <1>4 DEF TypesArrived
  <2>3. CASE foInput' = foInput /\ foDisplays' = foDisplays
    BY <2>1, <2>3 DEF InputsTyped, DisplaysOfTarget
  <2>4. ASSUME NEW target, foInput' = WithTarget(foInput, target, foTypes'), foDisplays' = {}
        PROVE  InputsTyped' /\ DisplaysOfTarget'
    <3>1. foInput' \in [Index -> Entry] /\ foInput'[Display] = ""
      BY <2>4, TargetInputs DEF InputsTyped
    <3> QED BY <2>1, <2>4, <3>1 DEF InputsTyped, DisplaysOfTarget
  <2> QED BY <2>2, <2>3, <2>4
<1>5. ASSUME NEW n \in 1..Len(foPending), NEW ok \in BOOLEAN, FieldsArrived(n, ok)
      PROVE  InputsTyped' /\ DisplaysOfTarget'
  <2> DEFINE a == foPending[n]
  <2>1. /\ foRaw' = foRaw
        /\ foDisplays' = foDisplays \cup
                           (IF ok /\ a.target \in TypeId THEN FieldsOf[a.target] ELSE {})
        /\ \/ foInput' = foInput
           \/ foInput' = [foInput EXCEPT ![Display] = Selected(a.slug, foDisplays')]
    BY <1>5 DEF FieldsArrived
  <2>2. ~foMixed' => ~foMixed /\ a.target = foInput[Target]
    BY <1>5, Zenon DEF FieldsArrived
  <2> HIDE DEF a
  <2>3. foDisplays' \subseteq Entry
    BY <2>1, EntryFacts DEF InputsTyped
  <2>4. Selected(a.slug, foDisplays') \in foDisplays' \cup {""}
    BY DEF Selected
  <2>5. /\ foInput' \in [Index -> Entry] /\ foInput'[Target] = foInput[Target]
        /\ foInput'[Display] = foInput[Display] \/ foInput'[Display] \in foDisplays' \cup {""}
    BY <2>1, <2>3, <2>4, EntryFacts, Dropdowns DEF InputsTyped
  <2>6. ASSUME foInput'[Target] # "", ~foMixed'
        PROVE  /\ foDisplays' \subseteq FieldsOf[foInput'[Target]]
               /\ foInput'[Display] \in FieldsOf[foInput'[Target]] \cup {""}
    BY <2>1, <2>2, <2>5, <2>6 DEF DisplaysOfTarget
  <2> QED BY <2>1, <2>3, <2>5, <2>6 DEF InputsTyped, DisplaysOfTarget
<1>6. ASSUME NEW i \in Index, NEW v \in Entry, EditInput(i, v)
      PROVE  InputsTyped' /\ DisplaysOfTarget'
  <2>1. /\ foInput' = [foInput EXCEPT ![i] = v] /\ i # Target /\ i # Display
        /\ UNCHANGED <<foRaw, foDisplays, foMixed>>
    BY <1>6 DEF EditInput
  <2>2. foInput' \in [Index -> Entry]
    BY <2>1 DEF InputsTyped
  <2>3. foInput'[Target] = foInput[Target] /\ foInput'[Display] = foInput[Display]
    BY <2>1, Dropdowns DEF InputsTyped
  <2> QED BY <2>1, <2>2, <2>3 DEF InputsTyped, DisplaysOfTarget
<1>7. ASSUME NEW t \in TypeId \cup {""}, ChooseTarget(t)
      PROVE  InputsTyped' /\ DisplaysOfTarget'
  <2>1. /\ foInput' = [foInput EXCEPT ![Target] = t, ![Display] = ""]
        /\ foDisplays' = {} /\ foRaw' = foRaw
    BY <1>7 DEF ChooseTarget
  <2>2. foInput' \in [Index -> Entry] /\ foInput'[Display] = ""
    BY <2>1, EntryFacts, Dropdowns DEF InputsTyped
  <2> QED BY <2>1, <2>2 DEF InputsTyped, DisplaysOfTarget
<1>8. ASSUME NEW s \in Entry, ChooseDisplay(s) PROVE InputsTyped' /\ DisplaysOfTarget'
  <2>1. /\ foInput' = [foInput EXCEPT ![Display] = s] /\ s \in foDisplays \cup {""}
        /\ UNCHANGED <<foRaw, foDisplays, foMixed>>
    BY <1>8 DEF ChooseDisplay
  <2>2. /\ foInput' \in [Index -> Entry]
        /\ foInput'[Target] = foInput[Target] /\ foInput'[Display] = s
    BY <2>1, Dropdowns DEF InputsTyped
  <2> QED BY <2>1, <2>2 DEF InputsTyped, DisplaysOfTarget
<1>9. ASSUME \/ \E c \in Choice : AddChoice(c)
             \/ \E n \in 1..Len(foChips) : RemoveChoice(n)
             \/ Cancel \/ UNCHANGED foVars
      PROVE  InputsTyped' /\ DisplaysOfTarget'
  <2>1. UNCHANGED <<foInput, foRaw, foDisplays, foMixed>>
    BY <1>9 DEF AddChoice, RemoveChoice, Cancel, foVars
  <2> QED BY <2>1 DEF InputsTyped, DisplaysOfTarget
<1>10. ASSUME Apply PROVE InputsTyped' /\ DisplaysOfTarget'
  <2>1. foRaw' = Serialized /\ UNCHANGED <<foInput, foDisplays, foMixed>>
    BY <1>10 DEF Apply
  <2>2. ASSUME NEW k \in Key PROVE Written(k) \in Entry
    <3>1. PICK i \in Index : Inputs[i].key = k
      BY DEF Key
    <3>2. First(k) \in Index
      BY <3>1, FirstInput
    <3> QED BY <3>2, EntryFacts DEF Written, InputsTyped
  <2>3. Serialized.data \in [Key -> Entry]
    BY <2>2, EntryFacts DEF Serialized, NoOptions
  <2> QED BY <2>1, <2>3 DEF InputsTyped, DisplaysOfTarget
<1>11. CASE FoNext
  <2>1. CASE \E n \in 1..Len(foPending), ok \in BOOLEAN : TypesArrived(n, ok) \/ FieldsArrived(n, ok)
    BY <1>4, <1>5, <2>1
  <2>2. CASE \E i \in Index, v \in Entry : EditInput(i, v)
    BY <1>6, <2>2
  <2> QED BY <1>1, <1>2, <1>3, <1>7, <1>8, <1>9, <1>10, <1>11, <2>1, <2>2 DEF FoNext
<1> QED BY <1>9, <1>11

-----------------------------------------------------------------------------
(* The options dialog: left untouched, it writes what it read. *)

RawTarget == foRaw.data["target_content_type_id"]
RawDisplay == foRaw.data["display_field_slug"]

NoneFresh == \A m \in 1..Len(foPending) : foPending[m].old

OneFresh(call) ==
  \E n \in 1..Len(foPending) :
    /\ foPending[n] = [call |-> call, target |-> RawTarget, slug |-> RawDisplay, old |-> FALSE]
    /\ \A m \in 1..Len(foPending) : m # n => foPending[m].old

\* A dialog neither edited nor disturbed holds what it was opened with: all of it, or
\* all but a relation's dropdowns, whose fetch is the only one of this opening.
Populating ==
  \/ /\ foType \notin Relations \/ RawTarget = ""
     /\ foInput = Populated /\ NoneFresh
  \/ /\ foType \in Relations
     /\ foInput = Populated /\ OneFresh("types")
  \/ /\ foType \in Relations /\ RawTarget # ""
     /\ foInput = WithTarget(Populated, RawTarget, TRUE)
     /\ foDisplays = {} /\ OneFresh("fields")
  \/ /\ foType \in Relations /\ RawTarget \in TypeId
     /\ foInput = [WithTarget(Populated, RawTarget, TRUE) EXCEPT
                     ![Display] = Selected(RawDisplay, FieldsOf[RawTarget])]
     /\ NoneFresh

Untouched ==
  foOpen /\ foClean /\ ~foLost /\ ~foMixed =>
    /\ foChips = IF foType \in Selects THEN foRaw.choices ELSE <<>>
    /\ Populating

\* The same for the keys.
LEMMA FirstOfKey ==
  ASSUME NEW k \in Key
  PROVE  First(k) \in Index /\ Inputs[First(k)].key = k /\ Inputs[First(k)].reset = ""
<1>1. PICK i \in Index : Inputs[i].key = k
  BY DEF Key
<1> QED BY <1>1, FirstInput

LEMMA FoTypeInit == FoInit => FoTypeOK
<1> SUFFICES ASSUME FoInit PROVE FoTypeOK
  OBVIOUS
<1>1. InputsTyped
  BY FoInvInit DEF FoInv
<1>2. foChips \in Seq(Choice) /\ foPending \in Seq(Fetch)
  BY EmptySeq DEF FoInit
<1>3. foRaw \in [data : [Key -> Entry], choices : Seq(Choice)]
  BY FieldOptionsAssumption DEF FieldOptionsAssumption, FoInit
<1> QED BY <1>1, <1>2, <1>3 DEF FoInit, FoTypeOK, InputsTyped

LEMMA FoTypeStep == FoInv /\ FoTypeOK /\ [FoNext]_foVars => FoTypeOK'
<1> SUFFICES ASSUME FoInv, FoTypeOK, [FoNext]_foVars PROVE FoTypeOK'
  OBVIOUS
<1> USE DEF foForm, foLists, foHistory
<1>0. /\ foInput' \in [Index -> Entry] /\ foDisplays' \subseteq Entry
      /\ foPending \in Seq(Fetch) /\ Len(foPending) \in Nat
      /\ foChips \in Seq(Choice) /\ foRaw \in [data : [Key -> Entry], choices : Seq(Choice)]
  BY FoInvStep, LenProperties DEF FoInv, InputsTyped, FoTypeOK
<1>f. \A target, slug \in Entry, old \in BOOLEAN : FieldsFetch(target, slug, old) \in Fetch
  BY DEF FieldsFetch, Fetch
<1>g. ASSUME NEW n \in 1..Len(foPending) PROVE foPending[n] \in Fetch
  BY <1>0, ElementOfSeq
\* Most steps touch none of the lists.
<1>1. ASSUME UNCHANGED <<foType, foRaw, foChips, foTypes, foPending>>, foOpen' \in BOOLEAN,
             foClean' \in BOOLEAN, foLost' \in BOOLEAN, foMixed' \in BOOLEAN
      PROVE  FoTypeOK'
  BY <1>0, <1>1 DEF FoTypeOK
<1>2. ASSUME NEW t \in Kind, ChangeType(t) PROVE FoTypeOK'
  BY <1>0, <1>2 DEF ChangeType, FoTypeOK
<1>3. ASSUME NEW r \in RawTexts, EditRaw(r) PROVE FoTypeOK'
  <2>1. r \in [data : [Key -> Entry], choices : Seq(Choice)]
    BY FieldOptionsAssumption DEF FieldOptionsAssumption
  <2> QED BY <1>0, <1>3, <2>1 DEF EditRaw, FoTypeOK
<1>4. ASSUME OpenModal PROVE FoTypeOK'
  <2> DEFINE earlier == [k \in 1..Len(foPending) |-> [foPending[k] EXCEPT !.old = TRUE]]
  <2>1. earlier \in Seq(Fetch)
    <3>1. ASSUME NEW k \in 1..Len(foPending) PROVE [foPending[k] EXCEPT !.old = TRUE] \in Fetch
      BY <1>g, <3>1 DEF Fetch
    <3> QED BY <1>0, <3>1, IsASeq
  <2> DEFINE target == foRaw.data["target_content_type_id"]
             slug == foRaw.data["display_field_slug"]
  <2>2. target \in Entry /\ slug \in Entry
    <3>1. "target_content_type_id" \in Key /\ "display_field_slug" \in Key
      BY Dropdowns DEF Key
    <3> QED BY <1>0, <3>1
  <2>3. \/ foPending' = earlier
        \/ foPending' = Append(earlier, [call |-> "types", target |-> target,
                                         slug |-> slug, old |-> FALSE])
        \/ foPending' = Append(earlier, FieldsFetch(target, slug, FALSE))
    BY <1>4 DEF OpenModal
  <2> HIDE DEF earlier, target, slug
  <2>4. /\ [call |-> "types", target |-> target, slug |-> slug, old |-> FALSE] \in Fetch
        /\ FieldsFetch(target, slug, FALSE) \in Fetch
    BY <2>2, <1>f DEF Fetch
  <2>5. foPending' \in Seq(Fetch)
    <3>1. \A f \in Fetch : Append(earlier, f) \in Seq(Fetch)
      BY <2>1, AppendProperties
    <3> QED BY <2>1, <2>3, <2>4, <3>1
  <2>6. foChips' \in Seq(Choice)
    BY <1>0, <1>4, EmptySeq DEF OpenModal
  <2>7. UNCHANGED <<foType, foRaw, foTypes>> /\ foOpen' \in BOOLEAN /\ foClean' \in BOOLEAN
        /\ foLost' \in BOOLEAN /\ foMixed' \in BOOLEAN
    BY <1>4 DEF OpenModal
  <2> QED BY <1>0, <2>5, <2>6, <2>7 DEF FoTypeOK
<1>5. ASSUME NEW n \in 1..Len(foPending), NEW ok \in BOOLEAN,
             TypesArrived(n, ok) \/ FieldsArrived(n, ok)
      PROVE  FoTypeOK'
  <2> DEFINE a == foPending[n]
  <2>1. a \in Fetch /\ a.target \in Entry /\ a.slug \in Entry /\ a.old \in BOOLEAN
    BY <1>g DEF Fetch
  <2>2. /\ \/ foPending' = RemoveAt(foPending, n)
           \/ foPending' = Append(RemoveAt(foPending, n), FieldsFetch(a.target, a.slug, a.old))
        /\ UNCHANGED <<foType, foRaw, foOpen, foChips, foClean>>
    BY <1>5 DEF TypesArrived, FieldsArrived
  <2>3. foTypes' \in BOOLEAN /\ foLost' \in BOOLEAN /\ foMixed' \in BOOLEAN
    <3>1. CASE TypesArrived(n, ok)
      BY <3>1 DEF TypesArrived, FoTypeOK
    <3>2. CASE FieldsArrived(n, ok)
      <4>1. foTypes' = foTypes /\ foLost' = (foLost \/ ~ok)
        BY <3>2 DEF FieldsArrived
      <4>2. foMixed' = (foMixed \/ a.old \/ a.target # foInput[Target])
        BY <3>2 DEF FieldsArrived
      <4> QED BY <4>1, <4>2 DEF FoTypeOK
    <3> QED BY <1>5, <3>1, <3>2
  <2> HIDE DEF a
  <2>4. foPending' \in Seq(Fetch)
    <3>1. RemoveAt(foPending, n) \in Seq(Fetch)
      BY <1>0, RemoveAtEntries
    <3>2. \A f \in Fetch : Append(RemoveAt(foPending, n), f) \in Seq(Fetch)
      BY <3>1, AppendProperties
    <3> QED BY <1>f, <2>1, <2>2, <3>1, <3>2
  <2> QED BY <1>0, <2>2, <2>3, <2>4 DEF FoTypeOK
<1>6. ASSUME NEW i \in Index, NEW v \in Entry, EditInput(i, v) PROVE FoTypeOK'
  <2>1. UNCHANGED <<foType, foRaw, foChips, foTypes, foPending, foOpen, foLost, foMixed>>
        /\ foClean' = FALSE
    BY <1>6 DEF EditInput
  <2> QED BY <1>1, <2>1 DEF FoTypeOK
<1>7. ASSUME NEW t \in TypeId \cup {""}, ChooseTarget(t) PROVE FoTypeOK'
  <2>1. \/ foPending' = foPending
        \/ foPending' = Append(foPending, FieldsFetch(t, "", FALSE))
    BY <1>7 DEF ChooseTarget
  <2>2. foPending' \in Seq(Fetch)
    <3>1. FieldsFetch(t, "", FALSE) \in Fetch
      BY <1>f, EntryFacts
    <3>2. \A f \in Fetch : Append(foPending, f) \in Seq(Fetch)
      BY <1>0, AppendProperties
    <3> QED BY <1>0, <2>1, <3>1, <3>2
  <2>3. UNCHANGED <<foType, foRaw, foChips, foTypes, foOpen, foLost, foMixed>>
        /\ foClean' = FALSE
    BY <1>7 DEF ChooseTarget
  <2> QED BY <1>0, <2>2, <2>3 DEF FoTypeOK
<1>8. ASSUME NEW s \in Entry, ChooseDisplay(s) PROVE FoTypeOK'
  <2>1. UNCHANGED <<foType, foRaw, foChips, foTypes, foPending, foOpen, foLost, foMixed>>
        /\ foClean' = FALSE
    BY <1>8 DEF ChooseDisplay
  <2> QED BY <1>1, <2>1 DEF FoTypeOK
<1>9. ASSUME foChips' \in Seq(Choice), foClean' = FALSE,
             UNCHANGED <<foType, foRaw, foTypes, foPending, foOpen, foLost, foMixed>>
      PROVE  FoTypeOK'
  BY <1>0, <1>9 DEF FoTypeOK
<1>10. ASSUME NEW c \in Choice, AddChoice(c) PROVE FoTypeOK'
  BY <1>0, <1>9, <1>10, AppendProperties DEF AddChoice
<1>11. ASSUME NEW n \in 1..Len(foChips), RemoveChoice(n) PROVE FoTypeOK'
  BY <1>0, <1>9, <1>11, RemoveAtEntries DEF RemoveChoice
<1>12. ASSUME Apply PROVE FoTypeOK'
  <2>1. foRaw' = Serialized /\ foRaw'.data \in [Key -> Entry]
    BY <1>12, FoInvStep DEF Apply, FoInv, InputsTyped
  <2>2. Serialized \in [data : [Key -> Entry], choices : Seq(Choice)]
    <3>1. Serialized = [data |-> Serialized.data, choices |-> Serialized.choices]
      BY DEF Serialized, NoOptions
    <3>2. Serialized.choices \in Seq(Choice)
      BY <1>0, EmptySeq DEF Serialized, NoOptions
    <3> QED BY <2>1, <3>1, <3>2
  <2> QED BY <1>0, <1>12, <2>1, <2>2 DEF Apply, FoTypeOK
<1>13. ASSUME Cancel \/ UNCHANGED foVars PROVE FoTypeOK'
  BY <1>1, <1>13 DEF Cancel, foVars, FoTypeOK
<1>14. CASE FoNext
  <2>1. CASE \E n \in 1..Len(foPending), ok \in BOOLEAN : TypesArrived(n, ok) \/ FieldsArrived(n, ok)
    BY <1>5, <2>1
  <2>2. CASE \E i \in Index, v \in Entry : EditInput(i, v)
    BY <1>6, <2>2
  <2> QED BY <1>2, <1>3, <1>4, <1>7, <1>8, <1>10, <1>11, <1>12, <1>13, <1>14, <2>1, <2>2 DEF FoNext
<1> QED BY <1>13, <1>14

LEMMA UntouchedStep == FoInv /\ FoTypeOK /\ Untouched /\ [FoNext]_foVars => Untouched'
<1> SUFFICES ASSUME FoInv, FoTypeOK, Untouched, [FoNext]_foVars,
                    foOpen', foClean', ~foLost', ~foMixed'
             PROVE  /\ foChips' = IF foType' \in Selects THEN foRaw'.choices ELSE <<>>
                    /\ Populating'
  BY DEF Untouched
<1> USE DEF foForm, foLists, foHistory
<1>0. /\ foPending \in Seq(Fetch) /\ Len(foPending) \in Nat
      /\ \A n \in 1..Len(foPending) : foPending[n] \in Fetch
  BY LenProperties, ElementOfSeq DEF FoTypeOK
\* What the dialog is opened with does not change while it is open.
<1>1. ASSUME UNCHANGED <<foType, foRaw>>
      PROVE  Populated' = Populated /\ RawTarget' = RawTarget /\ RawDisplay' = RawDisplay
  BY <1>1 DEF Populated, SetAtOnce, ValueSet, RawTarget, RawDisplay
<1>2. CASE OpenModal
  <2> DEFINE earlier == [k \in 1..Len(foPending) |-> [foPending[k] EXCEPT !.old = TRUE]]
  <2>1. /\ UNCHANGED <<foType, foRaw>>
        /\ foChips' = IF foType \in Selects THEN foRaw.choices ELSE <<>>
    BY <1>2 DEF OpenModal
  <2>2. earlier \in Seq(Fetch) /\ Len(earlier) = Len(foPending)
    <3>1. ASSUME NEW k \in 1..Len(foPending) PROVE [foPending[k] EXCEPT !.old = TRUE] \in Fetch
      BY <1>0, <3>1 DEF Fetch
    <3> QED BY <1>0, <3>1, IsASeq
  <2>3. \A m \in 1..Len(foPending) : earlier[m].old
    BY <1>0 DEF Fetch
  <2>4. \/ /\ foType \notin Relations \/ RawTarget = ""
           /\ foInput' = Populated /\ foPending' = earlier
        \/ /\ foType \in Relations
           /\ foInput' = Populated
           /\ foPending' = Append(earlier, [call |-> "types", target |-> RawTarget,
                                            slug |-> RawDisplay, old |-> FALSE])
        \/ /\ foType \in Relations /\ RawTarget # ""
           /\ foInput' = WithTarget(Populated, RawTarget, TRUE) /\ foDisplays' = {}
           /\ foPending' = Append(earlier, FieldsFetch(RawTarget, RawDisplay, FALSE))
    BY <1>2 DEF OpenModal, RawTarget, RawDisplay
  <2> HIDE DEF earlier
  <2>5. RawTarget \in Entry /\ RawDisplay \in Entry
    <3>1. "target_content_type_id" \in Key /\ "display_field_slug" \in Key
      BY Dropdowns DEF Key
    <3> QED BY <3>1 DEF RawTarget, RawDisplay, FoTypeOK
  <2>6. ASSUME NEW call \in {"types", "fields"},
               foPending' = Append(earlier, [call |-> call, target |-> RawTarget,
                                             slug |-> RawDisplay, old |-> FALSE])
        PROVE  OneFresh(call)'
    <3> DEFINE f == [call |-> call, target |-> RawTarget, slug |-> RawDisplay, old |-> FALSE]
               n == Len(foPending) + 1
    <3>1. f \in Fetch
      BY <2>5 DEF Fetch
    <3>2. foPending' = Append(earlier, f)
      BY <2>6
    <3>3. f' = f
      BY <1>1, <2>1
    <3> HIDE DEF f
    <3>4. /\ Len(foPending') = n /\ foPending'[n] = f
          /\ \A m \in 1..n : m # n => foPending'[m] = earlier[m] /\ m \in 1..Len(foPending)
      BY <1>0, <2>2, <3>1, <3>2, AppendProperties
    <3>5. n \in 1..n /\ \A m \in 1..n : m # n => foPending'[m].old
      BY <1>0, <2>3, <3>4
    <3>6. f = [call |-> call, target |-> RawTarget', slug |-> RawDisplay', old |-> FALSE]
      BY <1>1, <2>1 DEF f
    <3> HIDE DEF n
    <3> QED BY <3>4, <3>5, <3>6 DEF OneFresh
  <2>7. foPending' = earlier => NoneFresh'
    BY <2>2, <2>3 DEF NoneFresh
  <2>8. Populating'
    BY <1>1, <2>1, <2>4, <2>6, <2>7 DEF Populating, FieldsFetch, WithTarget
  <2> QED BY <2>1, <2>8
\* An answer taken up without a blame is the one to this opening.
<1>3. ASSUME NEW n \in 1..Len(foPending), NEW ok \in BOOLEAN,
             TypesArrived(n, ok) \/ FieldsArrived(n, ok)
      PROVE  /\ foChips' = IF foType' \in Selects THEN foRaw'.choices ELSE <<>>
             /\ Populating'
  <2> DEFINE a == foPending[n]
             left == RemoveAt(foPending, n)
  <2>1. /\ ok /\ ~a.old /\ UNCHANGED <<foType, foRaw, foOpen, foChips, foClean>>
        /\ foOpen /\ foClean /\ ~foLost /\ ~foMixed
    <3>1. CASE TypesArrived(n, ok)
      BY <3>1 DEF TypesArrived
    <3>2. CASE FieldsArrived(n, ok)
      <4>1. foMixed' = (foMixed \/ a.old \/ a.target # foInput[Target])
        BY <3>2, Zenon DEF FieldsArrived
      <4>2. ~foMixed /\ ~a.old
        BY <4>1
      <4> QED BY <3>2, <4>2 DEF FieldsArrived
    <3> QED BY <1>3, <3>1, <3>2
  <2>2. Populating /\ foChips = IF foType \in Selects THEN foRaw.choices ELSE <<>>
    BY <2>1 DEF Untouched
  <2>3. ~NoneFresh
    BY <2>1 DEF NoneFresh
  <2>4. \A call \in {"types", "fields"} : OneFresh(call) =>
          /\ a.call = call /\ a.target = RawTarget /\ a.slug = RawDisplay
          /\ \A m \in 1..Len(foPending) : m # n => foPending[m].old
    BY <2>1 DEF OneFresh
  <2>5. /\ left \in Seq(Fetch) /\ Len(left) = Len(foPending) - 1
        /\ \A k \in 1..Len(foPending) - 1 :
             left[k] = IF k < n THEN foPending[k] ELSE foPending[k + 1]
    BY <1>0, RemoveAtEntries
  <2>6. ASSUME NEW call \in {"types", "fields"}, OneFresh(call) PROVE \A k \in 1..Len(left) : left[k].old
    <3> SUFFICES ASSUME NEW k \in 1..Len(foPending) - 1 PROVE left[k].old
      BY <2>5
    <3>1. CASE k < n
      <4>1. k \in 1..Len(foPending) /\ k # n /\ left[k] = foPending[k]
        BY <1>0, <2>5, <3>1
      <4> QED BY <2>4, <2>6, <4>1
    <3>2. CASE ~(k < n)
      <4>1. k + 1 \in 1..Len(foPending) /\ k + 1 # n /\ left[k] = foPending[k + 1]
        BY <1>0, <2>5, <3>2
      <4> QED BY <2>4, <2>6, <4>1
    <3> QED BY <3>1, <3>2
  <2>7. CASE TypesArrived(n, ok)
    <3>1. a.call = "types" /\ a.target \in Entry /\ a.slug \in Entry
      BY <1>0, <2>7 DEF TypesArrived, Fetch
    <3>2. foType \in Relations /\ foInput = Populated /\ OneFresh("types")
      <4>1. ~OneFresh("fields")
        BY <2>4, <3>1
      <4> QED BY <2>2, <2>3, <4>1 DEF Populating
    <3>3. a.target = RawTarget /\ a.slug = RawDisplay /\ a.old = FALSE
      BY <1>0, <2>1, <2>4, <3>2 DEF Fetch
    <3>4. CASE RawTarget = ""
      <4>1. foPending' = left /\ foInput' = foInput
        BY <2>7, <3>3, <3>4 DEF TypesArrived
      <4>2. NoneFresh'
        BY <2>6, <3>2, <4>1 DEF NoneFresh
      <4> QED BY <1>1, <2>1, <2>2, <3>2, <3>4, <4>1, <4>2 DEF Populating
    <3>5. CASE RawTarget # ""
      <4>1. /\ foPending' = Append(left, FieldsFetch(RawTarget, RawDisplay, FALSE))
            /\ foInput' = WithTarget(Populated, RawTarget, TRUE) /\ foDisplays' = {}
        <5>1. foTypes' = (foTypes \/ ok)
          BY <2>7 DEF TypesArrived
        <5>2. foTypes' = TRUE
          BY <2>1, <5>1
        <5> QED BY <2>7, <3>2, <3>3, <3>5, <5>2 DEF TypesArrived
      <4>2. OneFresh("fields")'
        <5> DEFINE f == FieldsFetch(RawTarget, RawDisplay, FALSE)
                   l == Len(left) + 1
        <5>1. f \in Fetch
          BY <3>1, <3>3 DEF FieldsFetch, Fetch
        <5>2. f = [call |-> "fields", target |-> RawTarget', slug |-> RawDisplay', old |-> FALSE]
          BY <1>1, <2>1 DEF FieldsFetch
        <5>5. foPending' = Append(left, f) /\ left \in Seq(Fetch) /\ Len(left) \in Nat
          BY <2>5, <4>1, LenProperties
        <5> HIDE DEF f, left
        <5>3. /\ Len(foPending') = l /\ foPending'[l] = f
              /\ \A m \in 1..l : m # l => foPending'[m] = left[m] /\ m \in 1..Len(left)
          BY <5>1, <5>5, AppendProperties
        <5>4. l \in 1..l /\ \A m \in 1..l : m # l => foPending'[m].old
          BY <2>6, <3>2, <5>3, <5>5
        <5> HIDE DEF l
        <5> QED BY <5>2, <5>3, <5>4 DEF OneFresh
      <4> QED BY <1>1, <2>1, <2>2, <3>2, <3>5, <4>1, <4>2 DEF Populating, WithTarget
    <3> QED BY <3>4, <3>5
  <2>8. CASE FieldsArrived(n, ok)
    <3>1. a.call = "fields"
      BY <2>8 DEF FieldsArrived
    <3>2. /\ foType \in Relations /\ RawTarget # ""
          /\ foInput = WithTarget(Populated, RawTarget, TRUE)
          /\ foDisplays = {} /\ OneFresh("fields")
      <4>1. ~OneFresh("types")
        BY <2>4, <3>1
      <4> QED BY <2>2, <2>3, <4>1 DEF Populating
    <3>3. a.target = RawTarget /\ a.slug = RawDisplay
      BY <2>4, <3>2
    <3>4. a.target = foInput[Target]
      <4>1. foMixed' = (foMixed \/ a.old \/ a.target # foInput[Target])
        BY <2>8, Zenon DEF FieldsArrived
      <4> QED BY <4>1
    <3>5. RawTarget \in TypeId
      <4>1. Populated \in [Index -> Entry]
        BY PopulatedInputs DEF FoInv
      <4>2. foInput[Target] = Selected(RawTarget, TypeId)
        BY <3>2, <4>1, Dropdowns DEF WithTarget
      <4> QED BY <3>2, <3>3, <3>4, <4>2 DEF Selected
    <3>6. /\ foPending' = left /\ foDisplays' = FieldsOf[RawTarget]
          /\ foInput' = IF RawDisplay = "" THEN foInput
                        ELSE [foInput EXCEPT ![Display] = Selected(RawDisplay, foDisplays')]
      <4>1. foDisplays' = foDisplays \cup (IF ok /\ a.target \in TypeId THEN FieldsOf[a.target]
                                           ELSE {})
        BY <2>8 DEF FieldsArrived
      <4> QED BY <2>1, <2>8, <3>2, <3>3, <3>5, <4>1 DEF FieldsArrived
    <3>7. foInput' = [foInput EXCEPT ![Display] = Selected(RawDisplay, FieldsOf[RawTarget])]
      <4>1. CASE RawDisplay = ""
        <5>1. Populated \in [Index -> Entry]
          BY PopulatedInputs DEF FoInv
        <5>2. foInput \in [Index -> Entry] /\ foInput[Display] = ""
          BY <3>2, <5>1, TargetInputs
        <5>3. Selected(RawDisplay, FieldsOf[RawTarget]) = ""
          BY <4>1 DEF Selected
        <5> QED BY <3>6, <4>1, <5>2, <5>3
      <4>2. CASE RawDisplay # ""
        BY <3>6, <4>2
      <4> QED BY <4>1, <4>2
    <3>8. NoneFresh'
      BY <2>6, <3>2, <3>6 DEF NoneFresh
    <3>9. WithTarget(Populated, RawTarget, TRUE)' = WithTarget(Populated, RawTarget, TRUE)
      BY <1>1, <2>1 DEF WithTarget
    <3> QED BY <1>1, <2>1, <2>2, <3>2, <3>5, <3>7, <3>8, <3>9 DEF Populating
  <2> QED BY <1>3, <2>7, <2>8
\* Every other step edits, closes or does nothing.
<1>4. ASSUME NEW i \in Index, NEW v \in Entry PROVE ~EditInput(i, v)
  BY DEF EditInput
<1>5. /\ \A t \in Kind : ~ChangeType(t)
      /\ \A r \in RawTexts : ~EditRaw(r)
      /\ \A t \in TypeId \cup {""} : ~ChooseTarget(t)
      /\ \A s \in Entry : ~ChooseDisplay(s)
      /\ \A c \in Choice : ~AddChoice(c)
      /\ \A n \in 1..Len(foChips) : ~RemoveChoice(n)
      /\ ~Apply /\ ~Cancel
  BY DEF ChangeType, EditRaw, ChooseTarget, ChooseDisplay, AddChoice, RemoveChoice, Apply,
         Cancel
<1>6. CASE UNCHANGED foVars
  <2>1. Untouched' <=> Untouched
    BY <1>6, <1>1 DEF foVars, Untouched, Populating, NoneFresh, OneFresh, WithTarget
  <2> QED BY <1>6, <2>1 DEF foVars, Untouched
<1>7. CASE FoNext
  BY <1>2, <1>3, <1>4, <1>5, <1>7, Zenon DEF FoNext
<1> QED BY <1>6, <1>7

\* Only the stars are an input of a Rating.
LEMMA RatingKeys == KeysOf("Rating") = {"max"}
<1>1. /\ "Rating" \notin Inputs[1].types /\ "Rating" \notin Inputs[2].types
      /\ "Rating" \notin Inputs[3].types /\ "Rating" \notin Inputs[4].types
      /\ "Rating" \notin Inputs[5].types /\ "Rating" \notin Inputs[6].types
      /\ "Rating" \in Inputs[7].types
      /\ "Rating" \notin Inputs[8].types /\ "Rating" \notin Inputs[9].types
      /\ "Rating" \notin Inputs[10].types /\ "Rating" \notin Inputs[11].types
      /\ "Rating" \notin Inputs[12].types /\ "Rating" \notin Inputs[13].types
      /\ "Rating" \notin Inputs[14].types
  BY DEF Inputs
<1>2. \A i \in Index : "Rating" \in Inputs[i].types <=> i = 7
  BY <1>1, InputPlaces, Fourteen
<1>3. 7 \in Index /\ Inputs[7].key = "max"
  <2>1. 7 \in 1..14
    OBVIOUS
  <2>2. 7 \in Index
    BY <2>1, InputPlaces
  <2> QED BY <2>2, InputKeys
<1> QED BY <1>2, <1>3 DEF KeysOf

\* What a sound value is read into is what it is.
LEMMA PopulatedValues ==
  ASSUME FoTypeOK, Sound(foRaw, foType), NEW k \in SetAtOnce
  PROVE  k \in Key /\ Populated[First(k)] = foRaw.data[k]
<1>1. k \in KeysOf(foType) /\ k \in Key
  BY DEF SetAtOnce, KeysOf, Key
<1>2. ValueSet(k) = foRaw.data[k]
  <2>1. CASE foType = "Rating"
    <3>1. k = "max" /\ foRaw.data[k] # ""
      BY <1>1, <2>1, RatingKeys DEF Sound
    <3> QED BY <3>1 DEF ValueSet
  <2>2. CASE foType # "Rating"
    BY <2>2 DEF ValueSet
  <2> QED BY <2>1, <2>2
<1>3. First(k) \in Index /\ Inputs[First(k)].key = k /\ Inputs[First(k)].reset = ""
  BY <1>1, FirstOfKey
<1>4. Populated[First(k)] = IF ValueSet(k) # "" THEN ValueSet(k) ELSE ""
  BY <1>3 DEF Populated
<1> QED BY <1>1, <1>2, <1>4

LEMMA AppliedUntouched ==
  ASSUME FoInv, FoTypeOK, Untouched, foOpen, foClean, foPending = <<>>, ~foLost, ~foMixed,
         Sound(foRaw, foType)
  PROVE  Serialized = foRaw
<1>1. Len(foPending) = 0
  BY EmptySeq
<1>2. /\ foChips = IF foType \in Selects THEN foRaw.choices ELSE <<>>
      /\ \/ (foType \notin Relations \/ RawTarget = "") /\ foInput = Populated
         \/ /\ foType \in Relations /\ RawTarget \in TypeId
            /\ foInput = [WithTarget(Populated, RawTarget, TRUE) EXCEPT
                            ![Display] = Selected(RawDisplay, FieldsOf[RawTarget])]
  <2>1. ~OneFresh("types") /\ ~OneFresh("fields")
    BY <1>1 DEF OneFresh
  <2>2. Populating /\ foChips = IF foType \in Selects THEN foRaw.choices ELSE <<>>
    BY DEF Untouched
  <2> QED BY <2>1, <2>2 DEF Populating
<1>3. foRaw \in [data : [Key -> Entry], choices : Seq(Choice)]
  BY DEF FoTypeOK
<1>4. /\ Populated \in [Index -> Entry] /\ Populated[Target] = ""
      /\ "target_content_type_id" \in Key /\ "display_field_slug" \in Key
  BY PopulatedInputs, Dropdowns DEF FoInv, Key
<1>5. foRaw.choices = IF foType \in Selects THEN foChips ELSE <<>>
  BY <1>2 DEF Sound
<1>6. CASE foType \in Relations /\ RawTarget = ""
  <2>1. foRaw = NoOptions
    BY <1>6, FieldOptionsAssumption DEF FieldOptionsAssumption, Sound, RawTarget
  <2>2. foInput = Populated
    BY <1>2, <1>6, FieldOptionsAssumption DEF FieldOptionsAssumption
  <2> QED BY <1>4, <1>6, <2>1, <2>2 DEF Serialized
<1>7. CASE ~(foType \in Relations /\ RawTarget = "")
  <2>1. foType \in Relations => RawTarget \in TypeId /\ RawTarget # ""
    BY <1>2, <1>7, FieldOptionsAssumption DEF FieldOptionsAssumption
  <2>2. foType \in Relations =>
          /\ foInput = [WithTarget(Populated, RawTarget, TRUE) EXCEPT
                          ![Display] = Selected(RawDisplay, FieldsOf[RawTarget])]
          /\ foInput[Target] = RawTarget
          /\ foInput[Display] = Selected(RawDisplay, FieldsOf[RawTarget])
          /\ \A i \in Index \ {Target, Display} : foInput[i] = Populated[i]
    <3> SUFFICES ASSUME foType \in Relations
                 PROVE  /\ foInput = [WithTarget(Populated, RawTarget, TRUE) EXCEPT
                                        ![Display] = Selected(RawDisplay, FieldsOf[RawTarget])]
                        /\ foInput[Target] = RawTarget
                        /\ foInput[Display] = Selected(RawDisplay, FieldsOf[RawTarget])
                        /\ \A i \in Index \ {Target, Display} : foInput[i] = Populated[i]
      OBVIOUS
    <3>1. foInput = [WithTarget(Populated, RawTarget, TRUE) EXCEPT
                       ![Display] = Selected(RawDisplay, FieldsOf[RawTarget])]
      BY <1>2, <1>7
    <3>2. Selected(RawTarget, TypeId) = RawTarget
      BY <2>1 DEF Selected
    <3>3. WithTarget(Populated, RawTarget, TRUE) =
            [Populated EXCEPT ![Target] = RawTarget, ![Display] = ""]
      BY <3>2 DEF WithTarget
    <3> QED BY <1>4, <3>1, <3>3, Dropdowns
  <2>3. ASSUME NEW k \in KeysOf(foType) PROVE k \in Key /\ foInput[First(k)] = foRaw.data[k]
    <3>1. CASE k \in SetAtOnce
      <4>1. k \in Key /\ Populated[First(k)] = foRaw.data[k]
        BY <3>1, PopulatedValues
      <4>2. First(k) \in Index /\ Inputs[First(k)].key = k
        BY <4>1, FirstOfKey
      <4>3. CASE foType \in Relations
        <5>1. k # "target_content_type_id" /\ k # "display_field_slug"
          BY <3>1, <4>3 DEF SetAtOnce
        <5>2. First(k) # Target /\ First(k) # Display
          BY <4>2, <5>1, Dropdowns
        <5> QED BY <2>2, <4>1, <4>2, <4>3, <5>2
      <4>4. CASE foType \notin Relations
        BY <1>2, <4>1, <4>4
      <4> QED BY <4>3, <4>4
    <3>2. CASE k \notin SetAtOnce
      <4>1. foType \in Relations /\ k \in {"target_content_type_id", "display_field_slug"}
        BY <2>3, <3>2 DEF SetAtOnce
      <4>2. CASE k = "target_content_type_id"
        <5>1. First(k) = Target /\ foRaw.data[k] = RawTarget
          BY <4>2 DEF Target, RawTarget
        <5> QED BY <1>4, <2>2, <4>1, <4>2, <5>1
      <4>3. CASE k = "display_field_slug"
        <5>1. First(k) = Display /\ foRaw.data[k] = RawDisplay
          BY <4>3 DEF Display, RawDisplay
        <5>2. foRaw # NoOptions
          <6>1. NoOptions.data["target_content_type_id"] = ""
            BY <1>4 DEF NoOptions
          <6> QED BY <2>1, <4>1, <6>1 DEF RawTarget
        <5>3. RawDisplay \in FieldsOf[RawTarget] \cup {""}
          BY <4>1, <5>2 DEF Sound, RawTarget, RawDisplay
        <5>4. Selected(RawDisplay, FieldsOf[RawTarget]) = RawDisplay
          BY <5>3 DEF Selected
        <5> QED BY <1>4, <2>2, <4>1, <4>3, <5>1, <5>4
      <4> QED BY <4>1, <4>2, <4>3
    <3> QED BY <3>1, <3>2
  <2>4. ASSUME NEW k \in KeysOf(foType) PROVE Written(k) = foRaw.data[k]
    <3>1. Norm[foInput[First(k)]] = foRaw.data[k]
      BY <2>3 DEF Sound
    <3>2. foType = "Rating" => foRaw.data[k] # ""
      BY RatingKeys DEF Sound
    <3> QED BY <3>1, <3>2 DEF Written
  <2>5. \A k \in Key : k \notin KeysOf(foType) => foRaw.data[k] = ""
    BY DEF Sound
  <2>6. foRaw.data = [k \in Key |-> IF k \in KeysOf(foType) THEN Written(k) ELSE ""]
    BY <1>3, <2>4, <2>5
  <2>7. ~(foType \in Relations /\ foInput[Target] = "")
    BY <2>1, <2>2
  <2> QED BY <1>3, <1>5, <2>6, <2>7 DEF Serialized
<1> QED BY <1>6, <1>7

LEMMA KeptStep ==
  ASSUME FoInv, FoTypeOK, Untouched, [FoNext]_foVars,
         foOpen, foClean, foPending = <<>>, ~foLost, ~foMixed, Sound(foRaw, foType)
  PROVE  foRaw' = foRaw
<1> USE DEF foForm, foLists
<1>1. CASE Apply
  BY <1>1, AppliedUntouched DEF Apply
<1>2. \A r \in RawTexts : ~EditRaw(r)
  BY DEF EditRaw
<1>3. ASSUME \/ \E t \in Kind : ChangeType(t)
             \/ OpenModal \/ Cancel \/ UNCHANGED foVars
             \/ \E n \in 1..Len(foPending), ok \in BOOLEAN :
                  TypesArrived(n, ok) \/ FieldsArrived(n, ok)
             \/ \E i \in Index, v \in Entry : EditInput(i, v)
             \/ \E t \in TypeId \cup {""} : ChooseTarget(t)
             \/ \E s \in Entry : ChooseDisplay(s)
             \/ \E c \in Choice : AddChoice(c)
             \/ \E n \in 1..Len(foChips) : RemoveChoice(n)
      PROVE  foRaw' = foRaw
  BY <1>3 DEF ChangeType, OpenModal, Cancel, foVars, TypesArrived, FieldsArrived, EditInput,
              ChooseTarget, ChooseDisplay, AddChoice, RemoveChoice
<1> QED BY <1>1, <1>2, <1>3, Zenon DEF FoNext

-----------------------------------------------------------------------------
(* Reordering the fields: the order they are listed in. *)

LEMMA MovedIds ==
  ASSUME NEW S, NEW s \in Seq(S), IsInjective(s), NEW i \in 1..Len(s), NEW j \in 1..Len(s)
  PROVE  /\ Moved(s, i, j) \in Seq(S) /\ IsInjective(Moved(s, i, j))
         /\ ToSet(Moved(s, i, j)) = ToSet(s)
<1> DEFINE r == RemoveAt(s, i)
<1>1. /\ r \in Seq(S) /\ Len(r) = Len(s) - 1 /\ IsInjective(r)
      /\ ToSet(r) = ToSet(s) \ {s[i]}
  BY RemoveAtEntries, RemoveAtIds
<1>2. s[i] \in S /\ s[i] \in ToSet(s) /\ Len(s) \in Nat
  BY IdsInS, ElementOfSeq, LenProperties
<1> HIDE DEF r
<1>3. j \in 1..Len(r) + 1 /\ s[i] \notin ToSet(r)
  BY <1>1, <1>2
<1>4. PICK e \in S : e = s[i]
  BY <1>2
<1>5. /\ InsertAt(r, j, e) \in Seq(S)
      /\ ToSet(InsertAt(r, j, e)) = ToSet(r) \cup {e}
      /\ IsInjective(r) /\ e \notin ToSet(r) => IsInjective(InsertAt(r, j, e))
  BY <1>1, <1>3, InsertAtIds
<1> QED BY <1>1, <1>2, <1>3, <1>4, <1>5 DEF Moved, r

\* ORDER BY sort_order, id: of two fields one comes first.
SortOrder(sort, live) == {p \in live \X live : Before(sort, p[1], p[2])}

LEMMA SortOrders ==
  ASSUME NEW sort \in Seq(Nat), NEW live \in SUBSET DOMAIN sort
  PROVE  IsFiniteSet(live) /\ Orders(SortOrder(sort, live), live)
<1>1. DOMAIN sort = 1..Len(sort) /\ Len(sort) \in Nat /\ \A f \in live : f \in Nat /\ sort[f] \in Nat
  BY LenProperties, ElementOfSeq
<1>2. IsFiniteSet(live)
  <2>1. Len(sort) \in Int /\ 1 \in Int
    BY <1>1
  <2>2. IsFiniteSet(1..Len(sort))
    BY <2>1, FS_Interval
  <2> QED BY <1>1, <2>2, FS_Subset
<1>3. \A a, b \in live : <<a, b>> \in SortOrder(sort, live) <=> Before(sort, a, b)
  BY DEF SortOrder
<1>4. \A a, b \in live : a = b \/ Before(sort, a, b) \/ Before(sort, b, a)
  BY <1>1 DEF Before
<1>5. \A a, b \in live : Before(sort, a, b) => ~Before(sort, b, a)
  BY <1>1 DEF Before
<1>6. \A a, b, c \in live : Before(sort, a, b) /\ Before(sort, b, c) => Before(sort, a, c)
  BY <1>1 DEF Before
<1> HIDE DEF SortOrder
<1> QED BY <1>2, <1>3, <1>4, <1>5, <1>6 DEF Orders

\* What Listed lists: each field once, and in order.
LEMMA ListedInOrder ==
  ASSUME NEW sort \in Seq(Nat), NEW live \in SUBSET DOMAIN sort
  PROVE  InOrder(Listed(sort, live), live, SortOrder(sort, live))
<1> DEFINE n == Cardinality(live)
           Good(s) == \A i, j \in DOMAIN s : i < j => Before(sort, s[i], s[j])
<1>1. PICK s : InOrder(s, live, SortOrder(sort, live))
  BY SortOrders, OrderExists
<1>2. s \in [1..n -> live] /\ Good(s)
  BY <1>1 DEF InOrder, SortOrder
<1>3. Listed(sort, live) = CHOOSE t \in [1..n -> live] : Good(t)
  BY DEF Listed
<1> HIDE DEF Good
<1>4. Listed(sort, live) \in [1..n -> live] /\ Good(Listed(sort, live))
  BY <1>2, <1>3
<1> DEFINE t == Listed(sort, live)
<1> HIDE DEF t
<1>5. t \in [1..n -> live] /\ \A i, j \in 1..n : i < j => Before(sort, t[i], t[j])
  BY <1>4 DEF Good, t
<1>6. \A i, j \in 1..n : i < j => <<t[i], t[j]>> \in SortOrder(sort, live)
  BY <1>5 DEF SortOrder
<1>7. InOrder(t, live, SortOrder(sort, live))
  BY <1>5, <1>6 DEF InOrder
<1> QED BY <1>7 DEF t

LEMMA ListedFields ==
  ASSUME NEW sort \in Seq(Nat), NEW live \in SUBSET DOMAIN sort
  PROVE  /\ Listed(sort, live) \in Seq(live) /\ IsInjective(Listed(sort, live))
         /\ ToSet(Listed(sort, live)) = live
BY SortOrders, ListedInOrder, OrderLists

\* Fields whose sort orders are their places in a list are listed as that list has them.
LEMMA ListedAsSent ==
  ASSUME NEW sort \in Seq(Nat), NEW s \in Seq(DOMAIN sort), IsInjective(s),
         \A i \in 1..Len(s) : sort[s[i]] = i - 1
  PROVE  Listed(sort, ToSet(s)) = s
<1> DEFINE live == ToSet(s)
<1>1. live \in SUBSET DOMAIN sort /\ Len(s) \in Nat
  BY IdsInS, LenProperties
<1>2. Cardinality(live) = Len(s) /\ s \in [1..Len(s) -> live]
  BY IdsCounted
<1> HIDE DEF live
<1>3. ASSUME NEW i \in 1..Len(s), NEW j \in 1..Len(s), i < j
      PROVE  <<s[i], s[j]>> \in SortOrder(sort, live)
  <2>1. s[i] \in live /\ s[j] \in live /\ sort[s[i]] = i - 1 /\ sort[s[j]] = j - 1
    BY <1>2
  <2>2. i - 1 < j - 1
    BY <1>1, <1>3
  <2>3. Before(sort, s[i], s[j])
    BY <2>1, <2>2 DEF Before
  <2> QED BY <2>1, <2>3 DEF SortOrder
<1>4. InOrder(s, live, SortOrder(sort, live))
  BY <1>2, <1>3 DEF InOrder
<1>5. Listed(sort, live) = s
  BY <1>1, <1>4, SortOrders, ListedInOrder, OrderUnique
<1> QED BY <1>5 DEF live

-----------------------------------------------------------------------------
(* Reordering the fields. *)

Patch == [ids : Seq(DOMAIN fbSort), late : BOOLEAN]

\* While nothing parted the page from the server it shows the fields there are, and the
\* last order under way, unless a younger one was stored, is the one shown.
FbInv ==
  /\ FbTypeOK
  /\ fbPatches \in Seq(Patch)
  /\ fbBlame = {} => ToSet(fbList) = fbLive
  /\ fbBlame = {} /\ fbPatches # <<>> =>
       fbPatches[Len(fbPatches)].late \/ fbPatches[Len(fbPatches)].ids = fbList
  /\ OrderAsShown

LEMMA FbInvInit == FbInit => FbInv
<1> SUFFICES ASSUME FbInit PROVE FbInv
  OBVIOUS
<1>1. /\ fbSort = [f \in 1..2 |-> f - 1] /\ fbLive = 1..2
      /\ fbList = Listed(fbSort, fbLive) /\ fbPatches = <<>> /\ fbBlame = {}
  BY DEF FbInit
<1>2. fbSort \in Seq(Nat) /\ DOMAIN fbSort = 1..2
  <2>1. \A f \in 1..2 : f - 1 \in Nat
    OBVIOUS
  <2>2. fbSort \in [1..2 -> Nat]
    BY <1>1, <2>1
  <2> QED BY <2>2, SeqDef
<1>3. /\ fbList \in Seq(fbLive) /\ IsInjective(fbList) /\ ToSet(fbList) = fbLive
  BY <1>1, <1>2, ListedFields
<1>4. fbPatches \in Seq(Patch) /\ DOMAIN fbPatches = {}
  BY <1>1, EmptySeq
<1>5. FbTypeOK
  BY <1>1, <1>2, <1>3, <1>4 DEF FbTypeOK
<1> QED BY <1>1, <1>3, <1>4, <1>5 DEF FbInv, OrderAsShown

\* The orders under way once the k-th was stored: those sent before it are late.
LEMMA LaterEntries ==
  ASSUME fbPatches \in Seq(Patch), NEW k \in 1..Len(fbPatches), NEW r,
         r = RemoveAt([n \in 1..Len(fbPatches) |->
                         [fbPatches[n] EXCEPT !.late = @ \/ n < k]], k)
  PROVE  /\ r \in Seq(Patch) /\ Len(r) = Len(fbPatches) - 1
         /\ r # <<>> =>
              \/ r[Len(r)].late
              \/ k # Len(fbPatches) /\ r[Len(r)] = fbPatches[Len(fbPatches)]
<1> DEFINE m == Len(fbPatches)
           F == [n \in 1..m |-> [fbPatches[n] EXCEPT !.late = @ \/ n < k]]
<1>1. m \in Nat /\ k \in 1..m /\ \A n \in 1..m : fbPatches[n] \in Patch
  BY LenProperties, ElementOfSeq
<1>2. ASSUME NEW n \in 1..m
      PROVE  /\ [fbPatches[n] EXCEPT !.late = @ \/ n < k] \in Patch
             /\ n < k => [fbPatches[n] EXCEPT !.late = @ \/ n < k].late
             /\ ~(n < k) => [fbPatches[n] EXCEPT !.late = @ \/ n < k] = fbPatches[n]
  <2>1. PICK s \in Seq(DOMAIN fbSort), b \in BOOLEAN : fbPatches[n] = [ids |-> s, late |-> b]
    BY <1>1 DEF Patch
  <2>2. [fbPatches[n] EXCEPT !.late = @ \/ n < k] = [ids |-> s, late |-> b \/ n < k]
    BY <2>1
  <2>3. (b \/ n < k) \in BOOLEAN
    OBVIOUS
  <2>4. [fbPatches[n] EXCEPT !.late = @ \/ n < k] \in Patch
    BY <2>2, <2>3 DEF Patch
  <2>5. n < k => (b \/ n < k) = TRUE
    OBVIOUS
  <2>6. ~(n < k) => (b \/ n < k) = b
    OBVIOUS
  <2> QED BY <2>1, <2>2, <2>4, <2>5, <2>6
<1>3. F \in Seq(Patch) /\ Len(F) = m
  <2>1. m \in Nat /\ \A n \in 1..m : [fbPatches[n] EXCEPT !.late = @ \/ n < k] \in Patch
    BY <1>1, <1>2
  <2> QED BY <2>1, IsASeq
<1>7. \A n \in 1..m : (n < k => F[n].late) /\ (~(n < k) => F[n] = fbPatches[n])
  BY <1>2
<1>4. r = RemoveAt(F, k)
  OBVIOUS
<1> HIDE DEF F, m
<1>5. /\ r \in Seq(Patch) /\ Len(r) = m - 1
      /\ \A n \in 1..m - 1 : r[n] = IF n < k THEN F[n] ELSE F[n + 1]
  <2>1. k \in 1..Len(F)
    BY <1>1, <1>3
  <2>2. /\ RemoveAt(F, k) \in Seq(Patch) /\ Len(RemoveAt(F, k)) = Len(F) - 1
        /\ \A n \in 1..Len(F) - 1 :
             RemoveAt(F, k)[n] = IF n < k THEN F[n] ELSE F[n + 1]
    BY <1>3, <2>1, RemoveAtEntries
  <2> QED BY <1>3, <1>4, <2>2
<1>6. ASSUME r # <<>>
      PROVE  r[m - 1].late \/ (k # m /\ r[m - 1] = fbPatches[m])
  <2>1. m - 1 \in 1..m - 1 /\ m - 1 \in 1..m /\ m \in 1..m /\ (m - 1) + 1 = m
    <3>1. m - 1 # 0
      BY <1>5, <1>6, EmptySeq
    <3> QED BY <1>1, <3>1
  <2>2. CASE m - 1 < k
    <3>1. r[m - 1] = F[m - 1]
      BY <1>5, <2>1, <2>2
    <3> QED BY <1>7, <2>1, <2>2, <3>1
  <2>3. CASE ~(m - 1 < k)
    <3>1. k # m /\ ~(m < k)
      BY <1>1, <2>3
    <3>2. r[m - 1] = F[m]
      BY <1>5, <2>1, <2>3
    <3>3. F[m] = fbPatches[m]
      BY <1>7, <2>1, <3>1
    <3> QED BY <3>1, <3>2, <3>3
  <2> QED BY <2>2, <2>3
<1> QED BY <1>5, <1>6 DEF m

\* The field appended comes after the others.
LEMMA NextSortNat == fbSort \in Seq(Nat) /\ fbLive \in SUBSET DOMAIN fbSort => NextSort \in Nat
<1> SUFFICES ASSUME fbSort \in Seq(Nat), fbLive \in SUBSET DOMAIN fbSort, fbLive # {}
             PROVE  NextSort \in Nat
  BY DEF NextSort
<1> DEFINE n == Cardinality(fbLive)
           s == Listed(fbSort, fbLive)
<1>1. IsFiniteSet(fbLive) /\ \A f \in fbLive : fbSort[f] \in Nat
  BY SortOrders, LenProperties, ElementOfSeq
<1>2. n \in Nat /\ n # 0
  BY <1>1, FS_CardinalityType, FS_EmptySet
<1>3. /\ s \in [1..n -> fbLive]
      /\ \A i, j \in 1..n : i < j => <<s[i], s[j]>> \in SortOrder(fbSort, fbLive)
  BY ListedInOrder DEF InOrder
<1>4. \A x \in fbLive : \E i \in 1..n : s[i] = x
  BY SortOrders, ListedInOrder, OrderLists
<1> HIDE DEF s, n
<1>5. s[n] \in fbLive
  BY <1>2, <1>3
<1>6. ASSUME NEW f \in fbLive PROVE fbSort[f] <= fbSort[s[n]]
  <2>1. PICK i \in 1..n : s[i] = f
    BY <1>4
  <2>2. CASE i = n
    BY <1>1, <2>1, <2>2
  <2>3. CASE i # n
    <3>1. i < n /\ n \in 1..n
      BY <1>2, <2>3
    <3>2. <<s[i], s[n]>> \in SortOrder(fbSort, fbLive)
      BY <1>3, <3>1
    <3>3. Before(fbSort, s[i], s[n])
      BY <3>2 DEF SortOrder
    <3> QED BY <1>1, <1>5, <2>1, <3>3 DEF Before
  <2> QED BY <2>2, <2>3
<1> DEFINE T == {fbSort[f] : f \in fbLive}
           Top(x) == \A f \in fbLive : fbSort[f] <= x
<1>7. fbSort[s[n]] \in T /\ Top(fbSort[s[n]])
  BY <1>5, <1>6
<1>8. T \subseteq Nat
  BY <1>1
<1>9. NextSort = 1 + (CHOOSE x \in T : Top(x))
  BY DEF NextSort
<1> HIDE DEF T, Top
<1>10. (CHOOSE x \in T : Top(x)) \in Nat
  BY <1>7, <1>8
<1> QED BY <1>9, <1>10

\* A page loaded with nothing under way shows the fields as they are stored.
LEMMA LoadKeeps ==
  ASSUME FbInv, fbSort' \in Seq(Nat), fbLive' \in SUBSET DOMAIN fbSort',
         DOMAIN fbSort \subseteq DOMAIN fbSort', fbPatches' = fbPatches, Load(fbSort', fbLive')
  PROVE  FbInv'
<1>1. /\ fbList' = Listed(fbSort', fbLive')
      /\ fbPatches = <<>> => fbBlame' = {}
      /\ fbPatches # <<>> => fbBlame' = {"overtaken"}
  BY DEF Load
<1>2. /\ fbList' \in Seq(fbLive') /\ IsInjective(fbList') /\ ToSet(fbList') = fbLive'
  BY <1>1, ListedFields
<1>3. fbList' \in Seq(DOMAIN fbSort')
  BY <1>2, SeqWidens
<1>4. fbPatches' \in Seq(Patch')
  <2>1. \A s \in Seq(DOMAIN fbSort) : s \in Seq(DOMAIN fbSort')
    BY SeqWidens
  <2>2. Patch \subseteq Patch'
    BY <2>1 DEF Patch
  <2> QED BY <2>2, SeqWidens DEF FbInv
<1>5. FbTypeOK'
  <2>1. \A k \in DOMAIN fbPatches' : fbPatches'[k] \in Patch'
    BY <1>4, LenProperties, ElementOfSeq
  <2>2. \A k \in DOMAIN fbPatches' : fbPatches'[k].ids \in Seq(DOMAIN fbSort')
    BY <2>1 DEF Patch
  <2> QED BY <1>1, <1>2, <1>3, <2>2 DEF FbTypeOK
<1>6. fbBlame' = {} => fbPatches' = <<>>
  BY <1>1
<1> QED BY <1>1, <1>2, <1>4, <1>5, <1>6 DEF FbInv, OrderAsShown

LEMMA FbInvStep == FbInv /\ [FbNext]_fbVars => FbInv'
<1> SUFFICES ASSUME FbInv, [FbNext]_fbVars PROVE FbInv'
  OBVIOUS
<1>0. /\ fbSort \in Seq(Nat) /\ fbLive \in SUBSET DOMAIN fbSort
      /\ fbList \in Seq(DOMAIN fbSort) /\ IsInjective(fbList)
      /\ fbPatches \in Seq(Patch) /\ fbBlame \subseteq {"overtaken", "failed", "elsewhere"}
      /\ Len(fbPatches) \in Nat /\ DOMAIN fbPatches = 1..Len(fbPatches)
      /\ \A k \in 1..Len(fbPatches) : fbPatches[k] \in Patch
  BY LenProperties, ElementOfSeq DEF FbInv, FbTypeOK
\* What the invariant asks of the types.
<1>1. ASSUME fbSort' \in Seq(Nat), fbLive' \subseteq DOMAIN fbSort',
             fbList' \in Seq(DOMAIN fbSort'), IsInjective(fbList'), fbPatches' \in Seq(Patch'),
             fbBlame' \subseteq {"overtaken", "failed", "elsewhere"}
      PROVE  FbTypeOK'
  <2>1. \A k \in DOMAIN fbPatches' : fbPatches'[k] \in Patch'
    BY <1>1, LenProperties, ElementOfSeq
  <2>2. \A k \in DOMAIN fbPatches' : fbPatches'[k].ids \in Seq(DOMAIN fbSort')
    BY <2>1 DEF Patch
  <2> QED BY <1>1, <2>2 DEF FbTypeOK
<1>2. ASSUME NEW i \in 1..Len(fbList), NEW j \in 1..Len(fbList), Drop(i, j) PROVE FbInv'
  <2>1. /\ fbList' = Moved(fbList, i, j)
        /\ fbPatches' = Append(fbPatches, [ids |-> fbList', late |-> FALSE])
        /\ fbSort' = fbSort /\ fbLive' = fbLive /\ fbBlame' = fbBlame
    BY <1>2 DEF Drop
  <2>2. /\ fbList' \in Seq(DOMAIN fbSort) /\ IsInjective(fbList')
        /\ ToSet(fbList') = ToSet(fbList)
    BY <1>0, <2>1, MovedIds
  <2> DEFINE p == [ids |-> fbList', late |-> FALSE]
  <2>3. p \in Patch /\ p.ids = fbList'
    BY <2>2 DEF Patch
  <2>4. fbPatches' = Append(fbPatches, p)
    BY <2>1
  <2> HIDE DEF p
  <2>5. /\ fbPatches' \in Seq(Patch) /\ Len(fbPatches') = Len(fbPatches) + 1
        /\ fbPatches'[Len(fbPatches) + 1] = p
    BY <1>0, <2>3, <2>4, AppendProperties
  <2>6. fbPatches' # <<>>
    BY <1>0, <2>5, EmptySeq
  <2>7. Patch' = Patch
    BY <2>1 DEF Patch
  <2>8. FbTypeOK'
    BY <1>0, <1>1, <2>1, <2>2, <2>5, <2>7
  <2>9. fbPatches'[Len(fbPatches')].ids = fbList'
    BY <2>3, <2>5
  <2>10. fbBlame' = {} => ToSet(fbList') = fbLive'
    BY <2>1, <2>2 DEF FbInv
  <2> QED BY <2>5, <2>6, <2>7, <2>8, <2>9, <2>10 DEF FbInv, OrderAsShown
<1>3. ASSUME NEW k \in 1..Len(fbPatches), PatchStored(k) PROVE FbInv'
  <2> DEFINE p == fbPatches[k]
             New(f) == IF f \in fbLive /\ f \in ToSet(p.ids)
                       THEN (CHOOSE i \in 1..Len(p.ids) : p.ids[i] = f) - 1 ELSE fbSort[f]
  <2>1. /\ fbSort' = [f \in DOMAIN fbSort |-> New(f)]
        /\ fbPatches' = RemoveAt([n \in 1..Len(fbPatches) |->
                                    [fbPatches[n] EXCEPT !.late = @ \/ n < k]], k)
        /\ fbBlame' = IF p.late THEN fbBlame \cup {"overtaken"}
                      ELSE IF k = Len(fbPatches) /\ p.ids = fbList /\ ToSet(fbList) = fbLive
                      THEN {} ELSE fbBlame
        /\ fbLive' = fbLive /\ fbList' = fbList
    BY <1>3 DEF PatchStored
  <2>2. p \in Patch
    BY <1>0
  <2>3. p.ids \in Seq(DOMAIN fbSort)
    BY <2>2 DEF Patch
  <2>4. ASSUME NEW f \in DOMAIN fbSort PROVE New(f) \in Nat
    <3>1. CASE f \in fbLive /\ f \in ToSet(p.ids)
      <4>1. \E i \in 1..Len(p.ids) : p.ids[i] = f
        BY <2>3, <3>1, LenProperties DEF ToSet
      <4>2. (CHOOSE i \in 1..Len(p.ids) : p.ids[i] = f) \in 1..Len(p.ids)
        BY <4>1
      <4>3. Len(p.ids) \in Nat
        BY <2>3, LenProperties
      <4> QED BY <3>1, <4>2, <4>3
    <3>2. CASE ~(f \in fbLive /\ f \in ToSet(p.ids))
      BY <1>0, <3>2, LenProperties, ElementOfSeq
    <3> QED BY <3>1, <3>2
  <2>5. /\ fbPatches' \in Seq(Patch) /\ Len(fbPatches') = Len(fbPatches) - 1
        /\ fbPatches' # <<>> =>
             \/ fbPatches'[Len(fbPatches')].late
             \/ k # Len(fbPatches) /\ fbPatches'[Len(fbPatches')] = fbPatches[Len(fbPatches)]
    BY <1>0, <2>1, LaterEntries
  <2> HIDE DEF New, p
  <2>6. fbSort' \in Seq(Nat) /\ DOMAIN fbSort' = DOMAIN fbSort
    <3>1. DOMAIN fbSort = 1..Len(fbSort) /\ Len(fbSort) \in Nat
      BY <1>0, LenProperties
    <3>2. fbSort' \in [1..Len(fbSort) -> Nat]
      BY <2>1, <2>4, <3>1
    <3> QED BY <3>1, <3>2, SeqDef
  <2>7. Patch' = Patch
    BY <2>6 DEF Patch
  <2>8. fbBlame' \subseteq {"overtaken", "failed", "elsewhere"}
    BY <1>0, <2>1
  <2>9. FbTypeOK'
    BY <1>0, <1>1, <2>1, <2>5, <2>6, <2>7, <2>8
  \* What the page shows is what is there, and a last order not late is the one shown.
  <2>10. ASSUME fbBlame' = {}
         PROVE  /\ ~p.late /\ ToSet(fbList) = fbLive
                /\ k = Len(fbPatches) => p.ids = fbList
                /\ k # Len(fbPatches) => fbBlame = {}
    <3>1. ~p.late
      BY <2>1, <2>10
    <3>2. fbBlame = {} \/ (k = Len(fbPatches) /\ p.ids = fbList /\ ToSet(fbList) = fbLive)
      BY <2>1, <2>10, <3>1
    <3>3. ASSUME fbBlame = {}
          PROVE  ToSet(fbList) = fbLive /\ (k = Len(fbPatches) => p.ids = fbList)
      <4>1. fbPatches # <<>>
        BY <1>0, EmptySeq
      <4> QED BY <3>1, <3>3, <4>1 DEF FbInv, p
    <3> QED BY <3>1, <3>2, <3>3
  <2>11. ASSUME fbBlame' = {}, fbPatches' # <<>>
         PROVE  \/ fbPatches'[Len(fbPatches')].late
                \/ fbPatches'[Len(fbPatches')].ids = fbList'
    <3> SUFFICES ASSUME ~fbPatches'[Len(fbPatches')].late
                 PROVE  fbPatches'[Len(fbPatches')].ids = fbList'
      OBVIOUS
    <3>1. k # Len(fbPatches) /\ fbPatches'[Len(fbPatches')] = fbPatches[Len(fbPatches)]
      BY <2>5, <2>11
    <3>2. fbBlame = {}
      BY <2>10, <2>11, <3>1
    <3>3. fbPatches # <<>>
      <4>1. Len(fbPatches) \in Nat
        BY <1>0
      <4> QED BY <4>1, EmptySeq
    <3> QED BY <2>1, <3>1, <3>2, <3>3 DEF FbInv
  <2>12. ASSUME fbBlame' = {}, fbPatches' = <<>> PROVE Listed(fbSort', fbLive') = fbList'
    <3>1. k = Len(fbPatches)
      <4>1. Len(fbPatches) - 1 = 0
        BY <2>5, <2>12, EmptySeq
      <4>2. Len(fbPatches) \in Nat
        BY <1>0
      <4> QED BY <4>1, <4>2
    <3>2. p.ids = fbList /\ ToSet(fbList) = fbLive
      BY <2>10, <2>12, <3>1
    <3>3. DOMAIN fbList = 1..Len(fbList) /\ \A i, j \in 1..Len(fbList) : fbList[i] = fbList[j] => i = j
      BY <1>0, LenProperties DEF IsInjective
    <3>4. ASSUME NEW i \in 1..Len(fbList) PROVE fbSort'[fbList[i]] = i - 1
      <4>1. fbList[i] \in fbLive /\ fbList[i] \in DOMAIN fbSort
        BY <1>0, <3>2, IdsInS, ElementOfSeq
      <4>2. (CHOOSE j \in 1..Len(fbList) : fbList[j] = fbList[i]) = i
        BY <3>3
      <4>3. New(fbList[i]) = i - 1
        BY <3>2, <4>1, <4>2 DEF New
      <4> QED BY <2>1, <4>1, <4>3
    <3>5. Listed(fbSort', ToSet(fbList)) = fbList
      BY <1>0, <2>6, <3>4, ListedAsSent
    <3> QED BY <2>1, <3>2, <3>5
  <2>13. fbBlame' = {} => ToSet(fbList') = fbLive'
    BY <2>1, <2>10
  <2> QED BY <2>5, <2>7, <2>9, <2>11, <2>12, <2>13 DEF FbInv, OrderAsShown
<1>4. ASSUME NEW k \in 1..Len(fbPatches), PatchFailed(k) PROVE FbInv'
  <2>1. /\ fbPatches' = RemoveAt(fbPatches, k) /\ fbBlame' = fbBlame \cup {"failed"}
        /\ UNCHANGED <<fbSort, fbLive, fbList>>
    BY <1>4 DEF PatchFailed
  <2>2. fbPatches' \in Seq(Patch) /\ Patch' = Patch
    BY <1>0, <2>1, RemoveAtEntries DEF Patch
  <2>3. FbTypeOK'
    BY <1>0, <1>1, <2>1, <2>2
  <2>4. fbBlame' # {}
    BY <2>1
  <2> QED BY <2>2, <2>3, <2>4 DEF FbInv, OrderAsShown
\* Fields added or deleted from another page.
<1>5. ASSUME fbBlame' = fbBlame \cup {"elsewhere"}, fbSort' \in Seq(Nat),
             fbLive' \in SUBSET DOMAIN fbSort', DOMAIN fbSort \subseteq DOMAIN fbSort',
             fbList' = fbList, fbPatches' = fbPatches
      PROVE  FbInv'
  <2>1. fbList \in Seq(DOMAIN fbSort')
    BY <1>0, <1>5, SeqWidens
  <2>2. Patch \subseteq Patch'
    <3>1. \A s \in Seq(DOMAIN fbSort) : s \in Seq(DOMAIN fbSort')
      BY <1>5, SeqWidens
    <3> QED BY <3>1 DEF Patch
  <2>3. fbPatches' \in Seq(Patch')
    BY <1>0, <1>5, <2>2, SeqWidens
  <2>4. FbTypeOK'
    BY <1>0, <1>1, <1>5, <2>1, <2>3
  <2>5. fbBlame' # {}
    BY <1>5
  <2> QED BY <2>3, <2>4, <2>5 DEF FbInv, OrderAsShown
<1>6. ASSUME NEW own \in BOOLEAN, AddField(own) PROVE FbInv'
  <2>1. NextSort \in Nat
    BY <1>0, NextSortNat
  <2>2. fbSort' = Append(fbSort, NextSort) /\ fbLive' = fbLive \cup {Len(fbSort) + 1}
        /\ fbPatches' = fbPatches
    BY <1>6 DEF AddField
  <2>3. fbSort' \in Seq(Nat) /\ Len(fbSort') = Len(fbSort) + 1
    BY <1>0, <2>1, <2>2, AppendProperties
  <2>4. Len(fbSort) \in Nat /\ DOMAIN fbSort = 1..Len(fbSort) /\ DOMAIN fbSort' = 1..Len(fbSort) + 1
    BY <1>0, <2>3, LenProperties
  <2>5. DOMAIN fbSort \subseteq DOMAIN fbSort' /\ Len(fbSort) + 1 \in DOMAIN fbSort'
    BY <2>4
  <2>6. fbLive' \in SUBSET DOMAIN fbSort'
    BY <1>0, <2>2, <2>5
  <2>7. \/ Load(fbSort', fbLive')
        \/ fbBlame' = fbBlame \cup {"elsewhere"} /\ fbList' = fbList
    BY <1>6 DEF AddField
  <2> QED BY <1>5, <2>2, <2>3, <2>5, <2>6, <2>7, LoadKeeps
<1>7. ASSUME NEW f \in fbLive, NEW own \in BOOLEAN, DeleteField(f, own) PROVE FbInv'
  <2>1. fbSort' = fbSort /\ fbPatches' = fbPatches /\ fbLive' = fbLive \ {f}
    BY <1>7 DEF DeleteField
  <2>2. \/ Load(fbSort', fbLive')
        \/ fbBlame' = fbBlame \cup {"elsewhere"} /\ fbList' = fbList
    BY <1>7, <2>1 DEF DeleteField
  <2>3. fbLive' \in SUBSET DOMAIN fbSort'
    BY <1>0, <2>1
  <2> QED BY <1>0, <1>5, <2>1, <2>2, <2>3, LoadKeeps
<1>8. ASSUME Reload PROVE FbInv'
  <2>1. fbSort' = fbSort /\ fbPatches' = fbPatches /\ fbLive' = fbLive /\ Load(fbSort', fbLive')
    BY <1>8 DEF Reload
  <2> QED BY <1>0, <2>1, LoadKeeps
<1>9. ASSUME UNCHANGED fbVars PROVE FbInv'
  <2>1. UNCHANGED <<fbSort, fbLive, fbList, fbPatches, fbBlame>>
    BY <1>9 DEF fbVars
  <2> QED BY <2>1 DEF FbInv, FbTypeOK, OrderAsShown, Patch
<1> QED BY <1>2, <1>3, <1>4, <1>6, <1>7, <1>8, <1>9 DEF FbNext

-----------------------------------------------------------------------------
(* The rename dialog. *)

\* A save under way is of an item, and so is the dialog it was made from; a card not
\* blamed shows its item's name, or its item's rename is stored and yet to be answered;
\* the cards of renames still to come are blamed; buttons of items not renamed hold
\* their names, and a dialog not typed in what its button held.
MeShown(a) == meDb[a] = IF meSave.stored /\ meSave.id = a THEN Clean[meSave.base] ELSE meCard[a]

MeInv ==
  /\ MeTypeOK
  /\ meOpen \/ meSave # NoSave => meCurrent \in Asset
  /\ \A a \in Asset \ meBlame : MeShown(a)
  /\ \A o \in meLeft : o.id \in meBlame
  /\ \A a \in Asset \ meRenamed : meData[a] = meDb[a]
  /\ meOpen /\ ~meTyped => meBase = meData[meCurrent]

LEMMA MeInvInit == MeInit => MeInv
<1> SUFFICES ASSUME MeInit PROVE MeInv
  OBVIOUS
<1>1. MeTypeOK
  BY MediaEditorAssumption DEF MediaEditorAssumption, MeInit, MeTypeOK
<1>2. meSave = NoSave /\ ~meSave.stored
  BY DEF MeInit, NoSave
<1> QED BY <1>1, <1>2 DEF MeInit, MeInv, MeShown

\* The rename that a page left, or a connection lost, leaves behind.
LEMMA UnstoredType ==
  ASSUME MeTypeOK
  PROVE  /\ Unstored \subseteq [id : Asset, name : Name]
         /\ \A o \in Unstored : o.id = meSave.id
         /\ meSave.stored => Unstored = {}
<1> USE MediaEditorAssumption DEF MediaEditorAssumption
<1>1. CASE meSave = NoSave
  BY <1>1 DEF Unstored, NoSave
<1>2. CASE meSave # NoSave
  <2>1. meSave \in [id : Asset, base : Name, stored : BOOLEAN]
    BY <1>2 DEF MeTypeOK
  <2>2. [id |-> meSave.id, name |-> Clean[meSave.base]] \in [id : Asset, name : Name]
    BY <2>1
  <2> QED BY <1>2, <2>2 DEF Unstored
<1> QED BY <1>1, <1>2

LEMMA MeInvStep == MeInv /\ [MeNext]_meVars => MeInv'
<1> SUFFICES ASSUME MeInv, [MeNext]_meVars PROVE MeInv'
  OBVIOUS
<1> USE MediaEditorAssumption DEF MediaEditorAssumption, meNames, meDialog, meHistory
<1>0. MeTypeOK /\ meSave.id \in Asset \cup {NoAsset} /\ meSave.base \in Name
      /\ (meSave # NoSave => meSave.id \in Asset) /\ ~NoSave.stored
      /\ (meSave # NoSave => meSave \in [id : Asset, base : Name, stored : BOOLEAN])
  BY DEF MeInv, MeTypeOK, NoSave
<1>1. ASSUME NEW a \in Asset, OpenRename(a) PROVE MeInv'
  BY <1>1 DEF OpenRename, MeInv, MeShown, MeTypeOK
<1>2. ASSUME NEW n \in Name, TypeBase(n) PROVE MeInv'
  BY <1>2 DEF TypeBase, MeInv, MeShown, MeTypeOK
<1>3. ASSUME ClickSave PROVE MeInv'
  <2>1. meSave' \in [id : Asset, base : Name, stored : BOOLEAN] /\ ~meSave'.stored
    BY <1>3 DEF ClickSave, MeInv, MeTypeOK
  <2> QED BY <1>0, <1>3, <2>1 DEF ClickSave, MeInv, MeShown, MeTypeOK
<1>4. ASSUME CloseRename PROVE MeInv'
  BY <1>4 DEF CloseRename, MeInv, MeShown, MeTypeOK
<1>5. ASSUME RenameStored PROVE MeInv'
  <2>1. /\ meSave' = [id |-> meSave.id, base |-> meSave.base, stored |-> TRUE]
        /\ meSave.id \in Asset
    BY <1>0, <1>5 DEF RenameStored
  <2>2. meDb' = [meDb EXCEPT ![meSave.id] = Clean[meSave.base]]
    BY <1>5 DEF RenameStored
  <2>3. MeTypeOK'
    <3>1. Clean[meSave.base] \in Name /\ meDb' \in [Asset -> Name]
      BY <1>0, <2>2 DEF MeTypeOK
    <3>2. meSave' \in [id : Asset, base : Name, stored : BOOLEAN]
      BY <1>0, <2>1
    <3> QED BY <1>0, <1>5, <2>1, <3>1, <3>2 DEF RenameStored, MeTypeOK
  <2>4. ~meSave.stored
    BY <1>5 DEF RenameStored
  <2>5. \A a \in Asset \ meBlame' : MeShown(a)'
    BY <1>0, <1>5, <2>1, <2>2, <2>4 DEF RenameStored, MeInv, MeShown, MeTypeOK
  <2>6. \A a \in Asset \ meRenamed' : meData'[a] = meDb'[a]
    BY <1>0, <1>5, <2>2 DEF RenameStored, MeInv, MeTypeOK
  <2> QED BY <1>5, <2>1, <2>3, <2>5, <2>6 DEF RenameStored, MeInv
<1>6. ASSUME RenameAnswered PROVE MeInv'
  <2>1. meSave # NoSave /\ meSave' = NoSave /\ ~meSave'.stored /\ meSave.stored
    BY <1>0, <1>6 DEF RenameAnswered
  <2>2. meCurrent \in Asset /\ meSave.id \in Asset
    BY <1>0, <2>1 DEF MeInv
  <2>3. MeTypeOK'
    BY <1>0, <1>6, <2>1, <2>2 DEF RenameAnswered, AnswerBlames, MeTypeOK
  <2>4. meBlame' = meBlame \cup AnswerBlames /\ meCard' = [meCard EXCEPT ![meCurrent] = meSave.base]
        /\ meDb' = meDb /\ meLeft' = meLeft
    BY <1>6 DEF RenameAnswered
  <2>5. ASSUME NEW a \in Asset \ meBlame' PROVE MeShown(a)'
    <3>1. a \notin meBlame /\ a \notin AnswerBlames /\ MeShown(a)
      BY <2>4, <2>5 DEF MeInv
    <3>2. CASE a = meCurrent
      <4>1. meCurrent = meSave.id /\ Clean[meSave.base] = meSave.base
        BY <3>1, <3>2 DEF AnswerBlames
      <4>2. meDb[a] = meSave.base
        BY <2>1, <3>1, <3>2, <4>1 DEF MeShown
      <4> QED BY <1>0, <2>1, <2>4, <3>2, <4>2 DEF MeShown, MeTypeOK
    <3>3. CASE a # meCurrent
      <4>1. a # meSave.id
        BY <3>1, <3>3 DEF AnswerBlames
      <4> QED BY <1>0, <2>1, <2>2, <2>4, <3>1, <3>3, <4>1 DEF MeShown, MeTypeOK
    <3> QED BY <3>2, <3>3
  <2> QED BY <1>6, <2>1, <2>3, <2>4, <2>5 DEF RenameAnswered, MeInv
<1>7. ASSUME RenameFailed PROVE MeInv'
  <2>1. /\ meSave # NoSave /\ meSave' = NoSave /\ ~meSave'.stored /\ meSave.id \in Asset
        /\ UNCHANGED <<meNames, meDialog, meRenamed>>
    BY <1>0, <1>7 DEF RenameFailed
  <2>2. CASE ~meSave.stored /\ UNCHANGED <<meLeft, meBlame>>
    BY <1>0, <2>1, <2>2 DEF MeInv, MeShown, MeTypeOK
  <2>3. CASE meLeft' = meLeft \cup Unstored /\ meBlame' = meBlame \cup {meSave.id}
    <3>1. MeTypeOK'
      BY <1>0, <2>1, <2>3, UnstoredType DEF MeTypeOK
    <3>2. \A o \in meLeft' : o.id \in meBlame'
      BY <1>0, <2>3, UnstoredType DEF MeInv
    <3>3. \A a \in Asset \ meBlame' : MeShown(a)'
      BY <2>1, <2>3 DEF MeInv, MeShown
    <3> QED BY <2>1, <3>1, <3>2, <3>3 DEF MeInv
  <2> QED BY <1>7, <2>2, <2>3 DEF RenameFailed
<1>8. ASSUME LoadPage PROVE MeInv'
  <2>1. meLeft' \subseteq [id : Asset, name : Name]
    BY <1>0, <1>8, UnstoredType DEF LoadPage, MeTypeOK
  <2>2. meBlame' = {o.id : o \in meLeft'} /\ meBlame' \subseteq Asset
    BY <1>8, <2>1 DEF LoadPage
  <2>3. MeTypeOK' /\ ~meSave'.stored
    BY <1>0, <1>8, <2>1, <2>2 DEF LoadPage, MeTypeOK
  <2> QED BY <1>8, <2>2, <2>3 DEF LoadPage, MeInv, MeShown
<1>9. ASSUME NEW o \in meLeft, LeftStored(o) PROVE MeInv'
  <2>1. o \in [id : Asset, name : Name] /\ o.id \in meBlame
    BY <1>0 DEF MeInv, MeTypeOK
  <2>2. o.id \in Asset /\ o.name \in Name
    BY <2>1
  <2>3. /\ meDb' = [meDb EXCEPT ![o.id] = o.name] /\ meLeft' = meLeft \ {o}
        /\ meRenamed' = meRenamed \cup {o.id}
        /\ UNCHANGED <<meCard, meData, meDialog, meSave, meBlame>>
    BY <1>9 DEF LeftStored
  <2>4. MeTypeOK'
    BY <1>0, <2>2, <2>3 DEF MeTypeOK
  <2>5. \A a \in Asset : a # o.id => meDb'[a] = meDb[a]
    BY <1>0, <2>3 DEF MeTypeOK
  <2>6. \A a \in Asset \ meBlame' : MeShown(a)'
    BY <2>1, <2>3, <2>5 DEF MeInv, MeShown
  <2> QED BY <2>3, <2>4, <2>5, <2>6 DEF MeInv
<1>10. ASSUME NEW o \in meLeft, LeftDropped(o) PROVE MeInv'
  BY <1>10 DEF LeftDropped, MeInv, MeShown, MeTypeOK
<1>11. ASSUME NEW a \in Asset, NEW n \in Name, RenamedElsewhere(a, n) PROVE MeInv'
  <2>1. /\ meDb' = [meDb EXCEPT ![a] = Clean[n]] /\ meBlame' = meBlame \cup {a}
        /\ meRenamed' = meRenamed \cup {a}
        /\ UNCHANGED <<meCard, meData, meDialog, meSave, meLeft>>
    BY <1>11 DEF RenamedElsewhere
  <2>2. MeTypeOK'
    BY <1>0, <2>1 DEF MeTypeOK
  <2>3. \A b \in Asset : b # a => meDb'[b] = meDb[b]
    BY <1>0, <2>1 DEF MeTypeOK
  <2>4. \A b \in Asset \ meBlame' : MeShown(b)'
    BY <2>1, <2>3 DEF MeInv, MeShown
  <2> QED BY <2>1, <2>2, <2>3, <2>4 DEF MeInv
<1>12. ASSUME UNCHANGED meVars PROVE MeInv'
  BY <1>12 DEF meVars, MeInv, MeShown, MeTypeOK
<1> QED BY <1>1, <1>2, <1>3, <1>4, <1>5, <1>6, <1>7, <1>8, <1>9, <1>10, <1>11, <1>12 DEF MeNext

LEMMA NamesShown == MeInv => CardsShowNames /\ DialogShowsName
BY DEF MeInv, MeShown, MeTypeOK, CardsShowNames, DialogShowsName, NoSave

-----------------------------------------------------------------------------
(* The crop dialog. *)

\* A cropper is over the image that the form names; a hidden dialog has none.
CdInv ==
  /\ CdTypeOK /\ CropsOwnImage
  /\ cdDialog \in {"hidden", "showing"} => cdCropper = NoImage
  /\ cdDialog # "hidden" => cdForm \in Image
  /\ cdCropper # NoImage => cdCropper = cdForm

LEMMA CdInvInit == CdInit => CdInv
BY DEF CdInit, CdInv, CdTypeOK, CropsOwnImage, Nothing

LEMMA CdInvStep == CdInv /\ [CdNext]_cdVars => CdInv'
<1> SUFFICES ASSUME CdInv, [CdNext]_cdVars PROVE CdInv'
  OBVIOUS
<1> USE DEF CdInv, CdTypeOK, CropsOwnImage, Nothing
<1>1. ASSUME NEW i \in Image, OpenCrop(i) PROVE CdInv'
  BY <1>1 DEF OpenCrop
<1>2. ASSUME CropShown PROVE CdInv'
  BY <1>2 DEF CropShown
<1>3. ASSUME CropDismissed PROVE CdInv'
  BY <1>3 DEF CropDismissed
<1>4. ASSUME CropHidden PROVE CdInv'
  BY <1>4 DEF CropHidden
<1>5. ASSUME SubmitCrop PROVE CdInv'
  BY <1>5 DEF SubmitCrop
<1>6. ASSUME UNCHANGED cdVars PROVE CdInv'
  BY <1>6 DEF cdVars
<1> QED BY <1>1, <1>2, <1>3, <1>4, <1>5, <1>6 DEF CdNext

-----------------------------------------------------------------------------
(* The navigation, and the types of the icon picker. *)

ShInv == ShTypeOK /\ NavRemembered

LEMMA ShInvInit == ShInit => ShInv
<1> SUFFICES ASSUME ShInit PROVE ShInv
  OBVIOUS
<1>1. ShTypeOK
  BY DEF ShInit, ShTypeOK
<1>2. ASSUME NEW g \in Group PROVE g \notin shCollapsed /\ shStored[g] # "false"
  BY DEF ShInit
<1> QED BY <1>1, <1>2 DEF ShInv, NavRemembered

LEMMA ShInvStep == ShInv /\ [ShNext]_shVars => ShInv'
<1> SUFFICES ASSUME ShInv, [ShNext]_shVars PROVE ShInv'
  OBVIOUS
<1> USE DEF ShInv, ShTypeOK, NavRemembered, shNav
<1>1. ASSUME ToggleSidebar \/ ClickBackdrop PROVE ShInv'
  BY <1>1 DEF ToggleSidebar, ClickBackdrop
<1>2. ASSUME NEW g \in Group, ToggleGroup(g) PROVE ShInv'
  BY <1>2 DEF ToggleGroup
<1>3. ASSUME NEW g \in Group, NEW state \in {"true", "false"}, OtherTab(g, state) PROVE ShInv'
  <2>1. ShTypeOK'
    BY <1>3 DEF OtherTab
  <2>2. ASSUME NEW h \in Group \ shElsewhere'
        PROVE  h \in Group \ shElsewhere /\ shStored'[h] = shStored[h] /\ shCollapsed' = shCollapsed
    BY <1>3 DEF OtherTab
  <2>3. NavRemembered'
    BY <2>2
  <2> QED BY <2>1, <2>3
<1>4. ASSUME NEW path \in Path, GoTo(path) PROVE ShInv'
  <2> DEFINE shown == ActiveGroup(path)
  <2>1. /\ shCollapsed' = {g \in Group : shStored[g] = "false"} \ {shown}
        /\ shStored' = [g \in Group |-> IF g = shown THEN "true" ELSE shStored[g]]
        /\ shElsewhere' = {} /\ shSidebar' = FALSE
    BY <1>4 DEF GoTo, ShowPage
  <2> HIDE DEF shown
  <2>2. ShTypeOK'
    BY <2>1
  <2>3. ASSUME NEW g \in Group
        PROVE  g \in shCollapsed' <=> shStored'[g] = "false"
    BY <2>1
  <2>4. NavRemembered'
    BY <2>1, <2>3
  <2> QED BY <2>2, <2>4
<1>5. ASSUME UNCHANGED shVars PROVE ShInv'
  BY <1>5 DEF shVars
<1> QED BY <1>1, <1>2, <1>3, <1>4, <1>5 DEF ShNext

LEMMA IpTypeInit == IpInit => IpTypeOK
BY IconPickerAssumption DEF IconPickerAssumption, IpInit, IpTypeOK

LEMMA IpTypeStep == IpTypeOK /\ [IpNext]_ipVars => IpTypeOK'
<1> SUFFICES ASSUME IpTypeOK, [IpNext]_ipVars PROVE IpTypeOK'
  OBVIOUS
<1> USE IconPickerAssumption DEF IconPickerAssumption, IpTypeOK, RenderGrid
<1>1. ASSUME ClickTrigger PROVE IpTypeOK'
  BY <1>1 DEF ClickTrigger
<1>2. ASSUME FilterDue \/ ClearIcon \/ ClosePopover PROVE IpTypeOK'
  BY <1>2 DEF FilterDue, ClearIcon, ClosePopover
<1>3. ASSUME NEW t \in Filter, TypeFilter(t) PROVE IpTypeOK'
  BY <1>3 DEF TypeFilter
<1>4. ASSUME NEW i \in Icon, ChooseIcon(i) PROVE IpTypeOK'
  BY <1>4 DEF ChooseIcon
<1>5. ASSUME UNCHANGED ipVars PROVE IpTypeOK'
  BY <1>5 DEF ipVars
<1> QED BY <1>1, <1>2, <1>3, <1>4, <1>5 DEF IpNext

-----------------------------------------------------------------------------
(* The slug field. *)

\* p names the positions in P in ascending order.
Places(p, n, P) ==
  /\ n \in Nat /\ p \in [1..n -> P]
  /\ \A i, j \in 1..n : i < j => p[i] < p[j]
  /\ \A x \in P : \E i \in 1..n : p[i] = x

\* At picks the characters at the positions named, in their order.
LEMMA AtPlaces ==
  ASSUME NEW S, NEW s \in Seq(S), NEW P \in SUBSET (1..Len(s))
  PROVE  /\ At(s, P) \in Seq(S)
         /\ \E p : /\ Places(p, Len(At(s, P)), P)
                   /\ \A i \in 1..Len(At(s, P)) : At(s, P)[i] = s[p[i]]
<1> DEFINE n == Cardinality(P)
           R == {q \in P \X P : q[1] < q[2]}
           Good(p) == \A i, j \in DOMAIN p : i < j => p[i] < p[j]
           place == CHOOSE p \in [1..n -> P] : Good(p)
<1>1. Len(s) \in Nat /\ \A x \in P : x \in Nat
  BY LenProperties
<1>2. IsFiniteSet(P)
  <2>1. IsFiniteSet(1..Len(s))
    BY <1>1, FS_Interval
  <2> QED BY <2>1, FS_Subset
<1>3. \A a, b \in P : <<a, b>> \in R <=> a < b
  OBVIOUS
<1> HIDE DEF R
<1>4. Orders(R, P)
  BY <1>1, <1>3 DEF Orders
<1>5. n \in Nat
  BY <1>2, FS_CardinalityType
<1>6. PICK q : InOrder(q, P, R)
  BY <1>2, <1>4, OrderExists
<1>7. q \in [1..n -> P] /\ Good(q)
  BY <1>3, <1>6 DEF InOrder
<1>8. place \in [1..n -> P] /\ Good(place)
  <2> HIDE DEF Good
  <2> QED BY <1>7
<1>9. At(s, P) = [i \in 1..n |-> s[place[i]]]
  BY DEF At
<1> HIDE DEF place
<1>10. InOrder(place, P, R)
  BY <1>3, <1>8 DEF InOrder
<1>11. \A x \in P : \E i \in 1..n : place[i] = x
  BY <1>2, <1>4, <1>10, OrderLists
<1>12. At(s, P) \in Seq(S) /\ Len(At(s, P)) = n
  <2>1. \A i \in 1..n : place[i] \in 1..Len(s)
    BY <1>8
  <2>2. \A i \in 1..n : s[place[i]] \in S
    BY <2>1, ElementOfSeq
  <2>3. At(s, P) \in [1..n -> S]
    BY <1>9, <2>2
  <2> QED BY <1>5, <2>3, SeqDef, LenProperties
<1>13. Places(place, Len(At(s, P)), P)
  BY <1>5, <1>8, <1>11, <1>12 DEF Places
<1>14. \A i \in 1..Len(At(s, P)) : At(s, P)[i] = s[place[i]]
  BY <1>9, <1>12
<1> QED BY <1>12, <1>13, <1>14

Text == {"letter", "space", "dash"}

LEMMA KeptChars == ASSUME NEW s \in Seq(Char) PROVE Kept(s) \in Seq(Text)
<1> DEFINE P == {i \in 1..Len(s) : s[i] # "other"}
           r == At(s, P)
<1>1. P \in SUBSET (1..Len(s)) /\ \A i \in P : s[i] # "other"
  OBVIOUS
<1> HIDE DEF P
<1>2. /\ At(s, P) \in Seq(Char)
      /\ \E p : /\ Places(p, Len(At(s, P)), P)
                /\ \A i \in 1..Len(At(s, P)) : At(s, P)[i] = s[p[i]]
  BY <1>1, AtPlaces
<1> HIDE DEF r
<1>3. PICK p : Places(p, Len(r), P) /\ \A i \in 1..Len(r) : r[i] = s[p[i]]
  BY <1>2 DEF r
<1>4. r \in Seq(Char)
  BY <1>2 DEF r
<1>5. Len(r) \in Nat /\ r = [i \in 1..Len(r) |-> r[i]] /\ \A i \in 1..Len(s) : s[i] \in Char
  BY <1>4, LenProperties, ElementOfSeq
<1>6. \A i \in 1..Len(r) : p[i] \in P
  BY <1>3 DEF Places
<1>7. \A i \in 1..Len(r) : r[i] \in Text
  BY <1>1, <1>3, <1>5, <1>6 DEF Char, Text
<1>8. r \in Seq(Text)
  BY <1>5, <1>7, IsASeq
<1> QED BY <1>8 DEF Kept, r, P

\* What is trimmed begins and ends with a character that is no white space.
LEMMA TrimmedEnds ==
  ASSUME NEW C, NEW s \in Seq(C)
  PROVE  /\ Trimmed(s) \in Seq(C)
         /\ Trimmed(s) # <<>> =>
              Trimmed(s)[1] # "space" /\ Trimmed(s)[Len(Trimmed(s))] # "space"
<1> DEFINE text == {i \in 1..Len(s) : s[i] # "space"}
           a == CHOOSE i \in text : \A j \in text : i <= j
           b == CHOOSE i \in text : \A j \in text : j <= i
<1>1. CASE text = {}
  BY <1>1, EmptySeq DEF Trimmed
<1>2. CASE text # {}
  <2>1. Len(s) \in Nat /\ text \in SUBSET (1..Len(s)) /\ text \subseteq Nat
    BY LenProperties
  <2>2. \A i \in text : s[i] # "space"
    OBVIOUS
  <2>3. Trimmed(s) = SubSeq(s, a, b)
    BY <1>2 DEF Trimmed
  <2> HIDE DEF text
  <2>4. a \in text /\ \A j \in text : a <= j
    BY <1>2, <2>1, LeastOf
  <2>5. b \in text /\ \A j \in text : j <= b
    BY <1>2, <2>1, GreatestOf
  <2> HIDE DEF a, b
  <2>6. a \in 1..Len(s) /\ b \in 1..Len(s) /\ a <= b
    BY <2>1, <2>4, <2>5
  <2>7. \A i \in a..b : s[i] \in C
    BY <2>1, <2>6, ElementOfSeq
  <2>8. /\ SubSeq(s, a, b) \in Seq(C) /\ Len(SubSeq(s, a, b)) = b - a + 1
        /\ \A i \in 1..b - a + 1 : SubSeq(s, a, b)[i] = s[a + i - 1]
    BY <2>1, <2>6, <2>7, SubSeqProperties
  <2>9. 1 \in 1..b - a + 1 /\ b - a + 1 \in 1..b - a + 1 /\ a + 1 - 1 = a /\ a + (b - a + 1) - 1 = b
    BY <2>1, <2>6
  <2>10. SubSeq(s, a, b)[1] = s[a] /\ SubSeq(s, a, b)[b - a + 1] = s[b]
    BY <2>8, <2>9
  <2> QED BY <2>2, <2>3, <2>4, <2>5, <2>8, <2>10
<1> QED BY <1>1, <1>2

\* Runs of white space and dashes within become one dash: with letters at both ends the
\* text is a slug.
LEMMA DashedValid ==
  ASSUME NEW t \in Seq(Text), t # <<>>, t[1] = "letter", t[Len(t)] = "letter"
  PROVE  ValidSlug(Dashed(t))
<1> DEFINE m == Len(t)
           d == Dash(t)
           P == {i \in 1..m : t[i] = "letter" \/ i = 1 \/ t[i - 1] = "letter"}
           r == At(d, P)
<1>1. m \in Nat /\ m >= 1 /\ \A i \in 1..m : t[i] \in Text
  <2>1. m \in Nat /\ m # 0
    BY LenProperties, EmptySeq
  <2> QED BY <2>1, LenProperties, ElementOfSeq
<1>2. /\ d \in Seq({"letter", "dash"}) /\ Len(d) = m
      /\ \A i \in 1..m : d[i] = "letter" <=> t[i] = "letter"
  <2>1. d = [i \in 1..m |-> IF t[i] = "space" THEN "dash" ELSE t[i]]
    BY DEF Dash
  <2>2. \A i \in 1..m : (IF t[i] = "space" THEN "dash" ELSE t[i]) \in {"letter", "dash"}
    BY <1>1 DEF Text
  <2>3. d \in [1..m -> {"letter", "dash"}]
    BY <2>1, <2>2
  <2> HIDE DEF d, m
  <2>4. d \in Seq({"letter", "dash"}) /\ Len(d) = m
    BY <1>1, <2>3, SeqDef, LenProperties
  <2> QED BY <2>1, <2>4
<1>3. /\ P \in SUBSET (1..m) /\ 1 \in P /\ m \in P
      /\ \A i \in 1..m : t[i] = "letter" => i \in P
      /\ \A i \in P : t[i] = "letter" \/ i = 1 \/ t[i - 1] = "letter"
  BY <1>1
<1> HIDE DEF m, d, P
<1>4. /\ At(d, P) \in Seq({"letter", "dash"})
      /\ \E p : /\ Places(p, Len(At(d, P)), P)
                /\ \A i \in 1..Len(At(d, P)) : At(d, P)[i] = d[p[i]]
  BY <1>2, <1>3, AtPlaces
<1> HIDE DEF r
<1> DEFINE n == Len(r)
<1>5. r \in Seq({"letter", "dash"}) /\ n \in Nat
  BY <1>4, LenProperties DEF r
<1>6. PICK p : Places(p, n, P) /\ \A i \in 1..n : r[i] = d[p[i]]
  BY <1>4 DEF r
<1> HIDE DEF n
<1>7. /\ \A i \in 1..n : p[i] \in P /\ p[i] \in 1..m
      /\ \A i, j \in 1..n : i < j => p[i] < p[j]
      /\ \A x \in P : \E i \in 1..n : p[i] = x
  BY <1>3, <1>6 DEF Places
<1>8. 1 \in 1..n /\ p[1] = 1
  <2>1. PICK i \in 1..n : p[i] = 1
    BY <1>3, <1>7
  <2>2. 1 \in 1..n
    BY <1>5, <2>1
  <2>3. i = 1 \/ 1 < i
    BY <1>5, <2>1
  <2>4. 1 < i => p[1] < 1
    BY <1>7, <2>1, <2>2
  <2> QED BY <1>1, <1>7, <2>1, <2>2, <2>3, <2>4
<1>9. n \in 1..n /\ p[n] = m
  <2>1. PICK i \in 1..n : p[i] = m
    BY <1>3, <1>7
  <2>2. n \in 1..n
    BY <1>5, <2>1
  <2>3. i = n \/ i < n
    BY <1>5, <2>1
  <2>4. i < n => m < p[n]
    BY <1>7, <2>1, <2>2
  <2> QED BY <1>1, <1>7, <2>1, <2>2, <2>3, <2>4
<1>10. r[1] = "letter" /\ r[n] = "letter"
  <2>1. 1 \in 1..m /\ m \in 1..m /\ t[1] = "letter" /\ t[m] = "letter"
    BY <1>1 DEF m
  <2>2. d[1] = "letter" /\ d[m] = "letter"
    BY <1>2, <2>1
  <2>3. r[1] = d[1] /\ r[n] = d[m]
    BY <1>6, <1>8, <1>9
  <2> QED BY <2>2, <2>3
\* Of two positions kept next to each other the later was kept for the letter before it.
<1>11. ASSUME NEW i \in 1..n - 1 PROVE r[i] = "letter" \/ r[i + 1] = "letter"
  <2>1. i \in 1..n /\ i + 1 \in 1..n /\ i < i + 1
    BY <1>5
  <2> DEFINE a == p[i]
             b == p[i + 1]
  <2>2. a \in P /\ b \in P /\ a \in 1..m /\ b \in 1..m /\ a < b
    BY <1>7, <2>1
  <2>3. r[i] = d[a] /\ r[i + 1] = d[b]
    BY <1>6, <2>1
  <2>4. SUFFICES ASSUME t[a] # "letter", t[b] # "letter" PROVE FALSE
    BY <1>2, <2>2, <2>3
  <2> HIDE DEF a, b
  <2>5. t[b - 1] = "letter" /\ b - 1 \in 1..m /\ a <= b - 1
    BY <1>1, <1>3, <2>2, <2>4
  <2>6. PICK k \in 1..n : p[k] = b - 1
    BY <1>3, <1>7, <2>5
  <2>7. a # b - 1
    BY <2>4, <2>5
  <2>8. a < b - 1 /\ b - 1 < b
    BY <1>1, <2>2, <2>5, <2>7
  <2>9. k < i => p[k] < a
    BY <1>7, <2>1, <2>6 DEF a
  <2>10. k = i => p[k] = a
    BY DEF a
  <2>11. k = i + 1 => p[k] = b
    BY DEF b
  <2>12. i + 1 < k => b < p[k]
    BY <1>7, <2>1, <2>6 DEF b
  <2>13. k < i \/ k = i \/ k = i + 1 \/ i + 1 < k
    BY <1>5, <2>1
  <2> QED BY <1>1, <2>2, <2>6, <2>8, <2>9, <2>10, <2>11, <2>12, <2>13
<1>12. r # <<>> /\ ToSet(r) \subseteq {"letter", "dash"}
  <2>1. n # 0
    BY <1>5, <1>8
  <2> QED BY <1>5, <2>1, EmptySeq, IdsInS DEF n
<1>13. Last(r) = r[n]
  BY DEF Last, n
<1>14. ValidSlug(r)
  BY <1>10, <1>11, <1>12, <1>13 DEF ValidSlug, n
<1> QED BY <1>14 DEF Dashed, r, d, P, m

LEMMA DashedChars == ASSUME NEW t \in Seq(Text) PROVE Dashed(t) \in Seq(Char)
<1> DEFINE d == Dash(t)
           P == {i \in 1..Len(t) : t[i] = "letter" \/ i = 1 \/ t[i - 1] = "letter"}
<1>1. Len(t) \in Nat /\ \A i \in 1..Len(t) : t[i] \in Text
  BY LenProperties, ElementOfSeq
<1>2. d \in Seq(Char) /\ Len(d) = Len(t)
  <2>1. \A i \in 1..Len(t) : (IF t[i] = "space" THEN "dash" ELSE t[i]) \in Char
    BY <1>1 DEF Text, Char
  <2>2. d \in [1..Len(t) -> Char]
    BY <2>1 DEF Dash
  <2> QED BY <1>1, <2>2, SeqDef, LenProperties
<1>3. P \in SUBSET (1..Len(t))
  OBVIOUS
<1> HIDE DEF d, P
<1>4. At(d, P) \in Seq(Char)
  BY <1>2, <1>3, AtPlaces
<1> QED BY <1>4 DEF Dashed, d, P

LEMMA SlugFacts ==
  ASSUME NEW name \in Seq(Char)
  PROVE  /\ ToSlug(name) \in Seq(Char)
         /\ Trimmed(Kept(name)) # <<>> /\ Trimmed(Kept(name))[1] # "dash"
              /\ Last(Trimmed(Kept(name))) # "dash" => ValidSlug(ToSlug(name))
<1> DEFINE k == Kept(name)
           t == Trimmed(k)
<1>1. k \in Seq(Text)
  BY KeptChars
<1> HIDE DEF k
<1>2. /\ t \in Seq(Text)
      /\ t # <<>> => t[1] # "space" /\ t[Len(t)] # "space"
  BY <1>1, TrimmedEnds
<1> HIDE DEF t
<1>3. Dashed(t) \in Seq(Char)
  BY <1>2, DashedChars
<1>4. ASSUME t # <<>>, t[1] # "dash", Last(t) # "dash" PROVE ValidSlug(Dashed(t))
  <2>1. Len(t) \in Nat /\ Len(t) # 0
    BY <1>2, <1>4, LenProperties, EmptySeq
  <2>2. 1 \in 1..Len(t) /\ Len(t) \in 1..Len(t)
    BY <2>1
  <2>3. t[1] \in Text /\ t[Len(t)] \in Text
    BY <1>2, <2>2, ElementOfSeq
  <2>4. t[1] = "letter" /\ t[Len(t)] = "letter"
    BY <1>2, <1>4, <2>3 DEF Text, Last
  <2> QED BY <1>2, <1>4, <2>4, DashedValid
<1> QED BY <1>3, <1>4 DEF ToSlug, t, k

\* What is filled in is the slug of the name.
SlugInv == SlugTypeOK /\ (~shManual => shSlug = ToSlug(shName))

LEMMA SlugInvInit == SlugInit => SlugInv
<1> SUFFICES ASSUME SlugInit PROVE SlugInv
  OBVIOUS
<1>1. /\ shName = <<>> /\ shSlug \in {<<>>, <<"letter", "dash", "letter">>}
      /\ shManual = (shSlug # <<>>)
  BY DEF SlugInit
<1>2. <<>> \in Seq(Char) /\ <<"letter", "dash", "letter">> \in Seq(Char)
  BY DEF Char
<1>3. Len(<<>>) = 0 /\ 1..Len(<<>>) = {}
  OBVIOUS
<1>4. ToSlug(<<>>) = <<>>
  <2>1. At(<<>>, {}) = <<>>
    <3>1. Cardinality({}) = 0 /\ 1..0 = {}
      BY FS_EmptySet
    <3> DEFINE place == CHOOSE q \in [1..Cardinality({}) -> {}] :
                          \A i, j \in DOMAIN q : i < j => q[i] < q[j]
    <3>2. At(<<>>, {}) = [i \in 1..Cardinality({}) |-> <<>>[place[i]]]
      BY DEF At
    <3> HIDE DEF place
    <3>3. At(<<>>, {}) = [i \in {} |-> <<>>[place[i]]]
      BY <3>1, <3>2
    <3> QED BY <3>3
  <2>2. Kept(<<>>) = <<>>
    BY <1>3, <2>1 DEF Kept
  <2>3. Trimmed(<<>>) = <<>>
    BY <1>3 DEF Trimmed
  <2>4. Dash(<<>>) = <<>>
    BY <1>3 DEF Dash
  <2>5. Dashed(<<>>) = <<>>
    BY <1>3, <2>1, <2>4 DEF Dashed
  <2> QED BY <2>2, <2>3, <2>5 DEF ToSlug
<1> QED BY <1>1, <1>2, <1>4 DEF SlugInv, SlugTypeOK

LEMMA SlugInvStep == SlugInv /\ [SlugNext]_slugVars => SlugInv'
<1> SUFFICES ASSUME SlugInv, [SlugNext]_slugVars PROVE SlugInv'
  OBVIOUS
<1>1. ASSUME NEW name \in BoundedSeq(Char, MaxName), TypeName(name) PROVE SlugInv'
  <2>1. name \in Seq(Char)
    BY SlugFieldAssumption, Shorter DEF SlugFieldAssumption
  <2>2. ToSlug(name) \in Seq(Char)
    BY <2>1, SlugFacts
  <2> QED BY <1>1, <2>1, <2>2 DEF TypeName, SlugInv, SlugTypeOK
<1>2. ASSUME NEW slug \in BoundedSeq({"letter", "dash"}, 1), TypeSlug(slug) PROVE SlugInv'
  <2>1. slug \in Seq({"letter", "dash"})
    BY Shorter
  <2>2. slug \in Seq(Char)
    <3>1. Len(slug) \in Nat /\ slug = [i \in 1..Len(slug) |-> slug[i]]
          /\ \A i \in 1..Len(slug) : slug[i] \in Char
      BY <2>1, LenProperties, ElementOfSeq DEF Char
    <3> QED BY <3>1, IsASeq
  <2> QED BY <1>2, <2>2 DEF TypeSlug, SlugInv, SlugTypeOK
<1>3. ASSUME UNCHANGED slugVars PROVE SlugInv'
  BY <1>3 DEF slugVars, SlugInv, SlugTypeOK
<1> QED BY <1>1, <1>2, <1>3 DEF SlugNext

LEMMA SlugFits == SlugInv => FilledSlugPasses
BY SlugFacts DEF SlugInv, SlugTypeOK, FilledSlugPasses

-----------------------------------------------------------------------------
(* The pages together. *)

PagesInv ==
  /\ RelInv /\ ListInv
  /\ IpTypeOK /\ IconGridFitsText
  /\ FoInv /\ FoTypeOK /\ Untouched
  /\ FbInv /\ MeInv /\ CdInv /\ ShInv /\ SlugInv

LEMMA PagesInvInit == Init => PagesInv
<1> SUFFICES ASSUME Init PROVE PagesInv
  OBVIOUS
<1>1. RelInit /\ IpInit /\ FoInit /\ FbInit /\ MeInit /\ CdInit /\ ShInit /\ SlugInit
  BY DEF Init
<1>2. IconGridFitsText
  BY <1>1 DEF IpInit, IconGridFitsText
<1>3. Untouched
  BY <1>1 DEF FoInit, Untouched
<1>4. RelInv /\ ListInv /\ IpTypeOK /\ FoInv /\ FoTypeOK
  BY <1>1, RelInvInit, ListInvInit, IpTypeInit, FoInvInit, FoTypeInit
<1>5. FbInv /\ MeInv /\ CdInv /\ ShInv /\ SlugInv
  BY <1>1, FbInvInit, MeInvInit, CdInvInit, ShInvInit, SlugInvInit
<1> QED BY <1>2, <1>3, <1>4, <1>5 DEF PagesInv

\* A step of the pages is one of each script, or leaves it alone.
LEMMA ScriptSteps ==
  ASSUME [Next]_allVars
  PROVE  /\ [RelNext]_rpVars /\ [IpNext]_ipVars /\ [FoNext]_foVars /\ [FbNext]_fbVars
         /\ [MeNext]_meVars /\ [CdNext]_cdVars /\ [ShNext]_shVars /\ [SlugNext]_slugVars
<1>1. CASE RelationStep
  BY <1>1 DEF RelationStep
<1>2. CASE OptionsStep
  BY <1>2 DEF OptionsStep
<1>3. CASE OrderStep
  BY <1>3 DEF OrderStep
<1>4. CASE MediaStep
  BY <1>4 DEF MediaStep
<1>5. CASE CropStep
  BY <1>5 DEF CropStep
<1>6. CASE IconStep
  BY <1>6 DEF IconStep
<1>7. CASE SlugStep
  BY <1>7 DEF SlugStep
<1>8. CASE ShellStep
  BY <1>8 DEF ShellStep
<1>9. CASE UNCHANGED allVars
  BY <1>9 DEF allVars
<1> QED BY <1>1, <1>2, <1>3, <1>4, <1>5, <1>6, <1>7, <1>8, <1>9 DEF Next

LEMMA PagesInvStep == PagesInv /\ [Next]_allVars => PagesInv'
<1> SUFFICES ASSUME PagesInv, [Next]_allVars PROVE PagesInv'
  OBVIOUS
<1>1. RelInv' /\ ListInv'
  BY ScriptSteps, RelInvStep, ListInvStep DEF PagesInv
<1>2. IpTypeOK' /\ IconGridFitsText'
  BY ScriptSteps, IpTypeStep, IconStepKeeps DEF PagesInv
<1>3. FoInv' /\ FoTypeOK' /\ Untouched'
  BY ScriptSteps, FoInvStep, FoTypeStep, UntouchedStep DEF PagesInv
<1>4. FbInv' /\ MeInv' /\ CdInv' /\ ShInv' /\ SlugInv'
  BY ScriptSteps, FbInvStep, MeInvStep, CdInvStep, ShInvStep, SlugInvStep DEF PagesInv
<1> QED BY <1>1, <1>2, <1>3, <1>4 DEF PagesInv

LEMMA PagesInvariant == Spec => []PagesInv
BY PagesInvInit, PagesInvStep, PTL DEF Spec

\* For any items, limits and searches: the chips of a relation picker are the ids the
\* form posts, in the same order.
THEOREM RelationChips == Spec => []RelChipsShowValue
<1>1. PagesInv => RelChipsShowValue
  BY DEF PagesInv, RelInv
<1> QED BY <1>1, PagesInvariant, PTL

\* No relation is posted twice.
THEOREM RelationsDistinct == Spec => []RelIdsDistinct
<1>1. PagesInv => RelIdsDistinct
  BY DEF PagesInv, RelInv
<1> QED BY <1>1, PagesInvariant, PTL

\* A relation that is added never takes the list past its limit.
THEOREM RelationLimit == Spec => LimitKept
<1>1. PagesInv /\ [Next]_allVars =>
        [Len(rpValue') > Len(rpValue) =>
           Len(rpValue') <= IF ~rpMultiple THEN 1
                            ELSE IF rpMax = NoLimit THEN Len(rpValue) + 1 ELSE rpMax]_rpVars
  BY ScriptSteps, LimitStep DEF PagesInv
<1> QED BY <1>1, PagesInvariant, PTL DEF Spec, LimitKept

\* For any texts and any order of answers: what a settled list shows is what the text
\* typed finds.
THEOREM ListsSettle == Spec => []SettledListsFit
<1>1. PagesInv => SettledListsFit
  <2> SUFFICES ASSUME PagesInv PROVE SettledListsFit
    OBVIOUS
  <2>1. SettledListFitsText
    BY DEF PagesInv, ListInv, ListOfText, SettledListFitsText
  <2> QED BY <2>1 DEF PagesInv, SettledListsFit
<1> QED BY <1>1, PagesInvariant, PTL

\* For any content types and fields, and any order of answers: the display field is one
\* of the target, unless an answer was taken up by a dialog it was not meant for.
THEOREM DisplayBelongsToTarget == Spec => []DisplayOfTarget
<1>1. PagesInv => DisplayOfTarget
  BY DEF PagesInv, FoInv, DisplaysOfTarget, DisplayOfTarget
<1> QED BY <1>1, PagesInvariant, PTL

\* For any constants of the pages: each script's state keeps its type, and no relation
\* is chosen twice.
THEOREM PageTypes == Spec => []AdminTypeOK
<1>1. PagesInv => AdminTypeOK
  BY DEF PagesInv, RelInv, FbInv, MeInv, CdInv, ShInv, SlugInv, AdminTypeOK
<1> QED BY <1>1, PagesInvariant, PTL

\* For any number of fields, drops, assets and navigation groups, and any order of
\* answers, whenever a page is loaded and whatever is stored after that: a list or a
\* card shows what is stored, unless what parted them is named and concerns it.
THEOREM StoredShown == Spec => []PagesShowStored
<1>1. PagesInv => PagesShowStored
  BY NamesShown DEF PagesInv, FbInv, CdInv, ShInv, PagesShowStored
<1> QED BY <1>1, PagesInvariant, PTL

\* For any options stored and any answers to the dialog's fetches: a dialog that is
\* applied untouched, its dropdowns filled, leaves sound options as they were.
THEOREM UntouchedStays == Spec => UntouchedKept
<1>1. PagesInv /\ [Next]_allVars =>
        [foOpen /\ foClean /\ foPending = <<>> /\ ~foLost /\ ~foMixed /\ Sound(foRaw, foType)
           => foRaw' = foRaw]_foVars
  BY ScriptSteps, KeptStep DEF PagesInv
<1> QED BY <1>1, PagesInvariant, PTL DEF Spec, UntouchedKept

\* For every name: a slug filled in from it matches the regular expression of the
\* validators, whose limit of 200 characters is another matter, unless nothing of the
\* name is left or what is left begins or ends with a dash.
THEOREM SlugsPass == Spec => []FilledSlugPasses
<1>1. PagesInv => FilledSlugPasses
  BY SlugFits DEF PagesInv
<1> QED BY <1>1, PagesInvariant, PTL

=============================================================================
