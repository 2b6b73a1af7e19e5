--------------------------- MODULE RelationPicker ---------------------------
(***************************************************************************)
(* A relation picker of the content form (wwwroot/js/relation-picker.js): a  *)
(* hidden list of ids with a chip for each, a debounced search of the target *)
(* content type, and the list of its results.  Pickers share nothing, so one *)
(* is enough.  Searches are fetches whose answers come in any order.         *)
(***************************************************************************)
EXTENDS IdLists

CONSTANTS
  Item,          \* content items of the target type
  Query,         \* what can be typed, trimmed
  NoQuery,       \* the empty text
  Matches,       \* [Query -> SUBSET Item]: what the server finds
  Stored,        \* relations the page can be loaded with
  Maxima,        \* values of data-max
  NoLimit,       \* no data-max
  MaxSearches    \* bound: searches under way at once

RelationPickerAssumption ==
  /\ NoQuery \in Query
  /\ Matches \in [Query -> SUBSET Item]
  /\ \A s \in Stored : s \in Seq(Item) /\ IsInjective(s)
  /\ Maxima \subseteq Nat \cup {NoLimit}
  /\ NoLimit \notin Nat
  /\ MaxSearches \in Nat

ASSUME RelationPickerAssumption

VARIABLES
  rpMultiple,    \* data-multiple
  rpMax,         \* data-max
  rpValue,       \* .rp-value: the ids the form posts
  rpChips,       \* .rp-chips: the items shown as chosen
  rpText,        \* .rp-search
  rpTimer,       \* a debounced search is due
  rpSent,        \* searches under way: text, and whether a younger one was answered
  rpList,        \* .rp-results: the items listed, kept while hidden
  rpListFor,     \* history: the text they were searched for
  rpShown,       \* .rp-results is displayed
  rpBlame        \* history: what parted the list from the text

rpPage == <<rpMultiple, rpMax>>
rpChosen == <<rpValue, rpChips>>
rpSearch == <<rpText, rpTimer, rpSent>>
rpResults == <<rpList, rpListFor, rpShown>>

rpVars == <<rpPage, rpChosen, rpSearch, rpResults, rpBlame>>

RelInit ==
  /\ rpMultiple \in BOOLEAN
  /\ rpMax \in Maxima
  /\ rpValue \in Stored /\ (rpMultiple \/ Len(rpValue) <= 1)
  /\ rpChips = rpValue
  /\ rpText = NoQuery /\ rpTimer = FALSE /\ rpSent = <<>>
  /\ rpList = {} /\ rpListFor = NoQuery /\ rpShown = FALSE
  /\ rpBlame = {}

-----------------------------------------------------------------------------
(* Searching. *)

\* Each key starts the 250 ms anew.
TypeQuery(t) ==
  /\ t # rpText
  /\ rpText' = t
  /\ rpTimer' = TRUE
  /\ UNCHANGED <<rpPage, rpChosen, rpSent, rpResults, rpBlame>>

\* The last results are shown again; only an empty list is searched for.
Focus ==
  /\ \/ rpList # {} /\ rpShown' = TRUE /\ UNCHANGED rpTimer
     \/ rpList = {} /\ rpTimer' = TRUE /\ UNCHANGED rpShown
  /\ UNCHANGED <<rpPage, rpChosen, rpText, rpSent, rpList, rpListFor, rpBlame>>

SendQuery ==
  /\ rpTimer /\ Len(rpSent) < MaxSearches
  /\ rpTimer' = FALSE
  /\ rpSent' = Append(rpSent, [text |-> rpText, late |-> FALSE])
  /\ UNCHANGED <<rpPage, rpChosen, rpText, rpResults, rpBlame>>

\* What is under way once the i-th search was answered.
Rest(i) ==
  RemoveAt([k \in 1..Len(rpSent) |-> [rpSent[k] EXCEPT !.late = @ \/ k < i]], i)

\* The answer replaces the list, whatever was typed or answered since.
QueryAnswered(i) ==
  LET q == rpSent[i] IN
  /\ rpSent' = Rest(i)
  /\ rpList' = Matches[q.text]
  /\ rpListFor' = q.text
  /\ rpShown' = (Matches[q.text] # {})
  /\ rpBlame' = IF q.late THEN rpBlame \cup {"overtaken"}
                ELSE IF i = Len(rpSent) /\ q.text = rpText THEN {} ELSE rpBlame
  /\ UNCHANGED <<rpPage, rpChosen, rpText, rpTimer>>

\* An answer that is not ok counts as one without items.
QueryRefused(i) ==
  /\ rpSent' = Rest(i)
  /\ rpList' = {} /\ rpListFor' = rpSent[i].text /\ rpShown' = FALSE
  /\ UNCHANGED <<rpPage, rpChosen, rpText, rpTimer, rpBlame>>

\* The catch hides the results and keeps them.
QueryLost(i) ==
  /\ rpSent' = RemoveAt(rpSent, i)
  /\ rpShown' = FALSE
  /\ rpBlame' = rpBlame \cup {"failed"}
  /\ UNCHANGED <<rpPage, rpChosen, rpText, rpTimer, rpList, rpListFor>>

ClickOutside ==
  /\ rpShown' = FALSE
  /\ UNCHANGED <<rpPage, rpChosen, rpSearch, rpList, rpListFor, rpBlame>>

-----------------------------------------------------------------------------
(* Choosing: select, one action for each way through it. *)

Full == rpMultiple /\ rpMax # NoLimit /\ Len(rpValue) >= rpMax

\* A single picker is emptied before the check.
AlreadySelected(x) ==
  /\ rpShown /\ x \in rpList /\ x \in ToSet(rpValue)
  /\ rpValue' = IF rpMultiple THEN rpValue ELSE <<>>
  /\ rpChips' = IF rpMultiple THEN rpChips ELSE <<>>
  /\ UNCHANGED <<rpPage, rpSearch, rpResults, rpBlame>>

LimitReached(x) ==
  /\ rpShown /\ x \in rpList /\ x \notin ToSet(rpValue)
  /\ Full
  /\ rpShown' = FALSE
  /\ UNCHANGED <<rpPage, rpChosen, rpSearch, rpList, rpListFor, rpBlame>>

\* The text is cleared without an input event, so that nothing is searched for.
\* (Variant: an item that is there is added again.)
Added_Twice(x) ==
  /\ rpShown /\ x \in rpList
  /\ ~Full
  /\ rpValue' = Append(IF rpMultiple THEN rpValue ELSE <<>>, x)
  /\ rpChips' = Append(IF rpMultiple THEN rpChips ELSE <<>>, x)
  /\ rpText' = NoQuery
  /\ rpShown' = FALSE
  /\ rpBlame' = IF rpText = NoQuery THEN rpBlame ELSE rpBlame \cup {"cleared"}
  /\ UNCHANGED <<rpPage, rpTimer, rpSent, rpList, rpListFor>>

Added(x) ==
  /\ rpShown /\ x \in rpList /\ x \notin ToSet(rpValue)
  /\ ~Full
  /\ rpValue' = Append(IF rpMultiple THEN rpValue ELSE <<>>, x)
  /\ rpChips' = Append(IF rpMultiple THEN rpChips ELSE <<>>, x)
  /\ rpText' = NoQuery
  /\ rpShown' = FALSE
  /\ rpBlame' = IF rpText = NoQuery THEN rpBlame ELSE rpBlame \cup {"cleared"}
  /\ UNCHANGED <<rpPage, rpTimer, rpSent, rpList, rpListFor>>

\* The cross leaves the page with its chip, so that the click, once it has come up to
\* the document, is one outside the picker.  (Variant: only the chip goes.)
RemoveItem_ValueKept(k) ==
  /\ rpChips' = RemoveAt(rpChips, k)
  /\ rpShown' = FALSE
  /\ UNCHANGED <<rpPage, rpValue, rpSearch, rpList, rpListFor, rpBlame>>

RemoveItem(k) ==
  /\ rpValue' = Without(rpValue, rpChips[k])
  /\ rpChips' = RemoveAt(rpChips, k)
  /\ rpShown' = FALSE
  /\ UNCHANGED <<rpPage, rpSearch, rpList, rpListFor, rpBlame>>

-----------------------------------------------------------------------------
RelNext ==
  \/ \E t \in Query : TypeQuery(t)
  \/ Focus \/ SendQuery \/ ClickOutside
  \/ \E i \in 1..Len(rpSent) : QueryAnswered(i) \/ QueryRefused(i) \/ QueryLost(i)
  \/ \E x \in Item : AlreadySelected(x) \/ LimitReached(x) \/ Added(x)
  \/ \E k \in 1..Len(rpChips) : RemoveItem(k)

RelSpec == RelInit /\ [][RelNext]_rpVars

-----------------------------------------------------------------------------
(* Properties. *)

Search == [text : Query, late : BOOLEAN]

RelTypeOK ==
  /\ rpMultiple \in BOOLEAN /\ rpMax \in Nat \cup {NoLimit}
  /\ rpValue \in Seq(Item) /\ rpChips \in Seq(Item)
  /\ rpText \in Query /\ rpTimer \in BOOLEAN
  /\ rpSent \in Seq(Search)
  /\ rpList \subseteq Item /\ rpListFor \in Query /\ rpShown \in BOOLEAN
  /\ rpBlame \subseteq {"overtaken", "failed", "cleared"}

\* The chips are what the form posts, in the same order: select, the chip cross and
\* their early returns keep the two lists together.
RelChipsShowValue == rpChips = rpValue

\* No relation is posted twice, although results list the items already chosen.
RelIdsDistinct == IsInjective(rpValue)

\* A single relation never posts two ids, and one that is added never takes a
\* multiple one past its limit (docs/content-types.md:60).
LimitKept ==
  [][Len(rpValue') > Len(rpValue) =>
       Len(rpValue') <= IF ~rpMultiple THEN 1
                        ELSE IF rpMax = NoLimit THEN Len(rpValue) + 1 ELSE rpMax]_rpVars

\* Once nothing is due or under way, the results shown are those of the text typed,
\* unless an older answer came after a younger one (68-81: nothing tells them apart),
\* a search failed, or an item was chosen, which clears the text alone (52).
SettledListFitsText ==
  rpShown /\ ~rpTimer /\ rpSent = <<>> /\ rpBlame = {} => rpListFor = rpText

=============================================================================
