---------------------------- MODULE FieldOptions ----------------------------
(***************************************************************************)
(* The options dialog of the field builder (wwwroot/js/field-options.js over *)
(* Views/ContentField/_FieldOptionsModal.cshtml).  Opening it reads the      *)
(* options_json of the form into inputs, one group of which is shown for the *)
(* type of the field; Apply writes options_json from the inputs.  The two    *)
(* dropdowns of a relation are filled by fetches, which are answered at any  *)
(* later time, whatever the dialog shows by then.                            *)
(*                                                                           *)
(* A key that options_json lacks and an empty input are both "".             *)
(***************************************************************************)
EXTENDS Naturals, Sequences, SequencesExt

CONSTANTS
  Kind,          \* field types
  Entry,         \* what inputs and options hold, "" besides
  Norm,          \* [Entry -> Entry]: a text as parsed, trimmed, lowercased by Apply
  Typed,         \* [Key -> SUBSET Entry]: what an administrator enters for each key
  TypeId,        \* content types
  FieldsOf,      \* [TypeId -> SUBSET Entry]: slugs of the fields of each
  Choice,        \* choices of a Select
  RawTexts,      \* options_json a page is loaded with or an administrator types
  MaxChoices,    \* bound: chips in the choices list
  MaxPending     \* bound: fetches under way at once

\* The .fo-input elements in the order of the document, with the key of each, the
\* field types that show it, and what a reset leaves in it (a select its first option).
Inputs == <<
  [key |-> "max_length",      types |-> {"Text"},                     reset |-> ""],
  [key |-> "placeholder",     types |-> {"Text"},                     reset |-> ""],
  [key |-> "placeholder",     types |-> {"RichText", "Markdown"},     reset |-> ""],
  [key |-> "min",             types |-> {"Number", "Decimal"},        reset |-> ""],
  [key |-> "max",             types |-> {"Number", "Decimal"},        reset |-> ""],
  [key |-> "decimals",        types |-> {"Number", "Decimal"},        reset |-> ""],
  [key |-> "max",             types |-> {"Rating"},                   reset |-> "5"],
  [key |-> "max_size_mb",     types |-> {"Image", "Video", "Audio", "File", "Gallery"},
                                                                      reset |-> ""],
  [key |-> "allowed_formats", types |-> {"Image", "Video", "Audio", "File", "Gallery"},
                                                                      reset |-> ""],
  [key |-> "language",        types |-> {"CodeSnippet"},              reset |-> ""],
  [key |-> "target_content_type_id", types |-> {"Relation", "MultiRelation"}, reset |-> ""],
  [key |-> "display_field_slug",     types |-> {"Relation", "MultiRelation"}, reset |-> ""],
  [key |-> "min_items",       types |-> {"MultiRelation"},            reset |-> ""],
  [key |-> "max_items",       types |-> {"MultiRelation"},            reset |-> ""] >>

Index == DOMAIN Inputs
Key == {Inputs[i].key : i \in Index}
KeysOf(t) == {Inputs[i].key : i \in {j \in Index : t \in Inputs[j].types}}

Relations == {"Relation", "MultiRelation"}
Selects == {"Select", "MultiSelect"}

\* querySelector('.fo-input[data-key=...]') finds the first.
First(k) == CHOOSE i \in Index : Inputs[i].key = k /\ \A j \in Index :
                                   Inputs[j].key = k => i <= j

Target == First("target_content_type_id")
Display == First("display_field_slug")

NoOptions == [data |-> [k \in Key |-> ""], choices |-> <<>>]

FieldOptionsAssumption ==
  /\ {"", "5", "10"} \cup TypeId \subseteq Entry
  /\ Norm \in [Entry -> Entry]
  /\ \A v \in Entry : Norm[Norm[v]] = Norm[v]
  /\ Typed \in [Key -> SUBSET Entry]
  /\ \A v \in {"", "5"} \cup TypeId : Norm[v] = v
  /\ "" \notin TypeId
  /\ FieldsOf \in [TypeId -> SUBSET (Entry \ {""})]
  /\ \A t \in TypeId : \A s \in FieldsOf[t] : Norm[s] = s
  /\ \A r \in RawTexts : r \in [data : [Key -> Entry], choices : Seq(Choice)]
  /\ MaxChoices \in Nat /\ MaxPending \in Nat

ASSUME FieldOptionsAssumption

VARIABLES
  foType,        \* FieldType of the form
  foRaw,         \* #fo-raw-json
  foOpen,        \* the dialog is shown
  foInput,       \* the inputs
  foChips,       \* #fo-choices-list
  foTypes,       \* _ctCache is set and the target dropdown filled
  foDisplays,    \* options of the display-field dropdown
  foPending,     \* fetches under way, with the options their callback will set
  foClean,       \* history: nothing was edited since the dialog opened
  foLost,        \* history: a fetch answered since then failed
  foMixed        \* history: an answer not meant for the dialog as it is was taken up

foForm == <<foType, foRaw>>
foLists == <<foTypes, foDisplays, foPending>>
foHistory == <<foClean, foLost, foMixed>>

foVars == <<foForm, foOpen, foInput, foChips, foLists, foHistory>>

Visible(i) == foType \in Inputs[i].types

FieldsFetch(target, slug, old) ==
  [call |-> "fields", target |-> target, slug |-> slug, old |-> old]

FoInit ==
  /\ foType \in Kind
  /\ foRaw \in RawTexts
  /\ foOpen = FALSE
  /\ foInput = [i \in Index |-> Inputs[i].reset]
  /\ foChips = <<>>
  /\ foTypes = FALSE /\ foDisplays = {} /\ foPending = <<>>
  /\ foClean = TRUE /\ foLost = FALSE /\ foMixed = FALSE

-----------------------------------------------------------------------------
(* The form behind the dialog. *)

ChangeType(t) ==
  /\ ~foOpen
  /\ foType' = t
  /\ UNCHANGED <<foRaw, foOpen, foInput, foChips, foLists, foHistory>>

EditRaw(r) ==
  /\ ~foOpen
  /\ foRaw' = r
  /\ UNCHANGED <<foType, foOpen, foInput, foChips, foLists, foHistory>>

-----------------------------------------------------------------------------
(* Opening: populateFromJson. *)

\* The keys set at once; those of a relation's dropdowns wait for their options.
SetAtOnce ==
  CASE foType \in Relations -> KeysOf(foType) \ {"target_content_type_id", "display_field_slug"}
    [] OTHER -> KeysOf(foType)

ValueSet(k) ==
  IF foType = "Rating" /\ foRaw # NoOptions /\ foRaw.data[k] = "" THEN "5" ELSE foRaw.data[k]

Populated ==
  [i \in Index |->
     LET k == Inputs[i].key IN
     IF i = First(k) /\ k \in SetAtOnce /\ ValueSet(k) # "" THEN ValueSet(k)
     ELSE Inputs[i].reset]

\* A select takes only a value among its options.
Selected(v, options) == IF v \in options THEN v ELSE ""

\* A relation's target, once the dropdown is filled, and the load of its fields.
WithTarget(input, target, listed) ==
  [input EXCEPT ![Target] = Selected(target, IF listed THEN TypeId ELSE {}),
                ![Display] = ""]

OpenModal ==
  /\ ~foOpen
  /\ foOpen' = TRUE
  /\ foClean' = TRUE /\ foLost' = FALSE /\ foMixed' = FALSE
  /\ foChips' = IF foType \in Selects THEN foRaw.choices ELSE <<>>
  /\ LET target == foRaw.data["target_content_type_id"]
         slug == foRaw.data["display_field_slug"]
         earlier == [k \in 1..Len(foPending) |-> [foPending[k] EXCEPT !.old = TRUE]]
     IN
     \/ /\ foType \notin Relations
        /\ foInput' = Populated /\ foPending' = earlier /\ UNCHANGED foDisplays
     \/ /\ foType \in Relations /\ ~foTypes /\ Len(foPending) < MaxPending
        /\ foInput' = Populated
        /\ foPending' = Append(earlier, [call |-> "types", target |-> target,
                                         slug |-> slug, old |-> FALSE])
        /\ UNCHANGED foDisplays
     \/ /\ foType \in Relations /\ foTypes /\ target = ""
        /\ foInput' = Populated /\ foPending' = earlier /\ UNCHANGED foDisplays
     \/ /\ foType \in Relations /\ foTypes /\ target # "" /\ Len(foPending) < MaxPending
        /\ foInput' = WithTarget(Populated, target, TRUE)
        /\ foDisplays' = {}
        /\ foPending' = Append(earlier, FieldsFetch(target, slug, FALSE))
  /\ UNCHANGED <<foForm, foTypes>>

-----------------------------------------------------------------------------
(* The answers to the fetches, in any order.  The callback runs after a failure, too. *)

TypesArrived(n, ok) ==
  LET a == foPending[n] IN
  /\ a.call = "types"
  /\ foTypes' = (foTypes \/ ok)
  /\ foLost' = (foLost \/ ~ok)
  /\ foMixed' = (foMixed \/ a.old)
  /\ \/ /\ a.target = ""
        /\ foPending' = RemoveAt(foPending, n)
        /\ UNCHANGED <<foInput, foDisplays>>
     \/ /\ a.target # ""
        /\ foInput' = WithTarget(foInput, a.target, foTypes')
        /\ foDisplays' = {}
        /\ foPending' = Append(RemoveAt(foPending, n), FieldsFetch(a.target, a.slug, a.old))
  /\ UNCHANGED <<foForm, foOpen, foChips, foClean>>

\* The fields found join the options that are there.
FieldsArrived(n, ok) ==
  LET a == foPending[n] IN
  /\ a.call = "fields"
  /\ foPending' = RemoveAt(foPending, n)
  /\ foDisplays' = foDisplays \cup
                     (IF ok /\ a.target \in TypeId THEN FieldsOf[a.target] ELSE {})
  /\ foInput' = IF a.slug = "" THEN foInput
                ELSE [foInput EXCEPT ![Display] = Selected(a.slug, foDisplays')]
  /\ foLost' = (foLost \/ ~ok)
  /\ foMixed' = (foMixed \/ a.old \/ a.target # foInput[Target])
  /\ UNCHANGED <<foForm, foOpen, foChips, foTypes, foClean>>

-----------------------------------------------------------------------------
(* Editing. *)

EditInput(i, v) ==
  /\ foOpen /\ Visible(i) /\ i \notin {Target, Display}
  /\ v \in IF foType = "Rating" THEN {"5", "10"} ELSE Typed[Inputs[i].key]
  /\ v # foInput[i]
  /\ foInput' = [foInput EXCEPT ![i] = v]
  /\ foClean' = FALSE
  /\ UNCHANGED <<foForm, foOpen, foChips, foLists, foLost, foMixed>>

\* (Variant: the fields of the last target stay.)
ChooseTarget_DisplayKept(t) ==
  /\ foOpen /\ foType \in Relations
  /\ foTypes /\ t # foInput[Target]
  /\ foInput' = [foInput EXCEPT ![Target] = t]
  /\ foClean' = FALSE
  /\ UNCHANGED <<foForm, foOpen, foChips, foLists, foLost, foMixed>>

ChooseTarget(t) ==
  /\ foOpen /\ foType \in Relations
  /\ foTypes /\ t # foInput[Target]
  /\ foInput' = [foInput EXCEPT ![Target] = t, ![Display] = ""]
  /\ foDisplays' = {}
  /\ \/ t = "" /\ UNCHANGED foPending
     \/ /\ t # "" /\ Len(foPending) < MaxPending
        /\ foPending' = Append(foPending, FieldsFetch(t, "", FALSE))
  /\ foClean' = FALSE
  /\ UNCHANGED <<foForm, foOpen, foChips, foTypes, foLost, foMixed>>

ChooseDisplay(s) ==
  /\ foOpen /\ foType \in Relations
  /\ s \in foDisplays \cup {""} /\ s # foInput[Display]
  /\ foInput' = [foInput EXCEPT ![Display] = s]
  /\ foClean' = FALSE
  /\ UNCHANGED <<foForm, foOpen, foChips, foLists, foLost, foMixed>>

AddChoice(c) ==
  /\ foOpen /\ foType \in Selects /\ Len(foChips) < MaxChoices
  /\ foChips' = Append(foChips, c)
  /\ foClean' = FALSE
  /\ UNCHANGED <<foForm, foOpen, foInput, foLists, foLost, foMixed>>

RemoveChoice(n) ==
  /\ foOpen /\ foType \in Selects
  /\ foChips' = RemoveAt(foChips, n)
  /\ foClean' = FALSE
  /\ UNCHANGED <<foForm, foOpen, foInput, foLists, foLost, foMixed>>

-----------------------------------------------------------------------------
(* Apply: serializeGroup. *)

Written(k) ==
  LET v == Norm[foInput[First(k)]] IN
  IF foType = "Rating" /\ v = "" THEN "5" ELSE v

\* (Variant: the target of a relation is written, its display field is not.)
Serialized_DisplayLost ==
  IF foType \in Relations /\ foInput[Target] = "" THEN NoOptions
  ELSE [data |-> [k \in Key |-> IF k \in KeysOf(foType) \ {"display_field_slug"}
                                THEN Written(k) ELSE ""],
        choices |-> IF foType \in Selects THEN foChips ELSE <<>>]

Serialized ==
  IF foType \in Relations /\ foInput[Target] = "" THEN NoOptions
  ELSE [data |-> [k \in Key |-> IF k \in KeysOf(foType) THEN Written(k) ELSE ""],
        choices |-> IF foType \in Selects THEN foChips ELSE <<>>]

Apply ==
  /\ foOpen
  /\ foRaw' = Serialized
  /\ foOpen' = FALSE
  /\ UNCHANGED <<foType, foInput, foChips, foLists, foHistory>>

Cancel ==
  /\ foOpen
  /\ foOpen' = FALSE
  /\ UNCHANGED <<foForm, foInput, foChips, foLists, foHistory>>

-----------------------------------------------------------------------------
FoNext ==
  \/ \E t \in Kind : ChangeType(t)
  \/ \E r \in RawTexts : EditRaw(r)
  \/ OpenModal \/ Apply \/ Cancel
  \/ \E n \in 1..Len(foPending), ok \in BOOLEAN : TypesArrived(n, ok) \/ FieldsArrived(n, ok)
  \/ \E i \in Index, v \in Entry : EditInput(i, v)
  \/ \E t \in TypeId \cup {""} : ChooseTarget(t)
  \/ \E s \in Entry : ChooseDisplay(s)
  \/ \E c \in Choice : AddChoice(c)
  \/ \E n \in 1..Len(foChips) : RemoveChoice(n)

FoSpec == FoInit /\ [][FoNext]_foVars

-----------------------------------------------------------------------------
(* Properties. *)

Fetch == [call : {"types", "fields"}, target : Entry, slug : Entry, old : BOOLEAN]

FoTypeOK ==
  /\ foType \in Kind
  /\ foRaw \in [data : [Key -> Entry], choices : Seq(Choice)]
  /\ foOpen \in BOOLEAN
  /\ foInput \in [Index -> Entry]
  /\ foChips \in Seq(Choice)
  /\ foTypes \in BOOLEAN /\ foDisplays \subseteq Entry
  /\ foPending \in Seq(Fetch)
  /\ foClean \in BOOLEAN /\ foLost \in BOOLEAN /\ foMixed \in BOOLEAN

\* Options that the dialog could have written for a field of type t.
Sound(r, t) ==
  /\ \A k \in Key : IF k \in KeysOf(t) THEN Norm[r.data[k]] = r.data[k] ELSE r.data[k] = ""
  /\ t \in Selects \/ r.choices = <<>>
  /\ t = "Rating" => r.data["max"] # ""
  /\ t \in Relations /\ r # NoOptions =>
       /\ r.data["target_content_type_id"] \in TypeId
       /\ r.data["display_field_slug"] \in FieldsOf[r.data["target_content_type_id"]] \cup {""}

\* Opening the dialog and applying it untouched leaves sound options as they are, for
\* every type of field, once the dropdowns are filled.  Before that, after a failed
\* fetch, or after the answer to a fetch of an earlier opening, Apply erases or
\* replaces a relation's options (field-options.js:197-201).
UntouchedKept ==
  [][foOpen /\ foClean /\ foPending = <<>> /\ ~foLost /\ ~foMixed /\ Sound(foRaw, foType)
       => foRaw' = foRaw]_foVars

\* The display field offered and chosen is one of the target chosen, as long as the
\* fields of another target, or of an earlier opening, were not added to the dropdown
\* (293-304: they join the options that are there).
DisplayOfTarget ==
  foInput[Target] # "" /\ ~foMixed =>
    foInput[Display] \in FieldsOf[foInput[Target]] \cup {""}

\* The dialog reads and writes the options of each field type (field-options.js:1):
\* what an input shows is what Apply will write for its key.  It is not for types whose
\* input is not the first of its key: the stars of a Rating and the placeholder of a
\* RichText or Markdown field are never read (143, 212).
ShownIsStored ==
  foOpen /\ ~(foType \in Relations /\ foInput[Target] = "") =>
    \A i \in Index : Visible(i) => Serialized.data[Inputs[i].key] = Norm[foInput[i]]

=============================================================================
