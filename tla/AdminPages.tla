----------------------------- MODULE AdminPages -----------------------------
(***************************************************************************)
(* The scripts of the admin pages side by side.  They share no state, so     *)
(* that a behaviour is one of a single script: the others stay as their      *)
(* pages were loaded.                                                        *)
(***************************************************************************)
EXTENDS RelationPicker, FieldOptions, FieldOrder, MediaEditor, CropDialog,
        IconPicker, SlugField, AdminShell

VARIABLE script

allVars == <<script, rpVars, foVars, fbVars, meVars, cdVars, ipVars, slugVars, shVars>>

\* Each script starts in any state its page can be loaded in while it is the one
\* looked at, else in one of them.
Init ==
  /\ script \in {"relation", "options", "order", "media", "crop", "icon", "slug", "shell"}
  /\ RelInit /\ FoInit /\ FbInit /\ MeInit /\ CdInit
  /\ IpInit /\ SlugInit /\ ShInit
  /\ script # "relation" => rpMultiple /\ rpMax = NoLimit /\ rpValue = <<>>
  /\ script # "options" => foType = "Text" /\ foRaw = NoOptions
  /\ script # "icon" => ipValue = NoIcon
  /\ script # "slug" => shSlug = <<>>

RelationStep == script = "relation" /\ RelNext
                /\ UNCHANGED <<script, foVars, fbVars, meVars, cdVars, ipVars, slugVars, shVars>>
OptionsStep == script = "options" /\ FoNext
               /\ UNCHANGED <<script, rpVars, fbVars, meVars, cdVars, ipVars, slugVars, shVars>>
OrderStep == script = "order" /\ FbNext
             /\ UNCHANGED <<script, rpVars, foVars, meVars, cdVars, ipVars, slugVars, shVars>>
MediaStep == script = "media" /\ MeNext
             /\ UNCHANGED <<script, rpVars, foVars, fbVars, cdVars, ipVars, slugVars, shVars>>
CropStep == script = "crop" /\ CdNext
            /\ UNCHANGED <<script, rpVars, foVars, fbVars, meVars, ipVars, slugVars, shVars>>
IconStep == script = "icon" /\ IpNext
            /\ UNCHANGED <<script, rpVars, foVars, fbVars, meVars, cdVars, slugVars, shVars>>
ShellStep == script = "shell" /\ ShNext
             /\ UNCHANGED <<script, rpVars, foVars, fbVars, meVars, cdVars, ipVars, slugVars>>
SlugStep == script = "slug" /\ SlugNext
            /\ UNCHANGED <<script, rpVars, foVars, fbVars, meVars, cdVars, ipVars, shVars>>

Next == RelationStep \/ OptionsStep \/ OrderStep \/ MediaStep \/ CropStep \/ IconStep
        \/ SlugStep \/ ShellStep

Spec == Init /\ [][Next]_allVars

-----------------------------------------------------------------------------
(* Properties. *)

AdminTypeOK ==
  /\ RelTypeOK /\ FoTypeOK /\ FbTypeOK /\ MeTypeOK /\ CdTypeOK /\ IpTypeOK
  /\ SlugTypeOK /\ ShTypeOK /\ RelIdsDistinct

\* A filtered list that has settled is the one of the text typed (relation-picker.js,
\* icon-picker.js).
SettledListsFit == SettledListFitsText /\ IconGridFitsText

\* A page that has settled shows what is stored (field-builder.js, media-editor.js,
\* site.js).
PagesShowStored ==
  /\ OrderAsShown
  /\ CardsShowNames /\ DialogShowsName /\ CropsOwnImage
  /\ NavRemembered

=============================================================================
