----------------------------- MODULE MediaPicker -----------------------------
(***************************************************************************)
(* The media picker of the content form (wwwroot/js/media-picker.js).  Every *)
(* media field has a hidden input and a row of chips; all fields share one   *)
(* dialog, one debounced library search and one upload button.  Searches     *)
(* and uploads are fetches whose answers come back at any later time and     *)
(* are taken up by whatever dialog is open then.                             *)
(*                                                                           *)
(* A file is identified with the media asset it becomes once uploaded.  The  *)
(* text that is searched for only narrows an answer; answers are all that    *)
(* fits or nothing.                                                          *)
(***************************************************************************)
EXTENDS IdLists

CONSTANTS
  Picker,        \* the .media-picker elements of the page
  Gallery,       \* those with data-multiple
  Media,         \* media assets, and files that can be uploaded
  Shelf,         \* assets in the library when the page is loaded
  OfType,        \* [Picker -> SUBSET Media]: data-media-type
  Fits,          \* [Picker -> SUBSET Media]: data-max-size-mb, data-allowed-formats
  Dead,          \* deleted assets that stored values still name
  Loaded,        \* [Picker -> set of hidden values with their chips, as rendered]
  None,          \* no picker, no file, no upload
  MaxSent        \* bound: searches under way at once

MediaPickerAssumption ==
  /\ Gallery \subseteq Picker
  /\ Shelf \subseteq Media
  /\ OfType \in [Picker -> SUBSET Media]
  /\ Fits \in [Picker -> SUBSET Media]
  /\ None \notin Picker /\ None \notin Media
  /\ MaxSent \in Nat
  /\ \A p \in Picker : \A r \in Loaded[p] :
       /\ r.value \in Seq(Media) /\ IsInjective(r.value)
       /\ r.chips \in Seq(Media) /\ IsInjective(r.chips)
       /\ ToSet(r.chips) = ToSet(r.value) \ Dead
       /\ ToSet(r.value) \subseteq OfType[p] \cup Fits[p]
       /\ p \in Gallery \/ Len(r.value) <= 1
  \* A file that is uploaded becomes a new asset.
  /\ Shelf \cap Dead = {}
  /\ \A p \in Picker : Fits[p] \cap Dead = {}

ASSUME MediaPickerAssumption

VARIABLES
  value,         \* .mp-value: the list of ids each picker posts
  chips,         \* .mp-chips: the media each picker shows
  library,       \* assets stored on the server
  modal,         \* the dialog: Bootstrap fades it in and out
  active,        \* activePicker, with which the other active... variables change
  working,       \* workingSet: a Map keeps the order of insertion
  timer,         \* a debounced search is due
  sent,          \* searches under way, each with the picker whose filter it has
  grid,          \* the cards
  file,          \* mpmFile
  upload,        \* the upload under way; its button is disabled meanwhile
  status,        \* mpmStatus
  mixed,         \* history: an answer was taken up by another picker's dialog
  done           \* history: flips with every click on Done

pickerVars == <<value, chips, library, modal, active, working, timer, sent, grid, file,
                upload, status, mixed, done>>

NoUpload == [media |-> None, by |-> None, stored |-> FALSE]

\* modal.hide() does nothing while the dialog fades in or out.
AfterHide == IF modal = "shown" THEN "hiding" ELSE modal

Visible == modal # "hidden"

-----------------------------------------------------------------------------
PickerInit ==
  /\ \E r \in [Picker -> UNION {Loaded[p] : p \in Picker}] :
       /\ \A p \in Picker : r[p] \in Loaded[p]
       /\ value = [p \in Picker |-> r[p].value]
       /\ chips = [p \in Picker |-> r[p].chips]
  /\ library = Shelf
  /\ modal = "hidden"
  /\ active = None
  /\ working = <<>>
  /\ timer = FALSE
  /\ sent = <<>>
  /\ grid = {}
  /\ file = None
  /\ upload = NoUpload
  /\ status = "clear"
  /\ mixed = FALSE
  /\ done = FALSE

-----------------------------------------------------------------------------
(* The dialog. *)

\* The page behind the dialog can be used only once it has faded out.  A gallery's
\* working set starts from its chips.  (Variant: the cards of the last dialog stay.)
OpenFor_GridKept(p) ==
  /\ modal = "hidden"
  /\ modal' = "showing"
  /\ active' = p
  /\ file' = None /\ status' = "clear"
  /\ working' = IF p \in Gallery THEN chips[p] ELSE <<>>
  /\ timer' = TRUE
  /\ UNCHANGED <<value, chips, library, sent, grid, upload, mixed, done>>

OpenFor(p) ==
  /\ modal = "hidden"
  /\ modal' = "showing"
  /\ active' = p
  /\ grid' = {} /\ file' = None /\ status' = "clear"
  /\ working' = IF p \in Gallery THEN chips[p] ELSE <<>>
  /\ timer' = TRUE
  /\ UNCHANGED <<value, chips, library, sent, upload, mixed, done>>

FadedIn ==
  /\ modal = "showing"
  /\ modal' = "shown"
  /\ UNCHANGED <<value, chips, library, active, working, timer, sent, grid, file, upload,
                 status, mixed, done>>

\* The close and cancel buttons.  (Variant: what a gallery's dialog has chosen is kept.)
Dismiss_Commits ==
  /\ modal = "shown"
  /\ modal' = "hiding"
  /\ \/ /\ active \in Gallery
        /\ value' = [value EXCEPT ![active] = working]
        /\ chips' = [chips EXCEPT ![active] = working]
     \/ active \notin Gallery /\ UNCHANGED <<value, chips>>
  /\ UNCHANGED <<library, active, working, timer, sent, grid, file, upload, status, mixed, done>>

Dismiss ==
  /\ modal = "shown"
  /\ modal' = "hiding"
  /\ UNCHANGED <<value, chips, library, active, working, timer, sent, grid, file, upload,
                 status, mixed, done>>

\* hidden.bs.modal: the reset.  A search that is due, searches and an upload under
\* way go on.
FadedOut ==
  /\ modal = "hiding"
  /\ modal' = "hidden"
  /\ active' = None
  /\ working' = <<>>
  /\ grid' = {} /\ file' = None /\ status' = "clear"
  /\ UNCHANGED <<value, chips, library, timer, sent, upload, mixed, done>>

-----------------------------------------------------------------------------
(* Choosing. *)

CommitSingle(m) ==
  /\ value' = [value EXCEPT ![active] = <<m>>]
  /\ chips' = [chips EXCEPT ![active] = <<m>>]
  /\ modal' = AfterHide

\* A card of a single picker is taken at once, one of a gallery joins or leaves the
\* working set.  (Variant: a card that is selected is added once more.)
ClickCard_Twice(m) ==
  /\ Visible /\ m \in grid
  /\ \/ active \notin Gallery /\ CommitSingle(m) /\ UNCHANGED working
     \/ /\ active \in Gallery
        /\ working' = Append(working, m)
        /\ UNCHANGED <<value, chips, modal>>
  /\ UNCHANGED <<library, active, timer, sent, grid, file, upload, status, mixed, done>>

ClickCard(m) ==
  /\ Visible /\ m \in grid
  /\ \/ active \notin Gallery /\ CommitSingle(m) /\ UNCHANGED working
     \/ /\ active \in Gallery
        /\ working' = IF m \in ToSet(working) THEN Without(working, m) ELSE Append(working, m)
        /\ UNCHANGED <<value, chips, modal>>
  /\ UNCHANGED <<library, active, timer, sent, grid, file, upload, status, mixed, done>>

\* The Done button, shown for galleries only.
CommitGallery ==
  /\ Visible /\ active \in Gallery
  /\ value' = [value EXCEPT ![active] = working]
  /\ chips' = [chips EXCEPT ![active] = working]
  /\ modal' = AfterHide
  /\ done' = ~done
  /\ UNCHANGED <<library, active, working, timer, sent, grid, file, upload, status, mixed>>

\* The cross of a chip writes the hidden input of its own picker.  (Variant: it
\* forgets to.)
RemoveChip_ValueKept(p, i) ==
  /\ ~Visible
  /\ chips' = [chips EXCEPT ![p] = RemoveAt(chips[p], i)]
  /\ UNCHANGED <<value, library, modal, active, working, timer, sent, grid, file, upload,
                 status, mixed, done>>

RemoveChip(p, i) ==
  /\ ~Visible
  /\ chips' = [chips EXCEPT ![p] = RemoveAt(chips[p], i)]
  /\ value' = [value EXCEPT ![p] = IF p \in Gallery THEN Without(value[p], chips[p][i])
                                   ELSE <<>>]
  /\ UNCHANGED <<library, modal, active, working, timer, sent, grid, file, upload, status,
                 mixed, done>>

-----------------------------------------------------------------------------
(* The search. *)

\* Typing starts the 250 ms anew; an upload and opening the dialog do, too.
TypeText ==
  /\ Visible
  /\ timer' = TRUE
  /\ UNCHANGED <<value, chips, library, modal, active, working, sent, grid, file, upload,
                 status, mixed, done>>

\* The filter is that of the picker active when the time is up; with the dialog
\* closed there is none.
FireSearch ==
  /\ timer /\ Len(sent) < MaxSent
  /\ timer' = FALSE
  /\ sent' = Append(sent, active)
  /\ UNCHANGED <<value, chips, library, modal, active, working, grid, file, upload, status,
                 mixed, done>>

FoundFor(p) == library \cap (IF p = None THEN Media ELSE OfType[p])

\* Answers arrive in any order.  renderGrid shows them in whatever dialog is open.
SearchAnswered(i) ==
  /\ sent' = RemoveAt(sent, i)
  /\ grid' \in {FoundFor(sent[i]), {}}
  /\ mixed' = (mixed \/ (active # None /\ sent[i] # active))
  /\ UNCHANGED <<value, chips, library, modal, active, working, timer, file, upload, status,
                 done>>

SearchLost(i) ==
  /\ sent' = RemoveAt(sent, i)
  /\ UNCHANGED <<value, chips, library, modal, active, working, timer, grid, file, upload,
                 status, mixed, done>>

-----------------------------------------------------------------------------
(* The upload. *)

ChooseFile(m) ==
  /\ Visible /\ m \notin library /\ m # upload.media
  /\ file' = m
  /\ UNCHANGED <<value, chips, library, modal, active, working, timer, sent, grid, upload,
                 status, mixed, done>>

\* The button is disabled while an upload is under way.  Size and format are checked,
\* the type is not.
ClickUpload ==
  /\ Visible /\ upload = NoUpload /\ file # None
  /\ \/ file \notin Fits[active] /\ status' = "refused" /\ UNCHANGED upload
     \/ /\ file \in Fits[active]
        /\ upload' = [media |-> file, by |-> active, stored |-> FALSE]
        /\ status' = "clear"
  /\ UNCHANGED <<value, chips, library, modal, active, working, timer, sent, grid, file, mixed,
                 done>>

UploadStored ==
  /\ upload # NoUpload /\ ~upload.stored
  /\ library' = library \cup {upload.media}
  /\ upload' = [upload EXCEPT !.stored = TRUE]
  /\ UNCHANGED <<value, chips, modal, active, working, timer, sent, grid, file, status, mixed,
                 done>>

\* The asset goes to the dialog that is open when the answer arrives.  With none open,
\* commitSingle fails on the null picker, and the catch reports a connection error.
UploadAnswered ==
  /\ upload # NoUpload /\ upload.stored
  /\ upload' = NoUpload
  /\ mixed' = (mixed \/ (active # None /\ upload.by # active))
  /\ \/ /\ active = None
        /\ status' = "connection"
        /\ UNCHANGED <<value, chips, modal, working, timer, file>>
     \/ /\ active \in Picker \ Gallery
        /\ CommitSingle(upload.media)
        /\ UNCHANGED <<working, timer, file, status>>
     \/ /\ active \in Gallery
        /\ working' = Put(working, upload.media)
        /\ timer' = TRUE /\ file' = None /\ status' = "clear"
        /\ UNCHANGED <<value, chips, modal>>
  /\ UNCHANGED <<library, active, sent, grid, done>>

\* The server refuses the file, or the connection breaks before or after it is stored.
UploadFailed ==
  /\ upload # NoUpload
  /\ upload' = NoUpload
  /\ status' \in (IF upload.stored THEN {"connection"} ELSE {"connection", "uploadfail"})
  /\ UNCHANGED <<value, chips, library, modal, active, working, timer, sent, grid, file, mixed,
                 done>>

-----------------------------------------------------------------------------
PickerNext ==
  \/ \E p \in Picker : OpenFor(p)
  \/ FadedIn \/ Dismiss \/ FadedOut
  \/ \E m \in Media : ClickCard(m)
  \/ CommitGallery
  \/ \E p \in Picker : \E i \in 1..Len(chips[p]) : RemoveChip(p, i)
  \/ TypeText \/ FireSearch
  \/ \E i \in 1..Len(sent) : SearchAnswered(i) \/ SearchLost(i)
  \/ \E m \in Media : ChooseFile(m)
  \/ ClickUpload \/ UploadStored \/ UploadAnswered \/ UploadFailed

PickerSpec == PickerInit /\ [][PickerNext]_pickerVars

-----------------------------------------------------------------------------
(* Properties. *)

Upload == [media : Media, by : Picker, stored : BOOLEAN]

IdsDistinct ==
  /\ \A p \in Picker : IsInjective(value[p]) /\ IsInjective(chips[p])
  /\ IsInjective(working)

\* The types; and no field posts an asset twice, whichever way its cards, uploads and
\* chips were used (workingSet is a Map; an upload is set, a card toggles).
PickerTypeOK ==
  /\ value \in [Picker -> Seq(Media)] /\ chips \in [Picker -> Seq(Media)]
  /\ library \subseteq Media /\ grid \subseteq Media
  /\ modal \in {"hidden", "showing", "shown", "hiding"}
  /\ active \in Picker \cup {None}
  /\ (active = None) = (modal = "hidden")
  /\ working \in Seq(Media)
  /\ sent \in Seq(Picker \cup {None})
  /\ file \in Media \cup {None}
  /\ upload \in Upload \cup {NoUpload}
  /\ status \in {"clear", "refused", "connection", "uploadfail"}
  /\ timer \in BOOLEAN /\ mixed \in BOOLEAN /\ done \in BOOLEAN
  /\ IdsDistinct

\* What a picker shows is what it posts: its chips are the media of its hidden value,
\* all but those deleted from the library since (commitSingle, commitGallery and the
\* chip cross write both, each in its own way).
ChipsShowValue ==
  \A p \in Picker : ToSet(chips[p]) = ToSet(value[p]) \ Dead

Allowed(p) == OfType[p] \cup Fits[p]

\* Pickers are isolated from each other (media-picker.js:316): a field gets only what
\* its own filter finds or its own limits let through.
PickersIsolated ==
  \A p \in Picker : ToSet(value[p]) \subseteq Allowed(p)

\* They are, as long as no answer was taken up by the dialog of another picker: the
\* reset between two dialogs keeps cards, working set and file apart.
PickersIsolatedInSeries == ~mixed => PickersIsolated

\* A gallery's working set is not committed until Done is clicked
\* (media-picker.js:58).  While a dialog is open, what a gallery posts changes only if
\* Done is clicked in its own dialog, to the working set there: a dialog that is
\* dismissed or fades out, a card, an upload or a late answer leaves it.  With no dialog
\* open it can only lose assets.
GalleryWaitsForDone ==
  [][\A g \in Gallery : value'[g] # value[g] =>
       \/ done' # done /\ g = active /\ value'[g] = working
       \/ ~Visible /\ ToSet(value'[g]) \subseteq ToSet(value[g])]_pickerVars

=============================================================================
