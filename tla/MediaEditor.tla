----------------------------- MODULE MediaEditor -----------------------------
(***************************************************************************)
(* The rename dialog of the media page (wwwroot/js/media-editor.js): a POST  *)
(* renames an item and the answer updates its card in place.  The dialog can *)
(* be closed, and opened for another card, while the POST is under way, and  *)
(* the page can be loaded anew: by a link, a form, or the upload script.     *)
(* The server may store the name a page that was left has sent.              *)
(***************************************************************************)
EXTENDS Naturals, FiniteSets

CONSTANTS
  Asset,         \* the items on the page
  Name,          \* base names, NoName the empty one
  NoName,
  Clean,         \* [Name -> Name]: what UpdateMetaAsync makes of one; NoName is refused
  Named,         \* [Asset -> Name]: the names when the page is first loaded
  NoAsset,       \* no item, no request
  MaxLeft        \* bound: renames under way whose answers no page awaits

MediaEditorAssumption ==
  /\ NoName \in Name /\ NoAsset \notin Asset
  /\ Clean \in [Name -> Name] /\ Clean[NoName] = NoName
  /\ Named \in [Asset -> Name]
  /\ MaxLeft \in Nat

ASSUME MediaEditorAssumption

VARIABLES
  meDb,          \* names on the server
  meCard,        \* names the cards show
  meData,        \* data-base of the rename buttons
  meOpen,        \* the rename dialog is shown
  meCurrent,     \* currentId: stays when the dialog is closed
  meBase,        \* #rename-base
  meSave,        \* the save under way; its button is disabled meanwhile
  meLeft,        \* renames under way on the server, of pages left or connections lost
  meTyped,       \* history: #rename-base was typed in since the dialog was opened
  meRenamed,     \* history: items renamed since the page was loaded
  meBlame        \* history: cards parted from the server, for a cause named at its action

meNames == <<meDb, meCard, meData>>
meDialog == <<meOpen, meCurrent, meBase, meTyped>>
meHistory == <<meRenamed, meBlame>>

meVars == <<meNames, meDialog, meSave, meLeft, meHistory>>

NoSave == [id |-> NoAsset, base |-> NoName, stored |-> FALSE]

MeInit ==
  /\ meDb = Named
  /\ meCard = meDb /\ meData = meDb
  /\ meOpen = FALSE /\ meCurrent = NoAsset /\ meBase = NoName /\ meTyped = FALSE
  /\ meSave = NoSave /\ meLeft = {}
  /\ meRenamed = {} /\ meBlame = {}

\* The rename sent and not yet stored, as it will be unless it is refused.
Unstored == IF meSave = NoSave \/ meSave.stored \/ Clean[meSave.base] = NoName THEN {}
            ELSE {[id |-> meSave.id, name |-> Clean[meSave.base]]}

-----------------------------------------------------------------------------
OpenRename(a) ==
  /\ ~meOpen
  /\ meOpen' = TRUE /\ meCurrent' = a /\ meTyped' = FALSE
  /\ meBase' = meData[a]
  /\ UNCHANGED <<meNames, meSave, meLeft, meHistory>>

TypeBase(n) ==
  /\ meOpen
  /\ meBase' = n /\ meTyped' = TRUE
  /\ UNCHANGED <<meNames, meOpen, meCurrent, meSave, meLeft, meHistory>>

\* An empty name is refused before anything is sent.
ClickSave ==
  /\ meOpen /\ meSave = NoSave /\ meBase # NoName
  /\ meSave' = [id |-> meCurrent, base |-> meBase, stored |-> FALSE]
  /\ UNCHANGED <<meNames, meDialog, meLeft, meHistory>>

CloseRename ==
  /\ meOpen
  /\ meOpen' = FALSE /\ meTyped' = FALSE
  /\ UNCHANGED <<meNames, meCurrent, meBase, meSave, meLeft, meHistory>>

RenameStored ==
  /\ meSave # NoSave /\ ~meSave.stored /\ Clean[meSave.base] # NoName
  /\ meDb' = [meDb EXCEPT ![meSave.id] = Clean[meSave.base]]
  /\ meRenamed' = meRenamed \cup {meSave.id}
  /\ meSave' = [meSave EXCEPT !.stored = TRUE]
  /\ UNCHANGED <<meCard, meData, meDialog, meLeft, meBlame>>

\* Two cards are blamed when the answer finds the dialog moved to another item, and the
\* card that gets a name which the server stored cleaned.
AnswerBlames ==
  (IF meCurrent # meSave.id THEN {meCurrent, meSave.id} ELSE {})
    \cup (IF Clean[meSave.base] # meSave.base THEN {meCurrent} ELSE {})

\* The card of the item the dialog shows by then gets the name that was sent, and
\* the dialog is closed.  (Variant: the card gets the name the input has by then.)
RenameAnswered_Input ==
  /\ meSave.stored
  /\ meCard' = [meCard EXCEPT ![meCurrent] = meBase]
  /\ meOpen' = FALSE /\ meTyped' = FALSE
  /\ meSave' = NoSave
  /\ meBlame' = meBlame \cup AnswerBlames
  /\ UNCHANGED <<meDb, meData, meCurrent, meBase, meLeft, meRenamed>>

RenameAnswered ==
  /\ meSave.stored
  /\ meCard' = [meCard EXCEPT ![meCurrent] = meSave.base]
  /\ meOpen' = FALSE /\ meTyped' = FALSE
  /\ meSave' = NoSave
  /\ meBlame' = meBlame \cup AnswerBlames
  /\ UNCHANGED <<meDb, meData, meCurrent, meBase, meLeft, meRenamed>>

\* Refused, or an answer that does not come: an error is shown in the dialog.  The
\* name may have been stored, or be stored later; the item's card is blamed.
RenameFailed ==
  /\ meSave # NoSave
  /\ meSave' = NoSave
  /\ \/ ~meSave.stored /\ UNCHANGED <<meLeft, meBlame>>
     \/ /\ meLeft' = meLeft \cup Unstored
        /\ Cardinality(meLeft') <= MaxLeft
        /\ meBlame' = meBlame \cup {meSave.id}
  /\ UNCHANGED <<meNames, meDialog, meRenamed>>

\* The page is left, whatever is under way, and loaded anew.  It shows what is stored
\* by then; the cards of items with a rename yet to be stored are blamed.
LoadPage ==
  /\ meLeft' = meLeft \cup Unstored
  /\ Cardinality(meLeft') <= MaxLeft
  /\ meCard' = meDb /\ meData' = meDb
  /\ meOpen' = FALSE /\ meCurrent' = NoAsset /\ meBase' = NoName /\ meTyped' = FALSE
  /\ meSave' = NoSave
  /\ meRenamed' = {} /\ meBlame' = {o.id : o \in meLeft'}
  /\ UNCHANGED meDb

\* A rename whose answer nobody awaits is stored, or cancelled with its request.
LeftStored(o) ==
  /\ meDb' = [meDb EXCEPT ![o.id] = o.name]
  /\ meLeft' = meLeft \ {o}
  /\ meRenamed' = meRenamed \cup {o.id}
  /\ UNCHANGED <<meCard, meData, meDialog, meSave, meBlame>>

LeftDropped(o) ==
  /\ meLeft' = meLeft \ {o}
  /\ UNCHANGED <<meNames, meDialog, meSave, meHistory>>

\* The item is renamed on another page.
RenamedElsewhere(a, n) ==
  /\ Clean[n] # NoName
  /\ meDb' = [meDb EXCEPT ![a] = Clean[n]]
  /\ meRenamed' = meRenamed \cup {a}
  /\ meBlame' = meBlame \cup {a}
  /\ UNCHANGED <<meCard, meData, meDialog, meSave, meLeft>>

MeNext ==
  \/ \E a \in Asset : OpenRename(a)
  \/ \E n \in Name : TypeBase(n)
  \/ ClickSave \/ CloseRename
  \/ RenameStored \/ RenameAnswered \/ RenameFailed \/ LoadPage
  \/ \E o \in meLeft : LeftStored(o) \/ LeftDropped(o)
  \/ \E a \in Asset, n \in Name : RenamedElsewhere(a, n)

-----------------------------------------------------------------------------
(* Properties. *)

MeTypeOK ==
  /\ meDb \in [Asset -> Name] /\ meCard \in [Asset -> Name] /\ meData \in [Asset -> Name]
  /\ meOpen \in BOOLEAN /\ meTyped \in BOOLEAN
  /\ meCurrent \in Asset \cup {NoAsset} /\ meBase \in Name
  /\ meSave \in [id : Asset, base : Name, stored : BOOLEAN] \cup {NoSave}
  /\ meLeft \subseteq [id : Asset, name : Name]
  /\ meRenamed \subseteq Asset /\ meBlame \subseteq Asset

\* A card shows another name than its item has only while the answer to the item's own
\* rename is under way, or for a cause that concerns this card: an answer found the
\* dialog moved from it or to it (65-67: currentId is read after the await), the server
\* stored the name cleaned, the answer was lost, the page was loaded before a rename
\* sent from it earlier was stored, or the item was renamed on another page.
CardsShowNames ==
  \A a \in Asset : meCard[a] # meDb[a] => a \in meBlame \/ (meSave.stored /\ meSave.id = a)

\* A dialog that was not typed in shows the name its item has, so that saving it
\* changes nothing, unless the item was renamed since the page was loaded (28: the
\* button's data-base stays as rendered).
DialogShowsName ==
  meOpen /\ ~meTyped /\ meCurrent \notin meRenamed => meBase = meDb[meCurrent]

=============================================================================
