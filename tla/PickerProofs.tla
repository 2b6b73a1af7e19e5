---------------------------- MODULE PickerProofs ----------------------------
(***************************************************************************)
(* The media picker: for any number of pickers, media, searches and uploads  *)
(* under way, its types, that chips show what is posted, that pickers are    *)
(* isolated unless an answer went astray, and that a gallery waits for Done. *)
(***************************************************************************)
EXTENDS MediaPicker, IdListsProofs

\* What is in the library, the cards and the working set, or on its way, is not deleted.
Fresh ==
  /\ library \cap Dead = {} /\ grid \cap Dead = {} /\ ToSet(working) \cap Dead = {}
  /\ upload # NoUpload => upload.media \in Fits[upload.by]

\* A single picker posts at most one id.
SingleKept == \A p \in Picker \ Gallery : \A m, n \in ToSet(value[p]) : m = n

\* The cards and the working set are those of the picker whose dialog is open.
OwnDialog ==
  ~mixed /\ active # None => grid \subseteq OfType[active] /\ ToSet(working) \subseteq Allowed(active)

PickerInv ==
  /\ PickerTypeOK /\ ChipsShowValue /\ Fresh /\ SingleKept
  /\ PickersIsolatedInSeries /\ OwnDialog

-----------------------------------------------------------------------------
LEMMA PickerInvInit == PickerInit => PickerInv
<1> SUFFICES ASSUME PickerInit PROVE PickerInv
  OBVIOUS
<1> USE MediaPickerAssumption
<1>1. PICK r \in [Picker -> UNION {Loaded[p] : p \in Picker}] :
        /\ \A p \in Picker : r[p] \in Loaded[p]
        /\ value = [p \in Picker |-> r[p].value]
        /\ chips = [p \in Picker |-> r[p].chips]
  BY DEF PickerInit
<1>2. \A p \in Picker :
        /\ value[p] = r[p].value /\ chips[p] = r[p].chips
        /\ value[p] \in Seq(Media) /\ IsInjective(value[p])
        /\ chips[p] \in Seq(Media) /\ IsInjective(chips[p])
        /\ ToSet(chips[p]) = ToSet(value[p]) \ Dead
        /\ ToSet(value[p]) \subseteq OfType[p] \cup Fits[p]
        /\ p \in Gallery \/ Len(value[p]) <= 1
  BY <1>1 DEF MediaPickerAssumption
<1>3. value \in [Picker -> Seq(Media)] /\ chips \in [Picker -> Seq(Media)]
  BY <1>1, <1>2
<1>4. /\ working \in Seq(Media) /\ IsInjective(working) /\ ToSet(working) = {}
      /\ sent \in Seq(Picker \cup {None})
  BY EmptyIds DEF PickerInit
<1>5. PickerTypeOK
  BY <1>2, <1>3, <1>4 DEF PickerTypeOK, IdsDistinct, PickerInit, MediaPickerAssumption
<1>6. ChipsShowValue
  BY <1>2 DEF ChipsShowValue
<1>7. Fresh
  BY <1>4 DEF Fresh, PickerInit, MediaPickerAssumption
<1>8. SingleKept
  <2> SUFFICES ASSUME NEW p \in Picker \ Gallery, NEW m \in ToSet(value[p]),
                      NEW n \in ToSet(value[p])
               PROVE  m = n
    BY DEF SingleKept
  <2>1. Len(value[p]) <= 1 /\ Len(value[p]) \in Nat /\ DOMAIN value[p] = 1..Len(value[p])
    BY <1>2, LenProperties
  <2>2. PICK i, j \in 1..Len(value[p]) : m = value[p][i] /\ n = value[p][j]
    BY <2>1 DEF ToSet
  <2>3. i = j
    BY <2>1
  <2> QED BY <2>2, <2>3
<1>9. PickersIsolatedInSeries
  BY <1>2 DEF PickersIsolatedInSeries, PickersIsolated, Allowed
<1>10. OwnDialog
  BY DEF OwnDialog, PickerInit
<1> QED BY <1>5, <1>6, <1>7, <1>8, <1>9, <1>10 DEF PickerInv

-----------------------------------------------------------------------------
\* A picker whose hidden value and chips are both set to the same list.
LEMMA BothWritten ==
  ASSUME PickerInv, NEW p \in Picker, NEW s \in Seq(Media), IsInjective(s),
         ToSet(s) \cap Dead = {},
         p \in Gallery \/ (\A m, n \in ToSet(s) : m = n),
         value' = [value EXCEPT ![p] = s], chips' = [chips EXCEPT ![p] = s]
  PROVE  /\ value' \in [Picker -> Seq(Media)] /\ chips' \in [Picker -> Seq(Media)]
         /\ \A q \in Picker : IsInjective(value'[q]) /\ IsInjective(chips'[q])
         /\ ChipsShowValue' /\ SingleKept'
<1>1. /\ value \in [Picker -> Seq(Media)] /\ chips \in [Picker -> Seq(Media)]
      /\ \A q \in Picker : IsInjective(value[q]) /\ IsInjective(chips[q])
      /\ \A q \in Picker : ToSet(chips[q]) = ToSet(value[q]) \ Dead
      /\ \A q \in Picker \ Gallery : \A m, n \in ToSet(value[q]) : m = n
  BY DEF PickerInv, PickerTypeOK, IdsDistinct, ChipsShowValue, SingleKept
<1>2. /\ value'[p] = s /\ chips'[p] = s
      /\ \A q \in Picker \ {p} : value'[q] = value[q] /\ chips'[q] = chips[q]
  BY <1>1
<1>3. value' \in [Picker -> Seq(Media)] /\ chips' \in [Picker -> Seq(Media)]
  BY <1>1
<1>4. \A q \in Picker : IsInjective(value'[q]) /\ IsInjective(chips'[q])
  BY <1>1, <1>2
<1>5. ASSUME NEW q \in Picker PROVE ToSet(chips'[q]) = ToSet(value'[q]) \ Dead
  BY <1>1, <1>2
<1>6. ASSUME NEW q \in Picker \ Gallery PROVE \A m, n \in ToSet(value'[q]) : m = n
  BY <1>1, <1>2
<1> QED BY <1>3, <1>4, <1>5, <1>6 DEF ChipsShowValue, SingleKept

\* The same when one id is set, and what the picker is isolated from.
LEMMA SingleWritten ==
  ASSUME PickerInv, NEW m \in Media, m \notin Dead, active \in Picker,
         m \in Allowed(active) \/ mixed, CommitSingle(m)
  PROVE  /\ value' \in [Picker -> Seq(Media)] /\ chips' \in [Picker -> Seq(Media)]
         /\ \A q \in Picker : IsInjective(value'[q]) /\ IsInjective(chips'[q])
         /\ ChipsShowValue' /\ SingleKept'
         /\ ~mixed => PickersIsolated'
         /\ modal' \in {"hidden", "showing", "shown", "hiding"}
         /\ modal' # "hidden"
<1>1. <<m>> \in Seq(Media) /\ ToSet(<<m>>) = {m} /\ IsInjective(<<m>>)
  BY SingleIds
<1>2. ToSet(<<m>>) \cap Dead = {} /\ (\A k, l \in ToSet(<<m>>) : k = l)
  BY <1>1
<1>3. value' = [value EXCEPT ![active] = <<m>>] /\ chips' = [chips EXCEPT ![active] = <<m>>]
  BY DEF CommitSingle
<1>4. /\ value' \in [Picker -> Seq(Media)] /\ chips' \in [Picker -> Seq(Media)]
      /\ \A q \in Picker : IsInjective(value'[q]) /\ IsInjective(chips'[q])
      /\ ChipsShowValue' /\ SingleKept'
  BY <1>1, <1>2, <1>3, BothWritten
<1>5. ASSUME ~mixed PROVE PickersIsolated'
  <2>1. value \in [Picker -> Seq(Media)] /\ (\A q \in Picker : ToSet(value[q]) \subseteq Allowed(q))
    BY <1>5 DEF PickerInv, PickerTypeOK, PickersIsolatedInSeries, PickersIsolated
  <2>2. ASSUME NEW q \in Picker PROVE ToSet(value'[q]) \subseteq Allowed(q)
    BY <1>1, <1>3, <1>5, <2>1
  <2> QED BY <2>2 DEF PickersIsolated, Allowed
<1>6. modal' \in {"hidden", "showing", "shown", "hiding"} /\ modal' # "hidden"
  <2>1. modal \in {"hidden", "showing", "shown", "hiding"} /\ modal # "hidden"
    BY MediaPickerAssumption DEF PickerInv, PickerTypeOK, MediaPickerAssumption
  <2> QED BY <2>1 DEF CommitSingle, AfterHide
<1> QED BY <1>4, <1>5, <1>6

-----------------------------------------------------------------------------
(* The two halves of the invariant: what the fields hold, and the dialog. *)

ListsOK ==
  /\ value \in [Picker -> Seq(Media)] /\ chips \in [Picker -> Seq(Media)]
  /\ \A q \in Picker : IsInjective(value[q]) /\ IsInjective(chips[q])
  /\ ChipsShowValue /\ SingleKept /\ PickersIsolatedInSeries

DialogOK ==
  /\ library \subseteq Media /\ grid \subseteq Media
  /\ modal \in {"hidden", "showing", "shown", "hiding"}
  /\ active \in Picker \cup {None}
  /\ (active = None) = (modal = "hidden")
  /\ working \in Seq(Media) /\ IsInjective(working)
  /\ sent \in Seq(Picker \cup {None})
  /\ file \in Media \cup {None}
  /\ upload \in Upload \cup {NoUpload}
  /\ status \in {"clear", "refused", "connection", "uploadfail"}
  /\ timer \in BOOLEAN /\ mixed \in BOOLEAN
  /\ Fresh /\ OwnDialog

LEMMA Halves == PickerInv <=> ListsOK /\ DialogOK /\ done \in BOOLEAN
BY DEF PickerInv, PickerTypeOK, IdsDistinct, ListsOK, DialogOK

LEMMA ListsKept ==
  ASSUME ListsOK, UNCHANGED <<value, chips>>, mixed => mixed'
  PROVE  ListsOK'
BY DEF ListsOK, ChipsShowValue, SingleKept, PickersIsolatedInSeries, PickersIsolated, Allowed

\* Steps of the dialog that leave the fields alone.
LEMMA DialogStep ==
  ASSUME ListsOK, DialogOK,
         \/ \E p \in Picker : OpenFor(p)
         \/ FadedIn \/ Dismiss \/ FadedOut \/ TypeText \/ FireSearch
         \/ \E i \in 1..Len(sent) : SearchAnswered(i) \/ SearchLost(i)
         \/ \E m \in Media : ChooseFile(m)
         \/ ClickUpload \/ UploadStored \/ UploadFailed
  PROVE  ListsOK' /\ DialogOK'
<1> USE MediaPickerAssumption
<1>1. ASSUME NEW p \in Picker, OpenFor(p) PROVE ListsOK' /\ DialogOK'
  <2>1. ListsOK'
    BY <1>1, ListsKept DEF OpenFor
  <2>2. /\ chips[p] \in Seq(Media) /\ IsInjective(chips[p])
        /\ ToSet(chips[p]) = ToSet(value[p]) \ Dead
        /\ <<>> \in Seq(Media) /\ IsInjective(<<>>) /\ ToSet(<<>>) = {}
    BY EmptyIds DEF ListsOK, ChipsShowValue
  <2>3. /\ working' \in Seq(Media) /\ IsInjective(working') /\ ToSet(working') \cap Dead = {}
        /\ ToSet(working') \subseteq ToSet(value[p])
    BY <1>1, <2>2 DEF OpenFor
  <2>4. Fresh'
    BY <1>1, <2>3 DEF OpenFor, DialogOK, Fresh
  <2>5. OwnDialog'
    BY <1>1, <2>3 DEF OpenFor, OwnDialog, ListsOK, PickersIsolatedInSeries, PickersIsolated,
                      Allowed
  <2>6. (active' = None) = (modal' = "hidden")
    BY <1>1 DEF OpenFor, MediaPickerAssumption
  <2> QED BY <1>1, <2>1, <2>3, <2>4, <2>5, <2>6 DEF OpenFor, DialogOK, Upload, NoUpload
<1>2. ASSUME FadedIn \/ Dismiss \/ TypeText PROVE ListsOK' /\ DialogOK'
  <2>1. UNCHANGED <<value, chips, library, active, working, sent, grid, file, upload, status,
                    mixed>>
    BY <1>2 DEF FadedIn, Dismiss, TypeText
  <2>2. ListsOK'
    BY <2>1, ListsKept
  <2>3. Fresh' /\ OwnDialog'
    BY <2>1 DEF DialogOK, Fresh, OwnDialog, Allowed, NoUpload
  <2>4. /\ modal' \in {"hidden", "showing", "shown", "hiding"} /\ timer' \in BOOLEAN
        /\ (modal' = "hidden") = (modal = "hidden")
    BY <1>2 DEF FadedIn, Dismiss, TypeText, DialogOK
  <2> QED BY <2>1, <2>2, <2>3, <2>4 DEF DialogOK, Upload, NoUpload
<1>3. ASSUME FadedOut PROVE ListsOK' /\ DialogOK'
  <2>1. ListsOK'
    BY <1>3, ListsKept DEF FadedOut
  <2>2. <<>> \in Seq(Media) /\ IsInjective(<<>>) /\ ToSet(<<>>) = {}
    BY EmptyIds
  <2>3. Fresh' /\ OwnDialog'
    BY <1>3, <2>2 DEF FadedOut, DialogOK, Fresh, OwnDialog
  <2> QED BY <1>3, <2>1, <2>2, <2>3 DEF FadedOut, DialogOK, Upload, NoUpload
<1>4. ASSUME FireSearch PROVE ListsOK' /\ DialogOK'
  <2>1. ListsOK'
    BY <1>4, ListsKept DEF FireSearch
  <2>2. sent' \in Seq(Picker \cup {None})
    BY <1>4, AppendIds DEF FireSearch, DialogOK
  <2>3. Fresh' /\ OwnDialog'
    BY <1>4 DEF FireSearch, DialogOK, Fresh, OwnDialog, Allowed
  <2> QED BY <1>4, <2>1, <2>2, <2>3 DEF FireSearch, DialogOK, Upload, NoUpload
<1>5. ASSUME NEW i \in 1..Len(sent), SearchAnswered(i) PROVE ListsOK' /\ DialogOK'
  <2>1. mixed' \in BOOLEAN /\ (mixed => mixed')
        /\ (~mixed' => ~mixed /\ (active # None => sent[i] = active))
    BY <1>5, Zenon DEF SearchAnswered, DialogOK
  <2>2. ListsOK'
    BY <1>5, <2>1, ListsKept DEF SearchAnswered
  <2>3. sent' \in Seq(Picker \cup {None})
    BY <1>5, RemoveAtEntries DEF SearchAnswered, DialogOK
  <2>4. grid' \subseteq library /\ (sent[i] # None => grid' \subseteq OfType[sent[i]])
    BY <1>5 DEF SearchAnswered, FoundFor
  <2>5. Fresh'
    BY <1>5, <2>4 DEF SearchAnswered, DialogOK, Fresh
  <2>6. OwnDialog'
    BY <1>5, <2>1, <2>4 DEF SearchAnswered, DialogOK, OwnDialog, Allowed
  <2> QED BY <1>5, <2>1, <2>2, <2>3, <2>4, <2>5, <2>6
          DEF SearchAnswered, DialogOK, Upload, NoUpload
<1>6. ASSUME NEW i \in 1..Len(sent), SearchLost(i) PROVE ListsOK' /\ DialogOK'
  <2>1. ListsOK'
    BY <1>6, ListsKept DEF SearchLost
  <2>2. sent' \in Seq(Picker \cup {None})
    BY <1>6, RemoveAtEntries DEF SearchLost, DialogOK
  <2>3. Fresh' /\ OwnDialog'
    BY <1>6 DEF SearchLost, DialogOK, Fresh, OwnDialog, Allowed
  <2> QED BY <1>6, <2>1, <2>2, <2>3 DEF SearchLost, DialogOK, Upload, NoUpload
<1>7. ASSUME NEW m \in Media, ChooseFile(m) PROVE ListsOK' /\ DialogOK'
  <2>1. ListsOK'
    BY <1>7, ListsKept DEF ChooseFile
  <2>2. Fresh' /\ OwnDialog'
    BY <1>7 DEF ChooseFile, DialogOK, Fresh, OwnDialog, Allowed
  <2> QED BY <1>7, <2>1, <2>2 DEF ChooseFile, DialogOK, Upload, NoUpload
<1>8. ASSUME ClickUpload PROVE ListsOK' /\ DialogOK'
  <2>1. ListsOK'
    BY <1>8, ListsKept DEF ClickUpload
  <2>2. active \in Picker /\ file \in Media
    BY <1>8 DEF ClickUpload, Visible, DialogOK
  <2>3. /\ upload' \in Upload \cup {NoUpload}
        /\ upload' # NoUpload => upload'.media \in Fits[upload'.by]
    <3>1. CASE upload' = NoUpload
      BY <3>1
    <3>2. CASE /\ file \in Fits[active]
               /\ upload' = [media |-> file, by |-> active, stored |-> FALSE]
      BY <2>2, <3>2 DEF Upload
    <3> QED BY <1>8, <3>1, <3>2 DEF ClickUpload
  <2>4. Fresh' /\ OwnDialog'
    BY <1>8, <2>3 DEF ClickUpload, DialogOK, Fresh, OwnDialog, Allowed, NoUpload
  <2>5. status' \in {"clear", "refused", "connection", "uploadfail"}
    BY <1>8 DEF ClickUpload
  <2> QED BY <1>8, <2>1, <2>3, <2>4, <2>5 DEF ClickUpload, DialogOK, Upload, NoUpload
<1>9. ASSUME UploadStored PROVE ListsOK' /\ DialogOK'
  <2>1. ListsOK'
    BY <1>9, ListsKept DEF UploadStored
  <2>2. /\ upload \in Upload
        /\ upload.media \in Fits[upload.by] /\ upload.by \in Picker /\ upload.media \in Media
    BY <1>9 DEF UploadStored, DialogOK, Fresh, Upload
  <2>3. upload' \in Upload /\ upload'.media = upload.media /\ upload'.by = upload.by
    BY <1>9, <2>2 DEF UploadStored, Upload
  <2>4. Fresh'
    BY <1>9, <2>2, <2>3 DEF UploadStored, DialogOK, Fresh, MediaPickerAssumption
  <2>5. OwnDialog'
    BY <1>9 DEF UploadStored, DialogOK, OwnDialog, Allowed
  <2> QED BY <1>9, <2>1, <2>2, <2>3, <2>4, <2>5 DEF UploadStored, DialogOK
<1>10. ASSUME UploadFailed PROVE ListsOK' /\ DialogOK'
  <2>1. ListsOK'
    BY <1>10, ListsKept DEF UploadFailed
  <2>2. Fresh' /\ OwnDialog'
    BY <1>10 DEF UploadFailed, DialogOK, Fresh, OwnDialog, Allowed
  <2>3. status' \in {"clear", "refused", "connection", "uploadfail"}
    BY <1>10 DEF UploadFailed
  <2> QED BY <1>10, <2>1, <2>2, <2>3 DEF UploadFailed, DialogOK
<1> QED BY <1>1, <1>2, <1>3, <1>4, <1>5, <1>6, <1>7, <1>8, <1>9, <1>10

-----------------------------------------------------------------------------
\* Steps that write a field.
LEMMA FieldStep ==
  ASSUME ListsOK, DialogOK, done \in BOOLEAN,
         \/ \E m \in Media : ClickCard(m)
         \/ CommitGallery
         \/ \E p \in Picker : \E i \in 1..Len(chips[p]) : RemoveChip(p, i)
         \/ UploadAnswered
  PROVE  ListsOK' /\ DialogOK'
<1> USE MediaPickerAssumption
<1>0. PickerInv
  BY Halves
<1>1. ASSUME NEW m \in Media, ClickCard(m) PROVE ListsOK' /\ DialogOK'
  <2>1. /\ active \in Picker /\ m \in grid /\ m \notin Dead
        /\ mixed \/ m \in OfType[active]
        /\ mixed' = mixed /\ grid' = grid /\ active' = active /\ library' = library
        /\ upload' = upload /\ sent' = sent /\ file' = file /\ timer' = timer
        /\ status' = status
    BY <1>1 DEF ClickCard, Visible, DialogOK, Fresh, OwnDialog, MediaPickerAssumption
  <2>2. CASE active \notin Gallery
    <3>1. CommitSingle(m) /\ working' = working
      BY <1>1, <2>2 DEF ClickCard
    <3>2. m \in Allowed(active) \/ mixed
      BY <2>1 DEF Allowed
    <3>3. /\ value' \in [Picker -> Seq(Media)] /\ chips' \in [Picker -> Seq(Media)]
          /\ \A q \in Picker : IsInjective(value'[q]) /\ IsInjective(chips'[q])
          /\ ChipsShowValue' /\ SingleKept'
          /\ ~mixed => PickersIsolated'
          /\ modal' \in {"hidden", "showing", "shown", "hiding"}
          /\ modal' # "hidden"
      BY <1>0, <2>1, <3>1, <3>2, SingleWritten
    <3>4. ListsOK'
      BY <2>1, <3>3 DEF ListsOK, PickersIsolatedInSeries
    <3>5. Fresh' /\ OwnDialog'
      BY <2>1, <3>1 DEF DialogOK, Fresh, OwnDialog, Allowed
    <3>6. (active' = None) = (modal' = "hidden")
      BY <2>1, <3>3 DEF MediaPickerAssumption
    <3> QED BY <2>1, <3>1, <3>3, <3>4, <3>5, <3>6 DEF DialogOK
  <2>3. CASE active \in Gallery
    <3>1. /\ working' = IF m \in ToSet(working) THEN Without(working, m) ELSE Append(working, m)
          /\ UNCHANGED <<value, chips, modal>>
      BY <1>1, <2>3 DEF ClickCard
    <3>2. ListsOK'
      BY <2>1, <3>1, ListsKept
    <3>3. /\ working' \in Seq(Media) /\ IsInjective(working')
          /\ ToSet(working') \subseteq ToSet(working) \cup {m}
      BY <3>1, WithoutIds, AppendIds DEF DialogOK
    <3>4. Fresh'
      BY <2>1, <3>3 DEF DialogOK, Fresh
    <3>5. OwnDialog'
      BY <2>1, <3>3 DEF DialogOK, OwnDialog, Allowed
    <3> QED BY <2>1, <3>1, <3>2, <3>3, <3>4, <3>5 DEF DialogOK
  <2> QED BY <2>2, <2>3
<1>2. ASSUME CommitGallery PROVE ListsOK' /\ DialogOK'
  <2>1. /\ active \in Picker /\ active \in Gallery
        /\ working \in Seq(Media) /\ IsInjective(working) /\ ToSet(working) \cap Dead = {}
        /\ ~mixed => ToSet(working) \subseteq Allowed(active)
        /\ modal # "hidden"
    BY <1>2 DEF CommitGallery, Visible, DialogOK, Fresh, OwnDialog, MediaPickerAssumption
  <2>2. /\ value' = [value EXCEPT ![active] = working]
        /\ chips' = [chips EXCEPT ![active] = working]
        /\ UNCHANGED <<library, active, working, timer, sent, grid, file, upload, status, mixed>>
    BY <1>2 DEF CommitGallery
  <2>3. /\ value' \in [Picker -> Seq(Media)] /\ chips' \in [Picker -> Seq(Media)]
        /\ \A q \in Picker : IsInjective(value'[q]) /\ IsInjective(chips'[q])
        /\ ChipsShowValue' /\ SingleKept'
    BY <1>0, <2>1, <2>2, BothWritten
  <2>4. PickersIsolatedInSeries'
    <3> SUFFICES ASSUME ~mixed', NEW q \in Picker PROVE ToSet(value'[q]) \subseteq Allowed(q)
      BY DEF PickersIsolatedInSeries, PickersIsolated, Allowed
    <3>1. ToSet(value[q]) \subseteq Allowed(q) /\ value \in [Picker -> Seq(Media)]
      BY <2>2 DEF ListsOK, PickersIsolatedInSeries, PickersIsolated
    <3> QED BY <2>1, <2>2, <3>1
  <2>5. Fresh' /\ OwnDialog'
    BY <2>2 DEF DialogOK, Fresh, OwnDialog, Allowed
  <2>6. modal' \in {"hidden", "showing", "shown", "hiding"} /\ modal' # "hidden"
    BY <1>2, <2>1 DEF CommitGallery, AfterHide, DialogOK
  <2>7. (active' = None) = (modal' = "hidden")
    BY <2>1, <2>2, <2>6 DEF MediaPickerAssumption
  <2> QED BY <2>2, <2>3, <2>4, <2>5, <2>6, <2>7 DEF ListsOK, DialogOK
<1>3. ASSUME NEW p \in Picker, NEW i \in 1..Len(chips[p]), RemoveChip(p, i)
      PROVE  ListsOK' /\ DialogOK'
  <2> DEFINE c == chips[p][i]
             v == IF p \in Gallery THEN Without(value[p], c) ELSE <<>>
             s == RemoveAt(chips[p], i)
  <2>1. /\ chips' = [chips EXCEPT ![p] = s] /\ value' = [value EXCEPT ![p] = v]
        /\ UNCHANGED <<library, modal, active, working, timer, sent, grid, file, upload, status,
                       mixed>>
    BY <1>3 DEF RemoveChip
  <2>2. /\ value \in [Picker -> Seq(Media)] /\ chips \in [Picker -> Seq(Media)]
        /\ \A q \in Picker : IsInjective(value[q]) /\ IsInjective(chips[q])
        /\ \A q \in Picker : ToSet(chips[q]) = ToSet(value[q]) \ Dead
        /\ \A q \in Picker \ Gallery : \A m, n \in ToSet(value[q]) : m = n
    BY DEF ListsOK, ChipsShowValue, SingleKept
  <2>3. s \in Seq(Media) /\ IsInjective(s) /\ ToSet(s) = ToSet(chips[p]) \ {c}
    BY <2>2, RemoveAtEntries, RemoveAtIds
  <2>4. c \in ToSet(chips[p])
    BY <2>2, IdsInS
  <2>5. /\ v \in Seq(Media) /\ IsInjective(v) /\ ToSet(v) \subseteq ToSet(value[p])
        /\ ToSet(v) \ Dead = ToSet(s)
    <3>1. CASE p \in Gallery
      <4>1. v = Without(value[p], c)
        BY <3>1
      <4> HIDE DEF v, s, c
      <4> QED BY <2>2, <2>3, <4>1, WithoutIds
    <3>2. CASE p \notin Gallery
      <4>1. v = <<>>
        BY <3>2
      <4> HIDE DEF v, s, c
      <4>2. ToSet(s) = {}
        BY <2>2, <2>3, <2>4, <3>2
      <4> QED BY <4>1, <4>2, EmptyIds
    <3> QED BY <3>1, <3>2
  <2> HIDE DEF v, s, c
  <2>6. /\ value'[p] = v /\ chips'[p] = s
        /\ \A q \in Picker \ {p} : value'[q] = value[q] /\ chips'[q] = chips[q]
        /\ value' \in [Picker -> Seq(Media)] /\ chips' \in [Picker -> Seq(Media)]
    BY <2>1, <2>2, <2>3, <2>5
  <2>7. \A q \in Picker : IsInjective(value'[q]) /\ IsInjective(chips'[q])
    BY <2>2, <2>3, <2>5, <2>6
  <2>8. ASSUME NEW q \in Picker
        PROVE  ToSet(chips'[q]) = ToSet(value'[q]) \ Dead /\ ToSet(value'[q]) \subseteq ToSet(value[q])
    BY <2>2, <2>5, <2>6
  <2>9. ChipsShowValue' /\ SingleKept'
    BY <2>2, <2>8 DEF ChipsShowValue, SingleKept
  <2>10. PickersIsolatedInSeries'
    BY <2>1, <2>8 DEF ListsOK, PickersIsolatedInSeries, PickersIsolated, Allowed
  <2>11. Fresh' /\ OwnDialog'
    BY <2>1 DEF DialogOK, Fresh, OwnDialog, Allowed
  <2> QED BY <2>1, <2>6, <2>7, <2>9, <2>10, <2>11 DEF ListsOK, DialogOK
<1>4. ASSUME UploadAnswered PROVE ListsOK' /\ DialogOK'
  <2>1. /\ upload # NoUpload /\ upload \in Upload
        /\ upload.media \in Media /\ upload.by \in Picker /\ upload.media \in Fits[upload.by]
        /\ upload.media \notin Dead
    BY <1>4 DEF UploadAnswered, DialogOK, Fresh, Upload, MediaPickerAssumption
  <2>2. /\ upload' = NoUpload
        /\ UNCHANGED <<library, active, sent, grid>>
    BY <1>4 DEF UploadAnswered
  <2>3. mixed' \in BOOLEAN /\ (mixed => mixed')
        /\ (~mixed' => ~mixed /\ (active # None => upload.by = active))
    BY <1>4, Zenon DEF UploadAnswered, DialogOK
  <2>4. CASE active = None
    <3>1. /\ status' = "connection" /\ UNCHANGED <<value, chips, modal, working, timer, file>>
      BY <1>4, <2>4 DEF UploadAnswered, MediaPickerAssumption
    <3>2. ListsOK'
      BY <2>3, <3>1, ListsKept
    <3>3. Fresh' /\ OwnDialog'
      BY <2>2, <2>4, <3>1 DEF DialogOK, Fresh, OwnDialog
    <3> QED BY <2>2, <2>3, <3>1, <3>2, <3>3 DEF DialogOK
  <2>5. CASE active \in Picker \ Gallery
    <3>1. CommitSingle(upload.media) /\ UNCHANGED <<working, timer, file, status>>
      BY <1>4, <2>5 DEF UploadAnswered, MediaPickerAssumption
    <3>2. CASE mixed'
      <4>1. /\ <<upload.media>> \in Seq(Media) /\ ToSet(<<upload.media>>) = {upload.media}
            /\ IsInjective(<<upload.media>>)
        BY <2>1, SingleIds
      <4>2. /\ ToSet(<<upload.media>>) \cap Dead = {}
            /\ \A m, n \in ToSet(<<upload.media>>) : m = n
        BY <2>1, <4>1
      <4>3. /\ value' = [value EXCEPT ![active] = <<upload.media>>]
            /\ chips' = [chips EXCEPT ![active] = <<upload.media>>]
            /\ modal' = AfterHide
        BY <3>1 DEF CommitSingle
      <4>4. /\ value' \in [Picker -> Seq(Media)] /\ chips' \in [Picker -> Seq(Media)]
            /\ \A q \in Picker : IsInjective(value'[q]) /\ IsInjective(chips'[q])
            /\ ChipsShowValue' /\ SingleKept'
        BY <1>0, <2>5, <4>1, <4>2, <4>3, BothWritten
      <4>5. ListsOK'
        BY <3>2, <4>4 DEF ListsOK, PickersIsolatedInSeries
      <4>6. modal' \in {"hidden", "showing", "shown", "hiding"} /\ modal' # "hidden"
        BY <2>5, <4>3 DEF AfterHide, DialogOK, MediaPickerAssumption
      <4>7. (active' = None) = (modal' = "hidden")
        BY <2>2, <2>5, <4>6 DEF MediaPickerAssumption
      <4>8. Fresh' /\ OwnDialog'
        BY <2>2, <3>1, <3>2 DEF DialogOK, Fresh, OwnDialog
      <4> QED BY <2>2, <2>3, <3>1, <4>5, <4>6, <4>7, <4>8 DEF DialogOK
    <3>3. CASE ~mixed'
      <4>1. upload.media \in Allowed(active) /\ ~mixed
        BY <2>1, <2>3, <2>5, <3>3 DEF Allowed, MediaPickerAssumption
      <4>2. /\ value' \in [Picker -> Seq(Media)] /\ chips' \in [Picker -> Seq(Media)]
            /\ \A q \in Picker : IsInjective(value'[q]) /\ IsInjective(chips'[q])
            /\ ChipsShowValue' /\ SingleKept'
            /\ ~mixed => PickersIsolated'
            /\ modal' \in {"hidden", "showing", "shown", "hiding"}
            /\ modal' # "hidden"
        BY <1>0, <2>1, <2>5, <3>1, <4>1, SingleWritten
      <4>3. ListsOK'
        BY <4>1, <4>2 DEF ListsOK, PickersIsolatedInSeries
      <4>4. (active' = None) = (modal' = "hidden")
        BY <2>2, <2>5, <4>2 DEF MediaPickerAssumption
      <4>5. Fresh' /\ OwnDialog'
        BY <2>2, <3>1, <4>1 DEF DialogOK, Fresh, OwnDialog, Allowed
      <4> QED BY <2>2, <2>3, <3>1, <4>2, <4>3, <4>4, <4>5 DEF DialogOK
    <3> QED BY <3>2, <3>3
  <2>6. CASE active \in Gallery
    <3>1. /\ working' = Put(working, upload.media)
          /\ timer' = TRUE /\ file' = None /\ status' = "clear"
          /\ UNCHANGED <<value, chips, modal>>
      BY <1>4, <2>6 DEF UploadAnswered, MediaPickerAssumption
    <3>2. ListsOK'
      BY <2>3, <3>1, ListsKept
    <3>3. /\ working' \in Seq(Media) /\ IsInjective(working')
          /\ ToSet(working') = ToSet(working) \cup {upload.media}
      <4>1. working \in Seq(Media) /\ IsInjective(working) /\ upload.media \in Media
        BY <2>1 DEF DialogOK
      <4>2. /\ Put(working, upload.media) \in Seq(Media)
            /\ ToSet(Put(working, upload.media)) = ToSet(working) \cup {upload.media}
            /\ IsInjective(Put(working, upload.media))
        BY <4>1, PutIds
      <4> QED BY <3>1, <4>2
    <3>4. Fresh'
      BY <2>1, <2>2, <3>3 DEF DialogOK, Fresh
    <3>5. OwnDialog'
      BY <2>1, <2>2, <2>3, <3>3 DEF DialogOK, OwnDialog, Allowed
    <3> QED BY <2>2, <2>3, <3>1, <3>2, <3>3, <3>4, <3>5 DEF DialogOK
  <2> QED BY <2>4, <2>5, <2>6 DEF DialogOK
<1> QED BY <1>1, <1>2, <1>3, <1>4

-----------------------------------------------------------------------------
\* Only Done flips its history.
LEMMA DoneStep == ASSUME done \in BOOLEAN, [PickerNext]_pickerVars PROVE done' \in BOOLEAN
<1>1. done' = done \/ done' = ~done
  BY DEF PickerNext, pickerVars, OpenFor, FadedIn, Dismiss, FadedOut, ClickCard, CommitGallery,
         RemoveChip, TypeText, FireSearch, SearchAnswered, SearchLost, ChooseFile, ClickUpload,
         UploadStored, UploadAnswered, UploadFailed
<1> QED BY <1>1

LEMMA PickerInvStep == PickerInv /\ [PickerNext]_pickerVars => PickerInv'
<1> SUFFICES ASSUME ListsOK, DialogOK, done \in BOOLEAN, [PickerNext]_pickerVars
             PROVE  ListsOK' /\ DialogOK'
  BY Halves, DoneStep DEF ListsOK, DialogOK, PickerInv, PickerTypeOK, IdsDistinct
<1>1. CASE PickerNext
  BY <1>1, DialogStep, FieldStep DEF PickerNext
<1>2. CASE UNCHANGED pickerVars
  <2>1. ListsOK'
    BY <1>2, ListsKept DEF pickerVars
  <2>2. Fresh' /\ OwnDialog'
    BY <1>2 DEF pickerVars, DialogOK, Fresh, OwnDialog, Allowed
  <2> QED BY <1>2, <2>1, <2>2 DEF pickerVars, DialogOK
<1> QED BY <1>1, <1>2

LEMMA PickerInvariant == PickerSpec => []PickerInv
BY PickerInvInit, PickerInvStep, PTL DEF PickerSpec

\* For all pickers, media and interleavings: the types, and no field posts or shows an
\* asset twice.
THEOREM PickerTypeCorrect == PickerSpec => []PickerTypeOK
<1>1. PickerInv => PickerTypeOK
  BY DEF PickerInv
<1> QED BY <1>1, PickerInvariant, PTL

\* The chips of every picker are what it posts, but for assets deleted since.
THEOREM ChipsAlwaysShowValue == PickerSpec => []ChipsShowValue
<1>1. PickerInv => ChipsShowValue
  BY DEF PickerInv
<1> QED BY <1>1, PickerInvariant, PTL

\* A field gets only what its own filter finds or its own limits let through, as long as
\* no search or upload was answered to the dialog of another picker.
THEOREM IsolatedInSeries == PickerSpec => []PickersIsolatedInSeries
<1>1. PickerInv => PickersIsolatedInSeries
  BY DEF PickerInv
<1> QED BY <1>1, PickerInvariant, PTL

-----------------------------------------------------------------------------
\* A step that changes what a gallery posts: Done, or the cross of a chip.
LEMMA GalleryStep ==
  ASSUME PickerInv, [PickerNext]_pickerVars, NEW g \in Gallery, value'[g] # value[g]
  PROVE  \/ done' # done /\ g = active /\ value'[g] = working
         \/ ~Visible /\ ToSet(value'[g]) \subseteq ToSet(value[g])
<1> USE MediaPickerAssumption
<1>1. value \in [Picker -> Seq(Media)] /\ g \in Picker /\ IsInjective(value[g])
  BY DEF PickerInv, PickerTypeOK, IdsDistinct, MediaPickerAssumption
<1>2. PickerNext
  <2>1. UNCHANGED pickerVars => value' = value
    BY DEF pickerVars
  <2> QED BY <2>1
<1>3. ASSUME NEW m, active \notin Gallery, CommitSingle(m) PROVE FALSE
  BY <1>1, <1>3 DEF CommitSingle
<1>4. ASSUME NEW m \in Media, ClickCard(m) PROVE FALSE
  BY <1>3, <1>4 DEF ClickCard
<1>5. ASSUME UploadAnswered PROVE FALSE
  BY <1>3, <1>5 DEF UploadAnswered
<1>6. ASSUME CommitGallery PROVE done' # done /\ g = active /\ value'[g] = working
  BY <1>1, <1>6 DEF CommitGallery, PickerInv, PickerTypeOK
<1>7. ASSUME NEW p \in Picker, NEW i \in 1..Len(chips[p]), RemoveChip(p, i)
      PROVE  ~Visible /\ ToSet(value'[g]) \subseteq ToSet(value[g])
  <2>0. ~Visible
    BY <1>7 DEF RemoveChip
  <2>1. value' = [value EXCEPT ![p] = IF p \in Gallery THEN Without(value[p], chips[p][i])
                                      ELSE <<>>]
    BY <1>7 DEF RemoveChip
  <2>2. g = p /\ value'[g] = Without(value[g], chips[p][i])
    BY <1>1, <2>1
  <2> QED BY <1>1, <2>0, <2>2, WithoutIds
<1>8. ASSUME \/ \E p \in Picker : OpenFor(p)
             \/ FadedIn \/ Dismiss \/ FadedOut \/ TypeText \/ FireSearch
             \/ \E i \in 1..Len(sent) : SearchAnswered(i) \/ SearchLost(i)
             \/ \E m \in Media : ChooseFile(m)
             \/ ClickUpload \/ UploadStored \/ UploadFailed
      PROVE  FALSE
  BY <1>8 DEF OpenFor, FadedIn, Dismiss, FadedOut, TypeText, FireSearch, SearchAnswered,
              SearchLost, ChooseFile, ClickUpload, UploadStored, UploadFailed
<1> QED BY <1>2, <1>4, <1>5, <1>6, <1>7, <1>8 DEF PickerNext

\* While a dialog is open, what a gallery posts changes only if Done is clicked in the
\* gallery's own dialog, and to the working set there; with none open it can only lose
\* assets.
THEOREM GalleryAlwaysWaits == PickerSpec => GalleryWaitsForDone
<1>1. PickerInv /\ [PickerNext]_pickerVars =>
        [\A g \in Gallery : value'[g] # value[g] =>
           \/ done' # done /\ g = active /\ value'[g] = working
           \/ ~Visible /\ ToSet(value'[g]) \subseteq ToSet(value[g])]_pickerVars
  BY GalleryStep
<1> QED BY <1>1, PickerInvariant, PTL DEF PickerSpec, GalleryWaitsForDone

=============================================================================
