------------------------- MODULE MediaLibraryProofs -------------------------
(***************************************************************************)
(* Proofs about MediaLibrary, for any number of items, files and requests: *)
(* the inductive invariant, the two safety properties that follow from it, *)
(* the step simulation behind the refinement of MediaGallery, and what     *)
(* holds of requests one after the other.                                  *)
(***************************************************************************)
EXTENDS MediaLibrary, TLAPS

Copying == {"upload_copying", "crop_copying"}
Saved == {"upload_saved", "crop_saved"}
Writing == Copying \cup Saved

\* A row that exists names a file that was once complete, whose content is of
\* the row's kind; while the row is live the file is still there.
RowsBacked ==
    \A m \in Media :
       /\ row[m].state = "none" => row[m].path = NoPath
       /\ row[m].state # "none" =>
             /\ row[m].path \in Path
             /\ disk[row[m].path] \in {"complete", "removed"}
             /\ row[m].kind = ResolveMediaType(picture[row[m].path])
       /\ Live(m) => disk[row[m].path] = "complete"

\* The file a request is writing is its own: no row and no other request has it.
NewFilesPrivate ==
    \A r \in Request : req[r].pc \in Writing =>
       /\ req[r].new \in Path
       /\ disk[req[r].new] = IF req[r].pc \in Copying THEN "partial" ELSE "complete"
       /\ \A m \in Media : row[m].path # req[r].new
       /\ \A q \in Request : q # r /\ req[q].pc \in Writing => req[q].new # req[r].new
       /\ req[r].pc \in CropSteps => picture[req[r].new] \in Image

\* oldPath can only be the file of the item being cropped, and once the row has
\* been updated it is not the file of a live item any more.
OldFileTraced(r) ==
    /\ req[r].id \in Media
    /\ row[req[r].id].state # "none"
    /\ row[req[r].id].kind = "image"
    /\ req[r].old \in Path
    /\ disk[req[r].old] \in {"complete", "removed"}
    /\ \A m \in Media : row[m].path = req[r].old => m = req[r].id
    /\ \A q \in Request : req[q].pc \in Writing => req[q].new # req[r].old
    /\ req[r].pc = "crop_updated" =>
          ~(Live(req[r].id) /\ row[req[r].id].path = req[r].old)

OldFilesTraced ==
    \A r \in Request : req[r].pc \in CropSteps => OldFileTraced(r)

\* The other requests hold the id of a row that exists.
IdsKnown ==
    \A r \in Request : req[r].pc \in OtherSteps =>
       req[r].id \in Media /\ row[req[r].id].state # "none"

IInv ==
    /\ TypeOK
    /\ RowsBacked
    /\ NoSharedFile
    /\ NewFilesPrivate
    /\ OldFilesTraced
    /\ IdsKnown

-----------------------------------------------------------------------------

LEMMA InitIInv == Init => IInv
<1> SUFFICES ASSUME Init PROVE IInv
  OBVIOUS
<1>1. TypeOK
  BY MediaAssumption DEF Init, TypeOK, Row, RequestState, Idle, AnyName
<1>2. RowsBacked /\ NoSharedFile
  BY DEF Init, RowsBacked, NoSharedFile, Live
<1>4. OldFilesTraced
  BY DEF Init, OldFilesTraced, OldFileTraced, Idle, CropSteps
<1>3. NewFilesPrivate /\ IdsKnown
  BY DEF Init, NewFilesPrivate, Writing, Copying, Saved, CropSteps, IdsKnown, OtherSteps, Idle
<1> QED
  BY <1>1, <1>2, <1>3, <1>4 DEF IInv

\* Every step of a request leaves the invariant true.
LEMMA StepIInv == IInv /\ [Next]_vars => IInv'
<1> SUFFICES ASSUME IInv, [Next]_vars PROVE IInv'
  OBVIOUS
<1>0. /\ TypeOK /\ RowsBacked /\ NoSharedFile
      /\ NewFilesPrivate /\ OldFilesTraced /\ IdsKnown
      /\ AnyName \in Name
  BY MediaAssumption DEF IInv, AnyName
<1>w. disturbed' \in BOOLEAN
  BY <1>0 DEF TypeOK, Next, Watch, vars
<1>1. ASSUME NEW r \in Request, UploadCreateFile(r) PROVE IInv'
  <2>. PICK f \in Path, c \in Picture, n \in Name :
          /\ req[r].pc = "idle"
          /\ disk[f] = "unused" /\ disk' = [disk EXCEPT ![f] = "partial"]
          /\ picture' = [picture EXCEPT ![f] = c]
          /\ Begin(r, "upload_copying", NoMedia, NoPath, f, n)
          /\ row' = row
    BY <1>1 DEF UploadCreateFile, CreateFile, FreshPath
  <2>0. /\ req' \in [Request -> RequestState]
        /\ req'[r].pc = "upload_copying" /\ req'[r].new = f
        /\ \A q \in Request : q # r => req'[q] = req[q]
        /\ row' = row
        /\ disk[f] = "unused" /\ disk' = [disk EXCEPT ![f] = "partial"]
        /\ picture' = [picture EXCEPT ![f] = c]
    BY <1>0 DEF TypeOK, Begin, RequestState, UploadSteps, CropSteps, OtherSteps
  <2>1. TypeOK'
    BY <1>w, <1>0, <2>0 DEF TypeOK, Row
  <2>2. RowsBacked'
    BY <1>0, <2>0, MediaAssumption DEF TypeOK, RowsBacked, Live
  <2>3. NoSharedFile'
    BY <1>0, <2>0 DEF NoSharedFile
  <2>4. NewFilesPrivate'
    BY <1>0, <2>0, MediaAssumption DEF TypeOK, NewFilesPrivate, Writing, Copying, Saved, CropSteps, RowsBacked
  <2>5. OldFilesTraced'
    BY <1>0, <2>0 DEF TypeOK, OldFilesTraced, OldFileTraced, Live, Writing, Copying, Saved, CropSteps
  <2>6. IdsKnown'
    BY <1>0, <2>0 DEF IdsKnown, OtherSteps
  <2> QED
    BY <2>1, <2>2, <2>3, <2>4, <2>5, <2>6 DEF IInv
<1>2. ASSUME NEW r \in Request, FinishCopy(r) PROVE IInv'
  <2>0. /\ req' \in [Request -> RequestState]
        /\ req[r].pc \in {"upload_copying", "crop_copying"}
        /\ req'[r].pc = IF req[r].pc = "upload_copying" THEN "upload_saved" ELSE "crop_saved"
        /\ req'[r].id = req[r].id /\ req'[r].old = req[r].old /\ req'[r].new = req[r].new
        /\ \A q \in Request : q # r => req'[q] = req[q]
        /\ disk' = [disk EXCEPT ![req[r].new] = "complete"]
        /\ row' = row /\ picture' = picture
    <3>1. /\ req \in [Request -> RequestState]
          /\ \/ req[r].pc = "upload_copying" /\ req' = [req EXCEPT ![r].pc = "upload_saved"]
             \/ req[r].pc = "crop_copying" /\ req' = [req EXCEPT ![r].pc = "crop_saved"]
      BY <1>0, <1>2 DEF TypeOK, FinishCopy, Continue
    <3>2. req' \in [Request -> RequestState]
      BY <3>1 DEF RequestState, UploadSteps, CropSteps, OtherSteps
    <3>3. /\ req'[r].pc = IF req[r].pc = "upload_copying" THEN "upload_saved" ELSE "crop_saved"
          /\ req'[r].id = req[r].id /\ req'[r].old = req[r].old /\ req'[r].new = req[r].new
          /\ \A q \in Request : q # r => req'[q] = req[q]
      BY <3>1 DEF RequestState
    <3>4. /\ disk' = [disk EXCEPT ![req[r].new] = "complete"]
          /\ row' = row /\ picture' = picture
      BY <1>2 DEF FinishCopy
    <3> QED
      BY <3>1, <3>2, <3>3, <3>4
  <2>1. TypeOK'
    BY <1>w, <1>0, <2>0 DEF TypeOK, Row
  <2>2. RowsBacked'
    BY <1>0, <2>0 DEF TypeOK, RowsBacked, Live, NewFilesPrivate, Writing, Copying, Saved, CropSteps
  <2>3. NoSharedFile'
    BY <1>0, <2>0 DEF NoSharedFile
  <2>4. NewFilesPrivate'
    BY <1>0, <2>0 DEF TypeOK, NewFilesPrivate, Writing, Copying, Saved, CropSteps
  <2>5. OldFilesTraced'
    BY <1>0, <2>0 DEF TypeOK, OldFilesTraced, OldFileTraced, Live, Writing, Copying, Saved, CropSteps, NewFilesPrivate
  <2>6. IdsKnown'
    BY <1>0, <2>0 DEF IdsKnown, OtherSteps
  <2> QED
    BY <2>1, <2>2, <2>3, <2>4, <2>5, <2>6 DEF IInv
<1>3. ASSUME NEW r \in Request, UploadInsertRow(r) PROVE IInv'
  <2>. PICK m \in Media :
          /\ row[m].state = "none"
          /\ row' = [row EXCEPT ![m] = [state |-> "live", path |-> req[r].new,
                                        name |-> req[r].name,
                                        kind |-> ResolveMediaType(picture[req[r].new])]]
    BY <1>3 DEF UploadInsertRow
  <2>0. /\ req' \in [Request -> RequestState] /\ req'[r].pc = "idle"
        /\ req[r].pc = "upload_saved"
        /\ \A q \in Request : q # r => req'[q] = req[q]
        /\ row[m].state = "none"
        /\ row' = [row EXCEPT ![m] = [state |-> "live", path |-> req[r].new, name |-> req[r].name,
                                      kind |-> ResolveMediaType(picture[req[r].new])]]
        /\ disk' = disk /\ picture' = picture
    BY <1>0, <1>3 DEF TypeOK, RequestState, UploadSteps, CropSteps, OtherSteps, UploadInsertRow, Finish, Idle, AnyName
  <2>1. TypeOK'
    BY <1>w, <1>0, <2>0 DEF TypeOK, Row, ResolveMediaType, RequestState
  <2>2. RowsBacked'
    BY <1>0, <2>0 DEF TypeOK, RowsBacked, Live, NewFilesPrivate, Writing, Copying, Saved, CropSteps
  <2>3. NoSharedFile'
    BY <1>0, <2>0 DEF NoSharedFile, NewFilesPrivate, TypeOK, Writing, Copying, Saved, CropSteps
  <2>4. NewFilesPrivate'
    BY <1>0, <2>0 DEF TypeOK, NewFilesPrivate, Writing, Copying, Saved, CropSteps
  <2>5. OldFilesTraced'
    BY <1>0, <2>0 DEF TypeOK, OldFilesTraced, OldFileTraced, Live, Writing, Copying, Saved, CropSteps
  <2>6. IdsKnown'
    BY <1>0, <2>0 DEF IdsKnown, OtherSteps, TypeOK
  <2> QED
    BY <2>1, <2>2, <2>3, <2>4, <2>5, <2>6 DEF IInv
<1>4. ASSUME NEW r \in Request, CropRead(r) PROVE IInv'
  <2>. PICK m \in Media :
          /\ Live(m) /\ row[m].kind = "image"
          /\ Begin(r, "crop_read", m, row[m].path, NoPath, AnyName)
          /\ row' = row /\ disk' = disk /\ picture' = picture
    BY <1>4 DEF CropRead
  <2>0. /\ req' \in [Request -> RequestState]
        /\ req'[r].pc = "crop_read" /\ req'[r].id = m /\ req'[r].old = row[m].path
        /\ Live(m) /\ row[m].kind = "image"
        /\ \A q \in Request : q # r => req'[q] = req[q]
        /\ row' = row /\ disk' = disk /\ picture' = picture
    BY <1>0 DEF TypeOK, Begin, RequestState, UploadSteps, CropSteps, OtherSteps, Row
  <2>1. TypeOK'
    BY <1>w, <1>0, <2>0 DEF TypeOK, Row
  <2>2. RowsBacked'
    BY <1>0, <2>0 DEF TypeOK, RowsBacked, Live
  <2>3. NoSharedFile'
    BY <1>0, <2>0 DEF NoSharedFile
  <2>4. NewFilesPrivate'
    BY <1>0, <2>0 DEF TypeOK, NewFilesPrivate, Writing, Copying, Saved, CropSteps
  <2>5. OldFilesTraced'
    BY <1>0, <2>0, MediaAssumption DEF TypeOK, OldFilesTraced, OldFileTraced, Live, Writing, Copying, Saved, CropSteps, RowsBacked, NoSharedFile, NewFilesPrivate
  <2>6. IdsKnown'
    BY <1>0, <2>0 DEF IdsKnown, OtherSteps
  <2> QED
    BY <2>1, <2>2, <2>3, <2>4, <2>5, <2>6 DEF IInv
<1>5. ASSUME NEW r \in Request, CropOpenSource(r) PROVE IInv'
  <2>0. /\ req' \in [Request -> RequestState]
        /\ req[r].pc = "crop_read"
        /\ \/ /\ req'[r].pc = "crop_open"
              /\ req'[r].id = req[r].id /\ req'[r].old = req[r].old
           \/ req'[r].pc = "idle"
        /\ \A q \in Request : q # r => req'[q] = req[q]
        /\ row' = row /\ disk' = disk /\ picture' = picture
    BY <1>0, <1>5 DEF TypeOK, RequestState, UploadSteps, CropSteps, OtherSteps, CropOpenSource, Continue, Finish, Idle, AnyName
  <2>1. TypeOK'
    BY <1>w, <1>0, <2>0 DEF TypeOK, Row
  <2>2. RowsBacked'
    BY <1>0, <2>0 DEF TypeOK, RowsBacked, Live
  <2>3. NoSharedFile'
    BY <1>0, <2>0 DEF NoSharedFile
  <2>4. NewFilesPrivate'
    BY <1>0, <2>0 DEF TypeOK, NewFilesPrivate, Writing, Copying, Saved, CropSteps
  <2>5. OldFilesTraced'
    BY <1>0, <2>0 DEF TypeOK, OldFilesTraced, OldFileTraced, Live, Writing, Copying, Saved, CropSteps
  <2>6. IdsKnown'
    BY <1>0, <2>0 DEF IdsKnown, OtherSteps
  <2> QED
    BY <2>1, <2>2, <2>3, <2>4, <2>5, <2>6 DEF IInv
<1>6. ASSUME NEW r \in Request, CropCreateFile(r) PROVE IInv'
  <2>. PICK f \in Path, c \in Image :
          /\ req[r].pc = "crop_open"
          /\ disk[f] = "unused" /\ disk' = [disk EXCEPT ![f] = "partial"]
          /\ picture' = [picture EXCEPT ![f] = c]
          /\ req' = [req EXCEPT ![r].pc = "crop_copying", ![r].new = f]
          /\ row' = row
    BY <1>6 DEF CropCreateFile, CreateFile, FreshPath
  <2>0. /\ req' \in [Request -> RequestState]
        /\ req[r].pc = "crop_open" /\ req'[r].pc = "crop_copying"
        /\ req'[r].id = req[r].id /\ req'[r].old = req[r].old /\ req'[r].new = f
        /\ \A q \in Request : q # r => req'[q] = req[q]
        /\ row' = row
        /\ disk[f] = "unused" /\ disk' = [disk EXCEPT ![f] = "partial"]
        /\ picture' = [picture EXCEPT ![f] = c]
    BY <1>0 DEF TypeOK, RequestState, UploadSteps, CropSteps, OtherSteps
  <2>1. TypeOK'
    BY <1>w, <1>0, <2>0, MediaAssumption DEF TypeOK, Row
  <2>2. RowsBacked'
    BY <1>0, <2>0, MediaAssumption DEF TypeOK, RowsBacked, Live
  <2>3. NoSharedFile'
    BY <1>0, <2>0 DEF NoSharedFile
  <2>4. NewFilesPrivate'
    BY <1>0, <2>0, MediaAssumption DEF TypeOK, NewFilesPrivate, Writing, Copying, Saved, CropSteps, RowsBacked
  <2>5. OldFilesTraced'
    BY <1>0, <2>0 DEF TypeOK, OldFilesTraced, OldFileTraced, Live, Writing, Copying, Saved, CropSteps
  <2>6. IdsKnown'
    BY <1>0, <2>0 DEF IdsKnown, OtherSteps
  <2> QED
    BY <2>1, <2>2, <2>3, <2>4, <2>5, <2>6 DEF IInv
<1>7. ASSUME NEW r \in Request, CropUpdateRow(r) PROVE IInv'
  <2>0. /\ req' \in [Request -> RequestState]
        /\ req[r].pc = "crop_saved" /\ req'[r].pc = "crop_updated"
        /\ req'[r].id = req[r].id /\ req'[r].old = req[r].old /\ req'[r].new = req[r].new
        /\ \A q \in Request : q # r => req'[q] = req[q]
        /\ row' = IF Live(req[r].id) THEN [row EXCEPT ![req[r].id].path = req[r].new] ELSE row
        /\ disk' = disk /\ picture' = picture
    BY <1>0, <1>7 DEF TypeOK, RequestState, UploadSteps, CropSteps, OtherSteps, CropUpdateRow, UpdateFile, Continue
  <2>1. TypeOK'
    BY <1>w, <1>0, <2>0 DEF TypeOK, Row, RequestState, OldFilesTraced, OldFileTraced, CropSteps, OtherSteps
  <2>2. RowsBacked'
    BY <1>0, <2>0 DEF TypeOK, RowsBacked, Live, ResolveMediaType, NewFilesPrivate, OldFilesTraced, OldFileTraced, Writing, Copying, Saved, CropSteps
  <2>3. NoSharedFile'
    BY <1>0, <2>0 DEF NoSharedFile, TypeOK, Row, NewFilesPrivate, OldFilesTraced, OldFileTraced, Writing, Copying, Saved, CropSteps
  <2>4. NewFilesPrivate'
    BY <1>0, <2>0 DEF TypeOK, NewFilesPrivate, Writing, Copying, Saved, CropSteps, OldFilesTraced, OldFileTraced, Row
  <2>5. OldFilesTraced'
    <3> SUFFICES ASSUME NEW q \in Request, req'[q].pc \in CropSteps
                 PROVE  OldFileTraced(q)'
      BY DEF OldFilesTraced
    <3>1. CASE q = r
      BY <1>0, <2>0, <3>1 DEF TypeOK, Row, OldFilesTraced, OldFileTraced, NewFilesPrivate,
                              Live, Writing, Copying, Saved, CropSteps
    <3>2. CASE q # r
      <4>1. req'[q] = req[q] /\ OldFileTraced(q)
        BY <2>0, <3>2, <1>0 DEF OldFilesTraced
      <4>2. req[r].new # req[q].old /\ req[r].id \in Media
        BY <1>0, <2>0, <4>1 DEF OldFilesTraced, OldFileTraced, Writing, Copying, Saved, CropSteps
      <4>3. \A m \in Media : /\ row'[m].state = row[m].state /\ row'[m].kind = row[m].kind
                             /\ row'[m].path \in {row[m].path, req[r].new}
        BY <1>0, <2>0, <4>2 DEF TypeOK, Row
      <4>4. \A p \in Request : req'[p].pc \in Writing => req[p].pc \in Writing /\ req'[p].new = req[p].new
        BY <2>0 DEF Writing, Copying, Saved
      <4> QED
        BY <2>0, <4>1, <4>2, <4>3, <4>4 DEF OldFileTraced, Live
    <3> QED
      BY <3>1, <3>2
  <2>6. IdsKnown'
    BY <1>0, <2>0 DEF IdsKnown, OtherSteps, TypeOK, Row
  <2> QED
    BY <2>1, <2>2, <2>3, <2>4, <2>5, <2>6 DEF IInv
<1>8. ASSUME NEW r \in Request, CropDeleteOldFile(r) PROVE IInv'
  <2>0. /\ req' \in [Request -> RequestState] /\ req'[r].pc = "idle"
        /\ req[r].pc = "crop_updated"
        /\ \A q \in Request : q # r => req'[q] = req[q]
        /\ disk' = [disk EXCEPT ![req[r].old] = IF FileExists(req[r].old) THEN "removed" ELSE @]
        /\ row' = row /\ picture' = picture
    BY <1>0, <1>8 DEF TypeOK, RequestState, UploadSteps, CropSteps, OtherSteps, CropDeleteOldFile, DeleteFile, Finish, Idle, AnyName
  <2>1. TypeOK'
    BY <1>w, <1>0, <2>0 DEF TypeOK, Row
  <2>2. RowsBacked'
    BY <1>0, <2>0 DEF TypeOK, RowsBacked, Live, FileExists, OldFilesTraced, OldFileTraced, Writing, Copying, Saved, CropSteps
  <2>3. NoSharedFile'
    BY <1>0, <2>0 DEF NoSharedFile
  <2>4. NewFilesPrivate'
    BY <1>0, <2>0 DEF TypeOK, NewFilesPrivate, Writing, Copying, Saved, CropSteps, OldFilesTraced, OldFileTraced, FileExists
  <2>5. OldFilesTraced'
    BY <1>0, <2>0 DEF TypeOK, OldFilesTraced, OldFileTraced, Live, Writing, Copying, Saved, CropSteps, FileExists
  <2>6. IdsKnown'
    BY <1>0, <2>0 DEF IdsKnown, OtherSteps
  <2> QED
    BY <2>1, <2>2, <2>3, <2>4, <2>5, <2>6 DEF IInv
<1>9. ASSUME NEW r \in Request, DeleteRead(r) PROVE IInv'
  <2>. PICK m \in Media :
          /\ Live(m)
          /\ Begin(r, "delete_read", m, NoPath, NoPath, AnyName)
          /\ row' = row /\ disk' = disk /\ picture' = picture
    BY <1>9 DEF DeleteRead
  <2>0. /\ req' \in [Request -> RequestState]
        /\ req'[r].pc = "delete_read" /\ req'[r].id = m
        /\ Live(m)
        /\ \A q \in Request : q # r => req'[q] = req[q]
        /\ row' = row /\ disk' = disk /\ picture' = picture
    BY <1>0 DEF TypeOK, Begin, RequestState, UploadSteps, CropSteps, OtherSteps
  <2>1. TypeOK'
    BY <1>w, <1>0, <2>0 DEF TypeOK, Row
  <2>2. RowsBacked'
    BY <1>0, <2>0 DEF TypeOK, RowsBacked, Live
  <2>3. NoSharedFile'
    BY <1>0, <2>0 DEF NoSharedFile
  <2>4. NewFilesPrivate'
    BY <1>0, <2>0 DEF TypeOK, NewFilesPrivate, Writing, Copying, Saved, CropSteps
  <2>5. OldFilesTraced'
    BY <1>0, <2>0 DEF TypeOK, OldFilesTraced, OldFileTraced, Live, Writing, Copying, Saved, CropSteps
  <2>6. IdsKnown'
    BY <1>0, <2>0 DEF IdsKnown, OtherSteps, Live
  <2> QED
    BY <2>1, <2>2, <2>3, <2>4, <2>5, <2>6 DEF IInv
<1>10. ASSUME NEW r \in Request, SoftDelete(r) PROVE IInv'
  <2>0. /\ req' \in [Request -> RequestState] /\ req'[r].pc = "idle"
        /\ req[r].pc = "delete_read"
        /\ \A q \in Request : q # r => req'[q] = req[q]
        /\ row' = IF Live(req[r].id) THEN [row EXCEPT ![req[r].id].state = "deleted"] ELSE row
        /\ disk' = disk /\ picture' = picture
    BY <1>0, <1>10 DEF TypeOK, RequestState, UploadSteps, CropSteps, OtherSteps, SoftDelete, Finish, Idle, AnyName
  <2>1. TypeOK'
    <3>1. req[r].id \in Media /\ req[r].name \in Name
      BY <1>0, <2>0 DEF IdsKnown, OtherSteps, TypeOK, RequestState
    <3>2. row[req[r].id] \in Row
      BY <1>0, <3>1 DEF TypeOK
    <3>3. [row[req[r].id] EXCEPT !.state = "deleted"] \in Row
      BY <3>1, <3>2 DEF Row
    <3> QED
      BY <1>w, <1>0, <2>0, <3>1, <3>3 DEF TypeOK
  <2>2. RowsBacked'
    BY <1>0, <2>0 DEF TypeOK, RowsBacked, Live, Row
  <2>3. NoSharedFile'
    BY <1>0, <2>0 DEF NoSharedFile, TypeOK, Row, Live
  <2>4. NewFilesPrivate'
    BY <1>0, <2>0 DEF TypeOK, NewFilesPrivate, Writing, Copying, Saved, CropSteps, Row
  <2>5. OldFilesTraced'
    BY <1>0, <2>0 DEF TypeOK, OldFilesTraced, OldFileTraced, Live, Writing, Copying, Saved, CropSteps, Row
  <2>6. IdsKnown'
    BY <1>0, <2>0 DEF IdsKnown, OtherSteps, TypeOK, Row, Live
  <2> QED
    BY <2>1, <2>2, <2>3, <2>4, <2>5, <2>6 DEF IInv
<1>11. ASSUME NEW r \in Request, MetaRead(r) PROVE IInv'
  <2>. PICK m \in Media, n \in Name :
          /\ Live(m)
          /\ Begin(r, "meta_read", m, NoPath, NoPath, n)
          /\ row' = row /\ disk' = disk /\ picture' = picture
    BY <1>11 DEF MetaRead
  <2>0. /\ req' \in [Request -> RequestState]
        /\ req'[r].pc = "meta_read" /\ req'[r].id = m
        /\ Live(m)
        /\ \A q \in Request : q # r => req'[q] = req[q]
        /\ row' = row /\ disk' = disk /\ picture' = picture
    BY <1>0 DEF TypeOK, Begin, RequestState, UploadSteps, CropSteps, OtherSteps
  <2>1. TypeOK'
    BY <1>w, <1>0, <2>0 DEF TypeOK, Row
  <2>2. RowsBacked'
    BY <1>0, <2>0 DEF TypeOK, RowsBacked, Live
  <2>3. NoSharedFile'
    BY <1>0, <2>0 DEF NoSharedFile
  <2>4. NewFilesPrivate'
    BY <1>0, <2>0 DEF TypeOK, NewFilesPrivate, Writing, Copying, Saved, CropSteps
  <2>5. OldFilesTraced'
    BY <1>0, <2>0 DEF TypeOK, OldFilesTraced, OldFileTraced, Live, Writing, Copying, Saved, CropSteps
  <2>6. IdsKnown'
    BY <1>0, <2>0 DEF IdsKnown, OtherSteps, Live
  <2> QED
    BY <2>1, <2>2, <2>3, <2>4, <2>5, <2>6 DEF IInv
<1>12. ASSUME NEW r \in Request, UpdateMeta(r) PROVE IInv'
  <2>0. /\ req' \in [Request -> RequestState] /\ req'[r].pc = "idle"
        /\ req[r].pc = "meta_read"
        /\ \A q \in Request : q # r => req'[q] = req[q]
        /\ row' = IF Live(req[r].id) THEN [row EXCEPT ![req[r].id].name = req[r].name] ELSE row
        /\ disk' = disk /\ picture' = picture
    BY <1>0, <1>12 DEF TypeOK, RequestState, UploadSteps, CropSteps, OtherSteps, UpdateMeta, Finish, Idle, AnyName
  <2>1. TypeOK'
    <3>1. req[r].id \in Media /\ req[r].name \in Name
      BY <1>0, <2>0 DEF IdsKnown, OtherSteps, TypeOK, RequestState
    <3>2. row[req[r].id] \in Row
      BY <1>0, <3>1 DEF TypeOK
    <3>3. [row[req[r].id] EXCEPT !.name = req[r].name] \in Row
      BY <3>1, <3>2 DEF Row
    <3> QED
      BY <1>w, <1>0, <2>0, <3>1, <3>3 DEF TypeOK
  <2>2. RowsBacked'
    BY <1>0, <2>0 DEF TypeOK, RowsBacked, Live, Row
  <2>3. NoSharedFile'
    BY <1>0, <2>0 DEF NoSharedFile, TypeOK, Row, Live
  <2>4. NewFilesPrivate'
    BY <1>0, <2>0 DEF TypeOK, NewFilesPrivate, Writing, Copying, Saved, CropSteps, Row
  <2>5. OldFilesTraced'
    BY <1>0, <2>0 DEF TypeOK, OldFilesTraced, OldFileTraced, Live, Writing, Copying, Saved, CropSteps, Row
  <2>6. IdsKnown'
    BY <1>0, <2>0 DEF IdsKnown, OtherSteps, TypeOK, Row, Live
  <2> QED
    BY <2>1, <2>2, <2>3, <2>4, <2>5, <2>6 DEF IInv
<1>13. ASSUME NEW r \in Request, Abort(r) PROVE IInv'
  <2>0. /\ req' \in [Request -> RequestState] /\ req'[r].pc = "idle"
        /\ \A q \in Request : q # r => req'[q] = req[q]
        /\ row' = row /\ disk' = disk /\ picture' = picture
    BY <1>0, <1>13 DEF TypeOK, RequestState, UploadSteps, CropSteps, OtherSteps, Abort, Finish, Idle, AnyName
  <2>1. TypeOK'
    BY <1>w, <1>0, <2>0 DEF TypeOK, Row
  <2>2. RowsBacked'
    BY <1>0, <2>0 DEF TypeOK, RowsBacked, Live
  <2>3. NoSharedFile'
    BY <1>0, <2>0 DEF NoSharedFile
  <2>4. NewFilesPrivate'
    BY <1>0, <2>0 DEF TypeOK, NewFilesPrivate, Writing, Copying, Saved, CropSteps
  <2>5. OldFilesTraced'
    BY <1>0, <2>0 DEF TypeOK, OldFilesTraced, OldFileTraced, Live, Writing, Copying, Saved, CropSteps
  <2>6. IdsKnown'
    BY <1>0, <2>0 DEF IdsKnown, OtherSteps
  <2> QED
    BY <2>1, <2>2, <2>3, <2>4, <2>5, <2>6 DEF IInv
<1>14. CASE UNCHANGED vars
  BY <1>0, <1>14
     DEF vars, IInv, TypeOK, RowsBacked, NoSharedFile, NewFilesPrivate, OldFilesTraced, OldFileTraced,
         IdsKnown, Live
<1> QED
  BY <1>1, <1>2, <1>3, <1>4, <1>5, <1>6, <1>7, <1>8, <1>9, <1>10, <1>11, <1>12,
     <1>13, <1>14 DEF Next

LEMMA Invariance == Spec => []IInv
BY InitIInv, StepIInv, PTL DEF Spec

-----------------------------------------------------------------------------

\* The rows, the files and the requests keep the shape the code gives them.
THEOREM TypeCorrect == Spec => []TypeOK
BY Invariance, PTL DEF IInv

\* For any number of concurrent uploads, crops and deletions, abandoned at any
\* point or not, an item of the library always shows a completely written file.
THEOREM FilesPresent == Spec => []LiveItemsHaveFiles
<1>1. IInv => LiveItemsHaveFiles
  BY DEF IInv, RowsBacked, LiveItemsHaveFiles
<1> QED
  BY <1>1, Invariance, PTL

\* No file ever backs two items, so no crop removes the file of another item.
THEOREM FilesUnshared == Spec => []NoSharedFile
BY Invariance, PTL DEF IInv

-----------------------------------------------------------------------------
(* The refinement *)

\* What one id shows in the gallery.
Shown(m) ==
    CASE row[m].state = "none"    -> NoItem
      [] row[m].state = "deleted" -> Removed
      [] row[m].state = "live"    -> [picture |-> picture[row[m].path], name |-> row[m].name]

LEMMA GalleryIsShown == Gallery = [m \in Media |-> Shown(m)]
BY DEF Gallery, Shown

\* A step that changes what one id shows.
LEMMA OneItemChanges ==
    ASSUME NEW m \in Media, NEW v, Shown(m)' = v,
           \A n \in Media : n # m => Shown(n)' = Shown(n)
    PROVE  Gallery' = [Gallery EXCEPT ![m] = v]
<1>1. Gallery' = [n \in Media |-> Shown(n)']
  BY DEF Gallery, Shown
<1> QED
  BY <1>1, GalleryIsShown

LEMMA InitGallery == Init => G!Init
BY DEF Init, G!Init, Gallery

\* A file that was unused is no item's file, so writing it shows nowhere.
LEMMA FreshFileUnseen ==
    ASSUME IInv, row' = row,
           NEW f \in Path, disk[f] = "unused",
           NEW c, picture' = [picture EXCEPT ![f] = c]
    PROVE  Gallery' = Gallery
<1>1. \A m \in Media : Shown(m)' = Shown(m)
  BY DEF IInv, RowsBacked, Live, Shown, TypeOK, Row
<1> QED
  BY <1>1 DEF Gallery, Shown

LEMMA RowsUnseen ==
    ASSUME row' = row, picture' = picture
    PROVE  Gallery' = Gallery
BY DEF Gallery

\* Every step is an operation of the gallery or invisible in it.
LEMMA StepGallery == IInv /\ [Next]_vars => [G!Next]_Gallery
<1> SUFFICES ASSUME IInv, [Next]_vars PROVE G!Next \/ Gallery' = Gallery
  OBVIOUS
<1>0. /\ TypeOK /\ RowsBacked /\ NewFilesPrivate /\ OldFilesTraced /\ IdsKnown
  BY DEF IInv
<1>1. ASSUME NEW r \in Request, UploadCreateFile(r) PROVE Gallery' = Gallery
  BY <1>1, FreshFileUnseen DEF UploadCreateFile, CreateFile, FreshPath
<1>2. ASSUME NEW r \in Request, FinishCopy(r) PROVE Gallery' = Gallery
  BY <1>2, RowsUnseen DEF FinishCopy
<1>3. ASSUME NEW r \in Request, UploadInsertRow(r) PROVE G!Next
  <2>. PICK m \in Media :
          /\ row[m].state = "none"
          /\ row' = [row EXCEPT ![m] = [state |-> "live", path |-> req[r].new,
                                        name |-> req[r].name,
                                        kind |-> ResolveMediaType(picture[req[r].new])]]
          /\ picture' = picture
    BY <1>3 DEF UploadInsertRow
  <2>1. req[r].new \in Path /\ req[r].name \in Name
    BY <1>0, <1>3 DEF UploadInsertRow, NewFilesPrivate, Writing, Saved, TypeOK, RequestState
  <2> DEFINE item == [picture |-> picture[req[r].new], name |-> req[r].name]
  <2>2. item \in G!Item
    BY <2>1, <1>0 DEF G!Item, TypeOK
  <2>3. /\ Gallery[m] = NoItem
        /\ Gallery' = [Gallery EXCEPT ![m] = item]
    BY <1>0 DEF Gallery, TypeOK, Row
  <2> QED
    BY <2>2, <2>3 DEF G!Next, G!Upload
<1>4. ASSUME NEW r \in Request, CropRead(r) PROVE Gallery' = Gallery
  BY <1>4, RowsUnseen DEF CropRead
<1>5. ASSUME NEW r \in Request, CropOpenSource(r) PROVE Gallery' = Gallery
  BY <1>5, RowsUnseen DEF CropOpenSource
<1>6. ASSUME NEW r \in Request, CropCreateFile(r) PROVE Gallery' = Gallery
  BY <1>6, FreshFileUnseen DEF CropCreateFile, CreateFile, FreshPath
<1>7. ASSUME NEW r \in Request, CropUpdateRow(r) PROVE G!Next \/ Gallery' = Gallery
  <2>1. CASE ~Live(req[r].id)
    BY <1>7, <2>1, RowsUnseen DEF CropUpdateRow, UpdateFile
  <2>2. CASE Live(req[r].id)
    <3> DEFINE c == picture[req[r].new]
    <3>0. PICK m \in Media : m = req[r].id
      BY <1>0, <1>7 DEF CropUpdateRow, OldFilesTraced, OldFileTraced, CropSteps
    <3>1. /\ m \in Media /\ row[m] \in Row /\ row[m].state = "live" /\ row[m].kind = "image"
          /\ row[m].path \in Path /\ picture[row[m].path] \in Picture
          /\ row[m].kind = ResolveMediaType(picture[row[m].path])
      BY <1>0, <1>7, <2>2, <3>0
         DEF CropUpdateRow, OldFilesTraced, OldFileTraced, CropSteps, RowsBacked, TypeOK, Live
    <3>2. picture[row[m].path] \in Image
      BY <3>1 DEF ResolveMediaType
    <3>3. c \in Image
      BY <1>0, <1>7 DEF CropUpdateRow, NewFilesPrivate, Writing, Saved, CropSteps
    <3>4. row' = [row EXCEPT ![m].path = req[r].new] /\ picture' = picture
      BY <1>7, <2>2, <3>0 DEF CropUpdateRow, UpdateFile
    <3>5. Gallery[m] = [picture |-> picture[row[m].path], name |-> row[m].name]
      BY <3>1 DEF Gallery
    <3>6. Gallery[m] \in G!Item /\ Gallery[m].picture \in Image
      BY <3>1, <3>2, <3>5 DEF G!Item, Row
    <3>7. Gallery' = [Gallery EXCEPT ![m] = [picture |-> c, name |-> Gallery[m].name]]
      <4>1. \A n \in Media : n # m => Shown(n)' = Shown(n)
        BY <3>1, <3>4, <1>0 DEF Shown, TypeOK
      <4>2. /\ row'[m].state = "live" /\ row'[m].path = req[r].new
            /\ row'[m].name = row[m].name
        BY <3>1, <3>4, <1>0 DEF TypeOK, Row
      <4>3. Shown(m)' = [picture |-> c, name |-> row[m].name]
        BY <3>4, <4>2 DEF Shown
      <4> QED
        BY <3>1, <3>5, <4>1, <4>3, OneItemChanges
    <3> QED
      BY <3>1, <3>3, <3>6, <3>7 DEF G!Next, G!Crop
  <2> QED
    BY <2>1, <2>2
<1>8. ASSUME NEW r \in Request, CropDeleteOldFile(r) PROVE Gallery' = Gallery
  BY <1>8, RowsUnseen DEF CropDeleteOldFile
<1>9. ASSUME NEW r \in Request, DeleteRead(r) PROVE Gallery' = Gallery
  BY <1>9, RowsUnseen DEF DeleteRead
<1>10. ASSUME NEW r \in Request, SoftDelete(r) PROVE G!Next \/ Gallery' = Gallery
  <2>1. CASE ~Live(req[r].id)
    BY <1>10, <2>1, RowsUnseen DEF SoftDelete
  <2>2. CASE Live(req[r].id)
    <3>0. PICK m \in Media : m = req[r].id
      BY <1>0, <1>10 DEF SoftDelete, IdsKnown, OtherSteps
    <3>1. /\ m \in Media /\ row[m] \in Row /\ row[m].state = "live"
          /\ row[m].path \in Path /\ picture[row[m].path] \in Picture
      BY <1>0, <1>10, <2>2, <3>0 DEF SoftDelete, IdsKnown, OtherSteps, RowsBacked, TypeOK, Live
    <3>2. row' = [row EXCEPT ![m].state = "deleted"] /\ picture' = picture
      BY <1>10, <2>2, <3>0 DEF SoftDelete
    <3>3. Gallery[m] \in G!Item
      BY <3>1 DEF Gallery, G!Item, Row
    <3>4. Gallery' = [Gallery EXCEPT ![m] = Removed]
      <4>1. \A n \in Media : n # m => Shown(n)' = Shown(n)
        BY <3>1, <3>2, <1>0 DEF Shown, TypeOK
      <4>2. row'[m].state = "deleted"
        BY <3>1, <3>2, <1>0 DEF TypeOK, Row
      <4>3. Shown(m)' = Removed
        BY <4>2 DEF Shown
      <4> QED
        BY <3>1, <4>1, <4>3, OneItemChanges
    <3> QED
      BY <3>1, <3>3, <3>4 DEF G!Next, G!Delete
  <2> QED
    BY <2>1, <2>2
<1>11. ASSUME NEW r \in Request, MetaRead(r) PROVE Gallery' = Gallery
  BY <1>11, RowsUnseen DEF MetaRead
<1>12. ASSUME NEW r \in Request, UpdateMeta(r) PROVE G!Next \/ Gallery' = Gallery
  <2>1. CASE ~Live(req[r].id)
    BY <1>12, <2>1, RowsUnseen DEF UpdateMeta
  <2>2. CASE Live(req[r].id)
    <3> DEFINE n == req[r].name
    <3>0. PICK m \in Media : m = req[r].id
      BY <1>0, <1>12 DEF UpdateMeta, IdsKnown, OtherSteps
    <3>1. /\ m \in Media /\ row[m] \in Row /\ row[m].state = "live" /\ n \in Name
          /\ row[m].path \in Path /\ picture[row[m].path] \in Picture
      BY <1>0, <1>12, <2>2, <3>0
         DEF UpdateMeta, IdsKnown, OtherSteps, RowsBacked, TypeOK, RequestState, Live
    <3>2. row' = [row EXCEPT ![m].name = n] /\ picture' = picture
      BY <1>12, <2>2, <3>0 DEF UpdateMeta
    <3>3. Gallery[m] = [picture |-> picture[row[m].path], name |-> row[m].name]
      BY <3>1 DEF Gallery
    <3>4. Gallery[m] \in G!Item
      BY <3>1, <3>3 DEF G!Item, Row
    <3>5. Gallery' = [Gallery EXCEPT ![m] = [picture |-> Gallery[m].picture, name |-> n]]
      <4>1. \A k \in Media : k # m => Shown(k)' = Shown(k)
        BY <3>1, <3>2, <1>0 DEF Shown, TypeOK
      <4>2. /\ row'[m].state = "live" /\ row'[m].path = row[m].path
            /\ row'[m].name = n
        BY <3>1, <3>2, <1>0 DEF TypeOK, Row
      <4>3. Shown(m)' = [picture |-> picture[row[m].path], name |-> n]
        BY <3>2, <4>2 DEF Shown
      <4> QED
        BY <3>1, <3>3, <4>1, <4>3, OneItemChanges
    <3> QED
      BY <3>1, <3>4, <3>5 DEF G!Next, G!Rename
  <2> QED
    BY <2>1, <2>2
<1>13. ASSUME NEW r \in Request, Abort(r) PROVE Gallery' = Gallery
  BY <1>13, RowsUnseen DEF Abort
<1>14. CASE UNCHANGED vars
  BY <1>14, RowsUnseen DEF vars
<1> QED
  BY <1>1, <1>2, <1>3, <1>4, <1>5, <1>6, <1>7, <1>8, <1>9, <1>10, <1>11, <1>12,
     <1>13, <1>14 DEF Next

\* Uploads, crops, renames and deletions are atomic to the users of the library.
THEOREM Refinement == Spec => ImplementsGallery
BY InitGallery, StepGallery, Invariance, PTL DEF Spec, ImplementsGallery, G!Spec

-----------------------------------------------------------------------------
(* Requests one after the other *)

Alone == \A q, r \in Request : q # r => req[q].pc = "idle" \/ req[r].pc = "idle"

\* A crop finds its item alive and with the path it has read, or has written.
CropsTheirItem(r) ==
    /\ Live(req[r].id)
    /\ req[r].pc # "crop_updated" => row[req[r].id].path = req[r].old

\* A request is writing file f, or is about to remove it.
HeldBy(r, f) ==
    \/ req[r].pc \in Writing /\ req[r].new = f
    \/ req[r].pc = "crop_updated" /\ req[r].old = f

FilesOwned ==
    \A f \in Path : FileExists(f) =>
       (\E m \in Media : row[m].path = f) \/ (\E r \in Request : HeldBy(r, f))

DeletedHaveFiles == \A m \in Media : row[m].state = "deleted" => FileExists(row[m].path)

Series ==
    /\ Alone
    /\ \A r \in Request : req[r].pc \in CropSteps => CropsTheirItem(r)
    /\ FilesOwned
    /\ DeletedHaveFiles

InSeries == ~disturbed => Series

\* Where a request stands after a step, and that the others stand still.
LEMMA Moves ==
  ASSUME TypeOK, NEW r \in Request
  PROVE  /\ \A step, m, old, new, n : Begin(r, step, m, old, new, n) =>
               /\ req'[r].pc = step /\ req'[r].id = m /\ req'[r].old = old /\ req'[r].new = new
               /\ \A q \in Request : q # r => req'[q] = req[q]
         /\ \A step : Continue(r, step) =>
               /\ req'[r].pc = step /\ req'[r].id = req[r].id /\ req'[r].old = req[r].old
               /\ req'[r].new = req[r].new
               /\ \A q \in Request : q # r => req'[q] = req[q]
         /\ Finish(r) =>
               /\ req'[r].pc = "idle" /\ \A q \in Request : q # r => req'[q] = req[q]
<1>1. req \in [Request -> RequestState] /\ req[r] \in RequestState
  BY DEF TypeOK
<1>2. ASSUME NEW step, Continue(r, step)
      PROVE  /\ req'[r].pc = step /\ req'[r].id = req[r].id /\ req'[r].old = req[r].old
             /\ req'[r].new = req[r].new
             /\ \A q \in Request : q # r => req'[q] = req[q]
  <2>1. req'[r] = [req[r] EXCEPT !.pc = step] /\ \A q \in Request : q # r => req'[q] = req[q]
    BY <1>1, <1>2 DEF Continue
  <2> QED
    BY <1>1, <2>1 DEF RequestState
<1> QED
  BY <1>1, <1>2 DEF Begin, Finish, Idle

\* While nothing has overlapped, the requests but the one that steps are idle.
LEMMA OthersIdle ==
  ASSUME Alone, NEW r \in Request, Watch, ~disturbed',
         \A q \in Request : q # r => req'[q] = req[q],
         req[r].pc # "idle" \/ req'[r].pc # "idle"
  PROVE  /\ \A q \in Request : q # r => req[q].pc = "idle" /\ req'[q].pc = "idle"
         /\ Alone'
  BY DEF Alone, Watch

LEMMA IdleHolds == \A r : \A f : req[r].pc = "idle" => ~HeldBy(r, f) /\ req[r].pc \notin CropSteps
  BY DEF HeldBy, Writing, Copying, Saved, CropSteps

\* What has to be looked at after a step of request r alone.
LEMMA SeriesAfter ==
  ASSUME Series, NEW r \in Request, Watch, ~disturbed',
         \A q \in Request : q # r => req'[q] = req[q],
         req[r].pc # "idle" \/ req'[r].pc # "idle",
         req'[r].pc \in CropSteps => CropsTheirItem(r)',
         \A f \in Path : FileExists(f)' => FileExists(f) \/ HeldBy(r, f)',
         \A f \in Path, m \in Media : FileExists(f)' /\ row[m].path = f =>
            HeldBy(r, f)' \/ \E n \in Media : row'[n].path = f,
         \A f \in Path : FileExists(f)' /\ HeldBy(r, f) =>
            HeldBy(r, f)' \/ \E n \in Media : row'[n].path = f,
         DeletedHaveFiles'
  PROVE  Series'
<1>1. Alone' /\ \A q \in Request : q # r => req[q].pc = "idle" /\ req'[q].pc = "idle"
  BY OthersIdle DEF Series
<1>2. \A q \in Request : \A f : q # r => ~HeldBy(q, f) /\ req'[q].pc \notin CropSteps
  BY <1>1, IdleHolds DEF CropSteps
<1>3. FilesOwned'
  <2> SUFFICES ASSUME NEW f \in Path, FileExists(f)'
               PROVE  (\E m \in Media : row'[m].path = f) \/ (\E q \in Request : HeldBy(q, f)')
    BY DEF FilesOwned
  <2>1. CASE HeldBy(r, f)'
    BY <2>1
  <2>2. CASE ~HeldBy(r, f)'
    <3>1. (\E m \in Media : row[m].path = f) \/ HeldBy(r, f)
      BY <1>2, <2>2 DEF Series, FilesOwned
    <3> QED
      BY <2>2, <3>1
  <2> QED
    BY <2>1, <2>2
<1>4. \A q \in Request : req'[q].pc \in CropSteps => CropsTheirItem(q)'
  BY <1>2
<1> QED
  BY <1>1, <1>3, <1>4 DEF Series

\* A step that leaves rows and files alone keeps what the request was holding.
LEMMA SeriesOfRead ==
  ASSUME TypeOK, Series, NEW r \in Request, Watch, ~disturbed', UNCHANGED <<row, disk>>,
         \A q \in Request : q # r => req'[q] = req[q],
         req[r].pc # "idle" \/ req'[r].pc # "idle",
         req'[r].pc \in CropSteps => CropsTheirItem(r)',
         \A f : HeldBy(r, f) => HeldBy(r, f)'
  PROVE  Series'
<1>1. \A f : (FileExists(f)' <=> FileExists(f))
  BY DEF FileExists
<1>2. DeletedHaveFiles'
  BY <1>1 DEF Series, DeletedHaveFiles, FileExists
<1>3. row' = row
  OBVIOUS
<1> QED
  BY <1>1, <1>2, <1>3, SeriesAfter

\* Nor does a request that writes no file and ends with rows that keep their paths.
LEMMA SeriesOfRow ==
  ASSUME TypeOK, Series, NEW r \in Request, Watch, ~disturbed', UNCHANGED disk, Finish(r),
         req[r].pc \in OtherSteps,
         \A m \in Media : row'[m].path = row[m].path,
         \A m \in Media : row'[m].state = "deleted" => FileExists(row[m].path)
  PROVE  Series'
<1>1. \A f : (FileExists(f)' <=> FileExists(f))
  BY DEF FileExists
<1>4. DeletedHaveFiles'
  BY DEF DeletedHaveFiles, FileExists
<1>2. /\ req'[r].pc = "idle" /\ \A q \in Request : q # r => req'[q] = req[q]
      /\ req'[r].pc \notin CropSteps
  BY Moves DEF CropSteps
<1>3. req[r].pc # "idle" /\ \A f : ~HeldBy(r, f)
  BY DEF OtherSteps, HeldBy, Writing, Copying, Saved
<1> QED
  BY <1>1, <1>2, <1>3, <1>4, SeriesAfter

LEMMA SeriesKept ==
  ASSUME IInv, InSeries, [Next]_vars
  PROVE  InSeries'
<1> SUFFICES ASSUME ~disturbed' PROVE Series'
  BY DEF InSeries
<1>1. ~disturbed
  BY DEF Next, Watch, vars
<1>2. Series
  BY <1>1 DEF InSeries
<1>3. /\ TypeOK /\ req \in [Request -> RequestState] /\ row \in [Media -> Row]
      /\ disk \in [Path -> {"unused", "partial", "complete", "removed"}]
  BY DEF IInv, TypeOK
<1>4. DeletedHaveFiles
  BY <1>2 DEF Series
<1>5. \A m \in Media : row[m].path \in Path => disk[row[m].path] \in {"complete", "removed"}
  BY <1>3, MediaAssumption DEF IInv, RowsBacked, Row
<1>6. ASSUME NEW r \in Request, UploadCreateFile(r), Watch PROVE Series'
  <2>1. PICK f \in Path, c \in Picture, n \in Name :
           CreateFile(f, c) /\ Begin(r, "upload_copying", NoMedia, NoPath, f, n)
    BY <1>6 DEF UploadCreateFile
  <2>2. row' = row /\ disk[f] = "unused" /\ disk' = [disk EXCEPT ![f] = "partial"]
    BY <1>6, <2>1 DEF UploadCreateFile, CreateFile, FreshPath
  <2>3. /\ req[r].pc = "idle" /\ req'[r].pc = "upload_copying" /\ req'[r].new = f
        /\ \A q \in Request : q # r => req'[q] = req[q]
    BY <1>3, <1>6, <2>1, Moves DEF UploadCreateFile
  <2>4. /\ HeldBy(r, f)' /\ \A g \in Path : g # f => (FileExists(g)' <=> FileExists(g))
        /\ \A g : ~HeldBy(r, g)
        /\ req'[r].pc \notin CropSteps /\ req'[r].pc # "idle"
    BY <1>3, <2>2, <2>3 DEF HeldBy, Writing, Copying, Saved, FileExists, CropSteps
  <2>5. DeletedHaveFiles'
    BY <1>3, <1>4, <2>2 DEF IInv, RowsBacked, FileExists, DeletedHaveFiles
  <2> QED
    BY <1>2, <1>6, <2>2, <2>3, <2>4, <2>5, SeriesAfter
<1>7. ASSUME NEW r \in Request, FinishCopy(r), Watch PROVE Series'
  <2> DEFINE f == req[r].new
  <2>1. PICK step \in Saved :
           /\ Continue(r, step) /\ req[r].pc \in Copying
           /\ step \in CropSteps => req[r].pc = "crop_copying"
    BY <1>7 DEF FinishCopy, Saved, Copying, CropSteps
  <2>2. row' = row /\ f \in Path /\ disk[f] = "partial" /\ disk' = [disk EXCEPT ![f] = "complete"]
    BY <1>7, <2>1 DEF FinishCopy, IInv, NewFilesPrivate, Writing
  <2>3. /\ req'[r].pc = step /\ req'[r].id = req[r].id /\ req'[r].old = req[r].old
        /\ req'[r].new = f
        /\ \A q \in Request : q # r => req'[q] = req[q]
    BY <1>3, <2>1, Moves
  <2>4. \A g \in Path : (FileExists(g)' <=> FileExists(g))
    BY <1>3, <2>2 DEF FileExists
  <2>5. \A g : HeldBy(r, g) => HeldBy(r, g)'
    BY <2>1, <2>3 DEF HeldBy, Writing, Copying, Saved
  <2>6. req'[r].pc \in CropSteps => CropsTheirItem(r)'
    <3> SUFFICES ASSUME step \in CropSteps PROVE CropsTheirItem(r)'
      BY <2>3
    <3>1. req[r].pc = "crop_copying" /\ step # "crop_updated"
      BY <2>1 DEF Saved
    <3>2. CropsTheirItem(r)
      BY <1>2, <3>1 DEF Series, CropSteps
    <3> QED
      BY <2>2, <2>3, <3>1, <3>2 DEF CropsTheirItem, Live
  <2>7. DeletedHaveFiles'
    BY <1>3, <1>4, <2>2 DEF IInv, RowsBacked, FileExists, DeletedHaveFiles
  <2>8. req[r].pc # "idle"
    BY <2>1 DEF Copying
  <2> QED
    BY <1>2, <1>7, <2>2, <2>3, <2>4, <2>5, <2>6, <2>7, <2>8, SeriesAfter
<1>8. ASSUME NEW r \in Request, UploadInsertRow(r), Watch PROVE Series'
  <2>1. PICK m \in Media : \E k :
           /\ row[m].state = "none"
           /\ row' = [row EXCEPT ![m] = [state |-> "live", path |-> req[r].new,
                                         name |-> req[r].name, kind |-> k]]
    BY <1>8 DEF UploadInsertRow
  <2>2. /\ req[r].pc = "upload_saved" /\ disk' = disk /\ Finish(r)
    BY <1>8 DEF UploadInsertRow
  <2>3. /\ req'[r].pc = "idle" /\ req'[r].pc \notin CropSteps
        /\ \A q \in Request : q # r => req'[q] = req[q]
    BY <1>3, <2>2, Moves DEF CropSteps
  <2>4. /\ row'[m].path = req[r].new /\ row'[m].state = "live"
        /\ \A n \in Media : n # m => row'[n] = row[n]
    BY <1>3, <2>1
  <2>5. \A f : (FileExists(f)' <=> FileExists(f))
    BY <2>2 DEF FileExists
  <2>6. \A f \in Path : HeldBy(r, f) => row'[m].path = f
    BY <2>2, <2>4 DEF HeldBy
  <2>7. \A f \in Path : row[m].path # f
    BY <2>1, MediaAssumption DEF IInv, RowsBacked
  <2>8. \A f \in Path, n \in Media : row[n].path = f => row'[n].path = f
    BY <2>4, <2>7
  <2>9. DeletedHaveFiles'
    BY <1>4, <2>4, <2>5 DEF DeletedHaveFiles, FileExists
  <2> QED
    BY <1>2, <1>8, <2>2, <2>3, <2>5, <2>6, <2>8, <2>9, SeriesAfter
<1>9. ASSUME NEW r \in Request, CropRead(r), Watch PROVE Series'
  <2>1. PICK m \in Media : Live(m) /\ Begin(r, "crop_read", m, row[m].path, NoPath, AnyName)
    BY <1>9 DEF CropRead
  <2>2. req[r].pc = "idle" /\ row' = row /\ disk' = disk
    BY <1>9 DEF CropRead
  <2>3. /\ req'[r].pc = "crop_read" /\ req'[r].id = m /\ req'[r].old = row[m].path
        /\ \A q \in Request : q # r => req'[q] = req[q]
    BY <1>3, <2>1, Moves
  <2>4. CropsTheirItem(r)'
    BY <2>1, <2>2, <2>3 DEF CropsTheirItem, Live
  <2>5. \A f : ~HeldBy(r, f)
    BY <2>2, IdleHolds
  <2> QED
    BY <1>2, <1>3, <1>9, <2>2, <2>3, <2>4, <2>5, SeriesOfRead
<1>10. ASSUME NEW r \in Request, CropOpenSource(r), Watch PROVE Series'
  <2>1. /\ req[r].pc = "crop_read" /\ row' = row /\ disk' = disk
        /\ Continue(r, "crop_open") \/ Finish(r)
    BY <1>10 DEF CropOpenSource
  <2>2. /\ \A q \in Request : q # r => req'[q] = req[q]
        /\ \/ req'[r].pc = "idle"
           \/ req'[r].pc = "crop_open" /\ req'[r].id = req[r].id /\ req'[r].old = req[r].old
    BY <1>3, <2>1, Moves
  <2>3. CropsTheirItem(r)
    BY <1>2, <2>1 DEF Series, CropSteps
  <2>4. req'[r].pc \in CropSteps => CropsTheirItem(r)'
    BY <2>1, <2>2, <2>3 DEF CropSteps, CropsTheirItem, Live
  <2>5. \A f : ~HeldBy(r, f)
    BY <2>1 DEF HeldBy, Writing, Copying, Saved
  <2> QED
    BY <1>2, <1>3, <1>10, <2>1, <2>2, <2>4, <2>5, SeriesOfRead
<1>11. ASSUME NEW r \in Request, CropCreateFile(r), Watch PROVE Series'
  <2>1. PICK f \in Path, c \in Image :
           CreateFile(f, c) /\ req' = [req EXCEPT ![r].pc = "crop_copying", ![r].new = f]
    BY <1>11 DEF CropCreateFile
  <2>2. row' = row /\ disk[f] = "unused" /\ disk' = [disk EXCEPT ![f] = "partial"]
    BY <1>11, <2>1 DEF CropCreateFile, CreateFile, FreshPath
  <2>3. /\ req[r].pc = "crop_open" /\ req'[r].pc = "crop_copying" /\ req'[r].new = f
        /\ req'[r].id = req[r].id /\ req'[r].old = req[r].old
        /\ \A q \in Request : q # r => req'[q] = req[q]
    <3>1. /\ req'[r] = [req[r] EXCEPT !.pc = "crop_copying", !.new = f] /\ req[r] \in RequestState
          /\ \A q \in Request : q # r => req'[q] = req[q]
      BY <1>3, <2>1
    <3> QED
      BY <1>11, <3>1 DEF RequestState, CropCreateFile
  <2>4. /\ HeldBy(r, f)' /\ \A g \in Path : g # f => (FileExists(g)' <=> FileExists(g))
        /\ \A g : ~HeldBy(r, g)
    BY <1>3, <2>2, <2>3 DEF HeldBy, Writing, Copying, Saved, FileExists
  <2>5. CropsTheirItem(r)
    BY <1>2, <2>3 DEF Series, CropSteps
  <2>6. CropsTheirItem(r)'
    BY <2>2, <2>3, <2>5 DEF CropsTheirItem, Live
  <2>7. DeletedHaveFiles'
    BY <1>3, <1>4, <2>2 DEF IInv, RowsBacked, FileExists, DeletedHaveFiles
  <2>8. req[r].pc # "idle"
    BY <2>3
  <2> QED
    BY <1>2, <1>11, <2>2, <2>3, <2>4, <2>6, <2>7, <2>8, SeriesAfter
<1>12. ASSUME NEW r \in Request, CropUpdateRow(r), Watch PROVE Series'
  <2> DEFINE m == req[r].id
  <2>1. /\ req[r].pc = "crop_saved" /\ disk' = disk /\ Continue(r, "crop_updated")
        /\ UpdateFile(m, req[r].new)
    BY <1>12 DEF CropUpdateRow
  <2>2. CropsTheirItem(r) /\ m \in Media
    BY <1>2, <2>1 DEF Series, CropSteps, IInv, OldFilesTraced, OldFileTraced
  <2>3. Live(m) /\ row[m].path = req[r].old /\ row' = [row EXCEPT ![m].path = req[r].new]
    BY <2>1, <2>2 DEF CropsTheirItem, UpdateFile
  <2>4. /\ row'[m].path = req[r].new /\ row'[m].state = "live"
        /\ \A n \in Media : n # m => row'[n] = row[n]
    <3>1. /\ row'[m] = [row[m] EXCEPT !.path = req[r].new] /\ row[m] \in Row
          /\ \A n \in Media : n # m => row'[n] = row[n]
      BY <1>3, <2>2, <2>3
    <3> QED
      BY <2>3, <3>1 DEF Row, Live
  <2>5. /\ req'[r].pc = "crop_updated" /\ req'[r].id = m /\ req'[r].old = req[r].old
        /\ \A q \in Request : q # r => req'[q] = req[q]
    BY <1>3, <2>1, Moves
  <2>6. CropsTheirItem(r)'
    BY <2>4, <2>5 DEF CropsTheirItem, Live
  <2>7. \A f : (FileExists(f)' <=> FileExists(f))
    BY <2>1 DEF FileExists
  <2>8. \A f \in Path : HeldBy(r, f) => row'[m].path = f
    BY <2>1, <2>4 DEF HeldBy
  <2>9. \A f \in Path, n \in Media : row[n].path = f => HeldBy(r, f)' \/ row'[n].path = f
    BY <2>3, <2>4, <2>5 DEF HeldBy
  <2>10. DeletedHaveFiles'
    BY <1>4, <2>4, <2>7 DEF DeletedHaveFiles, FileExists
  <2>11. req[r].pc # "idle"
    BY <2>1
  <2> HIDE DEF m
  <2> QED
    BY <1>2, <1>12, <2>2, <2>5, <2>6, <2>7, <2>8, <2>9, <2>10, <2>11, SeriesAfter
<1>13. ASSUME NEW r \in Request, CropDeleteOldFile(r), Watch PROVE Series'
  <2>0. PICK f : f = req[r].old
    OBVIOUS
  <2>1. /\ req[r].pc = "crop_updated" /\ row' = row /\ Finish(r)
        /\ disk' = [disk EXCEPT ![f] = IF FileExists(f) THEN "removed" ELSE @]
    BY <1>13, <2>0 DEF CropDeleteOldFile, DeleteFile
  <2>2. CropsTheirItem(r) /\ OldFileTraced(r)
    BY <1>2, <2>1 DEF Series, CropSteps, IInv, OldFilesTraced
  <2>3. f \in Path /\ \A m \in Media : row[m].path # f
    BY <2>0, <2>1, <2>2 DEF CropsTheirItem, OldFileTraced
  <2>4. /\ ~FileExists(f)' /\ \A g \in Path : g # f => (FileExists(g)' <=> FileExists(g))
    BY <1>3, <2>1, <2>3 DEF FileExists
  <2>5. /\ req'[r].pc = "idle" /\ req'[r].pc \notin CropSteps
        /\ \A q \in Request : q # r => req'[q] = req[q]
    BY <1>3, <2>1, Moves DEF CropSteps
  <2>6. \A g \in Path : HeldBy(r, g) => g = f
    BY <2>0, <2>1 DEF HeldBy, Writing, Copying, Saved
  <2>7. DeletedHaveFiles'
    BY <1>4, <2>1, <2>3, <2>4 DEF IInv, RowsBacked, DeletedHaveFiles, FileExists
  <2>8. req[r].pc # "idle"
    BY <2>1
  <2> QED
    BY <1>2, <1>13, <2>1, <2>4, <2>5, <2>6, <2>7, <2>8, SeriesAfter
<1>14. ASSUME NEW r \in Request, DeleteRead(r) \/ MetaRead(r), Watch PROVE Series'
  <2>1. /\ req[r].pc = "idle" /\ row' = row /\ disk' = disk
        /\ \E step \in OtherSteps : \E m, old, new, n : Begin(r, step, m, old, new, n)
    BY <1>14 DEF DeleteRead, MetaRead, OtherSteps
  <2>2. req'[r].pc \in OtherSteps /\ \A q \in Request : q # r => req'[q] = req[q]
    BY <1>3, <2>1, Moves
  <2>3. req'[r].pc # "idle" /\ req'[r].pc \notin CropSteps
    BY <2>2 DEF OtherSteps, CropSteps
  <2>4. \A f : ~HeldBy(r, f)
    BY <2>1, IdleHolds
  <2> QED
    BY <1>2, <1>3, <1>14, <2>1, <2>2, <2>3, <2>4, SeriesOfRead
<1>15. ASSUME NEW r \in Request, SoftDelete(r), Watch PROVE Series'
  <2>1. /\ req[r].pc \in OtherSteps /\ Finish(r) /\ disk' = disk
        /\ \/ row' = row
           \/ Live(req[r].id) /\ row' = [row EXCEPT ![req[r].id].state = "deleted"]
    BY <1>15 DEF SoftDelete, OtherSteps
  <2>2. req[r].id \in Media
    BY <2>1 DEF IInv, IdsKnown
  <2>3. \A m \in Media : /\ row'[m].path = row[m].path
                         /\ row'[m].state = "deleted" => row[m].state = "deleted" \/ Live(m)
    <3> SUFFICES ASSUME NEW m \in Media, row'[m] # row[m]
                 PROVE  row'[m].path = row[m].path /\ Live(m)
      OBVIOUS
    <3>1. row'[m] = [row[m] EXCEPT !.state = "deleted"] /\ m = req[r].id /\ Live(m) /\ row[m] \in Row
      BY <1>3, <2>1, <2>2
    <3> QED
      BY <3>1 DEF Row
  <2>4. \A m \in Media : row'[m].state = "deleted" => FileExists(row[m].path)
    BY <1>4, <2>3 DEF IInv, RowsBacked, FileExists, DeletedHaveFiles
  <2> QED
    BY <1>2, <1>3, <1>15, <2>1, <2>3, <2>4, SeriesOfRow
<1>16. ASSUME NEW r \in Request, UpdateMeta(r), Watch PROVE Series'
  <2>1. /\ req[r].pc \in OtherSteps /\ Finish(r) /\ disk' = disk
        /\ row' = row \/ row' = [row EXCEPT ![req[r].id].name = req[r].name]
    BY <1>16 DEF UpdateMeta, OtherSteps
  <2>2. \A m \in Media : row'[m].path = row[m].path /\ row'[m].state = row[m].state
    <3> SUFFICES ASSUME NEW m \in Media, row'[m] # row[m]
                 PROVE  row'[m].path = row[m].path /\ row'[m].state = row[m].state
      OBVIOUS
    <3>1. row'[m] = [row[m] EXCEPT !.name = req[r].name] /\ row[m] \in Row
      BY <1>3, <2>1
    <3> QED
      BY <3>1 DEF Row
  <2> QED
    BY <1>2, <1>3, <1>4, <1>16, <2>1, <2>2, SeriesOfRow DEF DeletedHaveFiles
<1>17. CASE UNCHANGED vars
  <2>1. row' = row /\ disk' = disk /\ req' = req
    BY <1>17 DEF vars
  <2> QED
    BY <1>2, <2>1 DEF Series, Alone, CropsTheirItem, Live, FilesOwned, FileExists, HeldBy,
       DeletedHaveFiles
<1> QED
  BY <1>6, <1>7, <1>8, <1>9, <1>10, <1>11, <1>12, <1>13, <1>14, <1>15, <1>16, <1>17 DEF Next

LEMMA SeriesInvariance == Spec => []InSeries
<1>1. Init => InSeries
  BY DEF Init, Idle, InSeries, Series, Alone, CropSteps, FilesOwned, FileExists,
         DeletedHaveFiles
<1>2. IInv /\ InSeries /\ [Next]_vars => InSeries'
  BY SeriesKept
<1> QED
  BY <1>1, <1>2, Invariance, PTL DEF Spec

\* DeleteAsync leaves the file, and a crop that is not overlapped by a deletion finds
\* its item alive: deleted items keep their files.
THEOREM DeletedKeepFiles == Spec => []DeletedItemsKeepFiles
<1>1. InSeries => DeletedItemsKeepFiles
  BY DEF InSeries, Series, DeletedHaveFiles, DeletedItemsKeepFiles
<1> QED
  BY <1>1, SeriesInvariance, PTL

\* The file a crop leaves behind is the one it removes: as long as no request has been
\* overlapped or cut short, the files on disk between requests belong to rows.
THEOREM NoOrphans == Spec => []NoOrphanFilesInSeries
<1>1. InSeries => NoOrphanFilesInSeries
  BY IdleHolds DEF InSeries, Series, FilesOwned, NoOrphanFilesInSeries, NoOrphanFiles
<1> QED
  BY <1>1, SeriesInvariance, PTL
=============================================================================
