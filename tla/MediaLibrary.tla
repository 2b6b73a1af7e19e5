---------------------------- MODULE MediaLibrary ----------------------------
(***************************************************************************)
(* The media library: rows of media_assets on one side, files of the       *)
(* upload folder on the other, and nothing that ties the two together but  *)
(* the order in which MediaService calls them.  Requests run concurrently; *)
(* each repository or storage call is one step, and a request may end      *)
(* between any two of them (cancelled, failed I/O, process stopped).       *)
(***************************************************************************)
EXTENDS FiniteSets, Naturals

CONSTANTS Media,    \* ids the IDENTITY column can give out
          Path,     \* file names Guid.NewGuid() can produce
          Picture,  \* what an uploaded file can contain
          Image,    \* the contents ResolveMediaType classifies as "image"
          Name,     \* original_name values
          Request,  \* concurrent requests
          NoMedia,  \* an idle request's id
          NoPath,   \* the path of a row that does not exist
          NoItem,   \* what MediaGallery shows under an id not given out
          Removed,  \* what MediaGallery shows under the id of a deleted item
          MayAbort  \* whether requests may end half way

ASSUME MediaAssumption ==
    /\ Image \subseteq Picture
    /\ Picture # {}
    /\ Name # {}
    /\ NoMedia \notin Media
    /\ NoPath \notin Path
    /\ MayAbort \in BOOLEAN

VARIABLES row,      \* media_assets, by id
          disk,     \* the life of each file name: unused, partial, complete, removed
          picture,  \* what the file of that name contains
          req,      \* the local variables of each request
          disturbed \* history: requests have overlapped, or one was cut short

vars == <<row, disk, picture, req, disturbed>>

Row == [state : {"none", "live", "deleted"},
        path  : Path \cup {NoPath},
        name  : Name,
        kind  : {"image", "file"}]

UploadSteps == {"upload_copying", "upload_saved"}
CropSteps == {"crop_read", "crop_open", "crop_copying", "crop_saved", "crop_updated"}
OtherSteps == {"delete_read", "meta_read"}

RequestState == [pc   : {"idle"} \cup UploadSteps \cup CropSteps \cup OtherSteps,
                 id   : Media \cup {NoMedia},
                 old  : Path \cup {NoPath},   \* oldPath of CropAsync
                 new  : Path \cup {NoPath},   \* stored.RelativePath
                 name : Name]

TypeOK ==
    /\ row \in [Media -> Row]
    /\ disk \in [Path -> {"unused", "partial", "complete", "removed"}]
    /\ picture \in [Path -> Picture]
    /\ req \in [Request -> RequestState]
    /\ disturbed \in BOOLEAN

AnyName == CHOOSE n \in Name : TRUE

Idle == [pc |-> "idle", id |-> NoMedia, old |-> NoPath, new |-> NoPath, name |-> AnyName]

Init ==
    /\ row = [m \in Media |->
                [state |-> "none", path |-> NoPath, name |-> AnyName, kind |-> "file"]]
    /\ disk = [f \in Path |-> "unused"]
    /\ picture = [f \in Path |-> CHOOSE c \in Picture : TRUE]
    /\ req = [r \in Request |-> Idle]
    /\ disturbed = FALSE

-----------------------------------------------------------------------------
(* MediaRepository and LocalFileStorageService, one statement or file call each *)

\* WHERE id = @Id AND is_deleted = 0, the condition of every read and write of a row.
Live(m) == row[m].state = "live"

\* Variant: the content type itself is stored, not its class.
ResolveMediaType_Raw(c) == c

ResolveMediaType(c) == IF c \in Image THEN "image" ELSE "file"

\* Variant: the file is named after the upload, so a name can come back.
FreshPath_Reused(f) == disk[f] # "partial"

\* A new Guid, opened with FileMode.CreateNew: a name no file has had before.
FreshPath(f) == disk[f] = "unused"

\* SaveAsync up to the copy: the file is there, its content is not yet.
CreateFile(f, c) ==
    /\ FreshPath(f)
    /\ disk' = [disk EXCEPT ![f] = "partial"]
    /\ picture' = [picture EXCEPT ![f] = c]

FileExists(f) == disk[f] \in {"partial", "complete"}

\* DeleteAsync removes the file if it exists.
DeleteFile(f) ==
    disk' = [disk EXCEPT ![f] = IF FileExists(f) THEN "removed" ELSE @]

\* UpdateFileAsync; no row matches when the item has been deleted meanwhile.
UpdateFile(m, f) ==
    row' = IF Live(m) THEN [row EXCEPT ![m].path = f] ELSE row

\* The local variables a request has after its first step.
Begin(r, step, m, old, new, n) ==
    req' = [req EXCEPT ![r] = [pc |-> step, id |-> m, old |-> old, new |-> new, name |-> n]]

Continue(r, step) == req' = [req EXCEPT ![r].pc = step]
Finish(r) == req' = [req EXCEPT ![r] = Idle]

\* The history: two requests under way at once.
Watch ==
    disturbed' = (disturbed \/ \E q, r \in Request :
                                  q # r /\ req'[q].pc # "idle" /\ req'[r].pc # "idle")

-----------------------------------------------------------------------------
(* UploadAsync *)

\* Validation has passed; storage.SaveAsync creates the file.
UploadCreateFile(r) ==
    /\ req[r].pc = "idle"
    /\ \E f \in Path, c \in Picture, n \in Name :
          /\ CreateFile(f, c)
          /\ Begin(r, "upload_copying", NoMedia, NoPath, f, n)
    /\ UNCHANGED row

\* CopyToAsync ends and the file is closed, in an upload or in a crop.
FinishCopy(r) ==
    /\ \/ req[r].pc = "upload_copying" /\ Continue(r, "upload_saved")
       \/ req[r].pc = "crop_copying" /\ Continue(r, "crop_saved")
    /\ disk' = [disk EXCEPT ![req[r].new] = "complete"]
    /\ UNCHANGED <<row, picture>>

\* repository.CreateAsync inserts the row under the next id.
UploadInsertRow(r) ==
    /\ req[r].pc = "upload_saved"
    /\ \E m \in Media :
          /\ row[m].state = "none"
          /\ row' = [row EXCEPT ![m] = [state |-> "live", path |-> req[r].new,
                                        name |-> req[r].name,
                                        kind |-> ResolveMediaType(picture[req[r].new])]]
    /\ Finish(r)
    /\ UNCHANGED <<disk, picture>>

-----------------------------------------------------------------------------
(* CropAsync *)

\* GetByIdAsync; a missing item or one that is not an image ends the request.
CropRead(r) ==
    /\ req[r].pc = "idle"
    /\ \E m \in Media :
          /\ Live(m)
          /\ row[m].kind = "image"
          /\ Begin(r, "crop_read", m, row[m].path, NoPath, AnyName)
    /\ UNCHANGED <<row, disk, picture>>

\* OpenReadAsync; Err.SourceFileNotFound when another crop has removed the file.
CropOpenSource(r) ==
    /\ req[r].pc = "crop_read"
    /\ IF FileExists(req[r].old) THEN Continue(r, "crop_open") ELSE Finish(r)
    /\ UNCHANGED <<row, disk, picture>>

\* Crop succeeded; SaveAsync creates the file of the cropped image.
CropCreateFile(r) ==
    /\ req[r].pc = "crop_open"
    /\ \E f \in Path, c \in Image :
          /\ CreateFile(f, c)
          /\ req' = [req EXCEPT ![r].pc = "crop_copying", ![r].new = f]
    /\ UNCHANGED row

CropUpdateRow(r) ==
    /\ req[r].pc = "crop_saved"
    /\ UpdateFile(req[r].id, req[r].new)
    /\ Continue(r, "crop_updated")
    /\ UNCHANGED <<disk, picture>>

\* Variant: the row's current path is deleted instead of oldPath.
CropDeleteOldFile_Current(r) ==
    /\ req[r].pc = "crop_updated"
    /\ DeleteFile(row[req[r].id].path)
    /\ Finish(r)
    /\ UNCHANGED <<row, picture>>

\* Variant: the old file is left on disk.
CropDeleteOldFile_Kept(r) ==
    /\ req[r].pc = "crop_updated"
    /\ Finish(r)
    /\ UNCHANGED <<row, disk, picture>>

\* storage.DeleteAsync(oldPath).
CropDeleteOldFile(r) ==
    /\ req[r].pc = "crop_updated"
    /\ DeleteFile(req[r].old)
    /\ Finish(r)
    /\ UNCHANGED <<row, picture>>

-----------------------------------------------------------------------------
(* DeleteAsync and UpdateMetaAsync: a read, then a conditional update *)

DeleteRead(r) ==
    /\ req[r].pc = "idle"
    /\ \E m \in Media :
          /\ Live(m)
          /\ Begin(r, "delete_read", m, NoPath, NoPath, AnyName)
    /\ UNCHANGED <<row, disk, picture>>

\* Variant: the physical file goes with the row.
SoftDelete_WithFile(r) ==
    /\ req[r].pc = "delete_read"
    /\ row' = IF Live(req[r].id) THEN [row EXCEPT ![req[r].id].state = "deleted"] ELSE row
    /\ DeleteFile(row[req[r].id].path)
    /\ Finish(r)
    /\ UNCHANGED picture

SoftDelete(r) ==
    /\ req[r].pc = "delete_read"
    /\ row' = IF Live(req[r].id) THEN [row EXCEPT ![req[r].id].state = "deleted"] ELSE row
    /\ Finish(r)
    /\ UNCHANGED <<disk, picture>>

MetaRead(r) ==
    /\ req[r].pc = "idle"
    /\ \E m \in Media, n \in Name :
          /\ Live(m)
          /\ Begin(r, "meta_read", m, NoPath, NoPath, n)
    /\ UNCHANGED <<row, disk, picture>>

\* Variant: the whole entity read before is written back, is_deleted included.
UpdateMeta_WholeEntity(r) ==
    /\ req[r].pc = "meta_read"
    /\ row' = [row EXCEPT ![req[r].id].name = req[r].name, ![req[r].id].state = "live"]
    /\ Finish(r)
    /\ UNCHANGED <<disk, picture>>

UpdateMeta(r) ==
    /\ req[r].pc = "meta_read"
    /\ row' = IF Live(req[r].id) THEN [row EXCEPT ![req[r].id].name = req[r].name] ELSE row
    /\ Finish(r)
    /\ UNCHANGED <<disk, picture>>

-----------------------------------------------------------------------------

\* The request ends between two calls: cancelled, an exception, a crash, or
\* the failure that Crop reports for a file it cannot decode.
Abort(r) ==
    /\ MayAbort
    /\ req[r].pc # "idle"
    /\ Finish(r)
    /\ UNCHANGED <<row, disk, picture>>

Next ==
    \/ /\ \E r \in Request :
             \/ UploadCreateFile(r)  \/ FinishCopy(r)      \/ UploadInsertRow(r)
             \/ CropRead(r)          \/ CropOpenSource(r)  \/ CropCreateFile(r)
             \/ CropUpdateRow(r)     \/ CropDeleteOldFile(r)
             \/ DeleteRead(r)        \/ SoftDelete(r)
             \/ MetaRead(r)          \/ UpdateMeta(r)
       /\ Watch
    \/ (\E r \in Request : Abort(r)) /\ disturbed' = TRUE

Spec == Init /\ [][Next]_vars

-----------------------------------------------------------------------------
(* Properties *)

\* Every item of the library shows a completely written file, whatever else
\* is being cropped, deleted or abandoned: CropAsync removes the old file only
\* after the row points to the new one, UploadAsync inserts the row only after
\* the file is closed.
LiveItemsHaveFiles ==
    \A m \in Media : Live(m) => disk[row[m].path] = "complete"

\* No two items, deleted or not, are ever backed by the same file, so a crop
\* can never remove the file of another item.
NoSharedFile ==
    \A m, n \in Media :
       m # n /\ row[m].state # "none" /\ row[n].state # "none" => row[m].path # row[n].path

\* The gallery the users see.
Gallery ==
    [m \in Media |->
       CASE row[m].state = "none"    -> NoItem
         [] row[m].state = "deleted" -> Removed
         [] row[m].state = "live"    -> [picture |-> picture[row[m].path],
                                         name |-> row[m].name]]

G == INSTANCE MediaGallery WITH gallery <- Gallery

\* Uploads, crops, renames and deletions appear atomic to the users of the
\* library, in the order of their row statements, although each is several
\* database and file-system calls.
ImplementsGallery == G!Spec

\* The comment at the end of DeleteAsync: a deleted item keeps its physical file.
\* A crop under way may still remove it: it holds as long as no request has
\* overlapped another.
DeletedItemsKeepFiles ==
    ~disturbed => \A m \in Media : row[m].state = "deleted" => FileExists(row[m].path)

\* docs/content-types.md on crops: new file written, old file removed.  Once no
\* request is running, every file on disk belongs to a row.
NoOrphanFiles ==
    (\A r \in Request : req[r].pc = "idle")
       => \A f \in Path : FileExists(f) => \E m \in Media : row[m].path = f

\* A crop removes the path it has read: it holds as long as no request has overlapped
\* another or ended half way.
NoOrphanFilesInSeries == ~disturbed => NoOrphanFiles
=============================================================================
