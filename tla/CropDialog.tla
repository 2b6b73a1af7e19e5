----------------------------- MODULE CropDialog -----------------------------
(***************************************************************************)
(* The crop dialog of the media page (wwwroot/js/media-editor.js): one form  *)
(* and one image element, set for the card whose button was clicked, and a   *)
(* Cropper over the image made once the dialog has faded in.                 *)
(***************************************************************************)
CONSTANTS
  Image,         \* the images on the page
  NoImage

CropDialogAssumption == NoImage \notin Image

ASSUME CropDialogAssumption

VARIABLES
  cdDialog,      \* the dialog: Bootstrap fades it in and out
  cdForm,        \* the image the form's action names
  cdCropper,     \* the image of the cropper
  cdPosted       \* the image and coordinates last posted

cdVars == <<cdDialog, cdForm, cdCropper, cdPosted>>

Nothing == [form |-> NoImage, cropper |-> NoImage]

CdInit ==
  /\ cdDialog = "hidden" /\ cdForm = NoImage /\ cdCropper = NoImage
  /\ cdPosted = Nothing

OpenCrop(i) ==
  /\ cdDialog = "hidden"
  /\ cdDialog' = "showing" /\ cdForm' = i
  /\ UNCHANGED <<cdCropper, cdPosted>>

CropShown ==
  /\ cdDialog = "showing"
  /\ cdDialog' = "shown" /\ cdCropper' = cdForm
  /\ UNCHANGED <<cdForm, cdPosted>>

CropDismissed ==
  /\ cdDialog = "shown"
  /\ cdDialog' = "hiding"
  /\ UNCHANGED <<cdForm, cdCropper, cdPosted>>

CropHidden ==
  /\ cdDialog = "hiding"
  /\ cdDialog' = "hidden" /\ cdCropper' = NoImage
  /\ UNCHANGED <<cdForm, cdPosted>>

\* A submit before there is a cropper is prevented; any other loads the page anew.
SubmitCrop ==
  /\ cdDialog # "hidden" /\ cdCropper # NoImage
  /\ cdPosted' = [form |-> cdForm, cropper |-> cdCropper]
  /\ cdDialog' = "hidden" /\ cdForm' = NoImage /\ cdCropper' = NoImage

CdNext ==
  \/ \E i \in Image : OpenCrop(i)
  \/ CropShown \/ CropDismissed \/ CropHidden \/ SubmitCrop

-----------------------------------------------------------------------------
(* Properties. *)

CdTypeOK ==
  /\ cdDialog \in {"hidden", "showing", "shown", "hiding"}
  /\ cdForm \in Image \cup {NoImage} /\ cdCropper \in Image \cup {NoImage}
  /\ cdPosted \in [form : Image, cropper : Image] \cup {Nothing}

\* The coordinates posted to an image's crop were taken from that image, also when the
\* form is submitted while the dialog fades in or out (116: only the cropper tells).
CropsOwnImage == cdPosted.cropper = cdPosted.form

=============================================================================
