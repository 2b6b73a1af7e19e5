---------------------------- MODULE MediaGallery ----------------------------
(***************************************************************************)
(* What the media library promises its users: a gallery of items, each     *)
(* showing one complete picture under one name, changed by four atomic     *)
(* operations.  Files, paths and requests do not exist at this level;      *)
(* MediaLibrary is shown to implement it.                                  *)
(***************************************************************************)
CONSTANTS Media,    \* item ids (media_assets.id)
          Picture,  \* what a file can contain
          Image,    \* the contents that are images, the only ones to crop
          Name,     \* display names (media_assets.original_name)
          NoItem,   \* an id that has not been given out yet
          Removed   \* an id whose item was deleted

VARIABLE gallery

Item == [picture : Picture, name : Name]

Init == gallery = [m \in Media |-> NoItem]

Upload(m) ==
    /\ gallery[m] = NoItem
    /\ \E i \in Item : gallery' = [gallery EXCEPT ![m] = i]

Crop(m) ==
    /\ gallery[m] \in Item
    /\ gallery[m].picture \in Image
    /\ \E c \in Image :
          gallery' = [gallery EXCEPT ![m] = [picture |-> c, name |-> gallery[m].name]]

Rename(m) ==
    /\ gallery[m] \in Item
    /\ \E n \in Name :
          gallery' = [gallery EXCEPT ![m] = [picture |-> gallery[m].picture, name |-> n]]

Delete(m) ==
    /\ gallery[m] \in Item
    /\ gallery' = [gallery EXCEPT ![m] = Removed]

Next == \E m \in Media : Upload(m) \/ Crop(m) \/ Rename(m) \/ Delete(m)

Spec == Init /\ [][Next]_gallery
=============================================================================
