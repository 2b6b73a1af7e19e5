---------------------------- MODULE MCMediaPicker ----------------------------
(* Small instance of MediaPicker for TLC. *)
EXTENDS MediaPicker

CONSTANTS image, gallery, m1, m2, m3, gone

MCPicker == {image, gallery}
MCOfType == [p \in MCPicker |-> IF p = image THEN {m1, gone} ELSE {m1, m2, gone}]
MCFits == [p \in MCPicker |-> IF p = image THEN {m1} ELSE {m1, m2, m3}]
MCLoaded ==
  [p \in MCPicker |->
     IF p = image THEN {[value |-> <<>>, chips |-> <<>>], [value |-> <<gone>>, chips |-> <<>>]}
     ELSE {[value |-> <<m2, gone>>, chips |-> <<m2>>]}]

=============================================================================
