--------------------------- MODULE MCMediaLibrary ---------------------------
(* Small instance of MediaLibrary for TLC. *)
EXTENDS MediaLibrary, TLC

CONSTANTS m1, m2, f1, f2, f3, f4, r1, r2, img, doc, n1, n2

MCMedia == {m1, m2}
MCPath == {f1, f2, f3, f4}
MCRequest == {r1, r2}
MCImage == {img}
MCPicture == {img, doc}
MCName == {n1, n2}

\* Ids, paths and requests are interchangeable: only NoMedia and NoPath stand out.
Symmetry == Permutations(MCMedia) \cup Permutations(MCPath) \cup Permutations(MCRequest)
=============================================================================
