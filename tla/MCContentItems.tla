--------------------------- MODULE MCContentItems ---------------------------
(* Small instance of ContentItems for TLC. *)
EXTENDS ContentItems, TLC

CONSTANTS i1, i2, r1, r2, a, a2

TwoItems == {i1, i2}
TwoRequests == {r1, r2}
Slugs == {a, a2}
Suffixed == {<<a, a2>>}

\* No action compares two ids or two requests but for equality.
Symmetry == Permutations(TwoItems) \cup Permutations(TwoRequests)
=============================================================================
