---------------------------- MODULE MCLanguages ----------------------------
(* Small instances of Languages for TLC. *)
EXTENDS Languages, TLC

CONSTANTS r1, r2

ThreeLangs == 1 .. 3
FourLangs == 1 .. 4
TwoRequests == {r1, r2}

Symmetry == Permutations(TwoRequests)
=============================================================================
