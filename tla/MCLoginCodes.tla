---------------------------- MODULE MCLoginCodes ----------------------------
(* Small instances of LoginCodes for TLC. *)
EXTENDS LoginCodes, TLC

CONSTANTS r1, r2, r3

TwoIds == 1 .. 2
TwoRequests == {r1, r2}
ThreeRequests == {r1, r2, r3}

Symmetry == Permutations(ThreeRequests)
=============================================================================
