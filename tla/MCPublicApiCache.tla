-------------------------- MODULE MCPublicApiCache --------------------------
(* Small instances of PublicApiCache for TLC. *)
EXTENDS PublicApiCache, TLC

CONSTANTS t1, t2, r1, w1

TwoTypes == {t1, t2}
OneReader == {r1}
OneWriter == {w1}
Lists == {"list"}
ListsAndItems == {"list", "id"}
NoRelations == [t \in {t1, t2} |-> {}]
FirstToSecond == [t \in {t1, t2} |-> IF t = t1 THEN {t1, t2} ELSE {}]
=============================================================================
