------------------------------- MODULE IdLists -------------------------------
(***************************************************************************)
(* The lists of ids that the pickers of the content form keep in their       *)
(* hidden inputs.  A list repeats no id (the invariants IdsDistinct and      *)
(* RelIdsDistinct).                                                          *)
(***************************************************************************)
EXTENDS Naturals, Sequences, SequencesExt

\* The list without x, as Array.filter and Map.delete leave it.
Without(s, x) ==
  IF x \in ToSet(s) THEN RemoveAt(s, CHOOSE i \in 1..Len(s) : s[i] = x) ELSE s

\* Map.set: an entry that is there keeps its place.
Put(s, x) == IF x \in ToSet(s) THEN s ELSE Append(s, x)

=============================================================================
