------------------------------ MODULE SlugField ------------------------------
(***************************************************************************)
(* The slug of a form, filled in from its name until it is edited by hand    *)
(* (wwwroot/js/site.js; Common/Slugifier.cs does the same on the server).    *)
(*                                                                           *)
(* A name is a sequence of kinds of characters: a letter or digit, possibly  *)
(* after mapping, white space, a dash, and any other.                        *)
(***************************************************************************)
EXTENDS Naturals, Sequences, SequencesExt

CONSTANT
  MaxName        \* bound: characters of a name

SlugFieldAssumption == MaxName \in Nat

ASSUME SlugFieldAssumption

Char == {"letter", "space", "dash", "other"}

VARIABLES
  shName,        \* the name typed
  shSlug,        \* .slug-field
  shManual       \* manuallyEdited

slugVars == <<shName, shSlug, shManual>>

\* trim()
Trimmed(s) ==
  LET text == {i \in 1..Len(s) : s[i] # "space"} IN
  IF text = {} THEN <<>>
  ELSE SubSeq(s, CHOOSE i \in text : \A j \in text : i <= j,
                 CHOOSE i \in text : \A j \in text : j <= i)

\* The characters of s at the positions in P, in order.
At(s, P) ==
  LET place == CHOOSE p \in [1..Cardinality(P) -> P] : \A i, j \in DOMAIN p : i < j => p[i] < p[j]
  IN [n \in 1..Cardinality(P) |-> s[place[n]]]

Dash(s) == [i \in 1..Len(s) |-> IF s[i] = "space" THEN "dash" ELSE s[i]]

\* Runs of white space, then runs of dashes, become one dash: what comes after a letter
\* stands for its run.  (Variant: the runs of dashes stay.)
Dashed_Runs(s) ==
  At(Dash(s), {i \in 1..Len(s) : s[i] # "space" \/ i = 1 \/ s[i - 1] # "space"})

Dashed(s) ==
  At(Dash(s), {i \in 1..Len(s) : s[i] = "letter" \/ i = 1 \/ s[i - 1] = "letter"})

Kept(s) == At(s, {i \in 1..Len(s) : s[i] # "other"})

ToSlug(name) == Dashed(Trimmed(Kept(name)))

SlugInit ==
  /\ shName = <<>>
  /\ shSlug \in {<<>>, <<"letter", "dash", "letter">>}
  /\ shManual = (shSlug # <<>>)

TypeName(name) ==
  /\ shName' = name
  /\ shSlug' = IF shManual THEN shSlug ELSE ToSlug(name)
  /\ UNCHANGED shManual

TypeSlug(slug) ==
  /\ shSlug' = slug
  /\ shManual' = TRUE
  /\ UNCHANGED shName

SlugNext ==
  \/ \E name \in BoundedSeq(Char, MaxName) : TypeName(name)
  \/ \E slug \in BoundedSeq({"letter", "dash"}, 1) : TypeSlug(slug)

-----------------------------------------------------------------------------
(* Properties. *)

SlugTypeOK == shName \in Seq(Char) /\ shSlug \in Seq(Char) /\ shManual \in BOOLEAN

\* The form of a slug that the validators ask for: ^[a-z0-9]+(?:-[a-z0-9]+)*$.  Their
\* limit of 200 characters is not modelled.
ValidSlug(s) ==
  /\ s # <<>>
  /\ ToSet(s) \subseteq {"letter", "dash"}
  /\ s[1] = "letter" /\ Last(s) = "letter"
  /\ \A i \in 1..Len(s) - 1 : s[i] = "letter" \/ s[i + 1] = "letter"

\* A slug that is filled in matches the validators' regular expression (it may still be
\* longer than their 200 characters), unless nothing of the name is left or what is left begins or ends with a dash (36-38: the ends are trimmed of
\* white space before it and the dashes are joined).
FilledSlugPasses ==
  LET kept == Trimmed(Kept(shName)) IN
  ~shManual /\ kept # <<>> /\ kept[1] # "dash" /\ Last(kept) # "dash" => ValidSlug(shSlug)

=============================================================================
